--------------------------- MODULE FinanceLedger ---------------------------
(***************************************************************************)
(* The research ledger of the finance-tools plugin: theses with their      *)
(* reviews, watchlist items and event alerts, kept per user in SQLite      *)
(* (plugins/finance-tools/plugin.py).  The plugin answers one request at a *)
(* time and every operation is one BEGIN IMMEDIATE transaction, so an      *)
(* operation is one action.  The interleavings are those of its callers:   *)
(* an agent reads a row, thinks, and writes it back with or without the    *)
(* version it read, while other sessions write and events come in.         *)
(* A reply can be lost (the host's timer kills the plugin after the        *)
(* commit): the row is written and the caller does not know its version.   *)
(***************************************************************************)
EXTENDS Integers, FiniteSetsExt, Functions

CONSTANTS
    Callers,        \* agent sessions that call the plugin's tools
    UserOf,         \* UserOf[c]: the user the host names in c's call context
    Symbols,        \* an instrument: market and symbol
    Events,         \* an event's type and identity; with the symbol, its fingerprint
    ThesisIds, WatchIds, AlertIds,
    ThesisInputs,   \* arguments of thesis_save: functions from mutable fields
    WatchInputs,    \* arguments of watchlist_save
    AlertStatuses,  \* values alert_update may set
    MayOmit,        \* whether a caller may leave out expected_version
    MaxWrites, MaxClock,    \* bounds: rows' versions in all, time
    NoEntry, NoThesis

Users == Range(UserOf)

\* The statuses of a row (plugin.py:65, 74 and 75).
ThesisStatuses == {"researching", "watch", "active", "invalidated", "archived"}
WatchStatuses == {"active", "paused", "archived"}
StatusesOfAlerts == {"new", "acknowledged", "dismissed"}

\* A fingerprint: the instrument and the event.
Fingerprints == Symbols \X Events

\* The rows of the tables.
ThesisRows ==
    [user : Users, symbol : Symbols, status : ThesisStatuses, terms : SUBSET Events,
     version : Nat]
WatchRows ==
    [user : Users, symbol : Symbols, thesis : ThesisIds \cup {NoThesis},
     status : WatchStatuses, types : SUBSET Events, keys : SUBSET Events,
     minScore : Nat, window : Nat, version : Nat]
AlertRows ==
    [user : Users, watch : WatchIds, thesis : ThesisIds \cup {NoThesis},
     fingerprint : Fingerprints, status : StatusesOfAlerts, count : Nat,
     first : Nat, last : Nat, version : Nat]

\* The arguments give mutable fields values that the validation lets through.
ASSUME LedgerAssumption ==
    /\ DOMAIN UserOf = Callers
    /\ NoEntry \notin ThesisRows \cup WatchRows \cup AlertRows
    /\ \A args \in ThesisInputs :
          /\ DOMAIN args \subseteq {"symbol", "status", "terms"}
          /\ "symbol" \in DOMAIN args => args.symbol \in Symbols
          /\ "status" \in DOMAIN args => args.status \in ThesisStatuses
          /\ "terms" \in DOMAIN args => args.terms \subseteq Events
    /\ \A args \in WatchInputs :
          /\ DOMAIN args \subseteq
                {"symbol", "thesis", "status", "types", "keys", "minScore", "window"}
          /\ "symbol" \in DOMAIN args => args.symbol \in Symbols
          /\ "thesis" \in DOMAIN args => args.thesis \in ThesisIds \cup {NoThesis}
          /\ "status" \in DOMAIN args => args.status \in WatchStatuses
          /\ "types" \in DOMAIN args => args.types \subseteq Events
          /\ "keys" \in DOMAIN args => args.keys \subseteq Events
          /\ "minScore" \in DOMAIN args => args.minScore \in Nat
          /\ "window" \in DOMAIN args => args.window \in Nat
    /\ AlertStatuses \subseteq StatusesOfAlerts

VARIABLES
    theses,      \* table theses: the row of every id, or NoEntry
    watches,     \* table watchlist_items
    alerts,      \* table event_alerts
    reviews,     \* table thesis_reviews: who reviewed which thesis
    clock,       \* utc_now(), in units of the dedupe windows
    seen         \* seen[c][id]: version of the row last returned to c, 0 if none

ledgerVars == <<theses, watches, alerts, reviews, clock, seen>>

Ids == ThesisIds \cup WatchIds \cup AlertIds
Live(table) == {id \in DOMAIN table : table[id] # NoEntry}

\* An unused id; they are drawn at random and numbered as they are drawn.
NewIds(table) ==
    {id \in DOMAIN table \ Live(table) : \A other \in DOMAIN table \ Live(table) : id <= other}
Owned(table, c) == {id \in Live(table) : table[id].user = UserOf[c]}

VersionOf(id) ==
    CASE id \in Live(theses) -> theses[id].version
      [] id \in Live(watches) -> watches[id].version
      [] id \in Live(alerts) -> alerts[id].version
      [] OTHER -> 0

\* n more row versions stay within the bound.
Room(n) == MapThenSumSet(VersionOf, Ids) + n <= MaxWrites

LedgerInit ==
    /\ theses = [t \in ThesisIds |-> NoEntry]
    /\ watches = [w \in WatchIds |-> NoEntry]
    /\ alerts = [a \in AlertIds |-> NoEntry]
    /\ reviews = {}
    /\ clock = 0
    /\ seen = [c \in Callers |-> [id \in Ids |-> 0]]

(***************************************************************************)
(* What the operations share.                                              *)
(***************************************************************************)
\* The fields the arguments give replace those of the row.
Merged(row, args) ==
    [f \in DOMAIN row |-> IF f \in DOMAIN args THEN args[f] ELSE row[f]]

\* The reply carries the row; it may be lost after the commit.
Reply(c, id, version) ==
    \/ seen' = [seen EXCEPT ![c][id] = version]
    \/ UNCHANGED seen

\* A versioned write of row id, now at version v: refused when the caller
\* gives the version it read and the row has another one.
Accepts(c, id, v) ==
    /\ Room(1)
    /\ seen[c][id] = v \/ MayOmit
    /\ Reply(c, id, v + 1)

\* Fault: anybody's.
LinkExists(c, args) ==
    args.thesis # NoThesis =>
        /\ args.thesis \in Live(theses)
        /\ theses[args.thesis].symbol = args.symbol

\* A linked thesis is the user's own and has the item's market and symbol.
LinkAllowed(c, args) ==
    args.thesis # NoThesis =>
        /\ args.thesis \in Owned(theses, c)
        /\ theses[args.thesis].symbol = args.symbol

Duplicate(c, args, self) ==
    \E w \in Owned(watches, c) \ {self} :
        watches[w].symbol = args.symbol /\ watches[w].thesis = args.thesis

(***************************************************************************)
(* Theses.                                                                 *)
(***************************************************************************)
CreateThesis(c) ==
    \E t \in NewIds(theses), args \in ThesisInputs :
        /\ Room(1)
        /\ {"symbol", "status", "terms"} \subseteq DOMAIN args
        /\ theses' = [theses EXCEPT ![t] =
              [user |-> UserOf[c], symbol |-> args.symbol, status |-> args.status,
               terms |-> args.terms, version |-> 1]]
        /\ Reply(c, t, 1)
        /\ UNCHANGED <<watches, alerts, reviews, clock>>

UpdateThesis(c) ==
    \E t \in Owned(theses, c), args \in ThesisInputs :
        /\ Accepts(c, t, theses[t].version)
        /\ theses' = [theses EXCEPT ![t] =
              [Merged(@, args) EXCEPT !.version = theses[t].version + 1]]
        /\ UNCHANGED <<watches, alerts, reviews, clock>>

\* A review may change the status; the decision to invalidate does by itself.
RecordReview(c) ==
    \E t \in Owned(theses, c) : \E status \in {theses[t].status, "invalidated"} :
        /\ Accepts(c, t, theses[t].version)
        /\ theses' = [theses EXCEPT ![t].status = status, ![t].version = @ + 1]
        /\ reviews' = reviews \cup {[thesis |-> t, user |-> UserOf[c]]}
        /\ UNCHANGED <<watches, alerts, clock>>

(***************************************************************************)
(* The watchlist.                                                          *)
(***************************************************************************)
CreateWatch(c) ==
    \E w \in NewIds(watches), args \in WatchInputs :
        /\ Room(1)
        /\ {"symbol", "thesis", "status", "types", "keys", "minScore", "window"}
              \subseteq DOMAIN args
        /\ LinkAllowed(c, args)
        /\ ~ Duplicate(c, args, w)
        /\ watches' = [watches EXCEPT ![w] =
              [user |-> UserOf[c], symbol |-> args.symbol, thesis |-> args.thesis,
               status |-> args.status, types |-> args.types, keys |-> args.keys,
               minScore |-> args.minScore, window |-> args.window, version |-> 1]]
        /\ Reply(c, w, 1)
        /\ UNCHANGED <<theses, alerts, reviews, clock>>

UpdateWatch(c) ==
    \E w \in Owned(watches, c), args \in WatchInputs :
        LET merged == Merged(watches[w], args) IN
        /\ Accepts(c, w, watches[w].version)
        /\ LinkAllowed(c, merged)
        /\ ~ Duplicate(c, merged, w)
        /\ watches' = [watches EXCEPT ![w] = [merged EXCEPT !.version = @ + 1]]
        /\ UNCHANGED <<theses, alerts, reviews, clock>>

(***************************************************************************)
(* Event alerts.                                                           *)
(***************************************************************************)
\* Weighted terms of the item (1) and of its thesis (3) found in the event.
Score(w, e) ==
    (IF e \in watches[w].keys THEN 1 ELSE 0)
      + (IF watches[w].thesis # NoThesis /\ e \in theses[watches[w].thesis].terms
         THEN 3 ELSE 0)

\* The user's active items on the symbol that the event type and score pass.
Matching(user, symbol, e) ==
    {w \in Live(watches) :
        /\ watches[w].user = user /\ watches[w].symbol = symbol
        /\ watches[w].status = "active"
        /\ watches[w].types = {} \/ e \in watches[w].types
        /\ Score(w, e) >= watches[w].minScore}

\* The alerts of item w with the fingerprint f.
AlertsOf(w, f) ==
    {a \in Live(alerts) : alerts[a].watch = w /\ alerts[a].fingerprint = f}

\* ORDER BY last_seen_at DESC LIMIT 1
Latest(w, f) ==
    CHOOSE a \in AlertsOf(w, f) : \A b \in AlertsOf(w, f) : alerts[b].last <= alerts[a].last

Repeats(w, f) ==
    AlertsOf(w, f) # {} /\ clock - alerts[Latest(w, f)].last <= watches[w].window

\* One transaction: a repeat within its item's window is counted on the
\* latest alert, anything else is a new alert.
IngestEvent(c) ==
    \E symbol \in Symbols, e \in Events :
        LET f == <<symbol, e>>
            hit == Matching(UserOf[c], symbol, e)
            repeats == {w \in hit : Repeats(w, f)}
        IN
        /\ hit # {}
        /\ Room(Cardinality(hit))
        /\ \E new \in [hit \ repeats -> AlertIds \ Live(alerts)] :
             /\ IsInjective(new)
             /\ alerts' = [a \in AlertIds |->
                  IF \E w \in repeats : a = Latest(w, f)
                  THEN [alerts[a] EXCEPT !.count = @ + 1, !.last = clock, !.version = @ + 1]
                  ELSE IF a \in Range(new)
                  THEN LET w == CHOOSE w \in DOMAIN new : new[w] = a IN
                       [user |-> UserOf[c], watch |-> w, thesis |-> watches[w].thesis,
                        fingerprint |-> f, status |-> "new", count |-> 1,
                        first |-> clock, last |-> clock, version |-> 1]
                  ELSE alerts[a]]
        /\ UNCHANGED <<theses, watches, reviews, clock, seen>>

UpdateAlert(c) ==
    \E a \in Owned(alerts, c), status \in AlertStatuses :
        /\ Accepts(c, a, alerts[a].version)
        /\ alerts' = [alerts EXCEPT ![a].status = status, ![a].version = @ + 1]
        /\ UNCHANGED <<theses, watches, reviews, clock>>

(***************************************************************************)
(* Reads return rows of the caller's user.                                 *)
(***************************************************************************)
ReadRow(c, id) ==
    /\ seen' = [seen EXCEPT ![c][id] = VersionOf(id)]
    /\ UNCHANGED <<theses, watches, alerts, reviews, clock>>

ReadThesis(c) == \E t \in Owned(theses, c) : ReadRow(c, t)

\* thesis_match_event: open theses on a symbol, with their versions.
MatchTheses(c) ==
    \E symbol \in Symbols, t \in Owned(theses, c) :
        /\ theses[t].symbol = symbol
        /\ theses[t].status \in {"researching", "watch", "active"}
        /\ ReadRow(c, t)

ReadWatch(c) == \E w \in Owned(watches, c) : ReadRow(c, w)
ReadAlert(c) == \E a \in Owned(alerts, c) : ReadRow(c, a)

Tick ==
    /\ clock < MaxClock
    /\ clock' = clock + 1
    /\ UNCHANGED <<theses, watches, alerts, reviews, seen>>

LedgerNext ==
    \/ \E c \in Callers :
          \/ CreateThesis(c) \/ UpdateThesis(c) \/ RecordReview(c)
          \/ CreateWatch(c) \/ UpdateWatch(c)
          \/ IngestEvent(c) \/ UpdateAlert(c)
          \/ ReadThesis(c) \/ MatchTheses(c) \/ ReadWatch(c) \/ ReadAlert(c)
    \/ Tick

LedgerSpec == LedgerInit /\ [][LedgerNext]_ledgerVars

(***************************************************************************)
(* Properties.                                                             *)
(***************************************************************************)
\* Everything a row links to belongs to the row's user: the thesis of an item
\* or of an alert, the item of an alert, the thesis of a review.
TenantIsolation ==
    /\ \A w \in Live(watches) : watches[w].thesis # NoThesis =>
          /\ watches[w].thesis \in Live(theses)
          /\ theses[watches[w].thesis].user = watches[w].user
    /\ \A a \in Live(alerts) :
          /\ alerts[a].watch \in Live(watches)
          /\ watches[alerts[a].watch].user = alerts[a].user
          /\ alerts[a].thesis # NoThesis =>
                /\ alerts[a].thesis \in Live(theses)
                /\ theses[alerts[a].thesis].user = alerts[a].user
    /\ \A r \in reviews :
          r.thesis \in Live(theses) /\ theses[r.thesis].user = r.user

\* A user has no two items on one symbol and thesis, however they were
\* created and then updated.
WatchesDistinct ==
    \A v, w \in Live(watches) :
        /\ watches[v].user = watches[w].user
        /\ watches[v].symbol = watches[w].symbol
        /\ watches[v].thesis = watches[w].thesis
        => v = w

\* Two alerts of one item for one fingerprint are two episodes: the later one
\* was first seen after the earlier one was last seen, so every repeat was
\* counted once and on the latest of them.
EpisodesDisjoint ==
    \A a, b \in Live(alerts) :
        /\ a # b
        /\ alerts[a].watch = alerts[b].watch
        /\ alerts[a].fingerprint = alerts[b].fingerprint
        => alerts[a].last < alerts[b].first \/ alerts[b].last < alerts[a].first

\* All of them.
LedgerIsSound == TenantIsolation /\ WatchesDistinct /\ EpisodesDisjoint
=============================================================================
