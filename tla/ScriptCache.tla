----------------------------- MODULE ScriptCache -----------------------------
(***************************************************************************)
(* The research tools of the finance-tools plugin that run a script and    *)
(* keep what it printed (plugins/finance-tools/plugin.py).  One process    *)
(* serves all agents, one request at a time; the cache is its memory, so   *)
(* it goes when the host kills the process or starts it again.  A script   *)
(* takes time: an answer is dated when the script has ended, in whole      *)
(* seconds; its cache entry lives from before the script began, to the     *)
(* fraction of a second.                                                   *)
(***************************************************************************)
EXTENDS Integers

CONSTANTS
    Tickers, EventQueries, MacroViews, Holdings, Cards,  \* arguments of the tools
    Minutes, Long, \* lifetimes in seconds: of prices and news, of the rest
    Second,        \* the ticks of time.time() in a second
    MaxTime, MaxScripts,     \* bounds: time, scripts run
    NoAnswer

ASSUME CacheAssumption == Minutes \in Nat /\ Long \in Nat /\ Second \in Nat \ {0}

VARIABLES
    cached,      \* self.cache: the entry of a key, or NoAnswer
    script,      \* the script that runs: its request and start, or NoAnswer
    envelope,    \* the answer that is given right now, or NoAnswer
    time,        \* time.time(), in ticks
    scripts      \* scripts begun

cacheVars == <<cached, script, envelope, time, scripts>>

(***************************************************************************)
(* The requests the tools make of _run_cached_script: normalised arguments *)
(* and a lifetime; a screen may require complete candidates.               *)
(***************************************************************************)
Query(tool, args, life) == [tool |-> tool, args |-> args, strict |-> FALSE, life |-> life]

StockSnapshot ==
    {Query("stock_snapshot", <<s, view>>, IF view = "history" THEN Minutes ELSE Long) :
        s \in Tickers, view \in {"history", "metrics"}}
ScreenStocks ==
    {[Query("screen_stocks", <<s>>, Long) EXCEPT !.strict = b] : s \in Tickers, b \in BOOLEAN}
MarketEvents == {Query("market_events", e, Minutes) : e \in EventQueries}
MacroSnapshot == {Query("macro_snapshot", v, Long) : v \in MacroViews}
PortfolioRisk == {Query("portfolio_risk", h, Long) : h \in Holdings}
SerenityScorecard == {Query("serenity_scorecard", c, 0) : c \in Cards}

Queries ==
    StockSnapshot \cup ScreenStocks \cup MarketEvents \cup MacroSnapshot
      \cup PortfolioRisk \cup SerenityScorecard

\* Fault: require_complete is no part of the key.
KeyOfTool(q) == <<q.tool, q.args>>
KeyOf(q) == <<q.tool, q.args, q.strict>>
Keys == {KeyOf(q) : q \in Queries}

\* What a script prints: its candidates, some with required metrics missing.
Candidates == {"whole", "gap"}

CacheInit ==
    /\ cached = [k \in Keys |-> NoAnswer]
    /\ script = NoAnswer /\ envelope = NoAnswer
    /\ time = 0 /\ scripts = 0

\* A screen that requires it rejects the candidates with gaps.
EnforceCompleteness(q, rows) == IF q.strict THEN rows \ {"gap"} ELSE rows

\* isoformat(): the fraction is cut off.
WholeSeconds(t) == t \div Second

\* The two envelopes, the first of rows fetched by a script that began then;
\* an answer that is not kept never goes stale.
Success(q, rows, began) ==
    [ok |-> TRUE, of |-> q, rows |-> rows, stale |-> WholeSeconds(time) + q.life,
     fetched |-> began, hit |-> FALSE]
Error(q) ==
    [ok |-> FALSE, of |-> q, rows |-> {}, stale |-> WholeSeconds(time),
     fetched |-> time, hit |-> FALSE]

(***************************************************************************)
(* Actions of the plugin.                                                  *)
(***************************************************************************)
FreshEntry(q) == cached[KeyOf(q)] # NoAnswer /\ time < cached[KeyOf(q)].until

\* Unknown tools and bad arguments.
Refuse(q) ==
    /\ script = NoAnswer
    /\ envelope' = Error(q)
    /\ UNCHANGED <<cached, script, time, scripts>>

Hit(q) ==
    /\ script = NoAnswer
    /\ FreshEntry(q)
    /\ envelope' = [cached[KeyOf(q)].answer EXCEPT !.of = q, !.hit = TRUE]
    /\ UNCHANGED <<cached, script, time, scripts>>

RunScript(q) ==
    /\ script = NoAnswer /\ scripts < MaxScripts
    /\ ~ FreshEntry(q)
    /\ script' = [of |-> q, began |-> time]
    /\ scripts' = scripts + 1
    /\ envelope' = NoAnswer
    /\ UNCHANGED <<cached, time>>

\* What a script leaves: rows that live for so long from a given time.
Keep(q, answer, from) ==
    cached' = IF q.life = 0 THEN cached
              ELSE [cached EXCEPT ![KeyOf(q)] =
                      [answer |-> answer, until |-> from + q.life * Second]]

ScriptPrintsLate ==     \* mutant: the entry's life is counted from the end
    /\ script # NoAnswer
    /\ \E rows \in SUBSET Candidates :
          LET q == script.of
              answer == Success(q, EnforceCompleteness(q, rows), script.began)
          IN  envelope' = answer /\ Keep(q, answer, time)
    /\ script' = NoAnswer
    /\ UNCHANGED <<time, scripts>>

ScriptPrints ==
    /\ script # NoAnswer
    /\ \E rows \in SUBSET Candidates :
          LET q == script.of
              answer == Success(q, EnforceCompleteness(q, rows), script.began)
          IN  envelope' = answer /\ Keep(q, answer, script.began)
    /\ script' = NoAnswer
    /\ UNCHANGED <<time, scripts>>

\* A timeout, an exit status or a text that is no JSON; nothing is kept.
ScriptFails ==
    /\ script # NoAnswer
    /\ envelope' = Error(script.of)
    /\ script' = NoAnswer
    /\ UNCHANGED <<cached, time, scripts>>

\* The host's timer, which runs as long as the script's own and began before
\* it, or a restart of the plugin.
HostKills ==
    /\ cached' = [k \in Keys |-> NoAnswer]
    /\ script' = NoAnswer /\ envelope' = NoAnswer
    /\ UNCHANGED <<time, scripts>>

TimePasses ==
    /\ time < MaxTime
    /\ time' = time + 1
    /\ envelope' = NoAnswer
    /\ UNCHANGED <<cached, script, scripts>>

CacheNext ==
    \/ \E q \in Queries : Refuse(q) \/ Hit(q) \/ RunScript(q)
    \/ ScriptPrints \/ ScriptFails
    \/ HostKills \/ TimePasses

CacheSpec == CacheInit /\ [][CacheNext]_cacheVars

(***************************************************************************)
(* Properties.                                                             *)
(***************************************************************************)
\* Whatever was asked before and however long the script took, an answer from
\* the cache is younger than its lifetime, counted from the start of the script
\* that fetched it, and no answer is given in a later second than the
\* stale_after it names.  (It may be given within that second: stale_after is
\* cut to whole seconds, the entry's end is not.)
GivenFresh ==
    envelope # NoAnswer /\ envelope.ok /\ envelope.of.life > 0 =>
        /\ envelope.hit => time < envelope.fetched + envelope.of.life * Second
        /\ WholeSeconds(time) =< envelope.stale

\* and a caller that requires complete candidates gets no other, from the
\* cache either.
StrictIsComplete ==
    envelope # NoAnswer /\ envelope.ok /\ envelope.of.strict => "gap" \notin envelope.rows

\* Both.
CacheIsSound == GivenFresh /\ StrictIsComplete
=============================================================================
