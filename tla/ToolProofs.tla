----------------------------- MODULE ToolProofs -----------------------------
(***************************************************************************)
(* Proofs about three tools of the agents: the cache of the script runner, *)
(* the football evidence and the research ledger.                          *)
(***************************************************************************)
EXTENDS ScriptCache, FootballEvidence, FinanceLedger, FiniteSetTheorems, WellFoundedInduction,
        TLAPS

---------------------------------------------------------------------------
(***************************************************************************)
(* CacheIsSound for every set of arguments, every lifetime and every       *)
(* resolution of the clock: what the cache holds lives as long as its key  *)
(* says, from the start of its script, never into a second later than its  *)
(* stale_after, and was made for a request that is as strict as the one it *)
(* is given to.                                                            *)
(***************************************************************************)

\* An answer, as both envelopes make it.
Answers == [ok : BOOLEAN, of : Queries, rows : SUBSET Candidates, stale : Int,
            fetched : Int, hit : BOOLEAN]

\* A request that requires complete candidates got no other.
RowsFit(made) == made.of.strict => "gap" \notin made.rows

\* A cache entry: it ends a lifetime after its rows were fetched, in no later
\* second than the answer says, which was made for a request with the same key.
EntryFits(k, entry) ==
    /\ entry.answer \in Answers /\ entry.until \in Int
    /\ entry.answer.ok
    /\ entry.until = entry.answer.fetched + entry.answer.of.life * Second
    /\ \A t \in Int : t < entry.until => WholeSeconds(t) =< entry.answer.stale
    /\ KeyOf(entry.answer.of) = k
    /\ RowsFit(entry.answer)

\* The inductive invariant.
CacheInv ==
    /\ time \in Int
    /\ DOMAIN cached = Keys
    /\ \A k \in Keys : cached[k] # NoAnswer => EntryFits(k, cached[k])
    /\ script # NoAnswer => script.of \in Queries /\ script.began \in Int /\ script.began <= time
    /\ CacheIsSound

\* Requests have a name, arguments, a strictness and a lifetime.
LEMMA QueryShape ==
    ASSUME NEW q \in Queries
    PROVE  /\ q.strict \in BOOLEAN /\ q.life \in Int /\ q.life >= 0
           /\ KeyOf(q) = <<q.tool, q.args, q.strict>> /\ KeyOf(q) \in Keys
  <1>1. PICK tool, args, strict, life :
            /\ strict \in BOOLEAN /\ life \in {Minutes, Long, 0}
            /\ q = [tool |-> tool, args |-> args, strict |-> strict, life |-> life]
    <2>1. CASE q \in StockSnapshot
      <3>1. PICK s \in Tickers, view \in {"history", "metrics"} :
              q = Query("stock_snapshot", <<s, view>>, IF view = "history" THEN Minutes ELSE Long)
        BY <2>1 DEF StockSnapshot
      <3>2. QED BY <3>1 DEF Query
    <2>2. CASE q \in ScreenStocks
      <3>1. PICK s \in Tickers, b \in BOOLEAN :
              q = [Query("screen_stocks", <<s>>, Long) EXCEPT !.strict = b]
        BY <2>2 DEF ScreenStocks
      <3>2. q = [tool |-> "screen_stocks", args |-> <<s>>, strict |-> b, life |-> Long]
        BY <3>1 DEF Query
      <3>3. QED BY <3>2, Zenon
    <2>3. CASE q \in MarketEvents
      BY <2>3 DEF MarketEvents, Query
    <2>4. CASE q \in MacroSnapshot
      BY <2>4 DEF MacroSnapshot, Query
    <2>5. CASE q \in PortfolioRisk
      BY <2>5 DEF PortfolioRisk, Query
    <2>6. CASE q \in SerenityScorecard
      BY <2>6 DEF SerenityScorecard, Query
    <2>7. QED BY <2>1, <2>2, <2>3, <2>4, <2>5, <2>6 DEF Queries
  <1>2. q.strict = strict /\ q.life = life
    BY <1>1
  <1>3. QED BY <1>1, <1>2, CacheAssumption DEF KeyOf, Keys

\* The lifetime of a request follows from its key.
LifeOf(tool, args) ==
    CASE tool = "stock_snapshot" -> (IF args[2] = "history" THEN Minutes ELSE Long)
      [] tool = "market_events" -> Minutes
      [] tool = "serenity_scorecard" -> 0
      [] tool \notin {"stock_snapshot", "market_events", "serenity_scorecard"} -> Long

LEMMA QueryLife ==
    ASSUME NEW q \in Queries
    PROVE  q.life = LifeOf(q.tool, q.args)
  <1>1. CASE q \in StockSnapshot
    <2>1. PICK s \in Tickers, view \in {"history", "metrics"} :
            q = Query("stock_snapshot", <<s, view>>, IF view = "history" THEN Minutes ELSE Long)
      BY <1>1 DEF StockSnapshot
    <2>2. /\ q.tool = "stock_snapshot" /\ q.args[2] = view
          /\ q.life = IF view = "history" THEN Minutes ELSE Long
      BY <2>1 DEF Query
    <2>3. QED BY <2>2 DEF LifeOf
  <1>2. CASE q \in ScreenStocks
    <2>1. PICK s \in Tickers, b \in BOOLEAN :
            q = [Query("screen_stocks", <<s>>, Long) EXCEPT !.strict = b]
      BY <1>2 DEF ScreenStocks
    <2>2. q.tool = "screen_stocks" /\ q.life = Long
      BY <2>1 DEF Query
    <2>3. QED BY <2>2 DEF LifeOf
  <1>3. CASE q \in MarketEvents
    BY <1>3 DEF MarketEvents, Query, LifeOf
  <1>4. CASE q \in MacroSnapshot
    BY <1>4 DEF MacroSnapshot, Query, LifeOf
  <1>5. CASE q \in PortfolioRisk
    BY <1>5 DEF PortfolioRisk, Query, LifeOf
  <1>6. CASE q \in SerenityScorecard
    BY <1>6 DEF SerenityScorecard, Query, LifeOf
  <1>7. QED BY <1>1, <1>2, <1>3, <1>4, <1>5, <1>6 DEF Queries

\* Times and what isoformat() leaves of them.
LEMMA Seconds ==
    ASSUME NEW t \in Int
    PROVE  /\ WholeSeconds(t) \in Int
           /\ Second * WholeSeconds(t) =< t /\ t < Second * WholeSeconds(t) + Second
  BY CacheAssumption DEF WholeSeconds

\* A time less than a lifetime after another one is at most that many whole
\* seconds later.
LEMMA SecondsApart ==
    ASSUME NEW from \in Int, NEW t \in Int, NEW life \in Int, t < from + life * Second
    PROVE  WholeSeconds(t) =< WholeSeconds(from) + life
  <1> DEFINE a == WholeSeconds(from)
             b == WholeSeconds(t)
  <1>1. /\ a \in Int /\ b \in Int /\ Second \in Int /\ Second > 0
        /\ Second * b =< t /\ from < Second * a + Second
    BY Seconds, CacheAssumption
  <1> HIDE DEF a, b
  <1>2. SUFFICES ASSUME b >= a + life + 1 PROVE FALSE
    BY <1>1 DEF a, b
  <1>3. PICK d \in Nat : b = a + life + 1 + d
    <2>1. b - (a + life + 1) \in Nat /\ b = a + life + 1 + (b - (a + life + 1))
      BY <1>1, <1>2
    <2>2. QED BY <2>1
  <1>4. Second * b = Second * a + life * Second + Second + Second * d
    BY <1>1, <1>3
  <1>5. Second * d >= 0
    BY <1>1
  <1>6. QED BY <1>1, <1>4, <1>5

\* The initial cache is empty.
LEMMA CacheInitInv == CacheInit => CacheInv
  BY DEF CacheInit, CacheInv, CacheIsSound, GivenFresh, StrictIsComplete

\* Every step keeps the invariant.
LEMMA CacheStepInv == CacheInv /\ [CacheNext]_cacheVars => CacheInv'
  <1> SUFFICES ASSUME CacheInv, [CacheNext]_cacheVars PROVE CacheInv'
    OBVIOUS
  <1>1. ASSUME NEW q \in Queries, Refuse(q) PROVE CacheInv'
    BY <1>1 DEF Refuse, Error, CacheInv, CacheIsSound, GivenFresh, StrictIsComplete
  <1>2. ASSUME NEW q \in Queries, Hit(q) PROVE CacheInv'
    <2> DEFINE entry == cached[KeyOf(q)]
               given == [entry.answer EXCEPT !.of = q, !.hit = TRUE]
    <2>1. EntryFits(KeyOf(q), entry) /\ time < entry.until /\ time \in Int
      BY <1>2, QueryShape DEF Hit, FreshEntry, CacheInv
    <2>2. /\ entry.answer.of \in Queries /\ entry.answer.of.strict = q.strict
          /\ entry.answer.of.life = q.life
      <3>1. entry.answer.of \in Queries /\ KeyOf(entry.answer.of) = KeyOf(q)
        BY <2>1 DEF EntryFits, Answers
      <3>2. QED BY <3>1, QueryLife DEF KeyOf
    <2>3. given.of = q /\ given.fetched = entry.answer.fetched /\ given.stale = entry.answer.stale
            /\ given.rows = entry.answer.rows /\ given.ok = entry.answer.ok
      BY <2>1 DEF EntryFits, Answers
    <2>4. /\ time < given.fetched + q.life * Second /\ WholeSeconds(time) =< given.stale
          /\ q.strict => "gap" \notin given.rows
      BY <2>1, <2>2, <2>3 DEF EntryFits, RowsFit
    <2>5. envelope' = given /\ UNCHANGED <<cached, script, time>>
      BY <1>2 DEF Hit
    <2>6. CacheIsSound'
      BY <2>3, <2>4, <2>5 DEF CacheIsSound, GivenFresh, StrictIsComplete
    <2> HIDE DEF given, entry
    <2>7. QED BY <2>5, <2>6 DEF CacheInv, EntryFits, RowsFit
  <1>3. ASSUME NEW q \in Queries, RunScript(q) PROVE CacheInv'
    BY <1>3 DEF RunScript, CacheInv, CacheIsSound, GivenFresh, StrictIsComplete, EntryFits, RowsFit
  <1>4. CASE ScriptPrints
    <2>1. PICK rows \in SUBSET Candidates :
            LET printed == Success(script.of, EnforceCompleteness(script.of, rows), script.began)
            IN  envelope' = printed /\ Keep(script.of, printed, script.began)
      BY <1>4 DEF ScriptPrints
    <2> DEFINE q == script.of
               made == Success(q, EnforceCompleteness(q, rows), script.began)
               entry == [answer |-> made, until |-> script.began + q.life * Second]
    <2>2. /\ q \in Queries /\ script.began \in Int /\ script.began <= time /\ time \in Int
          /\ script' = NoAnswer /\ time' = time
      BY <1>4 DEF ScriptPrints, CacheInv
    <2>3. made \in Answers /\ made.ok /\ made.of = q /\ RowsFit(made) /\ ~made.hit
            /\ made.fetched = script.began /\ made.stale = WholeSeconds(time) + q.life
      BY <2>2, QueryShape, Seconds DEF Success, EnforceCompleteness, Answers, RowsFit
    <2>4. EntryFits(KeyOf(q), entry)
      <3> HIDE DEF made
      <3>1. entry.answer = made /\ entry.until = script.began + q.life * Second
        OBVIOUS
      <3>2. q.life * Second \in Int
        BY <2>2, QueryShape, CacheAssumption
      <3>3. ASSUME NEW t \in Int, t < entry.until PROVE WholeSeconds(t) =< made.stale
        <4>1. t < time + q.life * Second
          BY <2>2, <3>1, <3>2, <3>3
        <4>2. QED BY <2>2, <2>3, <4>1, QueryShape, SecondsApart
      <3>4. QED BY <2>2, <2>3, <3>1, <3>2, <3>3 DEF EntryFits
    <2>5. CacheIsSound'
      <3> HIDE DEF made
      <3>1. envelope' = made
        BY <2>1 DEF made
      <3>2. WholeSeconds(time) =< made.stale
        BY <2>2, <2>3, QueryShape, Seconds
      <3>3. QED
        BY <2>2, <2>3, <3>1, <3>2 DEF CacheIsSound, GivenFresh, StrictIsComplete, RowsFit, WholeSeconds
    <2> HIDE DEF entry
    <2>6. cached' = cached \/ cached' = [cached EXCEPT ![KeyOf(q)] = entry]
      BY <2>1 DEF entry, Keep
    <2>7. \A k \in Keys : cached'[k] # NoAnswer => EntryFits(k, cached'[k])
      BY <2>4, <2>6 DEF CacheInv
    <2>8. DOMAIN cached' = Keys
      BY <2>6 DEF CacheInv
    <2>9. \A k \in Keys : EntryFits(k, cached'[k]) => EntryFits(k, cached[k])'
      BY DEF EntryFits, RowsFit, WholeSeconds
    <2>10. QED BY <2>2, <2>5, <2>7, <2>8, <2>9 DEF CacheInv
  <1>5. CASE ScriptFails
    BY <1>5 DEF ScriptFails, Error, CacheInv, CacheIsSound, GivenFresh, StrictIsComplete, EntryFits, RowsFit
  <1>6. CASE HostKills
    BY <1>6 DEF HostKills, CacheInv, CacheIsSound, GivenFresh, StrictIsComplete
  <1>7. CASE TimePasses
    BY <1>7 DEF TimePasses, CacheInv, CacheIsSound, GivenFresh, StrictIsComplete, EntryFits, RowsFit
  <1>8. CASE UNCHANGED cacheVars
    BY <1>8 DEF cacheVars, CacheInv, CacheIsSound, GivenFresh, StrictIsComplete, EntryFits, RowsFit
  <1>9. QED BY <1>1, <1>2, <1>3, <1>4, <1>5, <1>6, <1>7, <1>8 DEF CacheNext

\* Whatever was asked before and however long scripts took, rows from the cache
\* are younger than their lifetime, no answer is given in a later second than
\* its stale_after, and it is complete where that was required
\* (_run_cached_script, _success_envelope, _enforce_screen_completeness).
THEOREM CacheSound == CacheSpec => []CacheIsSound
  <1>1. CacheInv => CacheIsSound
    BY DEF CacheInv
  <1>2. QED BY CacheInitInv, CacheStepInv, <1>1, PTL DEF CacheSpec

---------------------------------------------------------------------------
(***************************************************************************)
(* EvidenceIsSound for every set of fixtures: what the call has joined so  *)
(* far depends on the step it is at.                                       *)
(***************************************************************************)

\* The steps of the evidence after its fixture is confirmed.
JoinSteps == {"results", "standings", "scoreboard", "summary", "odds", "sporttery", "join"}

\* The steps before The Odds API has answered.
BeforeOdds == JoinSteps \ {"join"}

\* The reports on the sources asked so far.
Statuses == {"success", "empty", "unavailable", "rejected"}
Sources == {"competition", "schedule", "results", "standings", "espn", "odds", "sporttery"}
Reported == Seq([source : Sources, status : Statuses])

\* A part that the call is past is filled, or its source did not succeed.
Collected ==
    /\ step \in JoinSteps \ {"results"} => parts["results"] # NoFixture \/ Degraded
    /\ step \in JoinSteps \ {"results", "standings"} =>
          parts["standings"] # NoFixture \/ Degraded
    /\ step \in {"odds", "sporttery", "join"} => parts["details"] # NoFixture \/ Degraded
    /\ step = "join" => odds # {} \/ Degraded

\* The inductive invariant.
EvidenceInv ==
    /\ parts \in [Parts -> Rows \cup {NoFixture}]
    /\ sources \in Reported
    /\ answer = "none" <=> step # "over"
    /\ curl = "running" => step \in {"scoreboard", "summary"}
    /\ fixture # NoFixture =>
          fixture \in Rows /\ SameTeams(fixture) /\ SameDay(fixture) /\ fixture.league = Wanted.league
    /\ purpose = "evidence" =>
          /\ step \in {"league", "schedule", "over"} \cup JoinSteps
          /\ step \in {"league", "schedule"} => fixture = NoFixture
          /\ step \in JoinSteps => fixture # NoFixture
          /\ fixture = NoFixture => odds = {} /\ \A p \in Parts : parts[p] = NoFixture
          /\ answer = "none" => Collected
    /\ purpose # "evidence" => step \notin JoinSteps \ {"scoreboard", "sporttery"}
    /\ step = "scoreboard" => purpose \in {"evidence", "espn"}
    /\ step \in BeforeOdds \cup {"league", "schedule"} => ~FromOddsApi
    /\ purpose # "evidence" => ~FromOddsApi /\ parts["details"] = NoFixture
    /\ EvidenceIsSound

\* A source that is reported is a record of the sequence; a failure degrades.
LEMMA ReportedSources ==
    ASSUME sources \in Reported,
           NEW source \in Sources, NEW status \in Statuses,
           Reports(source, status)
    PROVE  /\ sources' \in Reported
           /\ Degraded' <=> Degraded \/ status # "success"
           /\ FromOddsApi' <=> FromOddsApi \/ (source = "odds" /\ status = "success")
<1> DEFINE row == [source |-> source, status |-> status]
<1>1. sources' = Append(sources, row) /\ row \in [source : Sources, status : Statuses]
  BY DEF Reports
<1>2. /\ Len(sources') = Len(sources) + 1 /\ sources'[Len(sources) + 1] = row
      /\ \A i \in 1 .. Len(sources) : sources'[i] = sources[i]
      /\ sources' \in Reported
  BY <1>1 DEF Reported
<1>3. /\ DOMAIN sources = 1 .. Len(sources) /\ DOMAIN sources' = 1 .. Len(sources')
      /\ Len(sources) \in Nat
  BY <1>2 DEF Reported
<1>4. \A i \in DOMAIN sources' : i \in DOMAIN sources \/ i = Len(sources) + 1
  BY <1>2, <1>3
<1>5. Len(sources) + 1 \in DOMAIN sources' /\ \A i \in DOMAIN sources : i \in DOMAIN sources'
  BY <1>2, <1>3
<1>6. row.source = source /\ row.status = status
  OBVIOUS
<1> HIDE DEF row
<1>7. Degraded' <=> Degraded \/ status # "success"
  BY <1>2, <1>3, <1>4, <1>5, <1>6 DEF Degraded
<1>8. FromOddsApi' <=> FromOddsApi \/ row = [source |-> "odds", status |-> "success"]
  BY <1>2, <1>3, <1>4, <1>5 DEF FromOddsApi
<1>9. row = [source |-> "odds", status |-> "success"] <=> source = "odds" /\ status = "success"
  BY DEF row
<1> QED
  BY <1>2, <1>7, <1>8, <1>9

\* Nothing is collected when the call begins.
LEMMA EvidenceInitInv == EvidenceInit => EvidenceInv
<1> SUFFICES ASSUME EvidenceInit PROVE EvidenceInv
  OBVIOUS
<1>1. /\ parts \in [Parts -> Rows \cup {NoFixture}] /\ \A p \in Parts : parts[p] = NoFixture
      /\ sources = <<>> /\ ~FromOddsApi /\ odds = {} /\ fixture = NoFixture /\ curl = "none"
      /\ answer = "none"
  BY DEF EvidenceInit, FromOddsApi
<1>2. /\ purpose = "evidence" => step = "league"
      /\ purpose # "evidence" => step \notin JoinSteps \ {"scoreboard", "sporttery"}
    /\ step = "scoreboard" => purpose \in {"evidence", "espn"}
  BY FixturesAssumption DEF EvidenceInit, JoinSteps
<1>3. EvidenceIsSound
  BY <1>1 DEF EvidenceIsSound, RowsAreOfTheMatch, CompleteMissesNothing, NoProcessLeft, Parts
<1> QED
  BY <1>1, <1>2, <1>3, FixturesAssumption
  DEF EvidenceInv, Collected, JoinSteps, BeforeOdds, Parts, Reported, EvidenceInit

\* A step that ends the call keeps what it has collected.
LEMMA EndKeepsEvidence ==
    ASSUME EvidenceInv, NEW a \in {"complete", "partial", "unavailable", "cancelled"}, Ends(a), curl' # "running",
           UNCHANGED <<purpose, fixture, parts>>,
           sources' \in Reported,
           FromOddsApi' <=> FromOddsApi,
           odds' = odds \/ (purpose = "sporttery" /\ \A row \in odds' : SameTeams(row)),
           purpose = "evidence" => a # "complete" \/ CompleteMissesNothing'
    PROVE  EvidenceInv'
<1>1. step' = "over" /\ answer' = a
  BY DEF Ends
<1>2. RowsAreOfTheMatch'
  BY <1>1 DEF EvidenceInv, EvidenceIsSound, RowsAreOfTheMatch, Agrees, SameTeams
<1>3. CompleteMissesNothing'
  BY <1>1 DEF CompleteMissesNothing
<1>4. Collected'
  BY <1>1 DEF Collected, JoinSteps
<1> QED
  BY <1>1, <1>2, <1>3, <1>4
  DEF EvidenceInv, EvidenceIsSound, NoProcessLeft, JoinSteps, BeforeOdds, SameTeams, SameDay

\* A step from the fixture's confirmation to the join: it reports its source,
\* and fills its part or degrades the answer.
LEMMA JoinKeepsEvidence ==
    ASSUME EvidenceInv, purpose = "evidence", step \in JoinSteps, step' \in JoinSteps,
           UNCHANGED <<purpose, fixture, answer>>,
           curl' = "running" => step' \in {"scoreboard", "summary"},
           parts' \in [Parts -> Rows \cup {NoFixture}], parts'["details"] \in {parts["details"], fixture},
           sources' \in Reported,
           Collected',
           step' \in BeforeOdds => ~FromOddsApi',
           odds' = odds \/ \A row \in odds' : SameTeams(row),
           FromOddsApi' => \A row \in odds' : Agrees(row)
    PROVE  EvidenceInv'
<1>1. fixture # NoFixture
  BY DEF EvidenceInv
<1>2. EvidenceIsSound'
  BY <1>1 DEF EvidenceInv, EvidenceIsSound, RowsAreOfTheMatch, CompleteMissesNothing, NoProcessLeft,
              JoinSteps, Agrees, SameTeams
<1> QED
  BY <1>1, <1>2 DEF EvidenceInv, JoinSteps, BeforeOdds, SameTeams, SameDay

\* A report tells of The Odds API only if it is its, and successful.
LEMMA OtherReport ==
    ASSUME EvidenceInv, NEW source \in Sources, NEW status \in Statuses, Reports(source, status),
           source # "odds" \/ status # "success"
    PROVE  sources' \in Reported /\ (FromOddsApi' <=> FromOddsApi)
BY ReportedSources DEF EvidenceInv

\* Every step keeps the invariant.
LEMMA EvidenceStepInv == EvidenceInv /\ [EvidenceNext]_evidenceVars => EvidenceInv'
<1> SUFFICES ASSUME EvidenceInv, [EvidenceNext]_evidenceVars PROVE EvidenceInv'
  OBVIOUS
<1>0. /\ parts \in [Parts -> Rows \cup {NoFixture}] /\ sources \in Reported
      /\ curl = "running" => step \in {"scoreboard", "summary"}
      /\ "details" \in Parts /\ "results" \in Parts /\ "standings" \in Parts
      /\ Failed \subseteq Statuses /\ {"success", "empty"} \subseteq Statuses
      /\ {"competition", "schedule", "results", "standings", "espn", "odds", "sporttery"} = Sources
  BY DEF EvidenceInv, Parts, Failed, Statuses, Sources
<1>1. CASE ResolveLeague
  <2>1. CASE \E status \in Failed : Reports("competition", status) /\ Ends("unavailable")
    <3>1. sources' \in Reported /\ (FromOddsApi' <=> FromOddsApi)
      BY <1>0, <2>1, OtherReport
    <3> QED
      BY <1>0, <1>1, <2>1, <3>1, EndKeepsEvidence DEF ResolveLeague
  <2>2. CASE Reports("competition", "success") /\ step' = "schedule" /\ UNCHANGED answer
    <3>1. sources' \in Reported /\ (FromOddsApi' <=> FromOddsApi)
      BY <1>0, <2>2, OtherReport
    <3> QED
      BY <1>1, <2>2, <3>1 DEF ResolveLeague, EvidenceInv, EvidenceIsSound, RowsAreOfTheMatch, Collected,
         CompleteMissesNothing, NoProcessLeft, JoinSteps, BeforeOdds, Agrees, SameTeams, SameDay
  <2> QED
    BY <1>1, <2>1, <2>2 DEF ResolveLeague
<1>2. CASE ConfirmFixture
  <2>1. CASE \E status \in Statuses : /\ Reports("schedule", status)
                                      /\ Ends("unavailable") /\ UNCHANGED fixture
    <3>1. sources' \in Reported /\ (FromOddsApi' <=> FromOddsApi)
      BY <1>0, <2>1, OtherReport
    <3>2. UNCHANGED <<purpose, fixture, parts, odds, curl>> /\ curl # "running"
          /\ Ends("unavailable")
      BY <1>0, <1>2, <2>1 DEF ConfirmFixture
    <3> QED
      BY <3>1, <3>2, EndKeepsEvidence
  <2>2. CASE \E rows \in Payloads : /\ Reports("schedule", "success") /\ fixture' \in PrimaryRows(rows)
                                    /\ step' = "results" /\ UNCHANGED answer
    <3>1. sources' \in Reported /\ (FromOddsApi' <=> FromOddsApi)
      BY <1>0, <2>2, OtherReport
    <3>2. /\ fixture' \in Rows /\ fixture'.teams = Wanted.teams /\ fixture'.date = Wanted.date
          /\ fixture'.league = Wanted.league /\ fixture' # NoFixture
      BY <2>2, FixturesAssumption DEF PrimaryRows, Payloads, SameTeams, SameDay
    <3> QED
      BY <1>2, <2>2, <3>1, <3>2 DEF ConfirmFixture, EvidenceInv, EvidenceIsSound, RowsAreOfTheMatch, Collected,
         CompleteMissesNothing, NoProcessLeft, JoinSteps, BeforeOdds, Agrees, SameTeams, SameDay, Parts
  <2> QED
    BY <1>0, <1>2, <2>1, <2>2 DEF ConfirmFixture, Statuses
<1>3. CASE ServeData \/ CompetitionSearch \/ Form \/ HeadToHead
  <2>1. purpose # "evidence" /\ (Ends("complete") \/ Ends("unavailable"))
    BY <1>3 DEF ServeData, CompetitionSearch, Form, HeadToHead, GetJson, EvidenceInv, JoinSteps
  <2>2. UNCHANGED <<purpose, fixture, parts, sources, odds, curl>> /\ (FromOddsApi' <=> FromOddsApi)
    BY <1>3 DEF ServeData, CompetitionSearch, Form, HeadToHead, GetJson, FromOddsApi
  <2>3. curl # "running"
    BY <1>0, <1>3 DEF ServeData, CompetitionSearch, Form, HeadToHead, GetJson
  <2> QED
    BY <1>0, <2>1, <2>2, <2>3, EndKeepsEvidence
<1>4. CASE TeamId
  <2>1. UNCHANGED <<purpose, fixture, parts, sources, odds, curl>> /\ (FromOddsApi' <=> FromOddsApi)
        /\ curl # "running" /\ step = "team"
    BY <1>0, <1>4 DEF TeamId, FromOddsApi
  <2>2. CASE Ends("unavailable")
    BY <1>0, <2>1, <2>2, EndKeepsEvidence
  <2>3. CASE step' = "last" /\ UNCHANGED answer
    BY <2>1, <2>3 DEF EvidenceInv, EvidenceIsSound, RowsAreOfTheMatch, Collected,
         CompleteMissesNothing, NoProcessLeft, JoinSteps, BeforeOdds, Agrees, SameTeams, SameDay
  <2> QED
    BY <1>4, <2>2, <2>3 DEF TeamId
<1>5. ASSUME NEW part \in {"results", "standings"}, NEW next \in {"standings", "scoreboard"},
             SeasonTable(part, next), part = "results" => next = "standings",
             part = "standings" => next = "scoreboard"
      PROVE  EvidenceInv'
  <2>1. PICK status \in Statuses :
          /\ Reports(part, status)
          /\ \/ status = "success" /\ parts' = [parts EXCEPT ![part] = fixture]
             \/ status # "success" /\ UNCHANGED parts
    BY <1>0, <1>5 DEF SeasonTable, Failed
  <2>2. /\ sources' \in Reported /\ (FromOddsApi' <=> FromOddsApi)
        /\ Degraded' <=> Degraded \/ status # "success"
    BY <1>0, <2>1, ReportedSources
  <2>3. /\ step = part /\ step' = next /\ UNCHANGED <<purpose, fixture, curl, odds, answer>>
        /\ purpose = "evidence" /\ fixture # NoFixture /\ fixture \in Rows
        /\ answer = "none" /\ Collected /\ ~FromOddsApi /\ curl # "running"
    BY <1>0, <1>5 DEF SeasonTable, EvidenceInv, JoinSteps, BeforeOdds
  <2>4. Collected'
    BY <1>0, <1>5, <2>1, <2>2, <2>3 DEF Collected, JoinSteps
  <2> QED
    BY <1>0, <1>5, <2>1, <2>2, <2>3, <2>4, JoinKeepsEvidence DEF JoinSteps
<1>6. CASE Curl
  BY <1>6 DEF Curl, EvidenceInv, EvidenceIsSound, RowsAreOfTheMatch, Collected, Degraded, FromOddsApi,
     CompleteMissesNothing, NoProcessLeft, JoinSteps, BeforeOdds, Agrees, SameTeams, SameDay
<1>7. ASSUME NEW status \in {"unavailable", "rejected"}, WithoutEspn(status),
             step \in {"scoreboard", "summary"}, curl' # "running",
             UNCHANGED <<purpose, fixture, parts, odds>>
      PROVE  EvidenceInv'
  <2>1. /\ sources' \in Reported /\ (FromOddsApi' <=> FromOddsApi) /\ Degraded'
    BY <1>0, <1>7, ReportedSources DEF WithoutEspn, Statuses
  <2>2. CASE purpose = "espn"
    BY <1>7, <2>1, <2>2, EndKeepsEvidence DEF WithoutEspn
  <2>3. CASE purpose # "espn"
    <3>1. /\ step' = "odds" /\ UNCHANGED answer /\ purpose = "evidence" /\ ~FromOddsApi
      BY <1>7, <2>3 DEF WithoutEspn, EvidenceInv, JoinSteps, BeforeOdds
    <3>2. Collected'
      BY <2>1, <3>1 DEF Collected
    <3> QED
      BY <1>0, <1>7, <2>1, <3>1, <3>2, JoinKeepsEvidence DEF JoinSteps
  <2> QED
    BY <2>2, <2>3
<1>8. CASE EspnFails
  BY <1>0, <1>7, <1>8 DEF EspnFails, Failed
<1>9. CASE ReadScoreboard
  <2>1. /\ step = "scoreboard" /\ purpose = "evidence" /\ curl' = "ended"
        /\ UNCHANGED <<purpose, fixture, parts, odds>>
        /\ \/ step' = "summary" /\ UNCHANGED <<sources, answer>>
           \/ WithoutEspn("rejected")
    BY <1>9 DEF ReadScoreboard
  <2>2. CASE WithoutEspn("rejected")
    BY <1>7, <2>1, <2>2
  <2>3. CASE step' = "summary" /\ UNCHANGED <<sources, answer>>
    <3>1. ~FromOddsApi /\ ~FromOddsApi' /\ answer = "none" /\ Collected
      BY <2>1, <2>3 DEF EvidenceInv, FromOddsApi, JoinSteps, BeforeOdds
    <3>2. Collected'
      BY <2>1, <2>3, <3>1 DEF Collected, JoinSteps, Degraded
    <3> QED
      BY <1>0, <2>1, <2>3, <3>1, <3>2, JoinKeepsEvidence DEF JoinSteps
  <2> QED
    BY <2>1, <2>2, <2>3
<1>10. CASE ReadSummary
  <2>1. PICK row \in Rows :
          /\ step = "summary" /\ curl' = "ended" /\ UNCHANGED <<purpose, fixture, odds>>
          /\ \/ /\ IsFixture(row) /\ Reports("espn", "success")
                /\ parts' = [parts EXCEPT !["details"] = row]
                /\ step' = "odds" /\ UNCHANGED answer
             \/ WithoutEspn("rejected") /\ UNCHANGED parts
    BY <1>10 DEF ReadSummary
  <2>2. CASE WithoutEspn("rejected") /\ UNCHANGED parts
    BY <1>7, <2>1, <2>2
  <2>3. CASE /\ IsFixture(row) /\ Reports("espn", "success")
             /\ parts' = [parts EXCEPT !["details"] = row]
             /\ step' = "odds" /\ UNCHANGED answer
    <3>1. /\ sources' \in Reported /\ (FromOddsApi' <=> FromOddsApi) /\ (Degraded' <=> Degraded)
      BY <1>0, <2>3, ReportedSources
    <3>2. purpose = "evidence" /\ fixture # NoFixture /\ ~FromOddsApi /\ answer = "none" /\ Collected
          /\ fixture \in Rows /\ fixture.league = Wanted.league
      BY <2>1 DEF EvidenceInv, JoinSteps, BeforeOdds
    <3>3. row = fixture
      BY <2>3, <3>2, FixturesAssumption DEF IsFixture
    <3>4. Collected'
      BY <1>0, <2>1, <2>3, <3>1, <3>2, <3>3 DEF Collected, JoinSteps
    <3> QED
      BY <1>0, <2>1, <2>3, <3>1, <3>2, <3>3, <3>4, JoinKeepsEvidence DEF JoinSteps
  <2> QED
    BY <2>1, <2>2, <2>3
<1>11. CASE ServeEspn
  <2>1. (FromOddsApi' <=> FromOddsApi) /\ purpose = "espn" /\ Ends("complete") /\ curl' = "ended"
        /\ UNCHANGED <<purpose, fixture, parts, odds, sources>>
    BY <1>11 DEF ServeEspn, FromOddsApi
  <2> QED
    BY <1>0, <2>1, EndKeepsEvidence
<1>12. CASE AskOdds
  <2>1. PICK status \in Statuses :
          /\ Reports("odds", status) /\ step = "odds" /\ UNCHANGED <<purpose, fixture, curl, parts, answer>>
          /\ \/ status # "success" /\ step' = "sporttery" /\ UNCHANGED odds
             \/ /\ status = "success" /\ step' = "join" /\ odds' # {}
                /\ \A row \in odds' : SameTeams(row) /\ row.date \in {fixture.date, NoFixture}
    <3>1. CASE \E status \in Failed \cup {"empty"} :
                 Reports("odds", status) /\ step' = "sporttery" /\ UNCHANGED odds
      BY <1>0, <1>12, <3>1 DEF AskOdds, Failed
    <3>2. CASE \E rows \in Payloads, dated \in BOOLEAN :
             LET given == {IF dated THEN r ELSE [r EXCEPT !.date = NoFixture] : r \in rows} IN
             IF OddsRows(given) # {}
             THEN /\ Reports("odds", "success")
                  /\ odds' = OddsRows(given) /\ step' = "join"
             ELSE Reports("odds", "empty") /\ step' = "sporttery" /\ UNCHANGED odds
      <4>1. \E given :
             IF OddsRows(given) # {}
             THEN /\ Reports("odds", "success")
                  /\ odds' = OddsRows(given) /\ step' = "join"
             ELSE Reports("odds", "empty") /\ step' = "sporttery" /\ UNCHANGED odds
        BY <3>2
      <4>2. step = "odds" /\ UNCHANGED <<purpose, fixture, curl, parts, answer>>
        BY <1>12 DEF AskOdds
      <4> QED
        BY <1>0, <4>1, <4>2 DEF OddsRows
    <3> QED
      BY <1>12, <3>1, <3>2 DEF AskOdds
  <2>2. /\ sources' \in Reported /\ (Degraded' <=> Degraded \/ status # "success")
        /\ FromOddsApi' <=> FromOddsApi \/ status = "success"
    BY <1>0, <2>1, ReportedSources
  <2>3. /\ purpose = "evidence" /\ fixture # NoFixture /\ ~FromOddsApi /\ answer = "none" /\ Collected
        /\ SameTeams(fixture) /\ curl # "running"
    BY <2>1 DEF EvidenceInv, JoinSteps, BeforeOdds
  <2>4. Collected'
    BY <2>1, <2>2, <2>3 DEF Collected, JoinSteps
  <2>5. FromOddsApi' => \A row \in odds' : Agrees(row)
    BY <2>1, <2>2, <2>3 DEF Agrees, SameTeams
  <2> QED
    BY <1>0, <2>1, <2>2, <2>3, <2>4, <2>5, JoinKeepsEvidence DEF JoinSteps, BeforeOdds
<1>13. CASE AskSporttery
  <2>1. PICK status \in Statuses :
          /\ Reports("sporttery", status) /\ step = "sporttery" /\ purpose = "evidence"
          /\ UNCHANGED <<purpose, fixture, curl, parts, answer>> /\ step' = "join"
          /\ status = "success" => odds' # {}
          /\ odds' = odds \/ \A row \in odds' : SameTeams(row)
    <3>1. CASE \E status \in Failed : Reports("sporttery", status) /\ UNCHANGED odds
      BY <1>0, <1>13, <3>1 DEF AskSporttery, Failed
    <3>2. CASE \E rows \in Payloads :
             LET found == {r \in rows : SameTeams(r)} IN
             IF Cardinality(found) = 1
             THEN Reports("sporttery", "success") /\ odds' = found
             ELSE Reports("sporttery", "empty") /\ UNCHANGED odds
      <4>1. \E found :
             /\ \A row \in found : SameTeams(row)
             /\ IF Cardinality(found) = 1
                THEN Reports("sporttery", "success") /\ odds' = found
                ELSE Reports("sporttery", "empty") /\ UNCHANGED odds
        BY <3>2
      <4>2. step = "sporttery" /\ purpose = "evidence" /\ step' = "join"
            /\ UNCHANGED <<purpose, fixture, curl, parts, answer>>
        BY <1>13 DEF AskSporttery
      <4>3. Cardinality({}) = 0
        BY FS_EmptySet
      <4> QED
        BY <1>0, <4>1, <4>2, <4>3
    <3> QED
      BY <1>13, <3>1, <3>2 DEF AskSporttery
  <2>2. /\ sources' \in Reported /\ (Degraded' <=> Degraded \/ status # "success")
        /\ (FromOddsApi' <=> FromOddsApi)
    BY <1>0, <2>1, ReportedSources
  <2>3. fixture # NoFixture /\ ~FromOddsApi /\ answer = "none" /\ Collected /\ curl # "running"
    BY <2>1 DEF EvidenceInv, JoinSteps, BeforeOdds
  <2>4. Collected'
    BY <2>1, <2>2, <2>3 DEF Collected, JoinSteps
  <2> QED
    BY <1>0, <2>1, <2>2, <2>3, <2>4, JoinKeepsEvidence DEF JoinSteps, BeforeOdds
<1>14. CASE SportteryMatch
  <2>1. /\ purpose = "sporttery" /\ (Ends("complete") \/ Ends("unavailable"))
        /\ UNCHANGED <<purpose, fixture, curl, parts, sources>> /\ (FromOddsApi' <=> FromOddsApi)
        /\ curl # "running" /\ \A row \in odds' : SameTeams(row)
    BY <1>0, <1>14 DEF SportteryMatch, FromOddsApi, EvidenceInv, EvidenceIsSound, RowsAreOfTheMatch
  <2> QED
    BY <1>0, <2>1, EndKeepsEvidence
<1>15. CASE Join
  <2>1. /\ step = "join" /\ UNCHANGED <<purpose, fixture, curl, parts, odds, sources>>
        /\ Ends(IF Degraded THEN "partial" ELSE "complete")
        /\ (FromOddsApi' <=> FromOddsApi) /\ curl # "running"
    BY <1>0, <1>15 DEF Join, FromOddsApi
  <2>2. ~Degraded => CompleteMissesNothing'
    BY <2>1 DEF EvidenceInv, JoinSteps, Collected, CompleteMissesNothing, Parts
  <2> QED
    BY <1>0, <2>1, <2>2, EndKeepsEvidence
<1>16. CASE CancelCall
  <2>1. /\ Ends("cancelled") /\ UNCHANGED <<purpose, fixture, parts, odds, sources>>
        /\ curl' # "running" /\ (FromOddsApi' <=> FromOddsApi)
    BY <1>16 DEF CancelCall, FromOddsApi
  <2> QED
    BY <1>0, <2>1, EndKeepsEvidence
<1>17. CASE UNCHANGED evidenceVars
  BY <1>17 DEF evidenceVars, EvidenceInv, EvidenceIsSound, RowsAreOfTheMatch, Collected, Degraded, FromOddsApi,
     CompleteMissesNothing, NoProcessLeft, JoinSteps, BeforeOdds, Agrees, SameTeams, SameDay
<1> QED
  BY <1>1, <1>2, <1>3, <1>4, <1>5, <1>6, <1>8, <1>9, <1>10, <1>11, <1>12, <1>13, <1>14, <1>15,
     <1>16, <1>17 DEF EvidenceNext

\* Whatever the sources answer, when they fail and where the call is cancelled:
\* ESPN's details are of the confirmed fixture, odds are of its teams and those
\* of The Odds API not of another day, "complete" misses no part, and no curl
\* process outlives the call (football_evidence.py, football_data.py).
THEOREM EvidenceSound == EvidenceSpec => []EvidenceIsSound
<1>1. EvidenceInv => EvidenceIsSound
  BY DEF EvidenceInv
<1> QED
  BY EvidenceInitInv, EvidenceStepInv, <1>1, PTL DEF EvidenceSpec

---------------------------------------------------------------------------
(***************************************************************************)
(* LedgerIsSound for every set of users, sessions, rows and inputs: links  *)
(* stay within a user, a user's items differ, and episodes are disjoint.   *)
(***************************************************************************)

\* Every id has a row of its table, or none.
RowsTyped ==
    /\ theses \in [ThesisIds -> ThesisRows \cup {NoEntry}]
    /\ watches \in [WatchIds -> WatchRows \cup {NoEntry}]
    /\ alerts \in [AlertIds -> AlertRows \cup {NoEntry}]
    /\ clock \in Nat

\* An alert was last seen no earlier than first, and not in the future.
AlertsDated ==
    \A a \in Live(alerts) :
        alerts[a].first <= alerts[a].last /\ alerts[a].last <= clock

\* The inductive invariant: EpisodesDisjoint needs the dates, since a new
\* alert is after all those that were last seen before now.
LedgerInv ==
    RowsTyped /\ AlertsDated /\ TenantIsolation /\ WatchesDistinct /\ EpisodesDisjoint

\* The user of a session is one of the users.
LEMMA CallerHasUser ==
    ASSUME NEW c \in Callers
    PROVE  UserOf[c] \in Users
BY LedgerAssumption DEF Users, Range

\* A merge of a thesis with valid arguments is a row of the same user.
LEMMA MergedThesis ==
    ASSUME NEW row \in ThesisRows, NEW args \in ThesisInputs
    PROVE  Merged(row, args) \in ThesisRows /\ Merged(row, args).user = row.user
<1>1. DOMAIN row = {"user", "symbol", "status", "terms", "version"}
  BY DEF ThesisRows
<1>2. /\ row.user \in Users /\ row.symbol \in Symbols /\ row.status \in ThesisStatuses
      /\ row.terms \in SUBSET Events /\ row.version \in Nat
  BY DEF ThesisRows
<1> DEFINE merged == Merged(row, args)
<1>3. merged = [f \in DOMAIN row |-> IF f \in DOMAIN args THEN args[f] ELSE row[f]]
  BY DEF Merged
<1>4. DOMAIN args \subseteq {"symbol", "status", "terms"}
  BY LedgerAssumption
<1>5. merged.user = row.user /\ merged.version = row.version
  BY <1>1, <1>3, <1>4
<1>6. merged.symbol \in Symbols /\ merged.status \in ThesisStatuses /\ merged.terms \in SUBSET Events
  BY <1>1, <1>2, <1>3, LedgerAssumption
<1>7. merged = [user |-> merged.user, symbol |-> merged.symbol, status |-> merged.status,
                terms |-> merged.terms, version |-> merged.version]
  BY <1>1, <1>3
<1> HIDE DEF merged
<1>8. merged \in ThesisRows
  BY <1>2, <1>5, <1>6, <1>7 DEF ThesisRows
<1> QED
  BY <1>5, <1>8 DEF merged

\* A merge of an item with valid arguments is a row of the same user.
LEMMA MergedWatch ==
    ASSUME NEW row \in WatchRows, NEW args \in WatchInputs
    PROVE  Merged(row, args) \in WatchRows /\ Merged(row, args).user = row.user
<1>1. DOMAIN row = {"user", "symbol", "thesis", "status", "types", "keys", "minScore",
                    "window", "version"}
  BY DEF WatchRows
<1>2. /\ row.user \in Users /\ row.symbol \in Symbols /\ row.thesis \in ThesisIds \cup {NoThesis}
      /\ row.status \in WatchStatuses /\ row.types \in SUBSET Events /\ row.keys \in SUBSET Events
      /\ row.minScore \in Nat /\ row.window \in Nat /\ row.version \in Nat
  BY DEF WatchRows
<1> DEFINE merged == Merged(row, args)
<1>3. merged = [f \in DOMAIN row |-> IF f \in DOMAIN args THEN args[f] ELSE row[f]]
  BY DEF Merged
<1>4. DOMAIN args \subseteq {"symbol", "thesis", "status", "types", "keys", "minScore", "window"}
  BY LedgerAssumption
<1>5. merged.user = row.user /\ merged.version = row.version
  BY <1>1, <1>3, <1>4
<1>6. /\ merged.symbol \in Symbols /\ merged.thesis \in ThesisIds \cup {NoThesis}
      /\ merged.status \in WatchStatuses
  BY <1>1, <1>2, <1>3, LedgerAssumption
<1>7. /\ merged.types \in SUBSET Events /\ merged.keys \in SUBSET Events
      /\ merged.minScore \in Nat /\ merged.window \in Nat
  BY <1>1, <1>2, <1>3, LedgerAssumption
<1>8. merged = [user |-> merged.user, symbol |-> merged.symbol, thesis |-> merged.thesis,
                status |-> merged.status, types |-> merged.types, keys |-> merged.keys,
                minScore |-> merged.minScore, window |-> merged.window,
                version |-> merged.version]
  BY <1>1, <1>3
<1> HIDE DEF merged
<1>9. merged \in WatchRows
  BY <1>2, <1>5, <1>6, <1>7, <1>8 DEF WatchRows
<1> QED
  BY <1>5, <1>9 DEF merged

\* One thesis is written: it stays, or becomes, its user's, and the links to it
\* keep their user.
LEMMA ThesisWritten ==
    ASSUME LedgerInv, NEW t \in ThesisIds, NEW row \in ThesisRows,
           theses' = [theses EXCEPT ![t] = row],
           theses[t] # NoEntry => row.user = theses[t].user,
           UNCHANGED <<watches, alerts, clock>>,
           \A r \in reviews' : r \in reviews \/ (r.thesis = t /\ r.user = row.user)
    PROVE  LedgerInv'
<1>1. theses' \in [ThesisIds -> ThesisRows \cup {NoEntry}] /\ theses'[t] = row
  BY DEF LedgerInv, RowsTyped
<1>2. \A s \in ThesisIds : s # t => theses'[s] = theses[s]
  BY DEF LedgerInv, RowsTyped
<1>3. row # NoEntry
  BY LedgerAssumption
<1>4. \A s \in Live(theses) : s \in Live(theses)' /\ theses'[s].user = theses[s].user
  BY <1>1, <1>2, <1>3 DEF LedgerInv, RowsTyped, Live
<1>5. t \in Live(theses)'
  BY <1>1, <1>3 DEF Live
<1>6. Live(watches)' = Live(watches) /\ Live(alerts)' = Live(alerts)
  BY DEF Live
<1>7. TenantIsolation'
  <2>1. watches' = watches /\ alerts' = alerts /\ theses'[t].user = row.user
    BY <1>1
  <2>2. \A x \in Live(watches)' : watches'[x].thesis # NoThesis =>
           /\ watches'[x].thesis \in Live(theses)'
           /\ theses'[watches'[x].thesis].user = watches'[x].user
    <3>1. \A x \in Live(watches) : watches[x].thesis # NoThesis =>
             /\ watches[x].thesis \in Live(theses)
             /\ theses[watches[x].thesis].user = watches[x].user
      BY DEF LedgerInv, TenantIsolation
    <3> QED
      BY <1>4, <1>6, <2>1, <3>1 DEF Live
  <2>3. \A a \in Live(alerts)' :
           /\ alerts'[a].watch \in Live(watches)'
           /\ watches'[alerts'[a].watch].user = alerts'[a].user
           /\ alerts'[a].thesis # NoThesis =>
                 /\ alerts'[a].thesis \in Live(theses)'
                 /\ theses'[alerts'[a].thesis].user = alerts'[a].user
    <3>1. \A a \in Live(alerts) :
             /\ alerts[a].watch \in Live(watches)
             /\ watches[alerts[a].watch].user = alerts[a].user
             /\ alerts[a].thesis # NoThesis =>
                   /\ alerts[a].thesis \in Live(theses)
                   /\ theses[alerts[a].thesis].user = alerts[a].user
      BY DEF LedgerInv, TenantIsolation
    <3> QED
      BY <1>4, <1>6, <2>1, <3>1 DEF Live
  <2>4. \A r \in reviews' : r.thesis \in Live(theses)' /\ theses'[r.thesis].user = r.user
    BY <1>4, <1>5, <2>1 DEF LedgerInv, TenantIsolation
  <2> QED
    BY <2>2, <2>3, <2>4 DEF TenantIsolation
<1>8. RowsTyped'
  BY <1>1 DEF LedgerInv, RowsTyped
<1>9. AlertsDated' /\ WatchesDistinct' /\ EpisodesDisjoint'
  BY <1>6 DEF LedgerInv, AlertsDated, WatchesDistinct, EpisodesDisjoint
<1> QED
  BY <1>7, <1>8, <1>9 DEF LedgerInv

\* One item is written: it stays, or becomes, its user's, its thesis is the
\* user's own, and no other item of the user has its symbol and thesis.
LEMMA WatchWritten ==
    ASSUME LedgerInv, NEW c \in Callers, NEW w \in WatchIds, NEW row \in WatchRows,
           watches' = [watches EXCEPT ![w] = row], row.user = UserOf[c],
           watches[w] # NoEntry => row.user = watches[w].user,
           LinkAllowed(c, row), ~Duplicate(c, row, w),
           UNCHANGED <<theses, alerts, reviews, clock>>
    PROVE  LedgerInv'
<1>1. watches' \in [WatchIds -> WatchRows \cup {NoEntry}] /\ watches'[w] = row
  BY DEF LedgerInv, RowsTyped
<1>2. \A x \in WatchIds : x # w => watches'[x] = watches[x]
  BY DEF LedgerInv, RowsTyped
<1>3. row # NoEntry
  BY LedgerAssumption
<1>4. \A x \in Live(watches) : x \in Live(watches)' /\ watches'[x].user = watches[x].user
  BY <1>1, <1>2, <1>3 DEF LedgerInv, RowsTyped, Live
<1>5. \A x \in Live(watches)' : x = w \/ (x \in Live(watches) /\ watches'[x] = watches[x])
  BY <1>1, <1>2 DEF LedgerInv, RowsTyped, Live
<1>6. Live(theses)' = Live(theses) /\ Live(alerts)' = Live(alerts)
  BY DEF Live
<1>7. row.thesis # NoThesis => row.thesis \in Live(theses) /\ theses[row.thesis].user = row.user
  BY DEF LinkAllowed, Owned
<1>8. TenantIsolation'
  <2>1. theses' = theses /\ alerts' = alerts /\ reviews' = reviews /\ watches'[w] = row
    BY <1>1
  <2>2. \A x \in Live(watches)' : watches'[x].thesis # NoThesis =>
           /\ watches'[x].thesis \in Live(theses)'
           /\ theses'[watches'[x].thesis].user = watches'[x].user
    BY <1>5, <1>6, <1>7, <2>1 DEF LedgerInv, TenantIsolation
  <2>3. \A a \in Live(alerts)' :
           /\ alerts'[a].watch \in Live(watches)'
           /\ watches'[alerts'[a].watch].user = alerts'[a].user
           /\ alerts'[a].thesis # NoThesis =>
                 /\ alerts'[a].thesis \in Live(theses)'
                 /\ theses'[alerts'[a].thesis].user = alerts'[a].user
    <3>1. \A a \in Live(alerts) :
             /\ alerts[a].watch \in Live(watches)
             /\ watches[alerts[a].watch].user = alerts[a].user
             /\ alerts[a].thesis # NoThesis =>
                   /\ alerts[a].thesis \in Live(theses)
                   /\ theses[alerts[a].thesis].user = alerts[a].user
      BY DEF LedgerInv, TenantIsolation
    <3> QED
      BY <1>4, <1>6, <2>1, <3>1 DEF Live
  <2>4. \A r \in reviews' : r.thesis \in Live(theses)' /\ theses'[r.thesis].user = r.user
    BY <1>6, <2>1 DEF LedgerInv, TenantIsolation
  <2> QED
    BY <2>2, <2>3, <2>4 DEF TenantIsolation
<1>9. WatchesDistinct'
  <2>1. \A x \in Live(watches) : x # w /\ watches[x].user = row.user
          => ~(watches[x].symbol = row.symbol /\ watches[x].thesis = row.thesis)
    BY DEF Duplicate, Owned
  <2> QED
    BY <1>1, <1>5, <2>1 DEF LedgerInv, WatchesDistinct
<1>10. RowsTyped'
  BY <1>1 DEF LedgerInv, RowsTyped
<1>11. AlertsDated' /\ EpisodesDisjoint'
  BY <1>6 DEF LedgerInv, AlertsDated, EpisodesDisjoint
<1> QED
  BY <1>8, <1>9, <1>10, <1>11 DEF LedgerInv

\* One alert is written: its links, fingerprint and dates stay.
LEMMA AlertWritten ==
    ASSUME LedgerInv, NEW a \in Live(alerts), NEW row \in AlertRows,
           alerts' = [alerts EXCEPT ![a] = row],
           row.user = alerts[a].user, row.watch = alerts[a].watch,
           row.thesis = alerts[a].thesis, row.fingerprint = alerts[a].fingerprint,
           row.first = alerts[a].first, row.last = alerts[a].last,
           UNCHANGED <<theses, watches, reviews, clock>>
    PROVE  LedgerInv'
<1>1. a \in AlertIds /\ alerts'[a] = row /\ row # NoEntry
  BY LedgerAssumption DEF LedgerInv, RowsTyped, Live
<1>2. alerts' \in [AlertIds -> AlertRows \cup {NoEntry}]
  BY <1>1 DEF LedgerInv, RowsTyped
<1>3. \A b \in AlertIds : b # a => alerts'[b] = alerts[b]
  BY DEF LedgerInv, RowsTyped
<1>4. Live(alerts') = Live(alerts)
  BY <1>1, <1>2, <1>3 DEF LedgerInv, RowsTyped, Live
<1>5. \A b \in Live(alerts) :
         /\ alerts'[b].user = alerts[b].user /\ alerts'[b].watch = alerts[b].watch
         /\ alerts'[b].thesis = alerts[b].thesis
         /\ alerts'[b].fingerprint = alerts[b].fingerprint
         /\ alerts'[b].first = alerts[b].first /\ alerts'[b].last = alerts[b].last
  BY <1>1, <1>3 DEF Live, LedgerInv, RowsTyped
<1>6. TenantIsolation' /\ WatchesDistinct'
  BY <1>4, <1>5 DEF LedgerInv, TenantIsolation, WatchesDistinct
<1>7. AlertsDated'
  BY <1>4, <1>5 DEF LedgerInv, AlertsDated
<1>8. EpisodesDisjoint'
  <2> SUFFICES ASSUME NEW b \in Live(alerts), NEW d \in Live(alerts), b # d,
                      alerts[b].watch = alerts[d].watch,
                      alerts[b].fingerprint = alerts[d].fingerprint
               PROVE  alerts[b].last < alerts[d].first \/ alerts[d].last < alerts[b].first
    BY <1>4, <1>5 DEF EpisodesDisjoint
  <2> QED
    BY DEF LedgerInv, EpisodesDisjoint
<1> QED
  BY <1>2, <1>6, <1>7, <1>8 DEF LedgerInv, RowsTyped

\* The dates of an alert are numbers.
LEMMA AlertDates ==
    ASSUME LedgerInv, NEW a \in Live(alerts)
    PROVE  /\ a \in AlertIds /\ alerts[a] \in AlertRows
           /\ alerts[a].first \in Nat /\ alerts[a].last \in Nat /\ clock \in Nat
           /\ alerts[a].first <= alerts[a].last /\ alerts[a].last <= clock
BY DEF LedgerInv, RowsTyped, AlertsDated, Live, AlertRows

\* A set of numbers that is not empty has a least element.
LEMMA LeastNatural ==
    ASSUME NEW T \in SUBSET Nat, T # {}
    PROVE  \E n \in T : \A m \in T : n <= m
<1> DEFINE less == {pair \in Nat \X Nat : pair[1] < pair[2]}
<1>1. IsWellFoundedOn(less, Nat)
  BY NatLessThanWellFounded DEF OpToRel
<1>2. PICK n \in T : \A m \in T : ~(<<m, n>> \in less)
  <2> HIDE DEF less
  <2> QED
    BY <1>1, WFMin
<1>3. \A m \in T : ~(m < n)
  BY <1>2
<1> QED
  BY <1>3

\* The alert that ORDER BY last_seen_at DESC LIMIT 1 returns is one of the
\* item's alerts for the fingerprint, and none of them was seen later.
LEMMA LatestIsLast ==
    ASSUME LedgerInv, NEW w, NEW f, AlertsOf(w, f) # {}
    PROVE  /\ Latest(w, f) \in AlertsOf(w, f)
           /\ \A b \in AlertsOf(w, f) : alerts[b].last <= alerts[Latest(w, f)].last
<1> DEFINE ages == {clock - alerts[a].last : a \in AlertsOf(w, f)}
<1>1. \A a \in AlertsOf(w, f) : clock - alerts[a].last \in Nat /\ alerts[a].last \in Nat
  BY AlertDates DEF AlertsOf
<1>2. ages \in SUBSET Nat /\ ages # {}
  BY <1>1
<1>3. PICK a \in AlertsOf(w, f) : \A m \in ages : clock - alerts[a].last <= m
  <2> HIDE DEF ages
  <2>1. PICK n \in ages : \A m \in ages : n <= m
    BY <1>2, LeastNatural
  <2> QED
    BY <2>1 DEF ages
<1>4. clock \in Nat
  BY DEF LedgerInv, RowsTyped
<1>5. \A b \in AlertsOf(w, f) : alerts[b].last <= alerts[a].last
  <2> TAKE b \in AlertsOf(w, f)
  <2>1. clock - alerts[a].last <= clock - alerts[b].last
    BY <1>3
  <2> QED
    BY <1>1, <1>4, <2>1
<1> QED
  BY <1>5 DEF Latest

\* Where no alert repeats, all of the item's alerts for the fingerprint were
\* last seen before now.
LEMMA UnrepeatedIsOver ==
    ASSUME LedgerInv, NEW w \in Live(watches), NEW f, ~Repeats(w, f), NEW b \in AlertsOf(w, f)
    PROVE  alerts[b].last < clock
<1>1. watches[w].window \in Nat
  BY DEF LedgerInv, RowsTyped, WatchRows, Live
<1>2. Latest(w, f) \in AlertsOf(w, f) /\ alerts[b].last <= alerts[Latest(w, f)].last
  BY LatestIsLast
<1>3. ~(clock - alerts[Latest(w, f)].last <= watches[w].window)
  BY DEF Repeats
<1>4. alerts[b].last \in Nat /\ alerts[Latest(w, f)].last \in Nat /\ clock \in Nat
  BY <1>2, AlertDates DEF AlertsOf
<1> QED
  BY <1>1, <1>2, <1>3, <1>4

\* A repeat changes the count, the last date and the version of a row.
LEMMA RepeatRow ==
    ASSUME NEW row \in AlertRows, NEW at \in Nat
    PROVE  LET next == [row EXCEPT !.count = @ + 1, !.last = at, !.version = @ + 1] IN
           /\ next \in AlertRows /\ next.last = at
           /\ next.user = row.user /\ next.watch = row.watch /\ next.thesis = row.thesis
           /\ next.fingerprint = row.fingerprint /\ next.first = row.first
<1>1. row.count + 1 \in Nat /\ row.version + 1 \in Nat
  BY DEF AlertRows
<1> QED
  BY <1>1 DEF AlertRows

\* A status change changes the status and the version of a row.
LEMMA StatusRow ==
    ASSUME NEW row \in AlertRows, NEW status \in StatusesOfAlerts
    PROVE  LET next == [row EXCEPT !.status = status, !.version = @ + 1] IN
           /\ next \in AlertRows /\ next.last = row.last
           /\ next.user = row.user /\ next.watch = row.watch /\ next.thesis = row.thesis
           /\ next.fingerprint = row.fingerprint /\ next.first = row.first
<1>1. row.version + 1 \in Nat
  BY DEF AlertRows
<1> QED
  BY <1>1 DEF AlertRows

\* One event counts a repeat on the latest alert of its item, which then is
\* last seen now, and starts an episode where the last one is over: what it
\* writes stays within the user, and every episode after the others.
LEMMA IngestKeepsLedger ==
    ASSUME LedgerInv, NEW c \in Callers, IngestEvent(c)
    PROVE  LedgerInv'
<1>1. PICK symbol \in Symbols, e \in Events :
         LET f == <<symbol, e>>
             hit == Matching(UserOf[c], symbol, e)
             repeats == {w \in hit : Repeats(w, f)}
         IN  \E new \in [hit \ repeats -> AlertIds \ Live(alerts)] :
               /\ IsInjective(new)
               /\ alerts' = [a \in AlertIds |->
                    IF \E w \in repeats : a = Latest(w, f)
                    THEN [alerts[a] EXCEPT !.count = @ + 1, !.last = clock, !.version = @ + 1]
                    ELSE IF a \in Range(new)
                    THEN LET w == CHOOSE w \in DOMAIN new : new[w] = a IN
                         [user |-> UserOf[c], watch |-> w, thesis |-> watches[w].thesis,
                          fingerprint |-> f, status |-> "new", count |-> 1,
                          first |-> clock, last |-> clock, version |-> 1]
                    ELSE alerts[a]]
  BY DEF IngestEvent
<1> DEFINE f == <<symbol, e>>
           hit == Matching(UserOf[c], symbol, e)
           repeats == {w \in hit : Repeats(w, f)}
           bumped == {a \in AlertIds : \E w \in repeats : a = Latest(w, f)}
<1>2. PICK new \in [hit \ repeats -> AlertIds \ Live(alerts)] :
         /\ IsInjective(new)
         /\ alerts' = [a \in AlertIds |->
              IF \E w \in repeats : a = Latest(w, f)
              THEN [alerts[a] EXCEPT !.count = @ + 1, !.last = clock, !.version = @ + 1]
              ELSE IF a \in Range(new)
              THEN LET w == CHOOSE w \in DOMAIN new : new[w] = a IN
                   [user |-> UserOf[c], watch |-> w, thesis |-> watches[w].thesis,
                    fingerprint |-> f, status |-> "new", count |-> 1,
                    first |-> clock, last |-> clock, version |-> 1]
              ELSE alerts[a]]
  BY <1>1
<1> DEFINE added == Range(new)
           Item(a) == CHOOSE w \in DOMAIN new : new[w] = a
<1>3. UNCHANGED <<theses, watches, reviews, clock>>
  BY DEF IngestEvent
<1>4. \A w \in hit : w \in Live(watches) /\ w \in WatchIds /\ watches[w].user = UserOf[c]
                     /\ watches[w].thesis \in ThesisIds \cup {NoThesis}
  BY DEF Matching, LedgerInv, RowsTyped, Live, WatchRows
<1>5. f \in Fingerprints
  BY DEF Fingerprints
<1>6. clock \in Nat
  BY DEF LedgerInv, RowsTyped
<1>7. \A w \in repeats : Latest(w, f) \in AlertsOf(w, f) /\ Latest(w, f) \in AlertIds
  <2> TAKE w \in repeats
  <2>1. AlertsOf(w, f) # {}
    BY DEF Repeats
  <2>2. Latest(w, f) \in AlertsOf(w, f)
    BY <2>1, LatestIsLast
  <2> QED
    BY <2>2, AlertDates DEF AlertsOf
<1>8. \A a \in bumped : /\ a \in Live(alerts) /\ alerts[a].fingerprint = f
                        /\ alerts[a].watch \in repeats /\ a = Latest(alerts[a].watch, f)
  BY <1>7 DEF AlertsOf
<1>9. \A a \in added : /\ a \in AlertIds \ Live(alerts) /\ Item(a) \in hit \ repeats
                       /\ new[Item(a)] = a
  BY <1>2 DEF Range
<1>10. \A a \in bumped : alerts'[a] =
          [alerts[a] EXCEPT !.count = @ + 1, !.last = clock, !.version = @ + 1]
  BY <1>2
<1>11. \A a \in added : alerts'[a] =
          [user |-> UserOf[c], watch |-> Item(a), thesis |-> watches[Item(a)].thesis,
           fingerprint |-> f, status |-> "new", count |-> 1,
           first |-> clock, last |-> clock, version |-> 1]
  <2> TAKE a \in added
  <2>1. a \notin bumped /\ a \in AlertIds
    BY <1>8, <1>9
  <2> QED
    BY <1>2, <2>1
<1>12. \A a \in AlertIds : a \notin bumped /\ a \notin added => alerts'[a] = alerts[a]
  BY <1>2
<1>13. DOMAIN alerts' = AlertIds
  BY <1>2
<1> HIDE DEF hit, repeats, bumped, added, Item, f

<1>14. \A a \in bumped :
          /\ alerts'[a] \in AlertRows
          /\ alerts'[a].user = alerts[a].user /\ alerts'[a].watch = alerts[a].watch
          /\ alerts'[a].thesis = alerts[a].thesis /\ alerts'[a].fingerprint = f
          /\ alerts'[a].first = alerts[a].first /\ alerts'[a].last = clock
  <2> TAKE a \in bumped
  <2>1. alerts[a] \in AlertRows
    BY <1>8, AlertDates
  <2> DEFINE next == [alerts[a] EXCEPT !.count = @ + 1, !.last = clock, !.version = @ + 1]
  <2>2. /\ next \in AlertRows /\ next.last = clock
        /\ next.user = alerts[a].user /\ next.watch = alerts[a].watch
        /\ next.thesis = alerts[a].thesis /\ next.fingerprint = alerts[a].fingerprint
        /\ next.first = alerts[a].first
    BY <1>6, <2>1, RepeatRow
  <2>3. alerts'[a] = next
    BY <1>10
  <2> HIDE DEF next
  <2> QED
    BY <1>8, <2>2, <2>3
<1>15. \A a \in added :
          /\ alerts'[a] \in AlertRows
          /\ alerts'[a].user = UserOf[c] /\ alerts'[a].watch = Item(a)
          /\ alerts'[a].thesis = watches[Item(a)].thesis /\ alerts'[a].fingerprint = f
          /\ alerts'[a].first = clock /\ alerts'[a].last = clock
  <2> TAKE a \in added
  <2>1. Item(a) \in WatchIds /\ watches[Item(a)].thesis \in ThesisIds \cup {NoThesis}
    BY <1>4, <1>9
  <2>2. UserOf[c] \in Users /\ "new" \in StatusesOfAlerts
    BY CallerHasUser DEF StatusesOfAlerts
  <2> HIDE DEF Item
  <2>3. [user |-> UserOf[c], watch |-> Item(a), thesis |-> watches[Item(a)].thesis,
         fingerprint |-> f, status |-> "new", count |-> 1,
         first |-> clock, last |-> clock, version |-> 1] \in AlertRows
    BY <1>5, <1>6, <2>1, <2>2 DEF AlertRows
  <2> QED
    BY <1>11, <2>3
<1>16. \A a \in AlertIds : alerts[a] \in AlertRows \cup {NoEntry}
  BY DEF LedgerInv, RowsTyped
<1>17. \A a \in AlertIds : alerts'[a] \in AlertRows \cup {NoEntry}
  BY <1>12, <1>14, <1>15, <1>16
<1>18. RowsTyped'
  <2>1. alerts' = [a \in AlertIds |-> alerts'[a]]
    BY <1>2
  <2>2. alerts' \in [AlertIds -> AlertRows \cup {NoEntry}]
    BY <1>17, <2>1
  <2> QED
    BY <1>3, <2>2 DEF LedgerInv, RowsTyped
<1>19. \A a \in Live(alerts)' :
          /\ a \in AlertIds
          /\ \/ a \in bumped
             \/ a \in added
             \/ a \in Live(alerts) /\ alerts'[a] = alerts[a]
  <2> TAKE a \in Live(alerts)'
  <2>1. a \in AlertIds /\ alerts'[a] # NoEntry
    BY <1>13 DEF Live
  <2>2. a \notin bumped /\ a \notin added => alerts'[a] = alerts[a] /\ a \in Live(alerts)
    BY <1>12, <2>1 DEF LedgerInv, RowsTyped, Live
  <2> QED
    BY <2>1, <2>2
<1>20. TenantIsolation'
  <2>1. \A a \in Live(alerts)' :
           /\ alerts'[a].watch \in Live(watches)
           /\ watches[alerts'[a].watch].user = alerts'[a].user
           /\ alerts'[a].thesis # NoThesis =>
                 /\ alerts'[a].thesis \in Live(theses)
                 /\ theses[alerts'[a].thesis].user = alerts'[a].user
    <3> TAKE a \in Live(alerts)'
    <3>1. CASE a \in added
      BY <1>4, <1>9, <1>15, <3>1 DEF LedgerInv, TenantIsolation
    <3>2. CASE a \in bumped
      BY <1>8, <1>14, <3>2 DEF LedgerInv, TenantIsolation
    <3>3. CASE a \in Live(alerts) /\ alerts'[a] = alerts[a]
      BY <3>3 DEF LedgerInv, TenantIsolation
    <3> QED
      BY <1>19, <3>1, <3>2, <3>3
  <2>2. /\ \A w \in Live(watches) : watches[w].thesis # NoThesis =>
              /\ watches[w].thesis \in Live(theses)
              /\ theses[watches[w].thesis].user = watches[w].user
        /\ \A r \in reviews : r.thesis \in Live(theses) /\ theses[r.thesis].user = r.user
    BY DEF LedgerInv, TenantIsolation
  <2>3. Live(watches)' = Live(watches) /\ Live(theses)' = Live(theses)
    BY <1>3 DEF Live
  <2> QED
    BY <1>3, <2>1, <2>2, <2>3 DEF TenantIsolation
<1>21. WatchesDistinct'
  BY <1>3 DEF LedgerInv, WatchesDistinct, Live
<1>22. AlertsDated'
  <2> SUFFICES ASSUME NEW a \in Live(alerts)'
               PROVE  alerts'[a].first <= alerts'[a].last /\ alerts'[a].last <= clock
    BY <1>3 DEF AlertsDated
  <2>1. CASE a \in added
    BY <1>6, <1>15, <2>1
  <2>2. CASE a \in bumped
    <3>1. /\ alerts[a].first \in Nat /\ alerts[a].last \in Nat
          /\ alerts[a].first <= alerts[a].last /\ alerts[a].last <= clock
      BY <1>8, <2>2, AlertDates
    <3> QED
      BY <1>6, <1>14, <2>2, <3>1
  <2>3. CASE a \in Live(alerts) /\ alerts'[a] = alerts[a]
    BY <2>3, AlertDates
  <2> QED
    BY <1>19, <2>1, <2>2, <2>3
<1>23. EpisodesDisjoint'
  <2> DEFINE Apart(a, b) == alerts'[a].last < alerts'[b].first \/ alerts'[b].last < alerts'[a].first
             Kept(a) == a \in Live(alerts) /\ alerts'[a] = alerts[a]
  <2> SUFFICES ASSUME NEW a \in Live(alerts)', NEW b \in Live(alerts)', a # b,
                      alerts'[a].watch = alerts'[b].watch,
                      alerts'[a].fingerprint = alerts'[b].fingerprint
               PROVE  Apart(a, b)
    BY DEF EpisodesDisjoint
  <2>1. ASSUME Kept(a), Kept(b)
        PROVE  Apart(a, b)
    BY <2>1 DEF LedgerInv, EpisodesDisjoint
  <2>2. ~(a \in bumped /\ b \in bumped)
    BY <1>8, <1>14
  <2>3. ~(a \in added /\ b \in added)
    BY <1>9, <1>15
  <2>4. ~(a \in added /\ b \in bumped) /\ ~(a \in bumped /\ b \in added)
    BY <1>8, <1>9, <1>14, <1>15
  <2>5. ASSUME NEW x \in bumped, NEW y, Kept(y), x # y,
               alerts'[x].watch = alerts'[y].watch, alerts'[x].fingerprint = alerts'[y].fingerprint
        PROVE  alerts'[y].last < alerts'[x].first
    <3> DEFINE w == alerts[x].watch
    <3>1. w \in repeats /\ x = Latest(w, f) /\ x \in Live(alerts) /\ x \in AlertsOf(w, f)
      BY <1>8 DEF AlertsOf
    <3>2. alerts[y].watch = w /\ alerts[y].fingerprint = f /\ alerts[x].fingerprint = f
      BY <1>8, <1>14, <2>5
    <3>3. y \in AlertsOf(w, f) /\ y \in Live(alerts)
      BY <2>5, <3>2 DEF AlertsOf
    <3>4. alerts[y].last <= alerts[x].last
      BY <3>1, <3>3, LatestIsLast
    <3>5. alerts[x].last < alerts[y].first \/ alerts[y].last < alerts[x].first
      BY <2>5, <3>1, <3>2, <3>3 DEF LedgerInv, EpisodesDisjoint
    <3>6. /\ alerts[x].last \in Nat /\ alerts[y].last \in Nat /\ alerts[y].first \in Nat
          /\ alerts[x].first \in Nat /\ alerts[y].first <= alerts[y].last
      BY <3>1, <3>3, AlertDates
    <3>7. alerts[y].last < alerts[x].first
      BY <3>4, <3>5, <3>6
    <3> QED
      BY <1>14, <2>5, <3>7
  <2>6. ASSUME NEW x \in added, NEW y, Kept(y),
               alerts'[x].watch = alerts'[y].watch, alerts'[x].fingerprint = alerts'[y].fingerprint
        PROVE  alerts'[y].last < alerts'[x].first
    <3>1. Item(x) \in hit \ repeats /\ Item(x) \in Live(watches)
      BY <1>4, <1>9
    <3>2. ~Repeats(Item(x), f)
      BY <3>1 DEF repeats
    <3>3. y \in AlertsOf(Item(x), f)
      BY <1>15, <2>6 DEF AlertsOf
    <3>4. alerts[y].last < clock
      BY <3>1, <3>2, <3>3, UnrepeatedIsOver
    <3> QED
      BY <1>15, <2>6, <3>4
  <2> QED
    BY <1>19, <2>1, <2>2, <2>3, <2>4, <2>5, <2>6
<1> QED
  BY <1>18, <1>20, <1>21, <1>22, <1>23 DEF LedgerInv

\* Empty tables are sound.
LEMMA LedgerInitInv == LedgerInit => LedgerInv
<1> SUFFICES ASSUME LedgerInit
             PROVE  LedgerInv
  OBVIOUS
<1>1. Live(theses) = {} /\ Live(watches) = {} /\ Live(alerts) = {} /\ reviews = {} /\ RowsTyped
  BY DEF LedgerInit, Live, RowsTyped
<1> QED
  BY <1>1 DEF LedgerInv, AlertsDated, TenantIsolation, WatchesDistinct, EpisodesDisjoint

\* Steps that write no row keep the invariant; time only goes on.
LEMMA RowsUnwritten ==
    ASSUME LedgerInv, UNCHANGED <<theses, watches, alerts, reviews>>,
           clock' \in Nat, clock <= clock'
    PROVE  LedgerInv'
<1>1. RowsTyped'
  BY DEF LedgerInv, RowsTyped
<1>2. TenantIsolation' /\ WatchesDistinct' /\ EpisodesDisjoint'
  BY DEF LedgerInv, TenantIsolation, WatchesDistinct, EpisodesDisjoint, Live
<1>3. AlertsDated'
  <2> SUFFICES ASSUME NEW a \in Live(alerts)
               PROVE  alerts[a].first <= alerts[a].last /\ alerts[a].last <= clock'
    BY DEF AlertsDated, Live
  <2> QED
    BY AlertDates
<1> QED
  BY <1>1, <1>2, <1>3 DEF LedgerInv

\* Every operation keeps the invariant.
LEMMA LedgerStepInv == LedgerInv /\ [LedgerNext]_ledgerVars => LedgerInv'
<1> SUFFICES ASSUME LedgerInv, [LedgerNext]_ledgerVars
             PROVE  LedgerInv'
  OBVIOUS
<1>0. clock \in Nat
  BY DEF LedgerInv, RowsTyped
<1>1. ASSUME NEW c \in Callers, CreateThesis(c)
      PROVE  LedgerInv'
  <2>1. PICK t \in NewIds(theses), args \in ThesisInputs :
           /\ {"symbol", "status", "terms"} \subseteq DOMAIN args
           /\ theses' = [theses EXCEPT ![t] =
                 [user |-> UserOf[c], symbol |-> args.symbol, status |-> args.status,
                  terms |-> args.terms, version |-> 1]]
    BY <1>1 DEF CreateThesis
  <2> DEFINE row == [user |-> UserOf[c], symbol |-> args.symbol, status |-> args.status,
                     terms |-> args.terms, version |-> 1]
  <2>2. row \in ThesisRows
    BY <2>1, CallerHasUser, LedgerAssumption DEF ThesisRows
  <2>3. t \in ThesisIds /\ theses[t] = NoEntry
    BY DEF NewIds, Live, LedgerInv, RowsTyped
  <2>4. UNCHANGED <<watches, alerts, clock>> /\ reviews' = reviews
    BY <1>1 DEF CreateThesis
  <2> HIDE DEF row
  <2> QED
    BY <2>1, <2>2, <2>3, <2>4, ThesisWritten DEF row
<1>2. ASSUME NEW c \in Callers, UpdateThesis(c)
      PROVE  LedgerInv'
  <2>1. PICK t \in Owned(theses, c), args \in ThesisInputs :
           theses' = [theses EXCEPT ![t] =
              [Merged(@, args) EXCEPT !.version = theses[t].version + 1]]
    BY <1>2 DEF UpdateThesis
  <2>2. t \in ThesisIds /\ theses[t] # NoEntry /\ theses[t] \in ThesisRows
    BY DEF Owned, Live, LedgerInv, RowsTyped
  <2> DEFINE merged == Merged(theses[t], args)
             row == [merged EXCEPT !.version = theses[t].version + 1]
  <2>3. merged \in ThesisRows /\ merged.user = theses[t].user
    BY <2>2, MergedThesis
  <2>4. theses[t].version + 1 \in Nat
    BY <2>2 DEF ThesisRows
  <2>5. theses' = [theses EXCEPT ![t] = row]
    BY <2>1
  <2> HIDE DEF merged
  <2>6. row \in ThesisRows /\ row.user = theses[t].user
    BY <2>3, <2>4 DEF ThesisRows
  <2>7. UNCHANGED <<watches, alerts, clock>> /\ reviews' = reviews
    BY <1>2 DEF UpdateThesis
  <2> HIDE DEF row
  <2> QED
    BY <2>2, <2>5, <2>6, <2>7, ThesisWritten
<1>3. ASSUME NEW c \in Callers, RecordReview(c)
      PROVE  LedgerInv'
  <2>0. PICK t \in Owned(theses, c) : \E status \in {theses[t].status, "invalidated"} :
           /\ theses' = [theses EXCEPT ![t].status = status, ![t].version = @ + 1]
           /\ reviews' = reviews \cup {[thesis |-> t, user |-> UserOf[c]]}
    BY <1>3 DEF RecordReview
  <2>1. PICK status \in {theses[t].status, "invalidated"} :
           /\ theses' = [theses EXCEPT ![t].status = status, ![t].version = @ + 1]
           /\ reviews' = reviews \cup {[thesis |-> t, user |-> UserOf[c]]}
    BY <2>0
  <2>2. /\ t \in ThesisIds /\ theses[t] # NoEntry /\ theses[t] \in ThesisRows
        /\ theses[t].user = UserOf[c]
    BY DEF Owned, Live, LedgerInv, RowsTyped
  <2> DEFINE row == [theses[t] EXCEPT !.status = status, !.version = @ + 1]
  <2>3. row \in ThesisRows /\ row.user = theses[t].user
    <3>1. status \in ThesisStatuses /\ theses[t].version + 1 \in Nat
      BY <2>2 DEF ThesisRows, ThesisStatuses
    <3> QED
      BY <2>2, <3>1 DEF ThesisRows
  <2>4. theses' = [theses EXCEPT ![t] = row]
    BY <2>1, <2>2 DEF LedgerInv, RowsTyped
  <2>5. UNCHANGED <<watches, alerts, clock>>
    BY <1>3 DEF RecordReview
  <2>6. \A r \in reviews' : r \in reviews \/ (r.thesis = t /\ r.user = row.user)
    BY <2>1, <2>2, <2>3
  <2> HIDE DEF row
  <2> QED
    BY <2>2, <2>3, <2>4, <2>5, <2>6, ThesisWritten
<1>4. ASSUME NEW c \in Callers, CreateWatch(c)
      PROVE  LedgerInv'
  <2>1. PICK w \in NewIds(watches), args \in WatchInputs :
           /\ {"symbol", "thesis", "status", "types", "keys", "minScore", "window"}
                 \subseteq DOMAIN args
           /\ LinkAllowed(c, args) /\ ~Duplicate(c, args, w)
           /\ watches' = [watches EXCEPT ![w] =
                 [user |-> UserOf[c], symbol |-> args.symbol, thesis |-> args.thesis,
                  status |-> args.status, types |-> args.types, keys |-> args.keys,
                  minScore |-> args.minScore, window |-> args.window, version |-> 1]]
    BY <1>4 DEF CreateWatch
  <2> DEFINE row == [user |-> UserOf[c], symbol |-> args.symbol, thesis |-> args.thesis,
                     status |-> args.status, types |-> args.types, keys |-> args.keys,
                     minScore |-> args.minScore, window |-> args.window, version |-> 1]
  <2>2. row \in WatchRows
    BY <2>1, CallerHasUser, LedgerAssumption DEF WatchRows
  <2>3. w \in WatchIds /\ watches[w] = NoEntry
    BY DEF NewIds, Live, LedgerInv, RowsTyped
  <2>4. row.user = UserOf[c] /\ LinkAllowed(c, row) /\ ~Duplicate(c, row, w)
    BY <2>1 DEF LinkAllowed, Duplicate
  <2>5. UNCHANGED <<theses, alerts, reviews, clock>> /\ watches' = [watches EXCEPT ![w] = row]
    BY <1>4, <2>1 DEF CreateWatch
  <2> HIDE DEF row
  <2> QED
    BY <2>2, <2>3, <2>4, <2>5, WatchWritten
<1>5. ASSUME NEW c \in Callers, UpdateWatch(c)
      PROVE  LedgerInv'
  <2>1. PICK w \in Owned(watches, c), args \in WatchInputs :
           /\ LinkAllowed(c, Merged(watches[w], args))
           /\ ~Duplicate(c, Merged(watches[w], args), w)
           /\ watches' = [watches EXCEPT ![w] =
                 [Merged(watches[w], args) EXCEPT !.version = @ + 1]]
    BY <1>5 DEF UpdateWatch
  <2>2. /\ w \in WatchIds /\ watches[w] # NoEntry /\ watches[w] \in WatchRows
        /\ watches[w].user = UserOf[c]
    BY DEF Owned, Live, LedgerInv, RowsTyped
  <2> DEFINE merged == Merged(watches[w], args)
             row == [merged EXCEPT !.version = @ + 1]
  <2>3. merged \in WatchRows /\ merged.user = UserOf[c]
    BY <2>2, MergedWatch
  <2>4. watches' = [watches EXCEPT ![w] = row]
    BY <2>1
  <2>5. LinkAllowed(c, merged) /\ ~Duplicate(c, merged, w)
    BY <2>1
  <2> HIDE DEF merged
  <2>6. merged.version + 1 \in Nat
    BY <2>3 DEF WatchRows
  <2>7. /\ row \in WatchRows /\ row.user = UserOf[c]
        /\ row.symbol = merged.symbol /\ row.thesis = merged.thesis
    BY <2>3, <2>6 DEF WatchRows
  <2>8. LinkAllowed(c, row) /\ ~Duplicate(c, row, w)
    BY <2>5, <2>7 DEF LinkAllowed, Duplicate
  <2>9. UNCHANGED <<theses, alerts, reviews, clock>>
    BY <1>5 DEF UpdateWatch
  <2> HIDE DEF row
  <2> QED
    BY <2>2, <2>4, <2>7, <2>8, <2>9, WatchWritten
<1>6. ASSUME NEW c \in Callers, IngestEvent(c)
      PROVE  LedgerInv'
  BY <1>6, IngestKeepsLedger
<1>7. ASSUME NEW c \in Callers, UpdateAlert(c)
      PROVE  LedgerInv'
  <2>1. PICK a \in Owned(alerts, c), status \in AlertStatuses :
           alerts' = [alerts EXCEPT ![a].status = status, ![a].version = @ + 1]
    BY <1>7 DEF UpdateAlert
  <2>2. a \in Live(alerts) /\ a \in AlertIds /\ alerts[a] \in AlertRows
    BY AlertDates DEF Owned
  <2> DEFINE row == [alerts[a] EXCEPT !.status = status, !.version = @ + 1]
  <2>3. /\ row \in AlertRows /\ row.last = alerts[a].last
        /\ row.user = alerts[a].user /\ row.watch = alerts[a].watch
        /\ row.thesis = alerts[a].thesis /\ row.fingerprint = alerts[a].fingerprint
        /\ row.first = alerts[a].first
    BY <2>2, StatusRow, LedgerAssumption
  <2>4. alerts' = [alerts EXCEPT ![a] = row]
    BY <2>1, <2>2 DEF LedgerInv, RowsTyped
  <2>5. UNCHANGED <<theses, watches, reviews, clock>>
    BY <1>7 DEF UpdateAlert
  <2> HIDE DEF row
  <2> QED
    BY <2>2, <2>3, <2>4, <2>5, AlertWritten
<1>8. ASSUME NEW c \in Callers, ReadThesis(c) \/ MatchTheses(c) \/ ReadWatch(c) \/ ReadAlert(c)
      PROVE  LedgerInv'
  <2>1. UNCHANGED <<theses, watches, alerts, reviews, clock>>
    BY <1>8 DEF ReadThesis, MatchTheses, ReadWatch, ReadAlert, ReadRow
  <2> QED
    BY <1>0, <2>1, RowsUnwritten
<1>9. CASE Tick
  BY <1>0, <1>9, RowsUnwritten DEF Tick
<1>10. CASE UNCHANGED ledgerVars
  BY <1>0, <1>10, RowsUnwritten DEF ledgerVars
<1> QED
  BY <1>1, <1>2, <1>3, <1>4, <1>5, <1>6, <1>7, <1>8, <1>9, <1>10 DEF LedgerNext

\* Whatever the sessions write, with the versions they read or without, and
\* whatever events come in: rows link to rows of their user, a user's items
\* differ in symbol or thesis, and the alerts of one item for one fingerprint
\* are episodes apart in time (finance-tools/plugin.py).
THEOREM LedgerSound == LedgerSpec => []LedgerIsSound
<1>1. LedgerInv => LedgerIsSound
  BY DEF LedgerInv, LedgerIsSound
<1> QED
  BY LedgerInitInv, LedgerStepInv, <1>1, PTL DEF LedgerSpec
=============================================================================
