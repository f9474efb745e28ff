-------------------------- MODULE FootballEvidence --------------------------
(***************************************************************************)
(* The football_data tool (tools/football_data.py, football_evidence.py):  *)
(* one call asks several public sources one after the other and joins what *)
(* they say about one fixture.  TheSportsDB is the primary source, without *)
(* which the call fails closed; ESPN, The Odds API and Sporttery are asked *)
(* afterwards and may be missing.                                          *)
(*                                                                         *)
(* The sources are outside: each reply is any of a few payloads, so two    *)
(* replies of a source need not agree and rows of other fixtures come in.  *)
(* ESPN is fetched by a curl process; the call may be cancelled while one  *)
(* runs.                                                                   *)
(***************************************************************************)
EXTENDS Integers, FiniteSets, Sequences

CONSTANTS
    Rows,        \* fixtures the sources know: [teams, date, league]
    Wanted,      \* the fixture the arguments name
    Purposes,    \* the actions: "evidence", "data" (schedule, results,
                 \* standings), "espn" (espn_schedule, espn_summary), "search",
                 \* "form", "h2h", "sporttery"
    NoFixture        \* no fixture; a row that gives no date

\* Teams, date and league tell fixtures apart.
ASSUME FixturesAssumption ==
    /\ Purposes \subseteq {"evidence", "data", "espn", "search", "form", "h2h", "sporttery"}
    /\ NoFixture \notin Rows
    /\ \A r, s \in Rows :
          r.teams = s.teams /\ r.date = s.date /\ r.league = s.league => r = s

VARIABLES
    purpose,     \* the action of the call
    step,        \* the source asked next; "over" once answered
    fixture,     \* the confirmed fixture, or NoFixture
    event,       \* the event ESPN's scoreboard named
    curl,        \* the process of the ESPN fetcher: none, running, ended
    parts,       \* parts of the payload filled from a source
    odds,        \* rows of odds in the payload
    sources,     \* status of each source asked
    answer       \* none, complete, partial, unavailable, cancelled

evidenceVars == <<purpose, step, fixture, event, curl, parts, odds, sources, answer>>

Parts == {"results", "standings", "details"}

EvidenceInit ==
    /\ purpose \in Purposes
    /\ step = CASE purpose \in {"evidence", "data"} -> "league"
                [] purpose = "espn" -> "scoreboard"
                [] purpose \in {"form", "h2h"} -> "team"
                [] OTHER -> purpose
    /\ fixture = NoFixture /\ event = NoFixture /\ curl = "none"
    /\ parts = [p \in Parts |-> NoFixture]
    /\ odds = {}
    /\ sources = <<>>
    /\ answer = "none"

\* _source_json: a request fails, its payload has not the expected shape, or
\* it is read.
Failed == {"unavailable", "rejected"}
Reports(source, status) == sources' = Append(sources, [source |-> source, status |-> status])

Ends(a) == step' = "over" /\ answer' = a

\* The payloads of a list of fixtures: at most two rows.
Payloads == {rows \in SUBSET Rows : Cardinality(rows) <= 2}

SameTeams(row) == row.teams = Wanted.teams
SameDay(row) == row.date = Wanted.date

(***************************************************************************)
(* The primary source.                                                     *)
(***************************************************************************)
\* One league of the country has a reviewed name of the competition.
ResolveLeague ==
    /\ step = "league"
    /\ \/ \E status \in Failed : Reports("competition", status) /\ Ends("unavailable")
       \/ Reports("competition", "success") /\ step' = "schedule" /\ UNCHANGED answer
    /\ UNCHANGED <<purpose, fixture, event, curl, parts, odds>>

\* One row has the two teams, the date and the league.
PrimaryRows(rows) == {r \in rows : SameTeams(r) /\ SameDay(r) /\ r.league = Wanted.league}

ConfirmFixture ==
    /\ step = "schedule" /\ purpose = "evidence"
    /\ \/ /\ \E status \in Failed : Reports("schedule", status)
          /\ Ends("unavailable") /\ UNCHANGED fixture
       \/ \E rows \in Payloads :
             IF Cardinality(PrimaryRows(rows)) = 1
             THEN /\ Reports("schedule", "success")
                  /\ fixture' \in PrimaryRows(rows)
                  /\ step' = "results" /\ UNCHANGED answer
             ELSE Reports("schedule", "rejected") /\ Ends("unavailable") /\ UNCHANGED fixture
    /\ UNCHANGED <<purpose, event, curl, parts, odds>>

\* _get_json: the call ends with what one request brings, or an error.
GetJson(at) ==
    /\ step = at
    /\ Ends("complete") \/ Ends("unavailable")
    /\ UNCHANGED <<purpose, fixture, event, curl, parts, odds, sources>>

\* schedule, results and standings answer with the rows as they come.
ServeData == purpose = "data" /\ GetJson("schedule")
CompetitionSearch == GetJson("search")

\* form and h2h look up the team, then its last matches.
TeamId ==
    /\ step = "team"
    /\ \/ Ends("unavailable")
       \/ step' = "last" /\ UNCHANGED answer
    /\ UNCHANGED <<purpose, fixture, event, curl, parts, odds, sources>>

Form == purpose = "form" /\ GetJson("last")
HeadToHead == purpose = "h2h" /\ GetJson("last")

\* A season's results, then the standings: each missing, empty or filled.
SeasonTable(part, next) ==
    /\ step = part
    /\ \/ \E status \in Failed \cup {"empty"} : Reports(part, status) /\ UNCHANGED parts
       \/ Reports(part, "success") /\ parts' = [parts EXCEPT ![part] = fixture]
    /\ step' = next
    /\ UNCHANGED <<purpose, fixture, event, curl, odds, answer>>

(***************************************************************************)
(* ESPN: the scoreboard of the day names the event, its summary gives the  *)
(* details.                                                                *)
(***************************************************************************)
Curl ==
    /\ step \in {"scoreboard", "summary"} /\ curl # "running"
    /\ curl' = "running"
    /\ UNCHANGED <<purpose, step, fixture, event, parts, odds, sources, answer>>

\* ESPN is left out of the evidence; the direct actions fail.
WithoutEspn(status) ==
    /\ Reports("espn", status)
    /\ IF purpose = "espn" THEN Ends("unavailable")
                           ELSE step' = "odds" /\ UNCHANGED answer

\* No curl, a failed exit, 30 s without one (the process is killed), or an
\* answer of another shape.
EspnFails ==
    /\ step \in {"scoreboard", "summary"}
    /\ curl' = IF curl = "running" THEN "ended" ELSE curl
    /\ \E status \in Failed : WithoutEspn(status)
    /\ UNCHANGED <<purpose, fixture, event, parts, odds>>

\* One event of the league's scoreboard has the fixture's teams and date.
EspnRows(rows) ==
    {r \in rows : r.teams = fixture.teams /\ r.date = fixture.date}

ReadScoreboard ==
    /\ step = "scoreboard" /\ curl = "running" /\ purpose = "evidence"
    /\ curl' = "ended"
    /\ \E rows \in Payloads :
          LET found == EspnRows({r \in rows : r.league = Wanted.league}) IN
          IF Cardinality(found) = 1
          THEN event' \in found /\ step' = "summary" /\ UNCHANGED <<sources, answer>>
          ELSE WithoutEspn("rejected") /\ UNCHANGED event
    /\ UNCHANGED <<purpose, fixture, parts, odds>>

\* Fault: the summary's fixture is not looked at again.
IsOfLeague(row) == row.league = Wanted.league
\* The summary is of that league and still of that fixture.
IsFixture(row) ==
    /\ row.league = Wanted.league
    /\ row.teams = fixture.teams /\ row.date = fixture.date

ReadSummary ==
    /\ step = "summary" /\ curl = "running"
    /\ curl' = "ended"
    /\ \E row \in Rows :
          IF IsFixture(row)
          THEN /\ Reports("espn", "success")
               /\ parts' = [parts EXCEPT !["details"] = row]
               /\ step' = "odds" /\ UNCHANGED answer
          ELSE WithoutEspn("rejected") /\ UNCHANGED parts
    /\ UNCHANGED <<purpose, fixture, event, odds>>

\* espn_schedule and espn_summary check the league and nothing else.
ServeEspn ==
    /\ step = "scoreboard" /\ curl = "running" /\ purpose = "espn"
    /\ curl' = "ended"
    /\ Ends("complete")
    /\ UNCHANGED <<purpose, fixture, event, parts, odds, sources>>

(***************************************************************************)
(* Odds.                                                                   *)
(***************************************************************************)
\* A row of odds may give no time of the match.
OddsRows(rows) == {r \in rows : SameTeams(r) /\ r.date \in {fixture.date, NoFixture}}

AskOdds ==
    /\ step = "odds"
    /\ \/ \E status \in Failed \cup {"empty"} :
             Reports("odds", status) /\ step' = "sporttery" /\ UNCHANGED odds
       \/ \E rows \in Payloads, dated \in BOOLEAN :
             LET given == {IF dated THEN r ELSE [r EXCEPT !.date = NoFixture] : r \in rows} IN
             IF OddsRows(given) # {}
             THEN /\ Reports("odds", "success")
                  /\ odds' = OddsRows(given) /\ step' = "join"
             ELSE Reports("odds", "empty") /\ step' = "sporttery" /\ UNCHANGED odds
    /\ UNCHANGED <<purpose, fixture, event, curl, parts, answer>>

\* The fallback: the one match on sale whose names contain both teams'.
AskSporttery ==
    /\ step = "sporttery" /\ purpose = "evidence"
    /\ \/ \E status \in Failed : Reports("sporttery", status) /\ UNCHANGED odds
       \/ \E rows \in Payloads :
             LET found == {r \in rows : SameTeams(r)} IN
             IF Cardinality(found) = 1
             THEN Reports("sporttery", "success") /\ odds' = found
             ELSE Reports("sporttery", "empty") /\ UNCHANGED odds
    /\ step' = "join"
    /\ UNCHANGED <<purpose, fixture, event, curl, parts, answer>>

\* The direct action: the first match whose names contain both teams'.
SportteryMatch ==
    /\ step = "sporttery" /\ purpose = "sporttery"
    /\ \/ Ends("unavailable") /\ UNCHANGED odds
       \/ /\ Ends("complete")
          /\ odds' \in {{row} : row \in {r \in Rows : SameTeams(r)}} \cup {{}}
    /\ UNCHANGED <<purpose, fixture, event, curl, parts, sources>>

Degraded == \E i \in DOMAIN sources : sources[i].status # "success"

Join ==
    /\ step = "join"
    /\ Ends(IF Degraded THEN "partial" ELSE "complete")
    /\ UNCHANGED <<purpose, fixture, event, curl, parts, odds, sources>>

\* The task is cancelled at the await it is at; a curl process is killed.
CancelCall ==
    /\ step # "over"
    /\ Ends("cancelled")
    /\ curl' = IF curl = "running" THEN "ended" ELSE curl
    /\ UNCHANGED <<purpose, fixture, event, parts, odds, sources>>

EvidenceNext ==
    \/ ResolveLeague \/ ConfirmFixture
    \/ ServeData \/ CompetitionSearch \/ TeamId \/ Form \/ HeadToHead \/ SportteryMatch
    \/ SeasonTable("results", "standings") \/ SeasonTable("standings", "scoreboard")
    \/ Curl \/ EspnFails \/ ReadScoreboard \/ ReadSummary \/ ServeEspn
    \/ AskOdds \/ AskSporttery \/ Join \/ CancelCall

EvidenceSpec == EvidenceInit /\ [][EvidenceNext]_evidenceVars

(***************************************************************************)
(* Properties.                                                             *)
(***************************************************************************)
\* Though the sources are asked at different times, the details are of the
\* confirmed fixture, and so are odds of The Odds API that name a date; nothing
\* is there without a fixture ("fails closed").  Odds of Sporttery are of the
\* two teams only: no date is asked for (football_data.py:735).
Agrees(row) == row.teams = fixture.teams /\ row.date \in {fixture.date, NoFixture}

FromOddsApi ==
    \E i \in DOMAIN sources : sources[i] = [source |-> "odds", status |-> "success"]

RowsAreOfTheMatch ==
    /\ \A row \in odds : SameTeams(row)
    /\ parts["details"] # NoFixture => parts["details"] = fixture
    /\ FromOddsApi => \A row \in odds : Agrees(row)
    /\ fixture = NoFixture /\ purpose = "evidence" => odds = {} /\ \A p \in Parts : parts[p] = NoFixture

\* An answer that says it is complete misses nothing: a part that is absent
\* shows as a source that did not succeed.
CompleteMissesNothing ==
    answer = "complete" /\ purpose = "evidence" =>
        odds # {} /\ \A p \in Parts : parts[p] # NoFixture

\* However the call ends, no curl process is left behind.
NoProcessLeft == step = "over" => curl # "running"

\* All of them.
EvidenceIsSound == RowsAreOfTheMatch /\ CompleteMissesNothing /\ NoProcessLeft
=============================================================================
