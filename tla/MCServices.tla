----------------------------- MODULE MCServices -----------------------------
(***************************************************************************)
(* The services around the task queue, instantiated for TLC side by side:  *)
(* every behaviour is one of exactly one part, and the others stay in      *)
(* their initial states.  The parts share no variable; where the code      *)
(* shares state between them (an agent's row, a session), each part models *)
(* what the other may do to it.                                            *)
(***************************************************************************)
EXTENDS AgentTeams, GatewayIdentity, TurnSessions, RunStream,
        FinanceLedger, GoImport, RuntimeLifecycle, FootballEvidence, ScriptCache,
        ProviderConfig, TLC

CONSTANTS
    Checked,                    \* the parts to be checked
    h1, h2, x1, c1, d1, o1, \* handlers, a turn, agent sessions, operators
    m1, q1, r1, r2, u, v,       \* a team, a request id, roles, users
    AAPL, MSFT, e1, b1,         \* instruments, an event, an agent
    None

VARIABLE part

(***************************************************************************)
(* Teams: one user's requests h1 and h2 and a root turn x1, over an empty  *)
(* database and over one with a team.  Only h1 writes a stored team's row. *)
(***************************************************************************)
TeamCalls ==
    h1 :> {"archive", "restore", "delete", "rename", "member", "add", "drop", "create",
           "new", "look"}
      @@ h2 :> {"create", "touch"}

NoTables ==
    [teams |-> m1 :> None, members |-> <<None, None, None>>, agents |-> <<0, 0, 0>>]
OneTeam ==
    [teams |-> m1 :> [request |-> q1, status |-> "active", revision |-> 1],
     members |-> <<[team |-> m1, role |-> "coordinator", status |-> "active"],
                   [team |-> m1, role |-> r1, status |-> "active"], None>>,
     agents |-> <<1, 1, 0>>]
Tables == {NoTables, OneTeam}

\* Identity: of the two requests in flight only one administers users.
IdentityCalls ==
    h1 :> {"onboard", "login", "users"}
      @@ h2 :> {"onboard", "login", "logout", "keys", "agents"}

(***************************************************************************)
(* Sessions: a provider that sends a missing id and one it used before; an *)
(* imported history with an orphan, a missing and a repeated id.           *)
(***************************************************************************)
SomeIds == {<<>>, <<"x">>}
SomeCalls == {<<>>, <<<<>>, <<"x">>>>}

OldHistory ==
    LET asks(id) == [Text EXCEPT !.calls = <<id>>]
        result(id) == Tool(id, TRUE)
    IN <<User, result(<<"x">>), asks(<<>>), result(<<>>), asks(<<"x">>), result(<<"x">>),
         asks(<<"x">>), Text>>
OldHistories == {OldHistory}

(***************************************************************************)
(* The ledger: sessions c1 of user u and d1 of user v, one thesis, two     *)
(* watchlist items and two alerts.                                         *)
(***************************************************************************)
TwoTenants == c1 :> u @@ d1 :> v

Item(symbol, thesis, minScore, window) ==
    [symbol |-> symbol, thesis |-> thesis, status |-> "active", types |-> {},
     keys |-> {e1}, minScore |-> minScore, window |-> window]

\* A thesis on AAPL, and a change of its symbol.
TheseInputs ==
    {[symbol |-> AAPL, status |-> "active", terms |-> {e1}], [symbol |-> MSFT]}

\* An item of its own, an item on the thesis that needs the thesis's terms, and
\* two changes.
ItemInputs ==
    {Item(AAPL, NoThesis, 1, 0), Item(AAPL, 1, 2, 0),
     [thesis |-> NoThesis], [symbol |-> MSFT, status |-> "paused"]}

(***************************************************************************)
(* Migration: the second Go transaction leaves dangling references (an     *)
(* agent without its user and what hangs on it) and a repeated slot.       *)
(***************************************************************************)
GoRow(table, id, user, agent, key) ==
    [table |-> table, id |-> id, user |-> user, agent |-> agent, key |-> key]
GoConfig(id, user, slot, place) ==
    [table |-> "configs", id |-> id, user |-> user, agent |-> None, key |-> None,
     slot |-> slot, place |-> place]

GoTransactions == <<
    {GoRow("users", "u1", None, None, None), GoRow("agents", "a1", "u1", None, None),
     GoRow("apikeys", "k1", "u1", None, None),
     GoRow("apikey_agents", "k1:a1", None, "a1", "k1"),
     GoConfig("c1", None, "system", 1)},
    {GoRow("agents", "a2", "u2", None, None), GoRow("agents", "a3", "u1", None, None),
     GoRow("apikey_agents", "k1:a2", None, "a2", "k1"),
     GoRow("apikey_agents", "k1:a3", None, "a3", "k1"),
     GoRow("cron_jobs", "j1", None, "a1", None), GoRow("sessions", "s1", "u1", "a2", None),
     GoConfig("c2", None, "system", 2), GoConfig("c3", "u2", "u2", 3)} >>

GoData == <<"agents/a1", "skills/s">>
Directories == "agents/a1" :> "a1" @@ "skills/s" :> None

TwoProviders == <<"p1", "p2">>
TwoPlugins == <<"x1", "x2">>

(***************************************************************************)
(* Evidence: rows of another day, of another match and of another league.  *)
(***************************************************************************)
Match(names, day, league) == [teams |-> names, date |-> day, league |-> league]
TheMatch == Match("ab", 1, "L")
Fixtures == {TheMatch, Match("ab", 2, "L"), Match("ac", 1, "L"), Match("ab", 1, "M")}

\* Providers: agent b1 of user u, administrator v.
BotOf == b1 :> u
ProviderEdits == h1 :> {"save", "update"} @@ h2 :> {"delete"}

-----------------------------------------------------------------------------
allVars == <<part, teamVars, identityVars, turnVars, streamVars,
             ledgerVars, importVars, lifeVars, evidenceVars, cacheVars, providerVars>>

\* The parts that stay still have one initial state each.
Init ==
    /\ part \in Checked
    /\ TeamsInit /\ IdentityInit /\ TurnInit /\ StreamInit
    /\ LedgerInit /\ ImportInit /\ LifeInit /\ EvidenceInit /\ CacheInit /\ ProviderInit
    /\ part # "teams" => agents[1] = 0
    /\ part # "turns" => session = None
    /\ part # "stream" => kind = "sse"
    /\ part # "evidence" => purpose = "data"

Next ==
    /\ UNCHANGED part
    /\ \/ part = "teams" /\ TeamsNext
       \/ part # "teams" /\ UNCHANGED teamVars
    /\ \/ part = "identity" /\ IdentityNext
       \/ part # "identity" /\ UNCHANGED identityVars
    /\ \/ part = "turns" /\ TurnNext
       \/ part # "turns" /\ UNCHANGED turnVars
    /\ \/ part = "stream" /\ StreamNext
       \/ part # "stream" /\ UNCHANGED streamVars
    /\ \/ part = "ledger" /\ LedgerNext
       \/ part # "ledger" /\ UNCHANGED ledgerVars
    /\ \/ part = "import" /\ ImportNext
       \/ part # "import" /\ UNCHANGED importVars
    /\ \/ part = "life" /\ LifeNext
       \/ part # "life" /\ UNCHANGED lifeVars
    /\ \/ part = "evidence" /\ EvidenceNext
       \/ part # "evidence" /\ UNCHANGED evidenceVars
    /\ \/ part = "cache" /\ CacheNext
       \/ part # "cache" /\ UNCHANGED cacheVars
    /\ \/ part = "providers" /\ ProviderNext
       \/ part # "providers" /\ UNCHANGED providerVars

ServicesSpec == Init /\ [][Next]_allVars /\ (part = "stream" => StreamFairness)

\* manager.py:185: whatever becomes of its run, a reader that stays is told the end.
StayingReaderEnds == part = "stream" => ReaderEnds
=============================================================================
