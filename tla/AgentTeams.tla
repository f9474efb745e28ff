----------------------------- MODULE AgentTeams -----------------------------
(***************************************************************************)
(* Agent teams of one user: the gateway's handlers (gateway/router.py,     *)
(* teams.py), the rows they read and write, and what the agent manager     *)
(* keeps in memory for the agents (agent/manager.py): profiles, bus        *)
(* handlers and the running root turns.                                    *)
(*                                                                         *)
(* Handlers and turns are tasks of one event loop.  A unit of work takes   *)
(* SQLite's write lock only with its first write, so the rows a handler    *)
(* read before it may have changed: reading is one step, the transaction   *)
(* that writes is another, and save_* writes the whole record it was given *)
(* (a merge: every column, inserting the row when it is gone).             *)
(***************************************************************************)
EXTENDS Integers, FiniteSets

CONSTANTS
    Handlers,     \* HTTP requests that change or look at agents and teams
    Turns,        \* root turns started by chat requests
    OpsOf,        \* OpsOf[h]: the endpoints handler h may call
    TeamIds, RequestIds, AgentIds, SpecialistRoles,
    Stored,       \* what the tables may hold when the manager starts
    MaxRequests,  \* bound on the requests begun
    NoRow, Nobody

Actors == Handlers \cup Turns

Coordinator == "coordinator"
Statuses == {"active", "archived"}
TeamRows == [request : RequestIds, status : Statuses, revision : Nat]
MemberRows == [team : TeamIds, role : SpecialistRoles \cup {Coordinator}, status : Statuses]

\* Rows refer to rows that are there, and repeat no role and no request id.
KeysHold(ts, ms, as) ==
    /\ \A a \in AgentIds : ms[a] # NoRow => ts[ms[a].team] # NoRow /\ as[a] # 0
    /\ \A a, b \in AgentIds :
          /\ ms[a] # NoRow /\ ms[b] # NoRow
          /\ ms[a].team = ms[b].team /\ ms[a].role = ms[b].role
          => a = b
    /\ \A t, u \in TeamIds :
          ts[t] # NoRow /\ ts[u] # NoRow /\ ts[t].request = ts[u].request => t = u

\* A row is not its absence, requests are no turns, and the tables are sound
\* when the manager starts.
ASSUME TeamsAssumption ==
    /\ NoRow \notin TeamRows \cup MemberRows /\ Nobody \notin Actors
    /\ Handlers \cap Turns = {} /\ Coordinator \notin SpecialistRoles
    /\ \A tables \in Stored :
          /\ tables.teams \in [TeamIds -> TeamRows \cup {NoRow}]
          /\ tables.members \in [AgentIds -> MemberRows \cup {NoRow}]
          /\ tables.agents \in [AgentIds -> Nat]
          /\ KeysHold(tables.teams, tables.members, tables.agents)
          /\ \A t \in TeamIds : tables.teams[t] # NoRow =>
                \E a \in AgentIds :
                   /\ tables.members[a] # NoRow /\ tables.members[a].team = t
                   /\ tables.members[a].role # Coordinator
                   /\ tables.members[a].status = "active"

VARIABLES
    teams,        \* agent_teams: [request, status, revision] of an id, or NoRow
    members,      \* agent_team_members, by agent: [team, role, status], or NoRow
    agents,       \* agents: the row's updated_at, 0 without a row
    now,          \* the latest updated_at given to an agent
    profiles,     \* manager._profiles: updated_at of the agent it was loaded for, or 0
    registered,   \* agents with a handler on the bus
    lock,         \* who holds manager._profile_lock
    job,          \* where each request or turn is, and what it read
    served,       \* requests begun so far
    escaped       \* turns accepted but not yet queued when their agent's roots were cancelled

teamVars == <<teams, members, agents, now, profiles, registered, lock, job, served, escaped>>

NoJob == [pc |-> "idle", op |-> "none", team |-> Nobody, row |-> NoRow, agent |-> Nobody,
         member |-> NoRow, gone |-> {}, todo |-> {}, how |-> "reload", new |-> FALSE]

\* manager.start has loaded the profile of every stored agent.
TeamsInit ==
    /\ \E tables \in Stored :
          teams = tables.teams /\ members = tables.members /\ agents = tables.agents
    /\ now = 1
    /\ profiles = agents
    /\ registered = {a \in AgentIds : agents[a] # 0}
    /\ lock = Nobody
    /\ job = [p \in Actors |-> NoJob]
    /\ served = 0
    /\ escaped = {}

(***************************************************************************)
(* Reading the tables.                                                     *)
(***************************************************************************)
LiveTeams == {t \in TeamIds : teams[t] # NoRow}
LiveAgents == {a \in AgentIds : agents[a] # 0}

\* Ids are drawn at random; numbered in the order in which they are drawn.
Unused == {a \in AgentIds : agents[a] = 0 /\ members[a] = NoRow /\ profiles[a] = 0}
Next1 == {a \in Unused : \A b \in Unused : a <= b}
Next2 == {a \in Unused \ Next1 : \A b \in Unused \ Next1 : a <= b}
Roster(t) == {a \in AgentIds : members[a] # NoRow /\ members[a].team = t}
ActiveSpecialists(t) ==
    {a \in Roster(t) : members[a].role # Coordinator /\ members[a].status = "active"}

\* An agent without a team works; a member when its team and itself are active.
Suspended(a) ==
    members[a] # NoRow
      /\ ~(teams[members[a].team].status = "active" /\ members[a].status = "active")
AcceptsTasks(a) == agents[a] # 0 /\ ~ Suspended(a)

WithStamps(as) == {<<a, agents[a]>> : a \in as \cap LiveAgents}

(***************************************************************************)
(* Steps of the job of p.                                                  *)
(***************************************************************************)
May(h, op) == job[h].pc = "idle" /\ op \in OpsOf[h] /\ served < MaxRequests
Goes(p, next) == job' = [job EXCEPT ![p] = next]
Writes(h, op) == job[h].pc = "write" /\ job[h].op = op

\* The row the handler read, with another status and the next revision; a row
\* inserted again must not repeat a request id.
PutTeam(h, status) ==
    LET t == job[h].team IN
    /\ \A u \in LiveTeams \ {t} : teams[u].request # job[h].row.request
    /\ teams' = [teams EXCEPT ![t] =
          [job[h].row EXCEPT !.status = status, !.revision = @ + 1]]

(***************************************************************************)
(* Reads: a handler that gets past its checks keeps what it read.  The     *)
(* revision the caller gave is that of the row, or the request ends here.  *)
(***************************************************************************)
ReadTeam(h) ==
    \E op \in {"rename", "archive", "restore", "delete", "add"}, t \in LiveTeams :
        /\ May(h, op)
        /\ op = "delete" => teams[t].status = "archived"
        /\ op = "add" => teams[t].status = "active"
        /\ Goes(h, [NoJob EXCEPT !.pc = "write", !.op = op, !.team = t, !.row = teams[t],
                                !.gone = Roster(t)])
        /\ served' = served + 1
        /\ UNCHANGED <<teams, members, agents, now, profiles, registered, lock, escaped>>

\* The coordinator and the last active specialist cannot be archived.
ReadMember(h) ==
    \E a \in AgentIds, status \in {"active", "archived"} :
        /\ May(h, "member") /\ members[a] # NoRow
        /\ status = "archived" =>
              /\ members[a].role # Coordinator
              /\ members[a].status = "active" =>
                    Cardinality(ActiveSpecialists(members[a].team)) > 1
        /\ Goes(h, [NoJob EXCEPT !.pc = "write", !.op = "member", !.team = members[a].team,
                       !.row = teams[members[a].team], !.agent = a,
                       !.member = [members[a] EXCEPT !.status = status]])
        /\ served' = served + 1
        /\ UNCHANGED <<teams, members, agents, now, profiles, registered, lock, escaped>>

\* No team for the request id: preview_team, then TeamService.create.
ReadRequest(h) ==
    \E r \in RequestIds :
        /\ May(h, "create")
        /\ \A t \in LiveTeams : teams[t].request # r
        /\ Goes(h, [NoJob EXCEPT !.pc = "write", !.op = "create",
                       !.row = [request |-> r, status |-> "active", revision |-> 1]])
        /\ served' = served + 1
        /\ UNCHANGED <<teams, members, agents, now, profiles, registered, lock, escaped>>

\* Endpoints about one agent: change it, delete it (members are refused), or
\* only resolve its profile.
ReadAgent(h) ==
    \E op \in {"touch", "drop", "look"}, a \in LiveAgents :
        /\ May(h, op)
        /\ op = "drop" => members[a] = NoRow
        /\ Goes(h, IF op = "look"
                   THEN [NoJob EXCEPT !.pc = "reload", !.how = "ensure",
                                     !.todo = WithStamps({a})]
                   ELSE [NoJob EXCEPT !.pc = "write", !.op = op, !.agent = a])
        /\ served' = served + 1
        /\ UNCHANGED <<teams, members, agents, now, profiles, registered, lock, escaped>>

(***************************************************************************)
(* Transactions.                                                           *)
(***************************************************************************)
\* A constraint or the lock's timeout refuses the transaction.
Rollback(h) ==
    /\ job[h].pc = "write"
    /\ Goes(h, NoJob)
    /\ UNCHANGED <<teams, members, agents, now, profiles, registered, lock, served, escaped>>

\* The team, a coordinator and one specialist at once; then reload_profiles.
Create(h) ==
    \E t \in TeamIds \ LiveTeams, c \in Next1, s \in Next2, role \in SpecialistRoles :
        /\ Writes(h, "create")
        /\ \A u \in LiveTeams : teams[u].request # job[h].row.request
        /\ teams' = [teams EXCEPT ![t] = job[h].row]
        /\ members' = [members EXCEPT
              ![c] = [team |-> t, role |-> Coordinator, status |-> "active"],
              ![s] = [team |-> t, role |-> role, status |-> "active"]]
        /\ agents' = [agents EXCEPT ![c] = now, ![s] = now]
        /\ Goes(h, [NoJob EXCEPT !.pc = "list", !.op = "create"])
        /\ UNCHANGED <<now, profiles, registered, lock, served, escaped>>

\* A concurrent retry lost to the first committed team and answers with it.
CreateExists(h) ==
    /\ Writes(h, "create")
    /\ \E t \in LiveTeams : teams[t].request = job[h].row.request
    /\ Goes(h, [NoJob EXCEPT !.pc = "list", !.op = "create"])
    /\ UNCHANGED <<teams, members, agents, now, profiles, registered, lock, served, escaped>>

\* Fault: the role is not looked at.
AnyRole(t, role) == TRUE
\* No other member of the team has the role.
FreeRole(t, role) == \A a \in Roster(t) : members[a].role # role

AddMember(h) ==
    \E s \in Next1, role \in SpecialistRoles :
        LET t == job[h].team IN
        /\ Writes(h, "add")
        /\ FreeRole(t, role)
        /\ PutTeam(h, "active")
        /\ members' = [members EXCEPT ![s] = [team |-> t, role |-> role, status |-> "active"]]
        /\ agents' = [agents EXCEPT ![s] = now]
        /\ Goes(h, [NoJob EXCEPT !.pc = "list", !.op = "add", !.team = t])
        /\ UNCHANGED <<now, profiles, registered, lock, served, escaped>>

Rename(h) ==
    /\ Writes(h, "rename")
    /\ PutTeam(h, job[h].row.status)
    /\ Goes(h, NoJob)
    /\ UNCHANGED <<members, agents, now, profiles, registered, lock, served, escaped>>

Archive(h) ==
    /\ Writes(h, "archive")
    /\ PutTeam(h, "archived")
    /\ Goes(h, [NoJob EXCEPT !.pc = "cancel", !.gone = Roster(job[h].team)])
    /\ UNCHANGED <<members, agents, now, profiles, registered, lock, served, escaped>>

Restore(h) ==
    /\ Writes(h, "restore")
    /\ PutTeam(h, "active")
    /\ Goes(h, [NoJob EXCEPT !.pc = "reload", !.todo =
          WithStamps({a \in Roster(job[h].team) : members[a].status = "active"})])
    /\ UNCHANGED <<members, agents, now, profiles, registered, lock, served, escaped>>

\* A member row inserted again needs its agent, which is in no other team, and
\* its role.
KeysAllow(a, row) ==
    /\ agents[a] # 0
    /\ members[a] # NoRow => members[a].team = row.team
    /\ \A b \in Roster(row.team) : members[b].role = row.role => b = a

SaveMember(h) ==
    LET a == job[h].agent
        gone == IF job[h].member.status = "archived" THEN {a} ELSE {}
    IN
    /\ Writes(h, "member")
    /\ KeysAllow(a, job[h].member)
    /\ PutTeam(h, job[h].row.status)
    /\ members' = [members EXCEPT ![a] = job[h].member]
    /\ Goes(h, [NoJob EXCEPT !.pc = IF gone = {} THEN "reload" ELSE "cancel",
                   !.gone = gone, !.todo = WithStamps(Roster(job[h].team) \ gone)])
    /\ UNCHANGED <<agents, now, profiles, registered, lock, served, escaped>>

\* The team's row, its members by cascade, and the agents it had when read,
\* which must be no members of another team.
DeleteTeam(h) ==
    LET t == job[h].team IN
    /\ Writes(h, "delete")
    /\ \A a \in job[h].gone : members[a] # NoRow => members[a].team = t
    /\ teams' = [teams EXCEPT ![t] = NoRow]
    /\ members' = [a \in AgentIds |-> IF a \in Roster(t) THEN NoRow ELSE members[a]]
    /\ agents' = [a \in AgentIds |-> IF a \in job[h].gone THEN 0 ELSE agents[a]]
    /\ Goes(h, [NoJob EXCEPT !.pc = "cancel", !.gone = job[h].gone])
    /\ UNCHANGED <<now, profiles, registered, lock, served, escaped>>

Touch(h) ==
    \E how \in {"ensure", "reload"} :
        LET a == job[h].agent IN
        /\ Writes(h, "touch")
        /\ now' = now + 1
        /\ agents' = [agents EXCEPT ![a] = now + 1]
        /\ Goes(h, [NoJob EXCEPT !.pc = "reload", !.how = how, !.todo = {<<a, now + 1>>}])
        /\ UNCHANGED <<teams, members, profiles, registered, lock, served, escaped>>

\* create_agent: a row without a team, a profile or a reload.
NewAgent(h) ==
    \E a \in Next1 :
        /\ May(h, "new")
        /\ agents' = [agents EXCEPT ![a] = now]
        /\ served' = served + 1
        /\ UNCHANGED <<teams, members, now, profiles, registered, lock, job, escaped>>

DropAgent(h) ==
    LET a == job[h].agent IN
    /\ Writes(h, "drop")
    /\ members[a] = NoRow
    /\ agents' = [agents EXCEPT ![a] = 0]
    /\ Goes(h, [NoJob EXCEPT !.pc = "remove", !.gone = {a}])
    /\ UNCHANGED <<teams, members, now, profiles, registered, lock, served, escaped>>

(***************************************************************************)
(* After the commit: roots, profiles and bus handlers.                     *)
(***************************************************************************)
\* The team's agents, or every agent, read again in a unit of work of its own.
ListAgents(h) ==
    /\ job[h].pc = "list"
    /\ Goes(h, [NoJob EXCEPT !.pc = "reload", !.todo =
          WithStamps(IF job[h].op = "add" THEN Roster(job[h].team) ELSE AgentIds)])
    /\ UNCHANGED <<teams, members, agents, now, profiles, registered, lock, served, escaped>>

\* Fault: only the first agent is looked up.
RootsOfOne(gone, pc) ==
    {x \in Turns : job[x].pc = pc /\ job[x].agent \in gone /\ \A a \in gone : job[x].agent <= a}
\* The turns of these agents that are so far.
RootsOf(gone, pc) == {x \in Turns : job[x].pc = pc /\ job[x].agent \in gone}

\* cancel_agent_roots: the tracked roots of these agents.
CancelRoots(h) ==
    LET of(pc) == RootsOf(job[h].gone, pc) IN
    /\ job[h].pc = "cancel"
    /\ job' = [p \in Actors |->
          IF p = h THEN [job[h] EXCEPT !.pc = "remove"]
          ELSE IF p \in of("running") THEN NoJob ELSE job[p]]
    /\ escaped' = (escaped \cup of("select")) \ of("running")
    /\ UNCHANGED <<teams, members, agents, now, profiles, registered, lock, served>>

\* remove_profile, which does not take the profile lock.
RemoveProfiles(h) ==
    LET gone == job[h].gone IN
    /\ job[h].pc = "remove"
    /\ profiles' = [a \in AgentIds |-> IF a \in gone THEN 0 ELSE profiles[a]]
    /\ registered' = registered \ gone
    /\ Goes(h, [job[h] EXCEPT !.pc = "reload", !.gone = {}])
    /\ UNCHANGED <<teams, members, agents, now, lock, served, escaped>>

\* The profile's agent is the record the caller read, however old.
LockProfile(p) ==
    \E e \in job[p].todo :
        /\ job[p].pc = "reload" /\ lock = Nobody
        /\ IF job[p].how = "ensure" /\ profiles[e[1]] = e[2]
           THEN Goes(p, [job[p] EXCEPT !.todo = @ \ {e}]) /\ UNCHANGED lock
           ELSE /\ lock' = p
                /\ Goes(p, [job[p] EXCEPT !.pc = "load", !.agent = e[1],
                                          !.new = profiles[e[1]] = 0])
        /\ UNCHANGED <<teams, members, agents, now, profiles, registered, served, escaped>>

\* reload_profile looks for an older profile now, ensure_profile looked before
\* it loaded the new one.
StoreProfile(p) ==
    \E e \in job[p].todo :
        LET a == job[p].agent IN
        /\ job[p].pc = "load" /\ e[1] = a
        /\ registered' =
              IF (IF job[p].how = "ensure" THEN job[p].new ELSE profiles[a] = 0)
              THEN registered \cup {a} ELSE registered
        /\ profiles' = [profiles EXCEPT ![a] = e[2]]
        /\ lock' = Nobody
        /\ Goes(p, [job[p] EXCEPT !.pc = "reload", !.todo = @ \ {e}])
        /\ UNCHANGED <<teams, members, agents, now, served, escaped>>

Respond(h) ==
    /\ job[h].pc = "reload" /\ job[h].todo = {}
    /\ Goes(h, NoJob)
    /\ UNCHANGED <<teams, members, agents, now, profiles, registered, lock, served, escaped>>

(***************************************************************************)
(* A root turn: manager.stream, then the run it tracks.                    *)
(***************************************************************************)
OpenTurn(x) ==
    \E a \in LiveAgents :
        /\ job[x].pc = "idle" /\ served < MaxRequests
        /\ Goes(x, [NoJob EXCEPT !.pc = "reload", !.how = "ensure", !.agent = a,
                                !.todo = WithStamps({a})])
        /\ served' = served + 1
        /\ UNCHANGED <<teams, members, agents, now, profiles, registered, lock, escaped>>

CheckAccepts(x) ==
    /\ job[x].pc = "reload" /\ job[x].todo = {}
    /\ Goes(x, IF AcceptsTasks(job[x].agent) THEN [job[x] EXCEPT !.pc = "select"] ELSE NoJob)
    /\ UNCHANGED <<teams, members, agents, now, profiles, registered, lock, served, escaped>>

\* provider_selection has answered: the root is tracked and its job submitted.
TrackRoot(x) ==
    /\ job[x].pc = "select"
    /\ Goes(x, [job[x] EXCEPT !.pc = "running"])
    /\ UNCHANGED <<teams, members, agents, now, profiles, registered, lock, served, escaped>>

EndTurn(x) ==
    /\ job[x].pc \in {"select", "running"}
    /\ Goes(x, NoJob)
    /\ escaped' = escaped \ {x}
    /\ UNCHANGED <<teams, members, agents, now, profiles, registered, lock, served>>

Reads(h) == ReadTeam(h) \/ ReadMember(h) \/ ReadRequest(h) \/ ReadAgent(h)
Transaction(h) ==
    \/ Create(h) \/ CreateExists(h) \/ AddMember(h) \/ Rename(h) \/ Archive(h) \/ Restore(h)
    \/ SaveMember(h) \/ DeleteTeam(h) \/ Touch(h) \/ NewAgent(h) \/ DropAgent(h)
    \/ Rollback(h)
TeamsNext ==
    \/ \E h \in Handlers :
          \/ Reads(h) \/ Transaction(h)
          \/ ListAgents(h) \/ CancelRoots(h) \/ RemoveProfiles(h) \/ Respond(h)
    \/ \E p \in Actors : LockProfile(p) \/ StoreProfile(p)
    \/ \E x \in Turns : OpenTurn(x) \/ CheckAccepts(x) \/ TrackRoot(x) \/ EndTurn(x)

TeamsSpec == TeamsInit /\ [][TeamsNext]_teamVars

(***************************************************************************)
(* Properties.                                                             *)
(***************************************************************************)
\* Foreign keys and unique constraints of models.py survive every overlap of
\* handlers: a member has its team and its agent, a team at most one agent per
\* role (one coordinator), and a request id names one team.
RosterSound == KeysHold(teams, members, agents)

\* router.py:905: a team retains at least one active specialist.
RetainsSpecialist == \A t \in LiveTeams : ActiveSpecialists(t) # {}

\* Both, as long as no two handlers write one team's row at once.  When two
\* do, the check of the last specialist is stale when it is acted upon, and
\* RetainsSpecialist is lost.
RosterKept == RosterSound /\ RetainsSpecialist

\* Once an agent is archived with its team or by itself, the only turn of it
\* that goes on is one that had passed the check and was not yet queued when
\* the roots were cancelled.
OnlyTheWindowEscapes ==
    \A x \in Turns :
        job[x].pc = "running" /\ Suspended(job[x].agent) =>
            \/ x \in escaped
            \/ \E h \in Handlers : job[h].pc = "cancel" /\ job[x].agent \in job[h].gone
=============================================================================
