-------------------------- MODULE GatewayIdentity --------------------------
(***************************************************************************)
(* Users, web sessions, API keys and agents of the gateway, and who may    *)
(* change them (gateway/service.py, gateway/router.py, identity.py,        *)
(* storage/repositories.py).                                               *)
(*                                                                         *)
(* A request authenticates in one unit of work and keeps that identity to  *)
(* its end.  What it then reads and what it writes are further units, so   *)
(* the rows, the caller's own among them, may have changed in between, and *)
(* a record read is written back whole (merge: every column, inserting the *)
(* row when it is gone).                                                   *)
(***************************************************************************)
EXTENDS Integers, FiniteSets

CONSTANTS
    Clients,        \* HTTP requests in flight
    Powers,         \* Powers[h]: the endpoints request h may call
    UserIds, Sids, KeyIds, OwnedAgents,
    Absent          \* no row, no user

ASSUME IdentityAssumption ==
    /\ Absent \notin Clients \cup UserIds \cup Sids \cup KeyIds
    /\ Absent \notin [role : {"user", "super_admin"}, status : {"active", "disabled"}]

VARIABLES
    users,        \* users: [role, status] of an id, or Absent
    sids,         \* web_sessions: the user of an unexpired session, or Absent
    apikeys,      \* apikeys: the owner of a key, or Absent
    reach,        \* apikey_agents: the agents of a key
    owner,        \* agents: the user of an agent, or Absent
    request,      \* what each request in flight is at
    onboarding,   \* who holds onboard_lock
    founders      \* users created by onboarding

identityVars == <<users, sids, apikeys, reach, owner, request, onboarding, founders>>

\* An identity: the user of the credential, the role and the method it gives,
\* the user it acts for.
NoIdentity == [user |-> Absent, role |-> "user", method |-> "cookie", target |-> Absent]
NoRequest ==
    [pc |-> "idle", op |-> "none", who |-> NoIdentity, sid |-> Absent, id |-> Absent,
     row |-> Absent, agents |-> {}]

IdentityInit ==
    /\ users = [u \in UserIds |-> Absent]
    /\ sids = [s \in Sids |-> Absent]
    /\ apikeys = [k \in KeyIds |-> Absent]
    /\ reach = [k \in KeyIds |-> {}]
    /\ owner = [a \in OwnedAgents |-> Absent]
    /\ request = [h \in Clients |-> NoRequest]
    /\ onboarding = Absent
    /\ founders = {}

Existing(table) == {id \in DOMAIN table : table[id] # Absent}
ActiveUser(u) == u \in Existing(users) /\ users[u].status = "active"

\* Ids are drawn at random and numbered in the order in which they are drawn.
\* One that was deleted never comes back: an unused id is new when no request in
\* flight refers to it.
Fresh(table) ==
    {id \in DOMAIN table : table[id] = Absent /\ \A h \in Clients :
        id \notin {request[h].id, request[h].sid, request[h].who.user,
                  request[h].who.target} \cup request[h].agents}
New(table) == {id \in Fresh(table) : \A other \in Fresh(table) : id <= other}

Becomes(h, next) == request' = [request EXCEPT ![h] = next]
Serves(h, op) == request[h].pc = "ready" /\ op \in Powers[h]
Commits(h, op) == request[h].pc = "write" /\ request[h].op = op
Who(h) == request[h].who

ReadOnly(who) == who.target # who.user
\* require_mutation: neither inspecting another user nor with an API key.
MayMutate(who) == ~ ReadOnly(who) /\ who.method # "apikey"
MayAdminister(who) == MayMutate(who) /\ who.role = "super_admin"

\* require_agent: an administrator passes for every agent, the others for those
\* of the user they act for (the agents of a key narrow this; keys manage none).
MayAccess(who, a) ==
    /\ a \in Existing(owner)
    /\ who.role = "super_admin" \/ owner[a] = who.target

(***************************************************************************)
(* Onboarding, login and authentication.                                   *)
(***************************************************************************)
\* Fault: onboarding takes no lock.
NoLock == TRUE
\* async with onboard_lock
LockFree == onboarding = Absent

CheckUnconfigured(h) ==
    /\ request[h].pc = "idle" /\ "onboard" \in Powers[h]
    /\ LockFree
    /\ Existing(users) = {}
    /\ onboarding' = h
    /\ Becomes(h, [NoRequest EXCEPT !.pc = "write", !.op = "onboard"])
    /\ UNCHANGED <<users, sids, apikeys, reach, owner, founders>>

\* The administrator and a first agent in one transaction.
Onboard(h) ==
    \E u \in New(users), a \in New(owner) :
        /\ Commits(h, "onboard")
        /\ users' = [users EXCEPT ![u] = [role |-> "super_admin", status |-> "active"]]
        /\ owner' = [owner EXCEPT ![a] = u]
        /\ founders' = founders \cup {u}
        /\ onboarding' = Absent
        /\ Becomes(h, NoRequest)
        /\ UNCHANGED <<sids, apikeys, reach>>

Login(h) ==
    \E u \in UserIds, s \in New(sids) :
        /\ request[h].pc = "idle" /\ "login" \in Powers[h]
        /\ ActiveUser(u)
        /\ sids' = [sids EXCEPT ![s] = u]
        /\ UNCHANGED <<users, apikeys, reach, owner, request, onboarding, founders>>

ByCookie(h) ==
    \E s \in Existing(sids) :
        /\ request[h].pc = "idle" /\ Powers[h] \ {"onboard", "login"} # {}
        /\ ActiveUser(sids[s])
        /\ Becomes(h, [NoRequest EXCEPT !.pc = "ready", !.sid = s, !.who =
              [user |-> sids[s], role |-> users[sids[s]].role, method |-> "cookie",
               target |-> sids[s]]])
        /\ UNCHANGED <<users, sids, apikeys, reach, owner, onboarding, founders>>

\* A key of type "agent" has the authority of a plain user, whoever owns it.
ByKey(h) ==
    \E k \in Existing(apikeys) :
        /\ request[h].pc = "idle" /\ Powers[h] \ {"onboard", "login"} # {}
        /\ ActiveUser(apikeys[k])
        /\ Becomes(h, [NoRequest EXCEPT !.pc = "ready", !.who =
              [user |-> apikeys[k], role |-> "user", method |-> "apikey",
               target |-> apikeys[k]]])
        /\ UNCHANGED <<users, sids, apikeys, reach, owner, onboarding, founders>>

\* _apply_act_as, in a unit of its own.
ActAs(h) ==
    \E u \in UserIds :
        /\ request[h].pc = "ready" /\ u # Who(h).user /\ ~ ReadOnly(Who(h))
        /\ Who(h).role = "super_admin" /\ Who(h).method = "cookie"
        /\ ActiveUser(u)
        /\ Becomes(h, [request[h] EXCEPT !.who.target = u])
        /\ UNCHANGED <<users, sids, apikeys, reach, owner, onboarding, founders>>

Logout(h) ==
    /\ Serves(h, "logout")
    /\ Who(h).method = "cookie"
    /\ sids' = [sids EXCEPT ![request[h].sid] = Absent]
    /\ Becomes(h, NoRequest)
    /\ UNCHANGED <<users, apikeys, reach, owner, onboarding, founders>>

Expire ==
    \E s \in Existing(sids) :
        /\ sids' = [sids EXCEPT ![s] = Absent]
        /\ UNCHANGED <<users, apikeys, reach, owner, request, onboarding, founders>>

\* A read, a refusal (401, 403, 404, 409), a constraint or a failure ends the
\* request; onboarding lets go of the lock.
EndRequest(h) ==
    /\ request[h].pc # "idle"
    /\ onboarding' = IF onboarding = h THEN Absent ELSE onboarding
    /\ Becomes(h, NoRequest)
    /\ UNCHANGED <<users, sids, apikeys, reach, owner, founders>>

(***************************************************************************)
(* Administration of users.                                                *)
(***************************************************************************)
CreateUser(h) ==
    \E u \in New(users), role \in {"user", "super_admin"} :
        /\ Serves(h, "users") /\ MayAdminister(Who(h))
        /\ users' = [users EXCEPT ![u] = [role |-> role, status |-> "active"]]
        /\ Becomes(h, NoRequest)
        /\ UNCHANGED <<sids, apikeys, reach, owner, onboarding, founders>>

\* require_admin_user, then the patch is applied to the record it returned: a
\* role, a status, or another column (the password, a name).
ReadUser(h) ==
    \E u \in Existing(users) :
        \E row \in {users[u]}
              \cup {[users[u] EXCEPT !.role = r] : r \in {"user", "super_admin"}}
              \cup {[users[u] EXCEPT !.status = s] : s \in {"active", "disabled"}} :
            /\ Serves(h, "users") /\ MayAdminister(Who(h))
            /\ u = Who(h).user =>
                  /\ row.status = "disabled" => users[u].status = "disabled"
                  /\ row.role = "user" => users[u].role = "user"
            /\ Becomes(h, [request[h] EXCEPT !.pc = "write", !.op = "user",
                                             !.id = u, !.row = row])
            /\ UNCHANGED <<users, sids, apikeys, reach, owner, onboarding, founders>>

WriteUser(h) ==
    /\ Commits(h, "user")
    /\ users' = [users EXCEPT ![request[h].id] = request[h].row]
    /\ Becomes(h, NoRequest)
    /\ UNCHANGED <<sids, apikeys, reach, owner, onboarding, founders>>

\* Sessions, keys, agents and their links go with the user's row.
DeleteUser(h) ==
    \E u \in Existing(users) :
        LET gone == {a \in OwnedAgents : owner[a] = u} IN
        /\ Serves(h, "users") /\ MayAdminister(Who(h))
        /\ u # Who(h).user
        /\ users' = [users EXCEPT ![u] = Absent]
        /\ sids' = [s \in Sids |-> IF sids[s] = u THEN Absent ELSE sids[s]]
        /\ apikeys' = [k \in KeyIds |-> IF apikeys[k] = u THEN Absent ELSE apikeys[k]]
        /\ owner' = [a \in OwnedAgents |-> IF a \in gone THEN Absent ELSE owner[a]]
        /\ reach' = [k \in KeyIds |-> IF apikeys[k] = u THEN {} ELSE reach[k] \ gone]
        /\ Becomes(h, NoRequest)
        /\ UNCHANGED <<onboarding, founders>>

(***************************************************************************)
(* API keys and agents.                                                    *)
(***************************************************************************)
MayManageKeys(who) == who.method # "apikey" /\ ~ ReadOnly(who)

\* validate_api_key_agents: the agents of one's own, whatever one may access.
Grantable(who) == {a \in OwnedAgents : MayAccess(who, a) /\ owner[a] = who.target}

\* The agents of a key to be created, or of one of the caller's keys.
ValidateAgents(h) ==
    \E op \in {"create", "grant"}, as \in SUBSET Grantable(Who(h)), k \in KeyIds :
        /\ Serves(h, "keys") /\ MayManageKeys(Who(h))
        /\ op = "create" => k \in New(apikeys)
        /\ op = "grant" => apikeys[k] = Who(h).target
        /\ Becomes(h, [request[h] EXCEPT !.pc = "write", !.op = op, !.id = k, !.agents = as])
        /\ UNCHANGED <<users, sids, apikeys, reach, owner, onboarding, founders>>

\* Foreign keys refuse a key without its user and a link to a deleted agent.
CreateKey(h) ==
    /\ Commits(h, "create")
    /\ apikeys[request[h].id] = Absent
    /\ users[Who(h).target] # Absent /\ request[h].agents \subseteq Existing(owner)
    /\ apikeys' = [apikeys EXCEPT ![request[h].id] = Who(h).target]
    /\ reach' = [reach EXCEPT ![request[h].id] = request[h].agents]
    /\ Becomes(h, NoRequest)
    /\ UNCHANGED <<users, sids, owner, onboarding, founders>>

GrantAgents(h) ==
    /\ Commits(h, "grant")
    /\ apikeys[request[h].id] # Absent /\ request[h].agents \subseteq Existing(owner)
    /\ reach' = [reach EXCEPT ![request[h].id] = request[h].agents]
    /\ Becomes(h, NoRequest)
    /\ UNCHANGED <<users, sids, apikeys, owner, onboarding, founders>>

ReadKey(h) ==
    \E op \in {"rotate", "revoke"}, k \in Existing(apikeys) :
        /\ Serves(h, "keys") /\ MayManageKeys(Who(h))
        /\ apikeys[k] = Who(h).target
        /\ Becomes(h, [request[h] EXCEPT !.pc = "write", !.op = op, !.id = k])
        /\ UNCHANGED <<users, sids, apikeys, reach, owner, onboarding, founders>>

\* The record that was read with another hash: a key revoked since comes back,
\* without its agents.
RotateKey(h) ==
    /\ Commits(h, "rotate")
    /\ users[Who(h).target] # Absent
    /\ apikeys' = [apikeys EXCEPT ![request[h].id] = Who(h).target]
    /\ Becomes(h, NoRequest)
    /\ UNCHANGED <<users, sids, reach, owner, onboarding, founders>>

RevokeKey(h) ==
    /\ Commits(h, "revoke")
    /\ apikeys' = [apikeys EXCEPT ![request[h].id] = Absent]
    /\ reach' = [reach EXCEPT ![request[h].id] = {}]
    /\ Becomes(h, NoRequest)
    /\ UNCHANGED <<users, sids, owner, onboarding, founders>>

CreateAgent(h) ==
    \E a \in New(owner) :
        /\ Serves(h, "agents") /\ MayMutate(Who(h))
        /\ users[Who(h).target] # Absent
        /\ owner' = [owner EXCEPT ![a] = Who(h).target]
        /\ Becomes(h, NoRequest)
        /\ UNCHANGED <<users, sids, apikeys, reach, onboarding, founders>>

\* require_mutable_agent: an administrator reads the agents of others, no more.
DeleteAgent(h) ==
    \E a \in Existing(owner) :
        /\ Serves(h, "agents") /\ MayMutate(Who(h))
        /\ MayAccess(Who(h), a) /\ owner[a] = Who(h).target
        /\ owner' = [owner EXCEPT ![a] = Absent]
        /\ reach' = [k \in KeyIds |-> reach[k] \ {a}]
        /\ Becomes(h, NoRequest)
        /\ UNCHANGED <<users, sids, apikeys, onboarding, founders>>

IdentityNext ==
    \/ \E h \in Clients :
          \/ CheckUnconfigured(h) \/ Onboard(h) \/ Login(h) \/ Logout(h)
          \/ ByCookie(h) \/ ByKey(h) \/ ActAs(h) \/ EndRequest(h)
          \/ CreateUser(h) \/ ReadUser(h) \/ WriteUser(h) \/ DeleteUser(h)
          \/ ValidateAgents(h) \/ CreateKey(h) \/ GrantAgents(h)
          \/ ReadKey(h) \/ RotateKey(h) \/ RevokeKey(h)
          \/ CreateAgent(h) \/ DeleteAgent(h)
    \/ Expire

IdentitySpec == IdentityInit /\ [][IdentityNext]_identityVars

(***************************************************************************)
(* Properties.                                                             *)
(***************************************************************************)
\* However keys, agents and users are created, rotated, granted and deleted
\* around each other, the agents a key reaches are its owner's.
KeysReachOwnAgents ==
    \A k \in KeyIds : \A a \in reach[k] : apikeys[k] # Absent /\ owner[a] = apikeys[k]

\* Requests to onboard that overlap create one administrator.
FoundedOnce == Cardinality(founders) <= 1

\* Both.
IdentityIsSound == KeysReachOwnAgents /\ FoundedOnce
=============================================================================
