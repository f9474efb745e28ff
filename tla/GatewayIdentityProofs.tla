----------------------- MODULE GatewayIdentityProofs -----------------------
(***************************************************************************)
(* IdentityIsSound for any number of requests, users, sessions, keys and   *)
(* agents.  That keys reach their owners' agents rests on what requests in *)
(* flight remember: keys and agents of their own that may have gone, and   *)
(* never a key that two of them take for different users'.  That only one  *)
(* administrator is founded needs an assumption: see OneAdministrator.     *)
(***************************************************************************)
EXTENDS GatewayIdentity, FiniteSetTheorems, TLAPS

Roles == {"user", "super_admin"}
UserRows == [role : Roles, status : {"active", "disabled"}]
Identities ==
    [user : UserIds \cup {Absent}, role : Roles, method : {"cookie", "apikey"},
     target : UserIds \cup {Absent}]
KeyOps == {"create", "grant", "rotate", "revoke"}
Requests ==
    [pc : {"idle", "ready", "write"}, op : {"none", "onboard", "user"} \cup KeyOps,
     who : Identities, sid : Sids \cup {Absent}, id : UserIds \cup KeyIds \cup {Absent},
     row : UserRows \cup {Absent}, agents : SUBSET OwnedAgents]

\* Every variable keeps its shape.
IdentityTypeOK ==
    /\ users \in [UserIds -> UserRows \cup {Absent}]
    /\ sids \in [Sids -> UserIds \cup {Absent}]
    /\ apikeys \in [KeyIds -> UserIds \cup {Absent}]
    /\ reach \in [KeyIds -> SUBSET OwnedAgents]
    /\ owner \in [OwnedAgents -> UserIds \cup {Absent}]
    /\ request \in [Clients -> Requests]
    /\ onboarding \in Clients \cup {Absent}
    /\ founders \subseteq UserIds

LEMMA RowsExist == \A row \in UserRows : row # Absent
  BY IdentityAssumption DEF UserRows, Roles

LEMMA NoRequestType == NoRequest \in Requests
  BY DEF NoRequest, NoIdentity, Requests, Identities, Roles

LEMMA BecomesType ==
    ASSUME IdentityTypeOK, NEW h \in Clients, NEW next \in Requests, Becomes(h, next)
    PROVE  request' \in [Clients -> Requests]
  BY DEF IdentityTypeOK, Becomes

\* What a new id is, and what exists.
LEMMA NewIds ==
    ASSUME NEW table, NEW id \in New(table)
    PROVE  /\ id \in DOMAIN table /\ table[id] = Absent
           /\ \A h \in Clients :
                 /\ id # request[h].id /\ id # request[h].who.target
                 /\ id \notin request[h].agents
  BY DEF New, Fresh

LEMMA IdentityInitType == IdentityInit => IdentityTypeOK
  BY NoRequestType DEF IdentityInit, IdentityTypeOK

LEMMA IdentityStepType == IdentityTypeOK /\ [IdentityNext]_identityVars => IdentityTypeOK'
  <1> SUFFICES ASSUME IdentityTypeOK, [IdentityNext]_identityVars PROVE IdentityTypeOK'
    OBVIOUS
  <1> USE NoRequestType, BecomesType
  <1>1. ASSUME NEW h \in Clients, CheckUnconfigured(h) PROVE IdentityTypeOK'
    <2>1. [NoRequest EXCEPT !.pc = "write", !.op = "onboard"] \in Requests
      BY DEF Requests
    <2>2. QED BY <1>1, <2>1 DEF CheckUnconfigured, IdentityTypeOK
  <1>2. ASSUME NEW h \in Clients, Onboard(h) PROVE IdentityTypeOK'
    <2>1. PICK u \in New(users), a \in New(owner) :
            /\ users' = [users EXCEPT ![u] = [role |-> "super_admin", status |-> "active"]]
            /\ owner' = [owner EXCEPT ![a] = u]
            /\ founders' = founders \cup {u}
            /\ onboarding' = Absent
            /\ Becomes(h, NoRequest)
            /\ UNCHANGED <<sids, apikeys, reach>>
      BY <1>2 DEF Onboard
    <2>2. u \in UserIds /\ a \in OwnedAgents
      BY NewIds DEF IdentityTypeOK
    <2>3. [role |-> "super_admin", status |-> "active"] \in UserRows
      BY DEF UserRows, Roles
    <2>4. QED BY <2>1, <2>2, <2>3 DEF IdentityTypeOK
  <1>3. ASSUME NEW h \in Clients, Login(h) PROVE IdentityTypeOK'
    BY <1>3, NewIds DEF Login, IdentityTypeOK
  <1>4. ASSUME NEW h \in Clients, ByCookie(h) PROVE IdentityTypeOK'
    <2>1. PICK s \in Existing(sids) :
            /\ ActiveUser(sids[s])
            /\ Becomes(h, [NoRequest EXCEPT !.pc = "ready", !.sid = s, !.who =
                 [user |-> sids[s], role |-> users[sids[s]].role, method |-> "cookie",
                  target |-> sids[s]]])
            /\ UNCHANGED <<users, sids, apikeys, reach, owner, onboarding, founders>>
      BY <1>4 DEF ByCookie
    <2>2. s \in Sids /\ sids[s] \in UserIds /\ users[sids[s]] \in UserRows
      BY <2>1 DEF Existing, ActiveUser, IdentityTypeOK
    <2>3. [user |-> sids[s], role |-> users[sids[s]].role, method |-> "cookie",
           target |-> sids[s]] \in Identities
      BY <2>2 DEF Identities, UserRows
    <2>4. [NoRequest EXCEPT !.pc = "ready", !.sid = s, !.who =
             [user |-> sids[s], role |-> users[sids[s]].role, method |-> "cookie",
              target |-> sids[s]]] \in Requests
      BY <2>2, <2>3 DEF Requests
    <2>5. QED BY <2>1, <2>4 DEF IdentityTypeOK
  <1>5. ASSUME NEW h \in Clients, ByKey(h) PROVE IdentityTypeOK'
    <2>1. PICK k \in Existing(apikeys) :
            /\ ActiveUser(apikeys[k])
            /\ Becomes(h, [NoRequest EXCEPT !.pc = "ready", !.who =
                 [user |-> apikeys[k], role |-> "user", method |-> "apikey",
                  target |-> apikeys[k]]])
            /\ UNCHANGED <<users, sids, apikeys, reach, owner, onboarding, founders>>
      BY <1>5 DEF ByKey
    <2>2. apikeys[k] \in UserIds
      BY <2>1 DEF Existing, ActiveUser, IdentityTypeOK
    <2>3. [user |-> apikeys[k], role |-> "user", method |-> "apikey",
           target |-> apikeys[k]] \in Identities
      BY <2>2 DEF Identities, Roles
    <2>4. [NoRequest EXCEPT !.pc = "ready", !.who =
             [user |-> apikeys[k], role |-> "user", method |-> "apikey",
              target |-> apikeys[k]]] \in Requests
      BY <2>3 DEF Requests
    <2>5. QED BY <2>1, <2>4 DEF IdentityTypeOK
  <1>6. ASSUME NEW h \in Clients, ActAs(h) PROVE IdentityTypeOK'
    <2>1. PICK u \in UserIds :
            /\ Becomes(h, [request[h] EXCEPT !.who.target = u])
            /\ UNCHANGED <<users, sids, apikeys, reach, owner, onboarding, founders>>
      BY <1>6 DEF ActAs
    <2>2. request[h] \in Requests
      BY DEF IdentityTypeOK
    <2>3. [request[h] EXCEPT !.who.target = u] \in Requests
      BY <2>2 DEF Requests, Identities
    <2>4. QED BY <2>1, <2>3 DEF IdentityTypeOK
  <1>7. ASSUME NEW h \in Clients, Logout(h) PROVE IdentityTypeOK'
    BY <1>7 DEF Logout, IdentityTypeOK
  <1>8. ASSUME NEW h \in Clients, EndRequest(h) PROVE IdentityTypeOK'
    BY <1>8 DEF EndRequest, IdentityTypeOK
  <1>9. ASSUME NEW h \in Clients, CreateUser(h) PROVE IdentityTypeOK'
    <2>1. PICK u \in New(users), role \in {"user", "super_admin"} :
            /\ users' = [users EXCEPT ![u] = [role |-> role, status |-> "active"]]
            /\ Becomes(h, NoRequest)
            /\ UNCHANGED <<sids, apikeys, reach, owner, onboarding, founders>>
      BY <1>9 DEF CreateUser
    <2>2. [role |-> role, status |-> "active"] \in UserRows
      BY DEF UserRows, Roles
    <2>3. QED BY <2>1, <2>2 DEF IdentityTypeOK
  <1>10. ASSUME NEW h \in Clients, ReadUser(h) PROVE IdentityTypeOK'
    <2>1. PICK u \in Existing(users) :
            \E row \in {users[u]}
                 \cup {[users[u] EXCEPT !.role = r] : r \in {"user", "super_admin"}}
                 \cup {[users[u] EXCEPT !.status = s] : s \in {"active", "disabled"}} :
               /\ Becomes(h, [request[h] EXCEPT !.pc = "write", !.op = "user", !.id = u, !.row = row])
               /\ UNCHANGED <<users, sids, apikeys, reach, owner, onboarding, founders>>
      BY <1>10 DEF ReadUser
    <2>2. u \in UserIds /\ users[u] \in UserRows
      BY DEF Existing, IdentityTypeOK
    <2>3. PICK row \in UserRows :
            /\ Becomes(h, [request[h] EXCEPT !.pc = "write", !.op = "user", !.id = u, !.row = row])
            /\ UNCHANGED <<users, sids, apikeys, reach, owner, onboarding, founders>>
      <3>1. \A r \in Roles : [users[u] EXCEPT !.role = r] \in UserRows
        BY <2>2 DEF UserRows
      <3>2. \A s \in {"active", "disabled"} : [users[u] EXCEPT !.status = s] \in UserRows
        BY <2>2 DEF UserRows
      <3>3. QED BY <2>1, <2>2, <3>1, <3>2 DEF Roles
    <2>4. request[h] \in Requests
      BY DEF IdentityTypeOK
    <2>5. [request[h] EXCEPT !.pc = "write", !.op = "user", !.id = u, !.row = row] \in Requests
      BY <2>2, <2>4 DEF Requests
    <2>6. QED BY <2>3, <2>5 DEF IdentityTypeOK
  <1>11. ASSUME NEW h \in Clients, WriteUser(h) PROVE IdentityTypeOK'
    <2>1. request[h].row \in UserRows \cup {Absent}
      BY DEF IdentityTypeOK, Requests
    <2>2. QED BY <1>11, <2>1 DEF WriteUser, IdentityTypeOK
  <1>12. ASSUME NEW h \in Clients, DeleteUser(h) PROVE IdentityTypeOK'
    <2>1. PICK u \in Existing(users) :
            LET gone == {a \in OwnedAgents : owner[a] = u} IN
            /\ users' = [users EXCEPT ![u] = Absent]
            /\ sids' = [s \in Sids |-> IF sids[s] = u THEN Absent ELSE sids[s]]
            /\ apikeys' = [k \in KeyIds |-> IF apikeys[k] = u THEN Absent ELSE apikeys[k]]
            /\ owner' = [a \in OwnedAgents |-> IF a \in gone THEN Absent ELSE owner[a]]
            /\ reach' = [k \in KeyIds |-> IF apikeys[k] = u THEN {} ELSE reach[k] \ gone]
            /\ Becomes(h, NoRequest)
            /\ UNCHANGED <<onboarding, founders>>
      BY <1>12 DEF DeleteUser
    <2>2. users' \in [UserIds -> UserRows \cup {Absent}]
      BY <2>1 DEF IdentityTypeOK
    <2>3. sids' \in [Sids -> UserIds \cup {Absent}] /\ apikeys' \in [KeyIds -> UserIds \cup {Absent}]
      BY <2>1 DEF IdentityTypeOK
    <2>4. owner' \in [OwnedAgents -> UserIds \cup {Absent}]
      BY <2>1 DEF IdentityTypeOK
    <2>5. reach' \in [KeyIds -> SUBSET OwnedAgents]
      BY <2>1 DEF IdentityTypeOK
    <2>6. QED BY <2>1, <2>2, <2>3, <2>4, <2>5 DEF IdentityTypeOK
  <1>13. ASSUME NEW h \in Clients, ValidateAgents(h) PROVE IdentityTypeOK'
    <2>1. PICK op \in {"create", "grant"}, as \in SUBSET Grantable(Who(h)), k \in KeyIds :
            /\ Becomes(h, [request[h] EXCEPT !.pc = "write", !.op = op, !.id = k, !.agents = as])
            /\ UNCHANGED <<users, sids, apikeys, reach, owner, onboarding, founders>>
      BY <1>13 DEF ValidateAgents
    <2>2. request[h] \in Requests /\ as \subseteq OwnedAgents
      BY DEF IdentityTypeOK, Grantable
    <2>3. [request[h] EXCEPT !.pc = "write", !.op = op, !.id = k, !.agents = as] \in Requests
      BY <2>2 DEF Requests, KeyOps
    <2>4. QED BY <2>1, <2>3 DEF IdentityTypeOK
  <1>14. ASSUME NEW h \in Clients, CreateKey(h) PROVE IdentityTypeOK'
    <2>1. Who(h).target \in UserIds \cup {Absent} /\ request[h].agents \subseteq OwnedAgents
      BY DEF Who, IdentityTypeOK, Requests, Identities
    <2>2. QED BY <1>14, <2>1 DEF CreateKey, IdentityTypeOK
  <1>15. ASSUME NEW h \in Clients, GrantAgents(h) PROVE IdentityTypeOK'
    <2>1. request[h].agents \subseteq OwnedAgents
      BY DEF IdentityTypeOK, Requests
    <2>2. QED BY <1>15, <2>1 DEF GrantAgents, IdentityTypeOK
  <1>16. ASSUME NEW h \in Clients, ReadKey(h) PROVE IdentityTypeOK'
    <2>1. PICK op \in {"rotate", "revoke"}, k \in Existing(apikeys) :
            /\ Becomes(h, [request[h] EXCEPT !.pc = "write", !.op = op, !.id = k])
            /\ UNCHANGED <<users, sids, apikeys, reach, owner, onboarding, founders>>
      BY <1>16 DEF ReadKey
    <2>2. request[h] \in Requests /\ k \in KeyIds
      BY DEF IdentityTypeOK, Existing
    <2>3. [request[h] EXCEPT !.pc = "write", !.op = op, !.id = k] \in Requests
      BY <2>2 DEF Requests, KeyOps
    <2>4. QED BY <2>1, <2>3 DEF IdentityTypeOK
  <1>17. ASSUME NEW h \in Clients, RotateKey(h) PROVE IdentityTypeOK'
    <2>1. Who(h).target \in UserIds \cup {Absent}
      BY DEF Who, IdentityTypeOK, Requests, Identities
    <2>2. QED BY <1>17, <2>1 DEF RotateKey, IdentityTypeOK
  <1>18. ASSUME NEW h \in Clients, RevokeKey(h) PROVE IdentityTypeOK'
    BY <1>18 DEF RevokeKey, IdentityTypeOK
  <1>19. ASSUME NEW h \in Clients, CreateAgent(h) PROVE IdentityTypeOK'
    <2>1. Who(h).target \in UserIds \cup {Absent}
      BY DEF Who, IdentityTypeOK, Requests, Identities
    <2>2. QED BY <1>19, <2>1 DEF CreateAgent, IdentityTypeOK
  <1>20. ASSUME NEW h \in Clients, DeleteAgent(h) PROVE IdentityTypeOK'
    <2>1. PICK a \in Existing(owner) :
            /\ owner' = [owner EXCEPT ![a] = Absent]
            /\ reach' = [k \in KeyIds |-> reach[k] \ {a}]
            /\ Becomes(h, NoRequest)
            /\ UNCHANGED <<users, sids, apikeys, onboarding, founders>>
      BY <1>20 DEF DeleteAgent
    <2>2. owner' \in [OwnedAgents -> UserIds \cup {Absent}]
      BY <2>1 DEF IdentityTypeOK
    <2>3. reach' \in [KeyIds -> SUBSET OwnedAgents]
      BY <2>1 DEF IdentityTypeOK
    <2>4. QED BY <2>1, <2>2, <2>3 DEF IdentityTypeOK
  <1>21. CASE Expire
    BY <1>21 DEF Expire, IdentityTypeOK
  <1>22. CASE UNCHANGED identityVars
    BY <1>22 DEF identityVars, IdentityTypeOK
  <1>23. QED BY <1>1, <1>2, <1>3, <1>4, <1>5, <1>6, <1>7, <1>8, <1>9, <1>10, <1>11, <1>12, <1>13,
            <1>14, <1>15, <1>16, <1>17, <1>18, <1>19, <1>20, <1>21, <1>22 DEF IdentityNext

-----------------------------------------------------------------------------
(* Keys. *)

\* A request that is about to write a key or its agents.
Pending(r) == r.pc = "write" /\ r.op \in KeyOps

\* Its key and its agents are still its user's, or gone.
RequestFits(r) ==
    /\ r.pc = "ready" => r.who.target # Absent /\ r.agents = {}
    /\ Pending(r) =>
          /\ r.who.target # Absent /\ r.id \in KeyIds
          /\ apikeys[r.id] \in {Absent, r.who.target}
          /\ \A a \in r.agents : owner[a] \in {Absent, r.who.target}

KeysInv ==
    /\ IdentityTypeOK
    /\ KeysReachOwnAgents
    /\ \A h \in Clients : RequestFits(request[h])
    /\ \A g, h \in Clients :
          Pending(request[g]) /\ Pending(request[h]) /\ request[g].id = request[h].id =>
            Who(g).target = Who(h).target

\* A request ends, or goes on with nothing to write to a key.
LEMMA RequestOn ==
    ASSUME KeysInv, IdentityTypeOK', NEW h \in Clients, NEW next, ~ Pending(next),
           next.pc = "ready" => next.who.target # Absent /\ next.agents = {}, Becomes(h, next),
           KeysReachOwnAgents',
           \A k \in KeyIds : apikeys'[k] \in {Absent, apikeys[k]},
           \A g \in Clients \ {h} : Pending(request[g]) =>
               \A a \in request[g].agents : owner'[a] \in {Absent, owner[a]}
    PROVE  KeysInv'
  <1>1. \A g \in Clients : request'[g] = IF g = h THEN next ELSE request[g]
    BY DEF Becomes, KeysInv, IdentityTypeOK
  <1>2. ASSUME NEW g \in Clients PROVE RequestFits(request[g])'
    <2>1. CASE g = h
      BY <1>1, <2>1 DEF RequestFits, Pending
    <2>2. CASE g # h
      <3>1. request'[g] = request[g] /\ RequestFits(request[g])
        BY <1>1, <2>2 DEF KeysInv
      <3>2. QED BY <2>2, <3>1 DEF RequestFits, Pending
    <2>3. QED BY <2>1, <2>2
  <1>3. ASSUME NEW f \in Clients, NEW g \in Clients,
               Pending(request'[f]), Pending(request'[g]), request'[f].id = request'[g].id
        PROVE  request'[f].who.target = request'[g].who.target
    BY <1>1, <1>3 DEF KeysInv, Who
  <1>4. QED BY <1>2, <1>3 DEF KeysInv, Who, Pending

\* The tables that matter to keys stay as they are.
LEMMA NothingKeyed ==
    ASSUME KeysInv, IdentityTypeOK', NEW h \in Clients, NEW next, ~ Pending(next),
           next.pc = "ready" => next.who.target # Absent /\ next.agents = {}, Becomes(h, next),
           UNCHANGED <<apikeys, reach, owner>>
    PROVE  KeysInv'
  <1>1. KeysReachOwnAgents'
    BY DEF KeysInv, KeysReachOwnAgents
  <1>2. QED BY <1>1, RequestOn

LEMMA NoRequestPends == ~ Pending(NoRequest) /\ NoRequest.pc # "ready"
  BY DEF Pending, NoRequest

\* A request takes up a key: its own, or a new one that no other request knows.
LEMMA TakesKey ==
    ASSUME KeysInv, IdentityTypeOK', NEW h \in Clients, NEW next,
           Becomes(h, next), UNCHANGED <<apikeys, reach, owner>>,
           next.pc = "write", next.who = Who(h), Who(h).target # Absent, next.id \in KeyIds,
           \A a \in next.agents : owner[a] \in {Absent, Who(h).target},
           \/ apikeys[next.id] = Who(h).target
           \/ apikeys[next.id] = Absent /\ \A g \in Clients : request[g].id # next.id
    PROVE  KeysInv'
  <1>1. \A g \in Clients : request'[g] = IF g = h THEN next ELSE request[g]
    BY DEF Becomes, KeysInv, IdentityTypeOK
  <1>2. \A g \in Clients : RequestFits(request[g])'
    BY <1>1 DEF RequestFits, Pending, KeysInv, Who
  <1>3. ASSUME NEW g \in Clients \ {h}, Pending(request[g]), request[g].id = next.id
        PROVE  Who(g).target = Who(h).target
    BY <1>3 DEF KeysInv, RequestFits, Who
  <1>4. ASSUME NEW f \in Clients, NEW g \in Clients,
               Pending(request'[f]), Pending(request'[g]), request'[f].id = request'[g].id
        PROVE  request'[f].who.target = request'[g].who.target
    <2>1. CASE f = h /\ g = h
      BY <2>1
    <2>2. CASE f = h /\ g # h
      BY <1>1, <1>3, <1>4, <2>2 DEF Who
    <2>3. CASE f # h /\ g = h
      BY <1>1, <1>3, <1>4, <2>3 DEF Who
    <2>4. CASE f # h /\ g # h
      BY <1>1, <1>4, <2>4 DEF KeysInv, Who
    <2>5. QED BY <2>1, <2>2, <2>3, <2>4
  <1>5. KeysReachOwnAgents'
    BY DEF KeysInv, KeysReachOwnAgents
  <1>6. QED BY <1>2, <1>4, <1>5 DEF KeysInv, Who, Pending

\* A request writes the key it has taken up.
LEMMA WritesKey ==
    ASSUME KeysInv, IdentityTypeOK', NEW h \in Clients, Pending(request[h]),
           Becomes(h, NoRequest), UNCHANGED owner, KeysReachOwnAgents',
           \A k \in KeyIds \ {request[h].id} : apikeys'[k] = apikeys[k],
           apikeys'[request[h].id] \in {Absent, Who(h).target}
    PROVE  KeysInv'
  <1>1. \A g \in Clients : request'[g] = IF g = h THEN NoRequest ELSE request[g]
    BY DEF Becomes, KeysInv, IdentityTypeOK
  <1>2. ASSUME NEW g \in Clients PROVE RequestFits(request[g])'
    <2>1. CASE g = h
      BY <1>1, <2>1, NoRequestPends DEF RequestFits, Pending
    <2>2. CASE g # h
      <3>1. request'[g] = request[g] /\ RequestFits(request[g])
        BY <1>1, <2>2 DEF KeysInv
      <3>2. Pending(request[g]) /\ request[g].id = request[h].id => Who(g).target = Who(h).target
        BY DEF KeysInv
      <3>3. QED BY <3>1, <3>2 DEF RequestFits, Pending, Who
    <2>3. QED BY <2>1, <2>2
  <1>3. ASSUME NEW f \in Clients, NEW g \in Clients,
               Pending(request'[f]), Pending(request'[g]), request'[f].id = request'[g].id
        PROVE  request'[f].who.target = request'[g].who.target
    BY <1>1, <1>3, NoRequestPends DEF KeysInv, Who
  <1>4. QED BY <1>2, <1>3 DEF KeysInv, Who, Pending

LEMMA KeysInit == IdentityInit => KeysInv
  <1> SUFFICES ASSUME IdentityInit PROVE KeysInv
    OBVIOUS
  <1>1. \A h \in Clients : request[h] = NoRequest
    BY DEF IdentityInit
  <1>2. \A k \in KeyIds : reach[k] = {}
    BY DEF IdentityInit
  <1>3. QED BY <1>1, <1>2, IdentityInitType, NoRequestPends
        DEF KeysInv, KeysReachOwnAgents, RequestFits

LEMMA KeysStep == KeysInv /\ [IdentityNext]_identityVars => KeysInv'
  <1> SUFFICES ASSUME KeysInv, [IdentityNext]_identityVars PROVE KeysInv'
    OBVIOUS
  <1>0. IdentityTypeOK /\ IdentityTypeOK'
    BY IdentityStepType DEF KeysInv
  <1> USE NoRequestPends
  <1>1. ASSUME NEW h \in Clients, CheckUnconfigured(h) PROVE KeysInv'
    <2> DEFINE next == [NoRequest EXCEPT !.pc = "write", !.op = "onboard"]
    <2>1. ~ Pending(next) /\ next.pc = "write"
      BY DEF NoRequest, Pending, KeyOps
    <2>2. QED BY <1>0, <1>1, <2>1, NothingKeyed DEF CheckUnconfigured
  <1>2. ASSUME NEW h \in Clients, Onboard(h) PROVE KeysInv'
    <2>1. PICK u \in New(users), a \in New(owner) :
            /\ owner' = [owner EXCEPT ![a] = u] /\ Becomes(h, NoRequest)
            /\ UNCHANGED <<apikeys, reach>>
      BY <1>2 DEF Onboard
    <2>2. owner[a] = Absent /\ \A g \in Clients : a \notin request[g].agents
      BY NewIds
    <2>3. KeysReachOwnAgents'
      BY <1>0, <2>1, <2>2 DEF KeysInv, KeysReachOwnAgents, IdentityTypeOK
    <2>4. \A g \in Clients : \A b \in request[g].agents : owner'[b] = owner[b]
      BY <1>0, <2>1, <2>2 DEF IdentityTypeOK, Requests
    <2>5. QED BY <1>0, <2>1, <2>3, <2>4, RequestOn
  <1>3. ASSUME NEW h \in Clients, Login(h) PROVE KeysInv'
    <2>1. UNCHANGED <<request, apikeys, reach, owner>>
      BY <1>3 DEF Login
    <2>2. QED BY <1>0, <2>1 DEF KeysInv, KeysReachOwnAgents, RequestFits, Pending, Who
  <1>4. ASSUME NEW h \in Clients, ByCookie(h) PROVE KeysInv'
    <2>1. PICK s \in Existing(sids) :
            /\ Becomes(h, [NoRequest EXCEPT !.pc = "ready", !.sid = s, !.who =
                 [user |-> sids[s], role |-> users[sids[s]].role, method |-> "cookie",
                  target |-> sids[s]]])
            /\ UNCHANGED <<apikeys, reach, owner>>
      BY <1>4 DEF ByCookie
    <2> DEFINE next == [NoRequest EXCEPT !.pc = "ready", !.sid = s, !.who =
                 [user |-> sids[s], role |-> users[sids[s]].role, method |-> "cookie",
                  target |-> sids[s]]]
    <2>2. ~ Pending(next) /\ next.who.target = sids[s] /\ sids[s] # Absent /\ next.agents = {}
      BY DEF NoRequest, Pending, Existing
    <2>3. QED BY <1>0, <2>1, <2>2, NothingKeyed
  <1>5. ASSUME NEW h \in Clients, ByKey(h) PROVE KeysInv'
    <2>1. PICK k \in Existing(apikeys) :
            /\ Becomes(h, [NoRequest EXCEPT !.pc = "ready", !.who =
                 [user |-> apikeys[k], role |-> "user", method |-> "apikey",
                  target |-> apikeys[k]]])
            /\ UNCHANGED <<apikeys, reach, owner>>
      BY <1>5 DEF ByKey
    <2> DEFINE next == [NoRequest EXCEPT !.pc = "ready", !.who =
                 [user |-> apikeys[k], role |-> "user", method |-> "apikey",
                  target |-> apikeys[k]]]
    <2>2. ~ Pending(next) /\ next.who.target = apikeys[k] /\ apikeys[k] # Absent /\ next.agents = {}
      BY DEF NoRequest, Pending, Existing
    <2>3. QED BY <1>0, <2>1, <2>2, NothingKeyed
  <1>6. ASSUME NEW h \in Clients, ActAs(h) PROVE KeysInv'
    <2>1. PICK u \in UserIds :
            /\ request[h].pc = "ready" /\ Becomes(h, [request[h] EXCEPT !.who.target = u])
            /\ UNCHANGED <<apikeys, reach, owner>>
      BY <1>6 DEF ActAs
    <2> DEFINE next == [request[h] EXCEPT !.who.target = u]
    <2>2. request[h] \in Requests
      BY <1>0 DEF IdentityTypeOK
    <2>3. next.pc = "ready" /\ next.who.target = u /\ u # Absent /\ next.agents = {}
      BY <2>1, <2>2, IdentityAssumption DEF Requests, Identities, KeysInv, RequestFits
    <2> HIDE DEF next
    <2>4. ~ Pending(next)
      BY <2>3 DEF Pending
    <2>5. QED BY <1>0, <2>1, <2>3, <2>4, NothingKeyed DEF next
  <1>7. ASSUME NEW h \in Clients, Logout(h) PROVE KeysInv'
    BY <1>0, <1>7, NothingKeyed DEF Logout
  <1>8. ASSUME NEW h \in Clients, EndRequest(h) PROVE KeysInv'
    BY <1>0, <1>8, NothingKeyed DEF EndRequest
  <1>9. ASSUME NEW h \in Clients, CreateUser(h) PROVE KeysInv'
    BY <1>0, <1>9, NothingKeyed DEF CreateUser
  <1>10. ASSUME NEW h \in Clients, ReadUser(h) PROVE KeysInv'
    <2>1. PICK u, row :
            /\ Becomes(h, [request[h] EXCEPT !.pc = "write", !.op = "user", !.id = u, !.row = row])
            /\ UNCHANGED <<apikeys, reach, owner>>
      BY <1>10 DEF ReadUser
    <2> DEFINE next == [request[h] EXCEPT !.pc = "write", !.op = "user", !.id = u, !.row = row]
    <2>2. request[h] \in Requests
      BY <1>0 DEF IdentityTypeOK
    <2>3. next.pc = "write" /\ next.op = "user"
      BY <2>2 DEF Requests
    <2> HIDE DEF next
    <2>4. ~ Pending(next)
      BY <2>3 DEF Pending, KeyOps
    <2>5. QED BY <1>0, <2>1, <2>3, <2>4, NothingKeyed DEF next
  <1>11. ASSUME NEW h \in Clients, WriteUser(h) PROVE KeysInv'
    BY <1>0, <1>11, NothingKeyed DEF WriteUser
  <1>12. ASSUME NEW h \in Clients, DeleteUser(h) PROVE KeysInv'
    <2>1. PICK u \in Existing(users) :
            LET gone == {a \in OwnedAgents : owner[a] = u} IN
            /\ apikeys' = [k \in KeyIds |-> IF apikeys[k] = u THEN Absent ELSE apikeys[k]]
            /\ owner' = [a \in OwnedAgents |-> IF a \in gone THEN Absent ELSE owner[a]]
            /\ reach' = [k \in KeyIds |-> IF apikeys[k] = u THEN {} ELSE reach[k] \ gone]
            /\ Becomes(h, NoRequest)
      BY <1>12 DEF DeleteUser
    <2>2. \A a \in OwnedAgents : owner'[a] = IF owner[a] = u THEN Absent ELSE owner[a]
      BY <2>1
    <2>3. \A k \in KeyIds : apikeys'[k] = IF apikeys[k] = u THEN Absent ELSE apikeys[k]
      BY <2>1
    <2>4. \A k \in KeyIds : \A a \in reach'[k] : apikeys[k] # u /\ a \in reach[k] /\ a \in OwnedAgents
      BY <1>0, <2>1 DEF IdentityTypeOK
    <2>5. KeysReachOwnAgents'
      BY <2>2, <2>3, <2>4 DEF KeysInv, KeysReachOwnAgents
    <2>6. \A g \in Clients : \A b \in request[g].agents : owner'[b] \in {Absent, owner[b]}
      BY <1>0, <2>2 DEF IdentityTypeOK, Requests
    <2>7. QED BY <1>0, <2>1, <2>3, <2>5, <2>6, RequestOn
  <1>13. ASSUME NEW h \in Clients, ValidateAgents(h) PROVE KeysInv'
    <2>1. PICK op \in {"create", "grant"}, as \in SUBSET Grantable(Who(h)), k \in KeyIds :
            /\ request[h].pc = "ready"
            /\ op = "create" => k \in New(apikeys)
            /\ op = "grant" => apikeys[k] = Who(h).target
            /\ Becomes(h, [request[h] EXCEPT !.pc = "write", !.op = op, !.id = k, !.agents = as])
            /\ UNCHANGED <<apikeys, reach, owner>>
      BY <1>13 DEF ValidateAgents, Serves
    <2> DEFINE next == [request[h] EXCEPT !.pc = "write", !.op = op, !.id = k, !.agents = as]
    <2>2. request[h] \in Requests
      BY <1>0 DEF IdentityTypeOK
    <2>3. next.pc = "write" /\ next.who = Who(h) /\ next.id = k /\ next.agents = as
      BY <2>2 DEF Requests, Who
    <2>4. Who(h).target # Absent /\ \A a \in as : owner[a] = Who(h).target
      BY <2>1 DEF KeysInv, RequestFits, Who, Grantable
    <2>5. \/ apikeys[k] = Who(h).target
          \/ apikeys[k] = Absent /\ \A g \in Clients : request[g].id # k
      BY <2>1, NewIds
    <2> HIDE DEF next
    <2>6. QED BY <1>0, <2>1, <2>3, <2>4, <2>5, TakesKey DEF next
  <1>14. ASSUME NEW h \in Clients, CreateKey(h) PROVE KeysInv'
    <2>1. /\ Pending(request[h]) /\ request[h].agents \subseteq Existing(owner)
          /\ apikeys' = [apikeys EXCEPT ![request[h].id] = Who(h).target]
          /\ reach' = [reach EXCEPT ![request[h].id] = request[h].agents]
          /\ Becomes(h, NoRequest) /\ UNCHANGED owner
      BY <1>14 DEF CreateKey, Commits, Pending, KeyOps
    <2>2. /\ request[h].id \in KeyIds /\ Who(h).target # Absent
          /\ \A a \in request[h].agents : owner[a] = Who(h).target
      BY <2>1 DEF KeysInv, RequestFits, Existing, Who
    <2>3. KeysReachOwnAgents'
      BY <1>0, <2>1, <2>2 DEF KeysInv, KeysReachOwnAgents, IdentityTypeOK
    <2>4. QED BY <1>0, <2>1, <2>2, <2>3, WritesKey DEF IdentityTypeOK
  <1>15. ASSUME NEW h \in Clients, GrantAgents(h) PROVE KeysInv'
    <2>1. /\ Pending(request[h]) /\ request[h].agents \subseteq Existing(owner)
          /\ apikeys[request[h].id] # Absent
          /\ reach' = [reach EXCEPT ![request[h].id] = request[h].agents]
          /\ Becomes(h, NoRequest) /\ UNCHANGED <<apikeys, owner>>
      BY <1>15 DEF GrantAgents, Commits, Pending, KeyOps
    <2>2. /\ request[h].id \in KeyIds /\ apikeys[request[h].id] = Who(h).target
          /\ \A a \in request[h].agents : owner[a] = Who(h).target
      BY <2>1 DEF KeysInv, RequestFits, Existing, Who
    <2>3. KeysReachOwnAgents'
      BY <1>0, <2>1, <2>2 DEF KeysInv, KeysReachOwnAgents, IdentityTypeOK
    <2>4. QED BY <1>0, <2>1, <2>2, <2>3, WritesKey
  <1>16. ASSUME NEW h \in Clients, ReadKey(h) PROVE KeysInv'
    <2>1. PICK op \in {"rotate", "revoke"}, k \in Existing(apikeys) :
            /\ request[h].pc = "ready" /\ apikeys[k] = Who(h).target
            /\ Becomes(h, [request[h] EXCEPT !.pc = "write", !.op = op, !.id = k])
            /\ UNCHANGED <<apikeys, reach, owner>>
      BY <1>16 DEF ReadKey, Serves
    <2> DEFINE next == [request[h] EXCEPT !.pc = "write", !.op = op, !.id = k]
    <2>2. request[h] \in Requests /\ k \in KeyIds
      BY <1>0 DEF IdentityTypeOK, Existing
    <2>3. next.pc = "write" /\ next.who = Who(h) /\ next.id = k /\ next.agents = request[h].agents
      BY <2>2 DEF Requests, Who
    <2>4. Who(h).target # Absent /\ request[h].agents = {}
      BY <2>1 DEF KeysInv, RequestFits, Who
    <2> HIDE DEF next
    <2>5. QED BY <1>0, <2>1, <2>2, <2>3, <2>4, TakesKey DEF next
  <1>17. ASSUME NEW h \in Clients, RotateKey(h) PROVE KeysInv'
    <2>1. /\ Pending(request[h])
          /\ apikeys' = [apikeys EXCEPT ![request[h].id] = Who(h).target]
          /\ Becomes(h, NoRequest) /\ UNCHANGED <<reach, owner>>
      BY <1>17 DEF RotateKey, Commits, Pending, KeyOps
    <2>2. /\ request[h].id \in KeyIds /\ Who(h).target # Absent
          /\ apikeys[request[h].id] \in {Absent, Who(h).target}
      BY <2>1 DEF KeysInv, RequestFits, Who
    <2>3. KeysReachOwnAgents'
      BY <1>0, <2>1, <2>2 DEF KeysInv, KeysReachOwnAgents, IdentityTypeOK
    <2>4. QED BY <1>0, <2>1, <2>2, <2>3, WritesKey DEF IdentityTypeOK
  <1>18. ASSUME NEW h \in Clients, RevokeKey(h) PROVE KeysInv'
    <2>1. /\ Pending(request[h])
          /\ apikeys' = [apikeys EXCEPT ![request[h].id] = Absent]
          /\ reach' = [reach EXCEPT ![request[h].id] = {}]
          /\ Becomes(h, NoRequest) /\ UNCHANGED owner
      BY <1>18 DEF RevokeKey, Commits, Pending, KeyOps
    <2>2. request[h].id \in KeyIds
      BY <2>1 DEF KeysInv, RequestFits
    <2>3. KeysReachOwnAgents'
      BY <1>0, <2>1, <2>2 DEF KeysInv, KeysReachOwnAgents, IdentityTypeOK
    <2>4. QED BY <1>0, <2>1, <2>2, <2>3, WritesKey DEF IdentityTypeOK
  <1>19. ASSUME NEW h \in Clients, CreateAgent(h) PROVE KeysInv'
    <2>1. PICK a \in New(owner) :
            /\ owner' = [owner EXCEPT ![a] = Who(h).target] /\ Becomes(h, NoRequest)
            /\ UNCHANGED <<apikeys, reach>>
      BY <1>19 DEF CreateAgent
    <2>2. owner[a] = Absent /\ \A g \in Clients : a \notin request[g].agents
      BY NewIds
    <2>3. KeysReachOwnAgents'
      BY <1>0, <2>1, <2>2 DEF KeysInv, KeysReachOwnAgents, IdentityTypeOK
    <2>4. \A g \in Clients : \A b \in request[g].agents : owner'[b] = owner[b]
      BY <1>0, <2>1, <2>2 DEF IdentityTypeOK, Requests
    <2>5. QED BY <1>0, <2>1, <2>3, <2>4, RequestOn
  <1>20. ASSUME NEW h \in Clients, DeleteAgent(h) PROVE KeysInv'
    <2>1. PICK a \in Existing(owner) :
            /\ owner' = [owner EXCEPT ![a] = Absent]
            /\ reach' = [k \in KeyIds |-> reach[k] \ {a}]
            /\ Becomes(h, NoRequest) /\ UNCHANGED apikeys
      BY <1>20 DEF DeleteAgent
    <2>2. \A b \in OwnedAgents : owner'[b] = IF b = a THEN Absent ELSE owner[b]
      BY <1>0, <2>1 DEF IdentityTypeOK
    <2>3. KeysReachOwnAgents'
      BY <1>0, <2>1, <2>2 DEF KeysInv, KeysReachOwnAgents, IdentityTypeOK
    <2>4. \A g \in Clients : \A b \in request[g].agents : owner'[b] \in {Absent, owner[b]}
      BY <1>0, <2>2 DEF IdentityTypeOK, Requests
    <2>5. QED BY <1>0, <2>1, <2>3, <2>4, RequestOn
  <1>21. CASE Expire
    <2>1. UNCHANGED <<request, apikeys, reach, owner>>
      BY <1>21 DEF Expire
    <2>2. QED BY <1>0, <2>1 DEF KeysInv, KeysReachOwnAgents, RequestFits, Pending, Who
  <1>22. CASE UNCHANGED identityVars
    BY <1>0, <1>22 DEF identityVars, KeysInv, KeysReachOwnAgents, RequestFits, Pending, Who
  <1>23. QED BY <1>1, <1>2, <1>3, <1>4, <1>5, <1>6, <1>7, <1>8, <1>9, <1>10, <1>11, <1>12, <1>13,
            <1>14, <1>15, <1>16, <1>17, <1>18, <1>19, <1>20, <1>21, <1>22 DEF IdentityNext

\* However keys, agents and users are created, rotated, granted and deleted
\* around each other, the agents a key reaches are its owner's
\* (validate_api_key_agents, rotate_api_key, delete_agent, admin_delete_user).
THEOREM KeysConfined == IdentitySpec => []KeysReachOwnAgents
  <1>1. KeysInv => KeysReachOwnAgents
    BY DEF KeysInv
  <1>2. QED BY <1>1, KeysInit, KeysStep, PTL DEF IdentitySpec

-----------------------------------------------------------------------------
(* Onboarding. *)

\* Only one of the requests in flight administers users.  The code does not see
\* to it: two administrators who delete each other leave an unconfigured gateway,
\* which founds another administrator.
OneAdministrator ==
    \A g, h \in Clients : "users" \in Powers[g] /\ "users" \in Powers[h] => g = h

\* Until somebody was founded nobody can do anything; from then on there are
\* users, the one who administers them among them.
RequestKnown(h) ==
    /\ request[h].op = "onboard" <=> onboarding = h
    /\ request[h].op = "onboard" => request[h].pc = "write"
    /\ request[h].pc # "idle" /\ request[h].op # "onboard" =>
          /\ founders # {}
          /\ "users" \in Powers[h] => Who(h).user \in Existing(users)
    /\ Commits(h, "user") => request[h].row # Absent /\ request[h].id \in UserIds

FoundInv ==
    /\ IdentityTypeOK
    /\ \A h \in Clients : RequestKnown(h)
    /\ founders = {} => Existing(users) = {}
    /\ founders # {} =>
          /\ onboarding = Absent /\ Existing(users) # {}
          /\ \E u \in UserIds : founders = {u}

\* A request that is not onboarding goes on, and no user goes.
LEMMA FoundOn ==
    ASSUME FoundInv, IdentityTypeOK', NEW h \in Clients, NEW next, Becomes(h, next),
           request[h].op # "onboard", next.op # "onboard",
           UNCHANGED <<onboarding, founders>>,
           Existing(users) \subseteq Existing(users'),
           users' = users \/ founders # {},
           next.pc # "idle" =>
              founders # {} /\ ("users" \in Powers[h] => next.who.user \in Existing(users')),
           next.pc = "write" /\ next.op = "user" => next.row # Absent /\ next.id \in UserIds
    PROVE  FoundInv'
  <1>1. \A g \in Clients : request'[g] = IF g = h THEN next ELSE request[g]
    BY DEF Becomes, FoundInv, IdentityTypeOK
  <1>2. ASSUME NEW g \in Clients PROVE RequestKnown(g)'
    <2>1. RequestKnown(g)
      BY DEF FoundInv
    <2>2. CASE g = h
      BY <1>1, <2>1, <2>2 DEF RequestKnown, Who, Commits, Existing
    <2>3. CASE g # h
      BY <1>1, <2>1, <2>3 DEF RequestKnown, Who, Commits, Existing
    <2>4. QED BY <2>2, <2>3
  <1>3. QED BY <1>2 DEF FoundInv, Existing

\* The same when users stay as they are.
LEMMA FoundOnSame ==
    ASSUME FoundInv, IdentityTypeOK', NEW h \in Clients, NEW next, Becomes(h, next),
           request[h].op # "onboard", next.op # "onboard",
           UNCHANGED <<users, onboarding, founders>>,
           next.pc # "idle" =>
              founders # {} /\ ("users" \in Powers[h] => next.who.user \in Existing(users)),
           next.pc = "write" /\ next.op = "user" => next.row # Absent /\ next.id \in UserIds
    PROVE  FoundInv'
  BY FoundOn

LEMMA FoundInit == IdentityInit => FoundInv
  <1> SUFFICES ASSUME IdentityInit PROVE FoundInv
    OBVIOUS
  <1>1. \A h \in Clients : request[h] = NoRequest
    BY DEF IdentityInit
  <1>2. NoRequest.op = "none" /\ NoRequest.pc = "idle"
    BY DEF NoRequest
  <1>3. Existing(users) = {} /\ founders = {} /\ onboarding = Absent
    BY DEF IdentityInit, Existing
  <1>4. QED BY <1>1, <1>2, <1>3, IdentityInitType, IdentityAssumption
        DEF FoundInv, RequestKnown, Commits

LEMMA FoundStep ==
    ASSUME OneAdministrator
    PROVE  FoundInv /\ [IdentityNext]_identityVars => FoundInv'
  <1> SUFFICES ASSUME FoundInv, [IdentityNext]_identityVars PROVE FoundInv'
    OBVIOUS
  <1>0. IdentityTypeOK /\ IdentityTypeOK'
    BY IdentityStepType DEF FoundInv
  <1>a. ASSUME NEW h \in Clients, request[h].pc = "ready"
        PROVE  request[h].op # "onboard" /\ founders # {}
               /\ ("users" \in Powers[h] => Who(h).user \in Existing(users))
    BY <1>a DEF FoundInv, RequestKnown
  <1>b. NoRequest.pc = "idle" /\ NoRequest.op = "none"
    BY DEF NoRequest
  <1>1. ASSUME NEW h \in Clients, CheckUnconfigured(h) PROVE FoundInv'
    <2> DEFINE next == [NoRequest EXCEPT !.pc = "write", !.op = "onboard"]
    <2>1. /\ onboarding = Absent /\ Existing(users) = {} /\ onboarding' = h
          /\ Becomes(h, next) /\ UNCHANGED <<users, founders>>
      BY <1>1 DEF CheckUnconfigured, LockFree
    <2>2. next.pc = "write" /\ next.op = "onboard"
      BY DEF NoRequest
    <2> HIDE DEF next
    <2>3. \A g \in Clients : request'[g] = IF g = h THEN next ELSE request[g]
      BY <1>0, <2>1 DEF Becomes, IdentityTypeOK
    <2>4. founders = {}
      BY <2>1 DEF FoundInv
    <2>5. ASSUME NEW g \in Clients PROVE RequestKnown(g)'
      <3>1. RequestKnown(g) /\ h # Absent /\ g # Absent
        BY IdentityAssumption DEF FoundInv
      <3>2. CASE g = h
        BY <2>1, <2>2, <2>3, <3>2 DEF RequestKnown, Commits
      <3>3. CASE g # h
        BY <2>1, <2>3, <2>4, <3>1, <3>3 DEF RequestKnown, Who, Commits, Existing
      <3>4. QED BY <3>2, <3>3
    <2>6. QED BY <1>0, <2>1, <2>4, <2>5 DEF FoundInv, Existing
  <1>2. ASSUME NEW h \in Clients, Onboard(h) PROVE FoundInv'
    <2>1. PICK u \in New(users) :
            /\ Commits(h, "onboard")
            /\ users' = [users EXCEPT ![u] = [role |-> "super_admin", status |-> "active"]]
            /\ founders' = founders \cup {u} /\ onboarding' = Absent
            /\ Becomes(h, NoRequest)
      BY <1>2 DEF Onboard
    <2>2. u \in UserIds
      BY <1>0, <2>1 DEF New, Fresh, IdentityTypeOK
    <2>3. onboarding = h /\ h # Absent /\ founders = {}
      BY <2>1, IdentityAssumption DEF FoundInv, RequestKnown, Commits
    <2>4. users'[u] = [role |-> "super_admin", status |-> "active"] /\ users'[u] \in UserRows
      BY <1>0, <2>1, <2>2 DEF IdentityTypeOK, UserRows, Roles
    <2>5. users'[u] # Absent
      BY <2>4, RowsExist
    <2>6. u \in Existing(users') /\ founders' = {u}
      BY <1>0, <2>1, <2>2, <2>3, <2>5 DEF Existing, IdentityTypeOK
    <2>7. \A g \in Clients : request'[g] = IF g = h THEN NoRequest ELSE request[g]
      BY <1>0, <2>1 DEF Becomes, IdentityTypeOK
    <2>8. ASSUME NEW g \in Clients PROVE RequestKnown(g)'
      <3>1. RequestKnown(g) /\ g # Absent
        BY IdentityAssumption DEF FoundInv
      <3>2. CASE g = h
        BY <1>b, <2>1, <2>7, <3>1, <3>2 DEF RequestKnown, Commits
      <3>3. CASE g # h
        BY <2>1, <2>3, <2>7, <3>1, <3>3 DEF RequestKnown, Who, Commits
      <3>4. QED BY <3>2, <3>3
    <2>9. QED BY <1>0, <2>1, <2>2, <2>6, <2>8 DEF FoundInv
  <1>3. ASSUME NEW h \in Clients, Login(h) PROVE FoundInv'
    <2>1. UNCHANGED <<users, request, onboarding, founders>>
      BY <1>3 DEF Login
    <2>2. QED BY <1>0, <2>1 DEF FoundInv, RequestKnown, Who, Commits, Existing
  <1>4. ASSUME NEW h \in Clients, ByCookie(h) PROVE FoundInv'
    <2>1. PICK s \in Existing(sids) :
            /\ request[h].pc = "idle" /\ ActiveUser(sids[s])
            /\ Becomes(h, [NoRequest EXCEPT !.pc = "ready", !.sid = s, !.who =
                 [user |-> sids[s], role |-> users[sids[s]].role, method |-> "cookie",
                  target |-> sids[s]]])
            /\ UNCHANGED <<users, onboarding, founders>>
      BY <1>4 DEF ByCookie
    <2> DEFINE next == [NoRequest EXCEPT !.pc = "ready", !.sid = s, !.who =
                 [user |-> sids[s], role |-> users[sids[s]].role, method |-> "cookie",
                  target |-> sids[s]]]
    <2>2. next.pc = "ready" /\ next.op = "none" /\ next.who.user = sids[s]
      BY DEF NoRequest
    <2>3. sids[s] \in Existing(users) /\ founders # {} /\ request[h].op # "onboard"
      BY <2>1 DEF ActiveUser, FoundInv, RequestKnown
    <2> HIDE DEF next
    <2>4. QED BY <1>0, <2>1, <2>2, <2>3, FoundOnSame DEF next
  <1>5. ASSUME NEW h \in Clients, ByKey(h) PROVE FoundInv'
    <2>1. PICK k \in Existing(apikeys) :
            /\ request[h].pc = "idle" /\ ActiveUser(apikeys[k])
            /\ Becomes(h, [NoRequest EXCEPT !.pc = "ready", !.who =
                 [user |-> apikeys[k], role |-> "user", method |-> "apikey",
                  target |-> apikeys[k]]])
            /\ UNCHANGED <<users, onboarding, founders>>
      BY <1>5 DEF ByKey
    <2> DEFINE next == [NoRequest EXCEPT !.pc = "ready", !.who =
                 [user |-> apikeys[k], role |-> "user", method |-> "apikey",
                  target |-> apikeys[k]]]
    <2>2. next.pc = "ready" /\ next.op = "none" /\ next.who.user = apikeys[k]
      BY DEF NoRequest
    <2>3. apikeys[k] \in Existing(users) /\ founders # {} /\ request[h].op # "onboard"
      BY <2>1 DEF ActiveUser, FoundInv, RequestKnown
    <2> HIDE DEF next
    <2>4. QED BY <1>0, <2>1, <2>2, <2>3, FoundOnSame DEF next
  <1>6. ASSUME NEW h \in Clients, ActAs(h) PROVE FoundInv'
    <2>1. PICK u \in UserIds :
            /\ request[h].pc = "ready" /\ Becomes(h, [request[h] EXCEPT !.who.target = u])
            /\ UNCHANGED <<users, onboarding, founders>>
      BY <1>6 DEF ActAs
    <2> DEFINE next == [request[h] EXCEPT !.who.target = u]
    <2>2. request[h] \in Requests
      BY <1>0 DEF IdentityTypeOK
    <2>3. next.pc = "ready" /\ next.op = request[h].op /\ next.who.user = Who(h).user
      BY <2>1, <2>2 DEF Requests, Identities, Who
    <2> HIDE DEF next
    <2>4. QED BY <1>0, <1>a, <2>1, <2>3, FoundOnSame DEF next
  <1>7. ASSUME NEW h \in Clients, Logout(h) PROVE FoundInv'
    BY <1>0, <1>a, <1>b, <1>7, FoundOnSame DEF Logout, Serves
  <1>8. ASSUME NEW h \in Clients, EndRequest(h) PROVE FoundInv'
    <2>1. /\ onboarding' = IF onboarding = h THEN Absent ELSE onboarding
          /\ Becomes(h, NoRequest) /\ UNCHANGED <<users, founders>>
      BY <1>8 DEF EndRequest
    <2>2. \A g \in Clients : request'[g] = IF g = h THEN NoRequest ELSE request[g]
      BY <1>0, <2>1 DEF Becomes, IdentityTypeOK
    <2>3. ASSUME NEW g \in Clients PROVE RequestKnown(g)'
      <3>1. RequestKnown(g) /\ g # Absent /\ h # Absent
        BY IdentityAssumption DEF FoundInv
      <3>2. CASE g = h
        BY <1>b, <2>1, <2>2, <3>1, <3>2 DEF RequestKnown, Commits
      <3>3. CASE g # h
        BY <2>1, <2>2, <3>1, <3>3 DEF RequestKnown, Who, Commits, Existing
      <3>4. QED BY <3>2, <3>3
    <2>4. QED BY <1>0, <2>1, <2>3 DEF FoundInv, Existing
  <1>9. ASSUME NEW h \in Clients, CreateUser(h) PROVE FoundInv'
    <2>1. PICK u \in New(users), role \in {"user", "super_admin"} :
            /\ request[h].pc = "ready"
            /\ users' = [users EXCEPT ![u] = [role |-> role, status |-> "active"]]
            /\ Becomes(h, NoRequest) /\ UNCHANGED <<onboarding, founders>>
      BY <1>9 DEF CreateUser, Serves
    <2>2. [role |-> role, status |-> "active"] \in UserRows
      BY DEF UserRows, Roles
    <2>3. Existing(users) \subseteq Existing(users')
      BY <1>0, <2>1, <2>2, RowsExist DEF Existing, IdentityTypeOK
    <2>4. QED BY <1>0, <1>a, <1>b, <2>1, <2>3, FoundOn
  <1>10. ASSUME NEW h \in Clients, ReadUser(h) PROVE FoundInv'
    <2>1. PICK u \in Existing(users), row \in UserRows :
            /\ request[h].pc = "ready"
            /\ Becomes(h, [request[h] EXCEPT !.pc = "write", !.op = "user",
                                             !.id = u, !.row = row])
            /\ UNCHANGED <<users, onboarding, founders>>
      <3>1. PICK u \in Existing(users) :
              \E row \in {users[u]}
                 \cup {[users[u] EXCEPT !.role = r] : r \in {"user", "super_admin"}}
                 \cup {[users[u] EXCEPT !.status = s] : s \in {"active", "disabled"}} :
                /\ request[h].pc = "ready"
                /\ Becomes(h, [request[h] EXCEPT !.pc = "write", !.op = "user",
                                                 !.id = u, !.row = row])
                /\ UNCHANGED <<users, onboarding, founders>>
        BY <1>10 DEF ReadUser, Serves
      <3>2. users[u] \in UserRows
        BY <1>0 DEF Existing, IdentityTypeOK
      <3>3. /\ \A r \in Roles : [users[u] EXCEPT !.role = r] \in UserRows
            /\ \A t \in {"active", "disabled"} : [users[u] EXCEPT !.status = t] \in UserRows
        BY <3>2 DEF UserRows, Roles
      <3>4. QED BY <3>1, <3>2, <3>3 DEF Roles
    <2> DEFINE next == [request[h] EXCEPT !.pc = "write", !.op = "user", !.id = u, !.row = row]
    <2>2. request[h] \in Requests
      BY <1>0 DEF IdentityTypeOK
    <2>3. /\ next.op = "user" /\ next.id = u /\ next.row = row
          /\ next.who.user = Who(h).user
      BY <2>2 DEF Requests, Who
    <2>4. u \in UserIds /\ row # Absent
      BY <1>0, RowsExist DEF Existing, IdentityTypeOK
    <2> HIDE DEF next
    <2>5. QED BY <1>0, <1>a, <2>1, <2>3, <2>4, FoundOnSame DEF next
  <1>11. ASSUME NEW h \in Clients, WriteUser(h) PROVE FoundInv'
    <2>1. /\ Commits(h, "user") /\ users' = [users EXCEPT ![request[h].id] = request[h].row]
          /\ Becomes(h, NoRequest) /\ UNCHANGED <<onboarding, founders>>
      BY <1>11 DEF WriteUser
    <2>2. request[h].row # Absent /\ founders # {} /\ request[h].op # "onboard"
      BY <2>1 DEF FoundInv, RequestKnown, Commits
    <2>3. Existing(users) \subseteq Existing(users')
      BY <1>0, <2>1, <2>2 DEF Existing, IdentityTypeOK
    <2>4. QED BY <1>0, <1>b, <2>1, <2>2, <2>3, FoundOn
  <1>12. ASSUME NEW h \in Clients, DeleteUser(h) PROVE FoundInv'
    <2>1. PICK u \in Existing(users) :
            /\ request[h].pc = "ready" /\ "users" \in Powers[h] /\ u # Who(h).user
            /\ users' = [users EXCEPT ![u] = Absent]
            /\ Becomes(h, NoRequest) /\ UNCHANGED <<onboarding, founders>>
      BY <1>12 DEF DeleteUser, Serves
    <2>2. Existing(users') = Existing(users) \ {u}
      BY <1>0, <2>1 DEF Existing, IdentityTypeOK
    <2>3. founders # {} /\ Who(h).user \in Existing(users') /\ request[h].op # "onboard"
      BY <1>a, <2>1, <2>2
    <2>4. \A g \in Clients : request'[g] = IF g = h THEN NoRequest ELSE request[g]
      BY <1>0, <2>1 DEF Becomes, IdentityTypeOK
    <2>5. ASSUME NEW g \in Clients PROVE RequestKnown(g)'
      <3>1. RequestKnown(g) /\ RequestKnown(h)
        BY DEF FoundInv
      <3>2. CASE g = h
        BY <1>b, <2>1, <2>3, <2>4, <3>1, <3>2 DEF RequestKnown, Commits
      <3>3. CASE g # h
        <4>1. "users" \notin Powers[g]
          BY <2>1, <3>3 DEF OneAdministrator
        <4>2. QED BY <2>1, <2>3, <2>4, <3>1, <3>3, <4>1 DEF RequestKnown, Who, Commits
      <3>4. QED BY <3>2, <3>3
    <2>6. QED BY <1>0, <2>1, <2>3, <2>5 DEF FoundInv
  <1>13. ASSUME NEW h \in Clients, ValidateAgents(h) PROVE FoundInv'
    <2>1. PICK op \in {"create", "grant"}, as \in SUBSET OwnedAgents, k \in KeyIds :
            /\ request[h].pc = "ready"
            /\ Becomes(h, [request[h] EXCEPT !.pc = "write", !.op = op, !.id = k, !.agents = as])
            /\ UNCHANGED <<users, onboarding, founders>>
      BY <1>13 DEF ValidateAgents, Serves, Grantable
    <2> DEFINE next == [request[h] EXCEPT !.pc = "write", !.op = op, !.id = k, !.agents = as]
    <2>2. request[h] \in Requests
      BY <1>0 DEF IdentityTypeOK
    <2>3. next.op = op /\ next.who = Who(h)
      BY <2>2 DEF Requests, Who
    <2> HIDE DEF next
    <2>4. QED BY <1>0, <1>a, <2>1, <2>3, FoundOnSame DEF next
  <1>14. ASSUME NEW h \in Clients, CreateKey(h) PROVE FoundInv'
    BY <1>0, <1>b, <1>14, FoundOnSame DEF CreateKey, Commits
  <1>15. ASSUME NEW h \in Clients, GrantAgents(h) PROVE FoundInv'
    BY <1>0, <1>b, <1>15, FoundOnSame DEF GrantAgents, Commits
  <1>16. ASSUME NEW h \in Clients, ReadKey(h) PROVE FoundInv'
    <2>1. PICK op \in {"rotate", "revoke"}, k \in KeyIds :
            /\ request[h].pc = "ready"
            /\ Becomes(h, [request[h] EXCEPT !.pc = "write", !.op = op, !.id = k])
            /\ UNCHANGED <<users, onboarding, founders>>
      BY <1>0, <1>16 DEF ReadKey, Serves, Existing, IdentityTypeOK
    <2> DEFINE next == [request[h] EXCEPT !.pc = "write", !.op = op, !.id = k]
    <2>2. request[h] \in Requests
      BY <1>0 DEF IdentityTypeOK
    <2>3. next.op = op /\ next.who = Who(h)
      BY <2>2 DEF Requests, Who
    <2> HIDE DEF next
    <2>4. QED BY <1>0, <1>a, <2>1, <2>3, FoundOnSame DEF next
  <1>17. ASSUME NEW h \in Clients, RotateKey(h) PROVE FoundInv'
    BY <1>0, <1>b, <1>17, FoundOnSame DEF RotateKey, Commits
  <1>18. ASSUME NEW h \in Clients, RevokeKey(h) PROVE FoundInv'
    BY <1>0, <1>b, <1>18, FoundOnSame DEF RevokeKey, Commits
  <1>19. ASSUME NEW h \in Clients, CreateAgent(h) PROVE FoundInv'
    BY <1>0, <1>a, <1>b, <1>19, FoundOnSame DEF CreateAgent, Serves
  <1>20. ASSUME NEW h \in Clients, DeleteAgent(h) PROVE FoundInv'
    BY <1>0, <1>a, <1>b, <1>20, FoundOnSame DEF DeleteAgent, Serves
  <1>21. ASSUME Expire PROVE FoundInv'
    <2>1. UNCHANGED <<users, request, onboarding, founders>>
      BY <1>21 DEF Expire
    <2>2. QED BY <1>0, <2>1 DEF FoundInv, RequestKnown, Who, Commits, Existing
  <1>22. CASE UNCHANGED identityVars
    BY <1>0, <1>22 DEF identityVars, FoundInv, RequestKnown, Who, Commits, Existing
  <1>23. QED BY <1>1, <1>2, <1>3, <1>4, <1>5, <1>6, <1>7, <1>8, <1>9, <1>10, <1>11, <1>12, <1>13,
            <1>14, <1>15, <1>16, <1>17, <1>18, <1>19, <1>20, <1>21, <1>22 DEF IdentityNext

\* Where one request at a time administers users, requests to onboard that
\* overlap create one administrator (onboard under onboard_lock), and the agents
\* a key reaches are its owner's.
THEOREM IdentitySound == OneAdministrator => (IdentitySpec => []IdentityIsSound)
  <1> SUFFICES ASSUME OneAdministrator PROVE IdentitySpec => []IdentityIsSound
    OBVIOUS
  <1>1. FoundInv => FoundedOnce
    <2> SUFFICES ASSUME FoundInv PROVE Cardinality(founders) <= 1
      BY DEF FoundedOnce
    <2>1. CASE founders = {}
      BY <2>1, FS_EmptySet
    <2>2. CASE founders # {}
      <3>1. PICK u : founders = {u}
        BY <2>2 DEF FoundInv
      <3>2. Cardinality({u}) = 1
        BY FS_Singleton
      <3>3. QED BY <3>1, <3>2
    <2>3. QED BY <2>1, <2>2
  <1>2. FoundInv /\ [IdentityNext]_identityVars => FoundInv'
    BY FoundStep
  <1>3. IdentitySpec => []FoundedOnce
    BY <1>1, <1>2, FoundInit, PTL DEF IdentitySpec
  <1>4. KeysReachOwnAgents /\ FoundedOnce => IdentityIsSound
    BY DEF IdentityIsSound
  <1>5. QED BY <1>3, <1>4, KeysConfined, PTL
=============================================================================
