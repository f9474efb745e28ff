-------------------------- MODULE PluginHostProofs --------------------------
(***************************************************************************)
(* Proofs about PluginHost, for every number of calls, configurations and  *)
(* respawns.  What a task does up to its next suspension is composed of a  *)
(* few operators: one lemma each shows that it moves the task              *)
(* consistently (Moved); a task that so moves keeps the invariant.         *)
(***************************************************************************)
EXTENDS PluginHost, FiniteSetTheorems, TLAPS

Places   == {"idle", "lock", "spawn", "wlock", "drain", "wait", "term", "gather", "done"}
Methods  == {"execute", "initialize", "list", "shutdown", "stop"}
RpcCalls == [method : Methods, gen : 0..MaxSpawns]
Outcomes == {"result", "rejected", "broken"} \cup Failures
Goals    == {"call", "fail", "spawn", "finish", "raise"}
Pipes    == [Generations -> SUBSET {"full", "closed"}]

TaskTypes ==
    /\ pc \in [Tasks -> Places]
    /\ rpc \in [Tasks -> RpcCalls]
    /\ fut \in [Tasks -> {"none", "pending"} \cup Outcomes]
    /\ goal \in [Tasks -> Goals]
    /\ wrote \subseteq Calls \X Generations
    /\ pipe \in Pipes

Free(t) == IF holder = t THEN None ELSE holder

\* Task t has gone on to its next suspension, the others stay where they are,
\* and all that the invariant asks of t holds there.
Moved(t) ==
    /\ TaskTypes'
    /\ \A u \in Tasks \ {t} :
         pc'[u] = pc[u] /\ rpc'[u] = rpc[u] /\ fut'[u] = fut[u] /\ goal'[u] = goal[u]
    /\ IF InLock(t)' /\ t # Closer THEN holder \in {None, t} /\ holder' = t
       ELSE holder' = Free(t)
    /\ CallOK(t)'
    /\ t \in Calls => SentOK(t)'
    /\ \A u \in Calls \ {t}, g \in Generations : <<u, g>> \in wrote' <=> <<u, g>> \in wrote
    /\ fut'[t] = "pending" => reader[rpc'[t].gen] \in {"reading"} \cup Failures
    /\ closing /\ t # Closer => pc'[t] \in {"idle", "done"}
    /\ t = Closer => CloseOK' /\ pc'[t] # "idle"

\* What may follow a restart or a stop.
NextOK(t, next) ==
    /\ t \in Calls => next \in {"call", "fail"} /\ (next = "call" => Unsent(t))
    /\ t \in Admins => next \in {"finish", "spawn"}
    /\ t = Closer => next = "finish"

\* Under the lock or free to take it, and not closed.
MayLock(t) ==
    /\ t # Closer => holder \in {None, t} /\ ~closing
    /\ t \in Calls => \A g, h \in Generations : <<t, g>> \in wrote /\ <<t, h>> \in wrote => g = h

\* The tasks are the calls, the configurations and the one closer.
LEMMA TaskSets ==
    /\ Tasks = Calls \cup Admins \cup {Closer}
    /\ Calls \cap Admins = {} /\ Closer \notin Calls /\ Closer \notin Admins
    /\ None \notin Tasks /\ MaxSpawns \in Nat
    /\ \A g : g \in Generations <=> g \in 0..MaxSpawns /\ g # 0
BY TasksAssumption, SpawnsAssumption DEF Tasks, Generations

\* The part of the type invariant that a task's move has to keep.
LEMMA TypesOfTasks == HostInv => TaskTypes
BY DEF HostInv, TypeOK, TaskTypes, Places, Methods, RpcCalls, Outcomes, Failures, Goals, Pipes

\* A task that is through with its operation, and with the lock.
LEMMA FinishMoves ==
    ASSUME HostInv, NEW t \in Tasks, Finish(t), UNCHANGED <<proc, cur>>,
           t = Closer => \A g \in Generations : proc[g] # "up"
    PROVE  Moved(t)
<1> TaskTypes
  BY TypesOfTasks
<1>1. /\ pc' = [pc EXCEPT ![t] = "done"] /\ rpc' = [rpc EXCEPT ![t] = NoCall]
      /\ goal' = [goal EXCEPT ![t] = "finish"] /\ fut' = [fut EXCEPT ![t] = "none"]
      /\ holder' = Free(t) /\ UNCHANGED <<wrote, pipe>>
  BY DEF Finish, Leave, Free
<1>2. NoCall \in RpcCalls
  BY TaskSets DEF NoCall, RpcCalls, Methods
<1>3. TaskTypes'
  BY <1>1, <1>2 DEF TaskTypes, Places, Goals
<1>4. pc'[t] = "done" /\ fut'[t] = "none" /\ goal'[t] = "finish"
  BY <1>1 DEF TaskTypes
<1>5. CallOK(t)'
  BY <1>4 DEF CallOK, InRpc
<1>6. t \in Calls => SentOK(t)'
  BY <1>1, <1>4 DEF SentOK, Unsent, InRpc, HostInv
<1>7. t = Closer => CloseOK'
  BY <1>4 DEF CloseOK, InRpc, ClosedRunsNothing
<1>8. ~InLock(t)'
  BY <1>4 DEF InLock, InRpc
<1> QED
  BY <1>1, <1>3, <1>4, <1>5, <1>6, <1>7, <1>8, TaskSets DEF Moved, TaskTypes

\* A write leaves every pipe as it is, or the one it fills full.
LEMMA PutKeepsPipes ==
    ASSUME pipe \in Pipes, NEW t, NEW m, NEW g, NEW state, NEW future, Put(t, m, g, state, future)
    PROVE  pipe' \in Pipes
<1>1. pipe' \in {pipe, [pipe EXCEPT ![g] = @ \cup {"full"}]}
  BY DEF Put
<1> QED
  BY <1>1 DEF Pipes

\* A request to the current child leaves the task waiting, for the write lock,
\* the pipe or the answer, or with an error to pick up.
LEMMA RequestEffect ==
    ASSUME HostInv, NEW t \in Tasks, NEW m \in Methods \ {"stop"}, Running,
           m = "execute" => t \in Calls,
           Request(t, m, cur, proc[cur])
    PROVE  /\ pc' \in [Tasks -> Places] /\ \A u \in Tasks \ {t} : pc'[u] = pc[u]
           /\ pc'[t] \in {"wlock", "wait", "drain"} /\ pipe' \in Pipes
           /\ rpc' \in [Tasks -> RpcCalls] /\ \A u \in Tasks \ {t} : rpc'[u] = rpc[u]
           /\ rpc'[t].method = m /\ rpc'[t].gen = cur
           /\ fut' \in [Tasks -> {"none", "pending"} \cup Outcomes]
           /\ \A u \in Tasks \ {t} : fut'[u] = fut[u]
           /\ fut'[t] \in {"pending", "unavailable", "broken"}
           /\ fut'[t] = "broken" => proc[cur] = "dead"
           /\ \/ UNCHANGED wrote
              \/ m = "execute" /\ pc'[t] # "wlock" /\ wrote' = wrote \cup {<<t, cur>>}
<1> TaskTypes /\ cur \in Generations
  BY TypesOfTasks, TaskSets DEF HostInv, TypeOK, Running
<1>1. rpc' = [rpc EXCEPT ![t] = [method |-> m, gen |-> cur]]
  BY DEF Request
<1>2. [method |-> m, gen |-> cur] \in RpcCalls
  BY TaskSets DEF RpcCalls
<1>3. /\ rpc' \in [Tasks -> RpcCalls] /\ \A u \in Tasks \ {t} : rpc'[u] = rpc[u]
      /\ rpc'[t].method = m /\ rpc'[t].gen = cur
  BY <1>1, <1>2 DEF TaskTypes
<1>4. \E where \in {"wlock", "wait", "drain"}, future \in {"pending", "unavailable", "broken"} :
        /\ pc' = [pc EXCEPT ![t] = where] /\ fut' = [fut EXCEPT ![t] = future]
        /\ future = "broken" => proc[cur] = "dead"
        /\ \/ UNCHANGED wrote
           \/ m = "execute" /\ where # "wlock" /\ wrote' = wrote \cup {<<t, cur>>}
  <2>1. CASE WriteLocked
    BY <2>1 DEF Request
  <2>2. CASE ~WriteLocked
    <3>1. Put(t, m, cur, proc[cur], "pending")
      BY <2>2 DEF Request
    <3> QED
      BY <3>1 DEF Put
  <2> QED
    BY <2>1, <2>2
<1>5. pipe' \in Pipes
  BY PutKeepsPipes DEF Request, TaskTypes
<1> QED
  BY <1>3, <1>4, <1>5 DEF TaskTypes, Places, Outcomes, Failures

\* A call of the plugin's tool, made once, outside the lock.
LEMMA ExecuteMoves ==
    ASSUME HostInv, NEW t \in Calls, Running, ~closing, Unsent(t), SentOK(t),
           Request(t, "execute", cur, proc[cur]),
           holder' = Free(t), goal' = [goal EXCEPT ![t] = "call"], UNCHANGED <<proc, cur>>
    PROVE  Moved(t)
<1> TaskTypes /\ cur \in Generations /\ cur # 0 /\ t \in Tasks /\ t # Closer /\ t \notin Admins
    /\ proc[cur] # "none" /\ reader[cur] \in {"reading"} \cup Failures
  BY TypesOfTasks, TaskSets DEF HostInv, TypeOK, ChildInv, Running
<1>1. /\ pc' \in [Tasks -> Places] /\ \A u \in Tasks \ {t} : pc'[u] = pc[u]
      /\ pc'[t] \in {"wlock", "wait", "drain"}
      /\ rpc' \in [Tasks -> RpcCalls] /\ \A u \in Tasks \ {t} : rpc'[u] = rpc[u]
      /\ rpc'[t].method = "execute" /\ rpc'[t].gen = cur
      /\ fut' \in [Tasks -> {"none", "pending"} \cup Outcomes]
      /\ \A u \in Tasks \ {t} : fut'[u] = fut[u]
      /\ fut'[t] \in {"pending", "unavailable", "broken"}
      /\ pipe' \in Pipes
      /\ UNCHANGED wrote \/ (pc'[t] # "wlock" /\ wrote' = wrote \cup {<<t, cur>>})
  BY RequestEffect DEF Methods
<1>2. goal' \in [Tasks -> Goals] /\ goal'[t] = "call" /\ \A u \in Tasks \ {t} : goal'[u] = goal[u]
  BY DEF TaskTypes, Goals
<1>3. wrote' \subseteq Calls \X Generations
  BY <1>1 DEF TaskTypes
<1>4. CallOK(t)'
  BY <1>1 DEF CallOK, InRpc
<1>5. SentOK(t)'
  BY <1>1, <1>2 DEF SentOK, InRpc, Unsent
<1>6. ~InLock(t)'
  BY <1>1 DEF InLock, InRpc
<1>7. \A u \in Calls \ {t}, g \in Generations : <<u, g>> \in wrote' <=> <<u, g>> \in wrote
  BY <1>1
<1> QED
  BY <1>1, <1>2, <1>3, <1>4, <1>5, <1>6, <1>7 DEF Moved, TaskTypes

\* A request under the lock: initialize, list or shutdown.
LEMMA AskUnderLockMoves ==
    ASSUME HostInv, NEW t \in Tasks, NEW m \in {"initialize", "list", "shutdown"}, Running,
           MayLock(t), NEW next \in Goals, NextOK(t, next), t = Closer => m = "shutdown",
           Request(t, m, cur, proc[cur]),
           holder' = IF t = Closer THEN holder ELSE t,
           goal' = [goal EXCEPT ![t] = next], UNCHANGED <<proc, cur>>
    PROVE  Moved(t)
<1> TaskTypes /\ cur \in Generations /\ cur # 0
    /\ proc[cur] # "none" /\ reader[cur] \in {"reading"} \cup Failures
    /\ holder # Closer
  BY TypesOfTasks, TaskSets DEF HostInv, TypeOK, ChildInv, Running
<1>1. /\ pc' \in [Tasks -> Places] /\ \A u \in Tasks \ {t} : pc'[u] = pc[u]
      /\ pc'[t] \in {"wlock", "wait", "drain"} /\ pipe' \in Pipes
      /\ rpc' \in [Tasks -> RpcCalls] /\ \A u \in Tasks \ {t} : rpc'[u] = rpc[u]
      /\ rpc'[t].method = m /\ rpc'[t].gen = cur
      /\ fut' \in [Tasks -> {"none", "pending"} \cup Outcomes]
      /\ \A u \in Tasks \ {t} : fut'[u] = fut[u]
      /\ fut'[t] \in {"pending", "unavailable", "broken"}
      /\ fut'[t] = "broken" => proc[cur] = "dead"
      /\ UNCHANGED wrote
  BY RequestEffect DEF Methods
<1>2. goal' \in [Tasks -> Goals] /\ goal'[t] = next /\ \A u \in Tasks \ {t} : goal'[u] = goal[u]
  BY DEF TaskTypes
<1>3. CallOK(t)'
  BY <1>1, <1>2 DEF CallOK, InRpc, NextOK
<1>4. t \in Calls => SentOK(t)'
  BY <1>1, <1>2 DEF SentOK, InRpc, Unsent, NextOK, MayLock, HostInv
<1>5. t = Closer => CloseOK'
  BY <1>1, <1>2 DEF CloseOK, InRpc, NextOK, ClosedRunsNothing
<1>6. InLock(t)'
  BY <1>1 DEF InLock, InRpc
<1> QED
  BY <1>1, <1>2, <1>3, <1>4, <1>5, <1>6 DEF Moved, TaskTypes, MayLock, Free

\* _process is None: configure() goes on to spawn, anybody else is done.
LEMMA StoppedMoves ==
    ASSUME HostInv, NEW t \in Tasks, NEW next \in Goals, NextOK(t, next), MayLock(t),
           cur = 0, Stopped(t, next), fut' = [fut EXCEPT ![t] = "none"], UNCHANGED <<proc, cur>>
    PROVE  Moved(t)
<1> TaskTypes
  BY TypesOfTasks
<1>1. CASE next = "spawn"
  <2>1. /\ pc' = [pc EXCEPT ![t] = "spawn"] /\ holder' = t
        /\ goal' = [goal EXCEPT ![t] = "finish"] /\ UNCHANGED <<rpc, wrote, pipe>>
    BY <1>1 DEF Stopped
  <2>2. t \in Admins /\ t # Closer /\ t \notin Calls
    BY <1>1, TaskSets DEF NextOK
  <2>3. TaskTypes'
    BY <2>1 DEF TaskTypes, Places, Goals
  <2>4. pc'[t] = "spawn" /\ fut'[t] = "none" /\ goal'[t] = "finish"
    BY <2>1 DEF TaskTypes
  <2>5. CallOK(t)'
    BY <2>4 DEF CallOK, InRpc, Running
  <2>6. InLock(t)'
    BY <2>4 DEF InLock
  <2> QED
    BY <2>1, <2>2, <2>3, <2>4, <2>5, <2>6 DEF Moved, TaskTypes, MayLock
<1>2. CASE next # "spawn"
  <2>1. Finish(t)
    BY <1>2 DEF Stopped, Finish
  <2>2. \A g \in Generations : proc[g] # "up"
    BY TaskSets DEF HostInv, ChildInv, OneProcess
  <2> QED
    BY <2>1, <2>2, FinishMoves
<1> QED
  BY <1>1, <1>2

\* PluginProcess.stop(): ask the child to shut down, or wait for the reader of
\* one that is gone.
LEMMA StopMoves ==
    ASSUME HostInv, NEW t \in Tasks, NEW next \in Goals, NextOK(t, next), MayLock(t),
           Stop(t, next), UNCHANGED <<proc, cur>>
    PROVE  Moved(t)
<1> TaskTypes /\ holder # Closer
  BY TypesOfTasks, TaskSets DEF HostInv, TypeOK
<1>1. CASE cur = 0
  BY <1>1, StoppedMoves DEF Stop
<1>2. CASE cur # 0 /\ Running
  <2>1. /\ holder' = IF t = Closer THEN holder ELSE t
        /\ goal' = [goal EXCEPT ![t] = next] /\ Request(t, "shutdown", cur, proc[cur])
    BY <1>2 DEF Stop
  <2> QED
    BY <1>2, <2>1, AskUnderLockMoves
<1>3. CASE cur # 0 /\ ~Running
  <2>1. /\ holder' = IF t = Closer THEN holder ELSE t
        /\ goal' = [goal EXCEPT ![t] = next]
        /\ pc' = [pc EXCEPT ![t] = "gather"] /\ fut' = [fut EXCEPT ![t] = "none"]
        /\ UNCHANGED <<rpc, wrote, pipe>>
    BY <1>3 DEF Stop, Move
  <2>2. TaskTypes'
    BY <2>1 DEF TaskTypes, Places
  <2>3. pc'[t] = "gather" /\ fut'[t] = "none" /\ goal'[t] = next
    BY <2>1 DEF TaskTypes
  <2>4. CallOK(t)'
    BY <1>3, <2>3 DEF CallOK, InRpc, NextOK
  <2>5. t \in Calls => SentOK(t)'
    BY <2>1, <2>3 DEF SentOK, InRpc, Unsent, NextOK, MayLock, HostInv
  <2>6. t = Closer => CloseOK'
    BY <2>3 DEF CloseOK, InRpc, NextOK, ClosedRunsNothing
  <2>7. InLock(t)'
    BY <2>3 DEF InLock
  <2> QED
    BY <2>1, <2>2, <2>3, <2>4, <2>5, <2>6, <2>7 DEF Moved, TaskTypes, MayLock, Free
<1> QED
  BY <1>1, <1>2, <1>3

\* Leaving restart_lock, to the call or for good.
LEMMA ReturnMoves ==
    ASSUME HostInv, NEW t \in Tasks \ {Closer}, NEW next \in Goals, NextOK(t, next), ~closing,
           Return(t, next), UNCHANGED <<proc, cur>>
    PROVE  Moved(t)
<1>1. CASE next = "call" /\ Running
  <2>1. t \in Calls /\ Unsent(t) /\ SentOK(t)
    BY <1>1, TaskSets DEF NextOK, HostInv
  <2> QED
    BY <1>1, <2>1, ExecuteMoves DEF Return, Free
<1>2. CASE ~(next = "call" /\ Running)
  BY <1>2, FinishMoves DEF Return
<1> QED
  BY <1>1, <1>2

\* _restart() with the lock at hand.
LEMMA RestartMoves ==
    ASSUME HostInv, NEW t \in Calls, NEW next \in {"call", "fail"}, NextOK(t, next), ~closing,
           holder = None, Restart(t, next), UNCHANGED <<proc, cur>>
    PROVE  Moved(t)
<1> TaskTypes /\ t \in Tasks /\ t # Closer /\ t \notin Admins /\ next \in Goals
  BY TypesOfTasks, TaskSets DEF Goals
<1>1. CASE Running
  BY <1>1, ReturnMoves DEF Restart
<1>2. CASE ~Running
  <2>1. /\ pc' = [pc EXCEPT ![t] = "spawn"] /\ fut' = [fut EXCEPT ![t] = "none"]
        /\ holder' = t /\ goal' = [goal EXCEPT ![t] = next] /\ UNCHANGED <<rpc, wrote, pipe>>
    BY <1>2 DEF Restart, Move
  <2>2. TaskTypes'
    BY <2>1 DEF TaskTypes, Places
  <2>3. pc'[t] = "spawn" /\ fut'[t] = "none" /\ goal'[t] = next
    BY <2>1 DEF TaskTypes
  <2>4. CallOK(t)'
    BY <1>2, <2>3 DEF CallOK, InRpc, Running
  <2>5. SentOK(t)'
    BY <2>1, <2>3 DEF SentOK, InRpc, Unsent, NextOK, HostInv
  <2>6. InLock(t)'
    BY <2>3 DEF InLock
  <2> QED
    BY <2>1, <2>2, <2>3, <2>4, <2>5, <2>6 DEF Moved, TaskTypes
<1> QED
  BY <1>1, <1>2

\* _restart() from outside the lock: the task queues for it if it is held.
LEMMA EnterRestartMoves ==
    ASSUME HostInv, NEW t \in Calls, NEW next \in {"call", "fail"}, NextOK(t, next), ~closing,
           holder # t, EnterRestart(t, next), UNCHANGED <<proc, cur>>
    PROVE  Moved(t)
<1> TaskTypes /\ t \in Tasks /\ t # Closer /\ t \notin Admins /\ next \in Goals
  BY TypesOfTasks, TaskSets DEF Goals
<1>1. CASE holder = None
  BY <1>1, RestartMoves DEF EnterRestart
<1>2. CASE holder # None
  <2>1. /\ pc' = [pc EXCEPT ![t] = "lock"] /\ fut' = [fut EXCEPT ![t] = "none"]
        /\ goal' = [goal EXCEPT ![t] = next] /\ UNCHANGED <<rpc, wrote, pipe, holder>>
    BY <1>2 DEF EnterRestart, Move
  <2>2. TaskTypes'
    BY <2>1 DEF TaskTypes, Places
  <2>3. pc'[t] = "lock" /\ fut'[t] = "none" /\ goal'[t] = next
    BY <2>1 DEF TaskTypes
  <2>4. CallOK(t)'
    BY <2>3 DEF CallOK, InRpc
  <2>5. SentOK(t)'
    BY <2>1, <2>3 DEF SentOK, InRpc, Unsent, NextOK, HostInv
  <2>6. ~InLock(t)'
    BY <2>3 DEF InLock, InRpc
  <2> QED
    BY <2>1, <2>2, <2>3, <2>4, <2>5, <2>6 DEF Moved, TaskTypes, Free
<1> QED
  BY <1>1, <1>2

\* What a task does with the end of its JSON-RPC call, however it ended.
LEMMA AfterMoves ==
    ASSUME HostInv, NEW t \in Tasks, InRpc(t), rpc[t].method # "stop", NEW outcome \in Outcomes,
           After(t, outcome), UNCHANGED <<proc, cur>>,
           t = Closer => outcome # "cancelled" /\ (outcome = "broken" => proc[cur] # "up")
    PROVE  Moved(t)
<1> DEFINE m == rpc[t].method
<1> /\ TaskTypes /\ m \in Methods \ {"stop"} /\ pc[t] \notin {"idle", "done"}
    /\ goal[t] \in Goals /\ holder # Closer
  BY TypesOfTasks, TaskSets DEF TaskTypes, RpcCalls, InRpc, HostInv, TypeOK
<1>1. t # Closer => ~closing
  BY TaskSets DEF HostInv, LockInv
<1>2. CallOK(t) /\ (t \in Calls => SentOK(t)) /\ CloseOK
  BY DEF HostInv
<1>3. t # Closer => (holder = t <=> m # "execute")
  BY TaskSets DEF HostInv, LockInv, InLock, InRpc
<1>4. CASE m = "execute"
  <2>1. t \in Calls /\ t # Closer /\ holder # t
    BY <1>2, <1>3, <1>4, TaskSets DEF CallOK
  <2>2. CASE outcome = "unavailable"
    <3>1. EnterRestart(t, "fail")
      BY <1>4, <2>2 DEF After
    <3>2. NextOK(t, "fail")
      BY <2>1, TaskSets DEF NextOK
    <3> QED
      BY <1>1, <2>1, <3>1, <3>2, EnterRestartMoves
  <2>3. CASE outcome # "unavailable"
    <3>1. Finish(t)
      BY <1>4, <2>3 DEF After
    <3> QED
      BY <2>1, <3>1, FinishMoves
  <2> QED
    BY <2>2, <2>3
<1>5. ASSUME m # "execute" PROVE NextOK(t, goal[t]) /\ MayLock(t)
  <2>1. MayLock(t)
    BY <1>1, <1>2, <1>3, <1>5 DEF MayLock, SentOK
  <2>2. t \in Calls => goal[t] \in {"call", "fail"} /\ (goal[t] = "call" => Unsent(t))
    BY <1>2, <1>5 DEF SentOK, InRpc, Unsent
  <2> QED
    BY <1>2, <2>1, <2>2 DEF NextOK, CallOK, CloseOK
<1>6. CASE m = "initialize"
  <2>1. t # Closer /\ holder = t
    BY <1>2, <1>3, <1>6 DEF CloseOK
  <2>2. CASE outcome = "result" /\ Running
    <3>1. Request(t, "list", cur, proc[cur]) /\ UNCHANGED <<holder, goal>>
      BY <1>6, <2>2 DEF After
    <3>2. goal' = [goal EXCEPT ![t] = goal[t]]
      BY <3>1 DEF TaskTypes
    <3> QED
      BY <1>5, <1>6, <2>1, <2>2, <3>1, <3>2, AskUnderLockMoves
  <2>3. CASE ~(outcome = "result" /\ Running)
    <3>1. Stop(t, goal[t])
      BY <1>6, <2>3 DEF After
    <3> QED
      BY <1>5, <1>6, <3>1, StopMoves
  <2> QED
    BY <2>2, <2>3
<1>7. CASE m = "list"
  <2>1. t # Closer
    BY <1>2, <1>7 DEF CloseOK
  <2>2. \/ Return(t, goal[t]) \/ Finish(t) \/ Stop(t, goal[t])
    BY <1>7 DEF After, Outcomes, Failures
  <2> QED
    BY <1>1, <1>5, <1>7, <2>1, <2>2, ReturnMoves, FinishMoves, StopMoves
<1>8. CASE m = "shutdown"
  <2>1. CASE outcome \in {"broken", "cancelled"}
    <3>1. Finish(t)
      BY <1>8, <2>1 DEF After
    <3>2. t = Closer => \A g \in Generations : proc[g] # "up"
      BY <2>1 DEF HostInv, ChildInv, OneProcess
    <3> QED
      BY <3>1, <3>2, FinishMoves
  <2>2. CASE outcome \notin {"broken", "cancelled"}
    <3>1. \E where \in {"gather", "term"} :
            /\ pc' = [pc EXCEPT ![t] = where] /\ rpc' = [rpc EXCEPT ![t].method = "stop"]
            /\ fut' = [fut EXCEPT ![t] = "none"] /\ UNCHANGED <<goal, holder, wrote>>
            /\ pipe' = [pipe EXCEPT ![cur] = @ \cup {"closed"}]
      BY <1>8, <2>2 DEF After
    <3>2. rpc[t] \in RpcCalls
      BY DEF TaskTypes
    <3>3. /\ rpc' \in [Tasks -> RpcCalls] /\ \A u \in Tasks \ {t} : rpc'[u] = rpc[u]
          /\ rpc'[t].method = "stop" /\ rpc'[t].gen = rpc[t].gen
      BY <3>1, <3>2 DEF TaskTypes, RpcCalls, Methods
    <3>4. TaskTypes' /\ pc'[t] \in {"gather", "term"} /\ fut'[t] = "none"
      <4>1. cur \in Generations
        BY <1>2, <1>8, TaskSets DEF CallOK, HostInv, TypeOK
      <4>2. pipe' \in Pipes
        BY <3>1, <4>1 DEF TaskTypes, Pipes
      <4> QED
        BY <3>1, <3>3, <4>2 DEF TaskTypes, Places
    <3>5. rpc[t].gen = cur /\ cur # 0 /\ proc[cur] # "none"
      BY <1>2, <1>8 DEF CallOK
    <3>6. CallOK(t)'
      BY <1>2, <3>1, <3>3, <3>4, <3>5 DEF CallOK, InRpc
    <3>7. t \in Calls => SentOK(t)'
      BY <1>2, <1>8, <3>1, <3>3, <3>4 DEF SentOK, InRpc, Unsent
    <3>8. t = Closer => CloseOK'
      BY <1>2, <3>1, <3>3, <3>4 DEF CloseOK, InRpc, ClosedRunsNothing
    <3>9. InLock(t)'
      BY <3>3, <3>4 DEF InLock, InRpc
    <3> QED
      BY <1>1, <1>3, <1>8, <3>1, <3>3, <3>4, <3>6, <3>7, <3>8, <3>9 DEF Moved, TaskTypes, Free
  <2> QED
    BY <2>1, <2>2
<1> QED
  BY <1>4, <1>6, <1>7, <1>8 DEF Methods

\* A task that moves consistently keeps the invariant; one that waits for a
\* cancelled reader does not move.
LEMMA MovedInv ==
    ASSUME HostInv, NEW t \in Tasks, Moved(t), pc[t] # "gather", UNCHANGED childVars,
           enabled' \in BOOLEAN, timedOut' \subseteq Calls,
           closing' = (closing \/ t = Closer),
           t = Closer => \A u \in Calls \cup Admins : pc[u] \in {"idle", "done"}
    PROVE  HostInv'
<1> TaskTypes /\ TaskTypes' /\ UNCHANGED <<proc, reader, cur>> /\ t \in Calls \cup Admins \cup {Closer}
  BY TypesOfTasks, TaskSets DEF Moved, childVars
<1>1. \A u \in Tasks \ {t} :
        pc'[u] = pc[u] /\ rpc'[u] = rpc[u] /\ fut'[u] = fut[u] /\ goal'[u] = goal[u]
  BY DEF Moved
<1>2. \A u \in Tasks \ {t} : InLock(u)' <=> InLock(u)
  BY <1>1 DEF InLock, InRpc
<1>3. LockInv'
  <2>1. \A u \in Calls \cup Admins : holder' = u <=> InLock(u)'
    <3> SUFFICES ASSUME NEW u \in Calls \cup Admins PROVE holder' = u <=> InLock(u)'
      OBVIOUS
    <3>1. u \in Tasks /\ u # Closer /\ u # None /\ (holder = u <=> InLock(u))
      BY TaskSets DEF HostInv, LockInv
    <3>2. CASE u = t
      BY <3>1, <3>2 DEF Moved, Free
    <3>3. CASE u # t
      BY <1>2, <3>1, <3>3 DEF Moved, Free
    <3> QED
      BY <3>2, <3>3
  <2>2. closing' <=> pc'[Closer] # "idle"
    <3>1. CASE t = Closer
      BY <3>1 DEF Moved
    <3>2. CASE t # Closer
      BY <1>1, <3>2, TaskSets DEF HostInv, LockInv, TypeOK
    <3> QED
      BY <3>1, <3>2
  <2>3. closing' => \A u \in Calls \cup Admins : pc'[u] \in {"idle", "done"}
    <3> SUFFICES ASSUME closing', NEW u \in Calls \cup Admins PROVE pc'[u] \in {"idle", "done"}
      OBVIOUS
    <3>1. CASE u = t
      BY <3>1, TaskSets DEF Moved
    <3>2. CASE u # t
      BY <1>1, <3>2, TaskSets DEF HostInv, LockInv
    <3> QED
      BY <3>1, <3>2
  <2> QED
    BY <2>1, <2>2, <2>3 DEF LockInv
<1>4. \A u \in Tasks : CallOK(u)'
  <2> SUFFICES ASSUME NEW u \in Tasks, u # t PROVE CallOK(u)'
    BY DEF Moved
  <2>1. CallOK(u)
    BY DEF HostInv
  <2> QED
    BY <1>1, <2>1 DEF CallOK, InRpc, Running
<1>5. \A u \in Calls : SentOK(u)'
  <2> SUFFICES ASSUME NEW u \in Calls, u # t PROVE SentOK(u)'
    BY DEF Moved
  <2>1. SentOK(u) /\ u \in Tasks
    BY TaskSets DEF HostInv
  <2>2. \A g \in Generations : <<u, g>> \in wrote' <=> <<u, g>> \in wrote
    BY DEF Moved
  <2> QED
    BY <1>1, <2>1, <2>2 DEF SentOK, InRpc, Unsent
<1>6. ChildInv'
  <2>1. PendingIsHeard'
    BY <1>1 DEF HostInv, ChildInv, PendingIsHeard, Moved
  <2>2. \A g \in Generations : reader[g] = "cancelled" =>
          g = cur /\ \E u \in Calls : pc'[u] = "gather"
    BY <1>1, TaskSets DEF HostInv, ChildInv
  <2> QED
    BY <2>1, <2>2 DEF HostInv, ChildInv, OneProcess
<1>7. CloseOK'
  <2>1. CASE t = Closer
    BY <2>1 DEF Moved
  <2>2. CASE t # Closer
    BY <1>1, <2>2, TaskSets DEF HostInv, CloseOK, InRpc, ClosedRunsNothing
  <2> QED
    BY <2>1, <2>2
<1>8. TypeOK'
  <2>1. holder' \in Calls \cup Admins \cup {None}
    BY TaskSets DEF Moved, Free, HostInv, TypeOK
  <2>2. closing' \in BOOLEAN
    BY TaskSets DEF HostInv, TypeOK
  <2> QED
    BY <2>1, <2>2
    DEF HostInv, TypeOK, TaskTypes, Places, Methods, RpcCalls, Outcomes, Failures, Goals, Pipes
<1> QED
  BY <1>3, <1>4, <1>5, <1>6, <1>7, <1>8 DEF HostInv

----------------------------------------------------------------------------
(* The tasks' steps *)

\* execute() is called.
LEMMA ExecuteInv ==
    ASSUME HostInv, NEW t \in Tasks, Execute(t)
    PROVE  HostInv'
<1> /\ t \in Calls /\ pc[t] = "idle" /\ t # Closer /\ TaskTypes
    /\ UNCHANGED <<proc, cur>> /\ UNCHANGED childVars /\ UNCHANGED modeVars
  BY TypesOfTasks, TaskSets DEF Execute, childVars
<1>1. NextOK(t, "call") /\ Unsent(t) /\ holder # t
  BY TaskSets DEF NextOK, Unsent, HostInv, LockInv, InLock, InRpc
<1>2. Moved(t)
  <2>1. CASE Finish(t)
    BY <2>1, FinishMoves
  <2>2. CASE ~closing /\ Return(t, "call")
    BY <1>1, <2>2, ReturnMoves, TaskSets DEF Goals
  <2>3. CASE ~closing /\ EnterRestart(t, "call")
    BY <1>1, <2>3, EnterRestartMoves
  <2> QED
    BY <2>1, <2>2, <2>3 DEF Execute
<1> QED
  BY <1>2, MovedInv DEF modeVars, HostInv, TypeOK

\* configure() under the lock.
LEMMA ConfiguredMoves ==
    ASSUME HostInv, NEW t \in Admins, Configured(t), ~closing, holder \in {None, t},
           UNCHANGED <<proc, cur>>
    PROVE  Moved(t) /\ enabled' \in BOOLEAN
<1> t \in Tasks /\ t # Closer /\ t \notin Calls /\ enabled \in BOOLEAN
  BY TaskSets DEF HostInv, TypeOK
<1>1. MayLock(t) /\ NextOK(t, "finish") /\ NextOK(t, "spawn")
  BY DEF MayLock, NextOK
<1>2. Stop(t, "finish") \/ Stop(t, "spawn") \/ Finish(t)
  BY DEF Configured
<1>3. enabled' \in BOOLEAN
  BY DEF Configured
<1> QED
  BY <1>1, <1>2, <1>3, StopMoves, FinishMoves DEF Goals

\* configure() is called.
LEMMA ConfigureInv ==
    ASSUME HostInv, NEW t \in Tasks, Configure(t)
    PROVE  HostInv'
<1> /\ t \in Admins /\ pc[t] = "idle" /\ ~closing /\ t # Closer /\ t \notin Calls /\ TaskTypes
    /\ UNCHANGED <<proc, cur, closing, timedOut>> /\ UNCHANGED childVars
    /\ enabled \in BOOLEAN
  BY TypesOfTasks, TaskSets DEF Configure, childVars, HostInv, TypeOK
<1>1. CASE holder = None
  BY <1>1, ConfiguredMoves, MovedInv DEF Configure, HostInv, TypeOK
<1>2. CASE holder # None
  <2>1. /\ pc' = [pc EXCEPT ![t] = "lock"] /\ fut' = [fut EXCEPT ![t] = "none"]
        /\ UNCHANGED <<rpc, wrote, pipe, goal, holder, enabled>>
    BY <1>2 DEF Configure, Move
  <2>2. TaskTypes' /\ pc'[t] = "lock" /\ fut'[t] = "none"
    BY <2>1 DEF TaskTypes, Places
  <2>3. CallOK(t)' /\ ~InLock(t)'
    BY <2>1, <2>2 DEF CallOK, InLock, InRpc, HostInv
  <2>4. holder # t
    BY DEF HostInv, LockInv, InLock, InRpc
  <2>5. Moved(t)
    BY <2>1, <2>2, <2>3, <2>4 DEF Moved, TaskTypes, Free
  <2> QED
    BY <2>1, <2>5, MovedInv DEF HostInv, TypeOK
<1> QED
  BY <1>1, <1>2

\* A task gets restart_lock after a wait.
LEMMA AcquireInv ==
    ASSUME HostInv, NEW t \in Tasks, Acquire(t)
    PROVE  HostInv'
<1> /\ pc[t] = "lock" /\ holder = None /\ TaskTypes
    /\ UNCHANGED <<proc, cur, closing, timedOut>> /\ UNCHANGED childVars
    /\ enabled \in BOOLEAN /\ closing \in BOOLEAN /\ timedOut \subseteq Calls
  BY TypesOfTasks DEF Acquire, childVars, HostInv, TypeOK
<1>1. t # Closer /\ ~closing
  BY TaskSets DEF HostInv, CloseOK, LockInv
<1>2. CASE t \in Calls /\ Restart(t, goal[t]) /\ UNCHANGED enabled
  <2>1. goal[t] \in {"call", "fail"} /\ NextOK(t, goal[t])
    BY <1>2, TaskSets DEF HostInv, SentOK, NextOK, Unsent
  <2> QED
    BY <1>1, <1>2, <2>1, RestartMoves, MovedInv
<1>3. CASE t \in Admins /\ Configured(t)
  BY <1>1, <1>3, ConfiguredMoves, MovedInv
<1> QED
  BY <1>2, <1>3 DEF Acquire

\* PluginManager.stop() is called.
LEMMA CloseInv ==
    ASSUME HostInv, Close
    PROVE  HostInv'
<1> /\ Closer \in Tasks /\ Closer \notin Calls /\ Closer \notin Admins /\ pc[Closer] = "idle"
    /\ \A u \in Calls \cup Admins : pc[u] \in {"idle", "done"}
    /\ closing' = TRUE /\ Stop(Closer, "finish")
    /\ UNCHANGED <<proc, cur, enabled, timedOut>> /\ UNCHANGED childVars
  BY TaskSets DEF Close, childVars
<1>1. NextOK(Closer, "finish") /\ MayLock(Closer)
  BY DEF NextOK, MayLock
<1>2. Moved(Closer)
  BY <1>1, StopMoves DEF Goals
<1> QED
  BY <1>2, MovedInv DEF HostInv, TypeOK

\* MovedInv for a task that is under way: if it is the closer, no other is.
LEMMA MovedOn ==
    ASSUME HostInv, NEW t \in Tasks, Moved(t), pc[t] \notin {"idle", "gather"},
           UNCHANGED <<childVars, enabled, closing>>, timedOut' \subseteq Calls
    PROVE  HostInv'
<1>1. t = Closer => closing /\ \A u \in Calls \cup Admins : pc[u] \in {"idle", "done"}
  BY DEF HostInv, LockInv
<1>2. enabled \in BOOLEAN /\ closing \in BOOLEAN
  BY DEF HostInv, TypeOK
<1> QED
  BY <1>1, <1>2, MovedInv DEF childVars

\* The start of the child fails, with or without a process to clear away.
LEMMA SpawnFailsInv ==
    ASSUME HostInv, NEW t \in Tasks, SpawnFails(t)
    PROVE  HostInv'
<1> /\ pc[t] = "spawn" /\ UNCHANGED <<proc, cur>> /\ UNCHANGED <<childVars, enabled, closing>>
    /\ timedOut' \subseteq Calls /\ goal[t] \in Goals
  BY DEF SpawnFails, childVars, modeVars, HostInv, TypeOK, Goals
<1>1. t # Closer /\ t \in Calls \cup Admins /\ ~closing
  BY TaskSets DEF HostInv, CloseOK, LockInv
<1>2. holder = t
  BY <1>1 DEF HostInv, LockInv, InLock
<1>3. MayLock(t)
  BY <1>1, <1>2 DEF MayLock, HostInv, SentOK
<1>4. NextOK(t, goal[t])
  <2>1. t \in Calls => SentOK(t)
    BY DEF HostInv
  <2>2. CallOK(t)
    BY DEF HostInv
  <2> QED
    BY <1>1, <2>1, <2>2 DEF NextOK, SentOK, CallOK, Unsent
<1>5. Moved(t)
  <2>1. CASE Finish(t)
    BY <1>1, <2>1, FinishMoves
  <2>2. CASE Stop(t, goal[t])
    BY <1>3, <1>4, <2>2, StopMoves
  <2> QED
    BY <2>1, <2>2 DEF SpawnFails
<1> QED
  BY <1>5, MovedOn

\* The write lock is free: the request goes out, or finds the child gone.
LEMMA GetWriteLockInv ==
    ASSUME HostInv, NEW t \in Tasks, GetWriteLock(t)
    PROVE  HostInv'
<1> DEFINE g == rpc[t].gen
           m == rpc[t].method
<1> /\ pc[t] = "wlock" /\ TaskTypes /\ UNCHANGED <<proc, cur>> /\ UNCHANGED <<childVars, enabled, closing>>
    /\ timedOut' \subseteq Calls /\ UNCHANGED <<rpc, goal, holder>>
    /\ Put(t, m, g, proc[g], fut[t])
  BY TypesOfTasks DEF GetWriteLock, childVars, modeVars, HostInv, TypeOK
<1> /\ CallOK(t) /\ (t \in Calls => SentOK(t)) /\ CloseOK /\ holder # Closer
    /\ (fut[t] = "pending" => reader[g] \in {"reading"} \cup Failures)
    /\ fut[t] # "none"
  BY TaskSets DEF HostInv, TypeOK, ChildInv, PendingIsHeard, CallOK
<1>1. \E where \in {"wait", "drain"}, future \in {fut[t], "unavailable", "broken"} :
        /\ pc' = [pc EXCEPT ![t] = where] /\ fut' = [fut EXCEPT ![t] = future]
        /\ (future = "broken" /\ future # fut[t]) => proc[g] = "dead"
        /\ \/ UNCHANGED wrote
           \/ m = "execute" /\ wrote' = wrote \cup {<<t, g>>}
  BY DEF Put
<1>2. g \in Generations /\ m # "stop" /\ (m = "execute" => t \in Calls)
  BY TaskSets DEF TaskTypes, RpcCalls, CallOK, InRpc
<1>3. fut[t] \in Outcomes \cup {"pending"}
  BY DEF TaskTypes
<1>4. TaskTypes' /\ pc'[t] \in {"wait", "drain"} /\ fut'[t] # "none"
  <2>1. pipe' \in Pipes
    BY PutKeepsPipes DEF TaskTypes
  <2> QED
    BY <1>1, <1>2, <1>3, <2>1 DEF TaskTypes, Places, Outcomes, Failures
<1>5. CallOK(t)'
  BY <1>1, <1>4 DEF CallOK, InRpc, TaskTypes
<1>6. t \in Calls => SentOK(t)'
  BY <1>1, <1>4 DEF SentOK, InRpc, Unsent
<1>7. t = Closer => CloseOK'
  BY <1>1, <1>2, <1>4, TaskSets DEF CloseOK, InRpc, ClosedRunsNothing, TaskTypes
<1>8. InLock(t)' <=> InLock(t)
  BY <1>4 DEF InLock, InRpc
<1>9. t # Closer => (holder = t <=> InLock(t)) /\ ~closing
  BY TaskSets DEF HostInv, LockInv
<1>10. fut'[t] = "pending" => reader[g] \in {"reading"} \cup Failures
  BY <1>1 DEF TaskTypes
<1>11. \A u \in Calls \ {t}, h \in Generations : <<u, h>> \in wrote' <=> <<u, h>> \in wrote
  BY <1>1
<1>12. Moved(t)
  BY <1>1, <1>4, <1>5, <1>6, <1>7, <1>8, <1>9, <1>10, <1>11 DEF Moved, Free, TaskTypes
<1> QED
  BY <1>12, MovedOn

\* The wait for the pipe is over, because the child read or because it is gone.
LEMMA DrainedInv ==
    ASSUME HostInv, NEW t \in Tasks, Drained(t)
    PROVE  HostInv'
<1> /\ pc[t] = "drain" /\ pc' = [pc EXCEPT ![t] = "wait"]
    /\ UNCHANGED <<proc, cur>> /\ UNCHANGED <<childVars, enabled, closing>>
    /\ UNCHANGED <<rpc, goal, holder, wrote, pipe>> /\ timedOut' \subseteq Calls
    /\ TaskTypes /\ CallOK(t) /\ (t \in Calls => SentOK(t)) /\ CloseOK /\ holder # Closer
  BY TypesOfTasks, TaskSets DEF Drained, childVars, modeVars, HostInv, TypeOK
<1>1. \/ fut' = fut
      \/ fut' = [fut EXCEPT ![t] = "broken"] /\ proc[rpc[t].gen] # "up"
  BY DEF Drained
<1>2. TaskTypes' /\ pc'[t] = "wait" /\ fut'[t] # "none"
  BY <1>1 DEF TaskTypes, Places, Outcomes, CallOK
<1>3. CallOK(t)' /\ (t \in Calls => SentOK(t)')
  BY <1>2 DEF CallOK, SentOK, InRpc, Unsent
<1>4. InLock(t)' <=> InLock(t)
  BY <1>2 DEF InLock, InRpc
<1>5. t # Closer => (holder = t <=> InLock(t)) /\ ~closing
  BY TaskSets DEF HostInv, LockInv
<1>6. fut'[t] = "pending" => reader[rpc[t].gen] \in {"reading"} \cup Failures
  BY <1>1 DEF TaskTypes, HostInv, ChildInv, PendingIsHeard
<1>7. t = Closer => CloseOK'
  BY <1>1, <1>2 DEF CloseOK, InRpc, ClosedRunsNothing, TaskTypes
<1>8. Moved(t)
  BY <1>1, <1>2, <1>3, <1>4, <1>5, <1>6, <1>7, TaskSets DEF Moved, Free, TaskTypes
<1> QED
  BY <1>8, MovedOn

\* The JSON-RPC call is over: an answer, an error, a timeout or a cancellation.
LEMMA AfterInv ==
    ASSUME HostInv, NEW t \in Tasks, InRpc(t), rpc[t].method # "stop", NEW outcome \in Outcomes,
           After(t, outcome), UNCHANGED <<childVars, enabled, closing>>, timedOut' \subseteq Calls,
           t = Closer => outcome # "cancelled" /\ (outcome = "broken" => proc[cur] # "up")
    PROVE  HostInv'
<1>1. Moved(t)
  BY AfterMoves DEF childVars
<1> QED
  BY <1>1, MovedOn DEF InRpc

\* The task sees what its future was settled with.
LEMMA AnsweredInv ==
    ASSUME HostInv, NEW t \in Tasks, Answered(t)
    PROVE  HostInv'
<1> /\ pc[t] = "wait" /\ fut[t] # "pending" /\ After(t, fut[t])
    /\ UNCHANGED <<childVars, enabled, closing>> /\ timedOut' \subseteq Calls
    /\ CallOK(t) /\ CloseOK /\ InRpc(t)
  BY DEF Answered, modeVars, HostInv, TypeOK, InRpc
<1>1. fut[t] \in Outcomes /\ rpc[t].method # "stop"
  BY TypesOfTasks DEF CallOK, TaskTypes
<1>2. t = Closer => fut[t] # "cancelled" /\ (fut[t] = "broken" => proc[cur] # "up")
  BY DEF CallOK, CloseOK
<1> QED
  BY <1>1, <1>2, AfterInv

\* A task ends its wait for an answer, or the child it terminated has exited.
LEMMA TimeoutInv ==
    ASSUME HostInv, NEW t \in Tasks, Timeout(t) \/ Terminated(t)
    PROVE  HostInv'
<1> /\ pc[t] \in {"wait", "term"}
    /\ UNCHANGED <<proc, cur>> /\ UNCHANGED <<childVars, enabled, closing>> /\ timedOut' \subseteq Calls
    /\ TaskTypes /\ CallOK(t) /\ (t \in Calls => SentOK(t)) /\ CloseOK /\ InRpc(t) /\ holder # Closer
  BY TypesOfTasks, TaskSets DEF Timeout, Terminated, childVars, modeVars, HostInv, TypeOK, InRpc
<1>1. CASE After(t, "unavailable") /\ rpc[t].method # "stop"
  BY <1>1, AfterInv DEF Outcomes, Failures
<1>2. CASE /\ UNCHANGED <<goal, holder>>
           /\ \/ pc[t] = "wait" /\ Move(t, "term")
              \/ rpc[t].method = "stop" /\ Move(t, "gather")
  <2>1. \E where \in {"term", "gather"} :
          /\ pc' = [pc EXCEPT ![t] = where] /\ fut' = [fut EXCEPT ![t] = "none"]
          /\ UNCHANGED <<rpc, wrote, pipe, goal, holder>>
          /\ where = "gather" <=> rpc[t].method = "stop"
    BY <1>2 DEF Move, CallOK
  <2>2. TaskTypes' /\ pc'[t] \in {"term", "gather"} /\ fut'[t] = "none"
    BY <2>1 DEF TaskTypes, Places
  <2>3. CallOK(t)'
    BY <2>1, <2>2 DEF CallOK, InRpc, TaskTypes
  <2>4. t \in Calls => SentOK(t)'
    BY <2>1, <2>2 DEF SentOK, InRpc, Unsent, TaskTypes
  <2>5. t = Closer => CloseOK'
    BY <2>1, <2>2 DEF CloseOK, InRpc, ClosedRunsNothing
  <2>6. InLock(t)' <=> InLock(t)
    BY <2>1, <2>2 DEF InLock, InRpc, TaskTypes
  <2>7. t # Closer => (holder = t <=> InLock(t)) /\ ~closing
    BY TaskSets DEF HostInv, LockInv
  <2>8. Moved(t)
    BY <2>1, <2>2, <2>3, <2>4, <2>5, <2>6, <2>7 DEF Moved, Free, TaskTypes
  <2> QED
    BY <2>8, MovedOn
<1> QED
  BY <1>1, <1>2 DEF Timeout, Terminated, CallOK

\* Whoever is under the lock, or runs the closer's stop, is alone there.
LEMMA AloneUnderLock ==
    ASSUME HostInv, NEW t \in Tasks, InLock(t), pc[t] # "idle", NEW u \in Tasks \ {t}
    PROVE  /\ ~InLock(u)
           /\ u = Closer => pc[u] = "idle" /\ fut[u] = "none"
<1>1. t # Closer => t \in Calls \cup Admins /\ holder = t /\ pc[t] # "done"
  BY TaskSets DEF HostInv, LockInv, InLock, InRpc
<1>2. CASE u = Closer
  <2>1. ~closing /\ pc[u] = "idle"
    BY <1>1, <1>2 DEF HostInv, LockInv
  <2> QED
    BY <2>1, <1>2 DEF InLock, InRpc, HostInv, CallOK
<1>3. CASE u # Closer
  <2>1. CASE t = Closer
    BY <1>3, <2>1, TaskSets DEF HostInv, LockInv, InLock, InRpc
  <2>2. CASE t # Closer
    BY <1>1, <1>3, <2>2, TaskSets DEF HostInv, LockInv
  <2> QED
    BY <2>1, <2>2
<1> QED
  BY <1>2, <1>3

\* A child is started, under the lock and with no other child up.
LEMMA SpawnedInv ==
    ASSUME HostInv, NEW t \in Tasks, Spawned(t)
    PROVE  HostInv'
<1> /\ pc[t] = "spawn" /\ UNCHANGED <<goal, holder, enabled, closing, timedOut>>
    /\ TaskTypes /\ InLock(t) /\ ~Running /\ CloseOK /\ CallOK(t) /\ (t \in Calls => SentOK(t))
  BY TypesOfTasks DEF Spawned, modeVars, HostInv, InLock, CallOK
<1>1. PICK g \in Generations :
        /\ proc[g] = "none" /\ proc' = [proc EXCEPT ![g] = "up"]
        /\ reader' = [reader EXCEPT ![g] = "reading"] /\ cur' = g
        /\ Request(t, "initialize", g, "up")
  BY DEF Spawned
<1>2. /\ t # Closer /\ t \in Calls \cup Admins /\ ~closing
  BY TaskSets DEF HostInv, LockInv, CloseOK
<1>3. [method |-> "initialize", gen |-> g] \in RpcCalls
  BY TaskSets DEF RpcCalls, Methods
<1>4. \E where \in {"wlock", "wait", "drain"}, future \in {"pending", "unavailable"} :
        /\ pc' = [pc EXCEPT ![t] = where] /\ fut' = [fut EXCEPT ![t] = future]
        /\ rpc' = [rpc EXCEPT ![t] = [method |-> "initialize", gen |-> g]] /\ UNCHANGED wrote
  <2>1. CASE WriteLocked
    BY <1>1, <2>1 DEF Request
  <2>2. CASE ~WriteLocked
    <3>1. Put(t, "initialize", g, "up", "pending")
      BY <1>1, <2>2 DEF Request
    <3>2. rpc' = [rpc EXCEPT ![t] = [method |-> "initialize", gen |-> g]]
      BY <1>1 DEF Request
    <3> QED
      BY <3>1, <3>2 DEF Put
  <2> QED
    BY <2>1, <2>2
<1>5. /\ TaskTypes' /\ pc'[t] \in {"wlock", "wait", "drain"} /\ fut'[t] \in {"pending", "unavailable"}
      /\ rpc'[t].method = "initialize" /\ rpc'[t].gen = g
      /\ \A u \in Tasks \ {t} : pc'[u] = pc[u] /\ rpc'[u] = rpc[u] /\ fut'[u] = fut[u]
      /\ UNCHANGED wrote
  <2>1. pipe' \in Pipes
    BY <1>1, PutKeepsPipes DEF Request, TaskTypes
  <2> QED
    BY <1>3, <1>4, <2>1 DEF TaskTypes, Places, Outcomes, Failures
<1>6. /\ proc \in [Generations -> {"none", "up", "dead", "reaped"}]
      /\ reader \in [Generations -> {"none", "reading", "ended"} \cup Failures]
      /\ cur \in 0..MaxSpawns
  BY DEF HostInv, TypeOK
<1>7. \A h \in Generations : proc[h] \notin {"up", "dead"} /\ reader[h] # "cancelled"
  <2> SUFFICES ASSUME NEW h \in Generations
               PROVE  proc[h] \notin {"up", "dead"} /\ reader[h] # "cancelled"
    OBVIOUS
  <2>1. proc[h] \notin {"up", "dead"}
    BY <1>6, TaskSets DEF HostInv, ChildInv, OneProcess, Running
  <2>2. ~\E u \in Calls : pc[u] = "gather"
    BY AloneUnderLock, TaskSets DEF InLock
  <2> QED
    BY <2>1, <2>2 DEF HostInv, ChildInv
<1>8. \A u \in Tasks : CallOK(u)'
  <2> SUFFICES ASSUME NEW u \in Tasks PROVE CallOK(u)'
    OBVIOUS
  <2>1. CASE u = t
    BY <1>1, <1>5, <1>6, <2>1, TaskSets DEF CallOK, InRpc
  <2>2. CASE u # t
    <3>1. CallOK(u) /\ ~InLock(u)
      BY <2>2, AloneUnderLock DEF HostInv
    <3>2. InRpc(u) => rpc[u].gen \in Generations
      BY <3>1, TaskSets DEF CallOK, TaskTypes, RpcCalls
    <3> QED
      BY <1>1, <1>5, <1>6, <2>2, <3>1, <3>2, TaskSets DEF CallOK, InRpc, InLock
  <2> QED
    BY <2>1, <2>2
<1>9. \A u \in Calls : SentOK(u)'
  <2> SUFFICES ASSUME NEW u \in Calls PROVE SentOK(u)'
    OBVIOUS
  <2>1. SentOK(u) /\ u \in Tasks
    BY TaskSets DEF HostInv
  <2> QED
    BY <1>5, <2>1 DEF SentOK, InRpc, Unsent
<1>10. LockInv'
  <2>1. \A u \in Calls \cup Admins : InLock(u)' <=> InLock(u)
    BY <1>5, TaskSets DEF InLock, InRpc
  <2> QED
    BY <1>2, <1>5, <2>1, TaskSets DEF HostInv, LockInv
<1>11. ChildInv'
  <2>1. PendingIsHeard'
    <3> SUFFICES ASSUME NEW u \in Tasks, fut'[u] = "pending"
                 PROVE  reader'[rpc'[u].gen] \in {"reading"} \cup Failures
      BY DEF PendingIsHeard
    <3>1. CASE u = t
      BY <1>1, <1>5, <1>6, <3>1
    <3>2. CASE u # t
      <4>1. fut[u] = "pending" /\ CallOK(u) /\ reader[rpc[u].gen] \in {"reading"} \cup Failures
        BY <1>5, <3>2 DEF HostInv, ChildInv, PendingIsHeard
      <4>2. rpc[u].gen \in Generations
        BY <4>1, TaskSets DEF CallOK, InRpc, TaskTypes, RpcCalls
      <4> QED
        BY <1>1, <1>5, <1>6, <3>2, <4>1, <4>2
    <3> QED
      BY <3>1, <3>2
  <2> QED
    BY <1>1, <1>6, <1>7, <2>1, TaskSets DEF HostInv, ChildInv, OneProcess
<1>12. CloseOK'
  <2>1. pc[Closer] = "idle" /\ fut[Closer] = "none" /\ Closer \in Tasks
    BY <1>2, AloneUnderLock, TaskSets
  <2> QED
    BY <1>2, <1>5, <2>1 DEF CloseOK, InRpc, ClosedRunsNothing
<1>13. TypeOK'
  BY <1>1, <1>5, <1>6, TaskSets
  DEF HostInv, TypeOK, TaskTypes, Places, Methods, RpcCalls, Outcomes, Failures, Goals, Pipes
<1> QED
  BY <1>8, <1>9, <1>10, <1>11, <1>12, <1>13 DEF HostInv

\* The reader has ended: the process is forgotten and every future settled.
LEMMA GatheredInv ==
    ASSUME HostInv, NEW t \in Tasks, Gathered(t)
    PROVE  HostInv'
<1> /\ pc[t] = "gather" /\ reader[cur] = "ended" /\ UNCHANGED <<proc, reader, enabled, closing, timedOut>>
    /\ TaskTypes /\ InLock(t) /\ CloseOK /\ CallOK(t) /\ (t \in Calls => SentOK(t)) /\ goal[t] \in Goals
    /\ cur \in Generations
  BY TypesOfTasks, TaskSets DEF Gathered, modeVars, HostInv, TypeOK, InLock, CallOK, Goals
<1>1. \A g \in Generations : proc[g] \notin {"up", "dead"} /\ reader[g] # "cancelled"
  BY DEF HostInv, ChildInv, OneProcess
<1>2. t # Closer => t \in Calls \cup Admins /\ holder = t /\ ~closing
  BY TaskSets DEF HostInv, LockInv
<1>3. ASSUME NEW u \in Tasks \ {t}
      PROVE  ~InLock(u) /\ CallOK(u)
  BY AloneUnderLock DEF HostInv
<1>4. CASE goal[t] = "raise"
  <2>1. Finish(t) /\ UNCHANGED cur
    BY <1>4 DEF Gathered
  <2>2. t \in Calls /\ t # Closer
    BY <1>4, <1>2 DEF CallOK, CloseOK
  <2>3. Moved(t)
    BY <2>1, <2>2, FinishMoves
  <2>4. /\ pc'[t] = "done"
        /\ holder' = None /\ fut'[t] = "none" /\ goal'[t] = "finish"
    BY <1>2, <2>1, <2>2 DEF Finish, Leave, TaskTypes
  <2>5. TaskTypes' /\ \A u \in Tasks \ {t} :
          pc'[u] = pc[u] /\ rpc'[u] = rpc[u] /\ fut'[u] = fut[u] /\ goal'[u] = goal[u]
    BY <2>3 DEF Moved
  <2>6. wrote' = wrote
    BY <2>1 DEF Finish, Leave
  <2>7. LockInv'
    BY <1>2, <1>3, <2>2, <2>4, <2>5, TaskSets DEF HostInv, LockInv, InLock, InRpc
  <2>8. \A u \in Tasks : CallOK(u)'
    <3> SUFFICES ASSUME NEW u \in Tasks, u # t PROVE CallOK(u)'
      BY <2>3 DEF Moved
    <3> QED
      BY <1>3, <2>1, <2>5 DEF CallOK, InRpc, Running
  <2>9. \A u \in Calls : SentOK(u)'
    <3> SUFFICES ASSUME NEW u \in Calls, u # t PROVE SentOK(u)'
      BY <2>3 DEF Moved
    <3> QED
      BY <2>5, <2>6, TaskSets DEF SentOK, InRpc, Unsent, HostInv
  <2>10. ChildInv'
    BY <1>1, <2>1, <2>4, <2>5 DEF HostInv, ChildInv, OneProcess, PendingIsHeard
  <2>11. CloseOK'
    BY <2>2, <2>5, TaskSets DEF CloseOK, InRpc, ClosedRunsNothing
  <2>12. TypeOK'
    BY <2>1, <2>4, <2>5
    DEF HostInv, TypeOK, TaskTypes, Places, Methods, RpcCalls, Outcomes, Failures, Goals, Pipes
  <2> QED
    BY <2>7, <2>8, <2>9, <2>10, <2>11, <2>12 DEF HostInv
<1>5. CASE goal[t] # "raise"
  <2>1. fut' = Failed("unavailable") /\ cur' = 0 /\ Stopped(t, goal[t])
    BY <1>5 DEF Gathered
  <2>2. \E where \in {"spawn", "done"}, call \in {rpc[t], NoCall} :
          /\ pc' = [pc EXCEPT ![t] = where] /\ rpc' = [rpc EXCEPT ![t] = call]
          /\ goal' = [goal EXCEPT ![t] = "finish"] /\ UNCHANGED <<wrote, pipe>>
          /\ where = "spawn" => goal[t] = "spawn" /\ holder' = t
          /\ where = "done" => holder' = Free(t)
    <3>1. rpc = [rpc EXCEPT ![t] = rpc[t]]
      BY DEF TaskTypes
    <3> QED
      BY <2>1, <3>1 DEF Stopped, Leave, Free
  <2>3. NoCall \in RpcCalls
    BY TaskSets DEF NoCall, RpcCalls, Methods
  <2>4. /\ fut' \in [Tasks -> {"none", "pending"} \cup Outcomes]
        /\ \A u \in Tasks : /\ fut'[u] # "pending" /\ (fut'[u] = "none" <=> fut[u] = "none")
                            /\ fut'[u] \in {fut[u], "unavailable"}
    BY <2>1 DEF Failed, TaskTypes, Outcomes, Failures
  <2>5. TaskTypes'
    <3>1. \A call \in {rpc[t], NoCall} : [rpc EXCEPT ![t] = call] \in [Tasks -> RpcCalls]
      BY <2>3 DEF TaskTypes
    <3>2. \A where \in {"spawn", "done"} : [pc EXCEPT ![t] = where] \in [Tasks -> Places]
      BY DEF TaskTypes, Places
    <3>3. [goal EXCEPT ![t] = "finish"] \in [Tasks -> Goals]
      BY DEF TaskTypes, Goals
    <3> QED
      BY <2>2, <2>4, <3>1, <3>2, <3>3 DEF TaskTypes
  <2>6. /\ pc'[t] \in {"spawn", "done"} /\ goal'[t] = "finish" /\ UNCHANGED wrote
        /\ \A u \in Tasks \ {t} : pc'[u] = pc[u] /\ rpc'[u] = rpc[u] /\ goal'[u] = goal[u]
        /\ fut[t] = "none"
    BY <2>2 DEF TaskTypes, CallOK
  <2>7. pc'[t] = "spawn" => t \in Admins /\ t # Closer /\ t \notin Calls
    BY <2>2, TaskSets DEF SentOK, CloseOK, TaskTypes, Tasks
  <2>8. t # Closer => holder' = IF pc'[t] = "spawn" THEN t ELSE None
    BY <1>2, <2>2 DEF Free, TaskTypes
  <2>9. t = Closer => holder' = holder
    BY <2>2, <2>7, TaskSets DEF Free, TaskTypes, HostInv, TypeOK
  <2>10. LockInv'
    <3>1. \A u \in Calls \cup Admins : holder' = u <=> InLock(u)'
      <4> SUFFICES ASSUME NEW u \in Calls \cup Admins PROVE holder' = u <=> InLock(u)'
        OBVIOUS
      <4>1. u \in Tasks /\ u # Closer /\ u # None /\ (holder = u <=> InLock(u))
        BY TaskSets DEF HostInv, LockInv
      <4>2. CASE u = t
        BY <2>6, <2>8, <4>1, <4>2 DEF InLock, InRpc
      <4>3. CASE u # t
        BY <1>2, <1>3, <2>6, <2>8, <2>9, <4>1, <4>3 DEF InLock, InRpc
      <4> QED
        BY <4>2, <4>3
    <3>2. closing' <=> pc'[Closer] # "idle"
      BY <2>6, TaskSets DEF HostInv, LockInv
    <3>3. closing' => \A u \in Calls \cup Admins : pc'[u] \in {"idle", "done"}
      BY <1>2, <2>6, TaskSets DEF HostInv, LockInv
    <3> QED
      BY <3>1, <3>2, <3>3 DEF LockInv
  <2>11. \A u \in Tasks : CallOK(u)'
    <3> SUFFICES ASSUME NEW u \in Tasks PROVE CallOK(u)'
      OBVIOUS
    <3>1. CASE u = t
      BY <2>1, <2>4, <2>6, <3>1 DEF CallOK, InRpc, Running
    <3>2. CASE u # t
      BY <1>3, <2>1, <2>4, <2>6, <3>2 DEF CallOK, InRpc, InLock, Running
    <3> QED
      BY <3>1, <3>2
  <2>12. \A u \in Calls : SentOK(u)'
    <3> SUFFICES ASSUME NEW u \in Calls PROVE SentOK(u)'
      OBVIOUS
    <3>1. CASE u = t
      BY <2>6, <2>7, <3>1 DEF SentOK, InRpc, Unsent
    <3>2. CASE u # t
      BY <2>6, <3>2, TaskSets DEF SentOK, InRpc, Unsent, HostInv
    <3> QED
      BY <3>1, <3>2
  <2>13. ChildInv'
    BY <1>1, <2>1, <2>4 DEF HostInv, ChildInv, OneProcess, PendingIsHeard
  <2>14. CloseOK'
    <3>1. CASE t = Closer
      BY <1>1, <2>4, <2>6, <2>7, <3>1 DEF CloseOK, InRpc, ClosedRunsNothing
    <3>2. CASE t # Closer
      BY <1>1, <2>4, <2>6, <3>2, TaskSets DEF CloseOK, InRpc, ClosedRunsNothing
    <3> QED
      BY <3>1, <3>2
  <2>15. TypeOK'
    <3>1. holder' \in Calls \cup Admins \cup {None}
      BY <1>2, <2>8, <2>9 DEF HostInv, TypeOK
    <3>2. cur' \in 0..MaxSpawns
      BY <2>1, TaskSets
    <3> QED
      BY <2>5, <3>1, <3>2
      DEF HostInv, TypeOK, TaskTypes, Places, Methods, RpcCalls, Outcomes, Failures, Goals, Pipes
  <2> QED
    BY <2>10, <2>11, <2>12, <2>13, <2>14, <2>15 DEF HostInv
<1> QED
  BY <1>4, <1>5

\* A call is cut at its suspension point, by a cancellation or by its timer.
LEMMA CutInv ==
    ASSUME HostInv, NEW t \in Tasks, Cut(t), timedOut' \subseteq Calls
    PROVE  HostInv'
<1> /\ t \in Calls /\ t # Closer /\ t \notin Admins /\ pc[t] \notin {"idle", "done"}
    /\ UNCHANGED <<proc, cur, enabled, closing>>
    /\ TaskTypes /\ CallOK(t) /\ SentOK(t) /\ ~closing
  BY TypesOfTasks, TaskSets DEF Cut, HostInv, LockInv
<1>1. CASE /\ InRpc(t) /\ rpc[t].method # "stop"
           /\ After(t, "cancelled") /\ UNCHANGED reader
  BY <1>1, AfterInv DEF Outcomes, Failures, childVars
<1>2. CASE Finish(t) /\ UNCHANGED reader /\ pc[t] # "gather"
  BY <1>2, FinishMoves, MovedOn DEF childVars
<1>3. CASE /\ pc[t] = "gather"
           /\ goal' = [goal EXCEPT ![t] = "raise"]
           /\ reader' = IF reader[cur] = "reading"
                        THEN [reader EXCEPT ![cur] = "cancelled"] ELSE reader
           /\ UNCHANGED <<pc, rpc, fut, holder, wrote, pipe>>
  <2>1. cur \in Generations /\ reader \in [Generations -> {"none", "reading", "ended"} \cup Failures]
    BY <1>3, TaskSets DEF CallOK, HostInv, TypeOK
  <2>2. \A g \in Generations :
          /\ reader'[g] \in {"none", "reading", "ended"} \cup Failures
          /\ reader'[g] = reader[g] \/ (g = cur /\ reader[g] = "reading" /\ reader'[g] = "cancelled")
    BY <1>3, <2>1 DEF Failures
  <2>3. reader' \in [Generations -> {"none", "reading", "ended"} \cup Failures]
    BY <1>3, <2>1 DEF Failures
  <2>4. goal' \in [Tasks -> Goals] /\ goal'[t] = "raise" /\ \A u \in Tasks \ {t} : goal'[u] = goal[u]
    BY <1>3 DEF TaskTypes, Goals
  <2>5. LockInv'
    BY <1>3 DEF HostInv, LockInv, InLock, InRpc
  <2>6. \A u \in Tasks : CallOK(u)'
    <3> SUFFICES ASSUME NEW u \in Tasks PROVE CallOK(u)'
      OBVIOUS
    <3>1. CallOK(u)
      BY DEF HostInv
    <3>2. u \in Admins => goal'[u] = goal[u]
      BY <2>4
    <3> QED
      BY <1>3, <3>1, <3>2 DEF CallOK, InRpc, Running
  <2>7. \A u \in Calls : SentOK(u)'
    <3> SUFFICES ASSUME NEW u \in Calls PROVE SentOK(u)'
      OBVIOUS
    <3>1. SentOK(u) /\ u \in Tasks
      BY TaskSets DEF HostInv
    <3> QED
      BY <1>3, <2>4, <3>1 DEF SentOK, InRpc, Unsent
  <2>8. ChildInv'
    <3>1. PendingIsHeard'
      <4> SUFFICES ASSUME NEW u \in Tasks, fut[u] = "pending"
                   PROVE  reader'[rpc[u].gen] \in {"reading"} \cup Failures
        BY <1>3 DEF PendingIsHeard
      <4>1. CallOK(u) /\ reader[rpc[u].gen] \in {"reading"} \cup Failures
        BY DEF HostInv, ChildInv, PendingIsHeard
      <4>2. rpc[u].gen \in Generations
        BY <4>1, TaskSets DEF CallOK, InRpc, TaskTypes, RpcCalls
      <4> QED
        BY <2>2, <4>1, <4>2 DEF Failures
    <3>2. \A g \in Generations :
            /\ reader'[g] = "none" <=> proc'[g] = "none"
            /\ reader'[g] = "ended" => proc'[g] = "reaped"
            /\ reader'[g] = "cancelled" => g = cur' /\ \E u \in Calls : pc'[u] = "gather"
      <4> SUFFICES ASSUME NEW g \in Generations
                   PROVE  /\ reader'[g] = "none" <=> proc[g] = "none"
                          /\ reader'[g] = "ended" => proc[g] = "reaped"
                          /\ reader'[g] = "cancelled" => g = cur /\ \E u \in Calls : pc'[u] = "gather"
        OBVIOUS
      <4>1. /\ reader[g] = "none" <=> proc[g] = "none"
            /\ reader[g] = "ended" => proc[g] = "reaped"
            /\ reader[g] = "cancelled" => g = cur
        BY DEF HostInv, ChildInv
      <4>2. \E u \in Calls : pc'[u] = "gather"
        BY <1>3
      <4> QED
        BY <2>2, <4>1, <4>2
    <3> QED
      BY <3>1, <3>2 DEF HostInv, ChildInv, OneProcess
  <2>9. CloseOK'
    BY <1>3, <2>4, TaskSets DEF HostInv, CloseOK, InRpc, ClosedRunsNothing
  <2>10. TypeOK'
    BY <1>3, <2>3, <2>4 DEF HostInv, TypeOK, Goals
  <2> QED
    BY <2>5, <2>6, <2>7, <2>8, <2>9, <2>10 DEF HostInv
<1> QED
  BY <1>1, <1>2, <1>3 DEF Cut, InRpc, CallOK

----------------------------------------------------------------------------
(* The children's steps *)

\* A step of a child or of its reader moves no task, and settles futures only.
LEMMA ChildMoves ==
    ASSUME HostInv, UNCHANGED <<pc, rpc, goal, holder, wrote, cur, enabled, closing, timedOut>>,
           fut' \in [Tasks -> {"none", "pending"} \cup Outcomes], pipe' \in Pipes,
           proc' \in [Generations -> {"none", "up", "dead", "reaped"}],
           reader' \in [Generations -> {"none", "reading", "ended"} \cup Failures],
           \A t \in Tasks : fut'[t] = "none" <=> fut[t] = "none",
           \A g \in Generations : /\ proc'[g] = "none" <=> proc[g] = "none"
                                  /\ proc'[g] = "up" => proc[g] = "up"
                                  /\ proc[g] = "reaped" => proc'[g] = "reaped",
           fut'[Closer] # "cancelled", fut'[Closer] = "broken" => fut[Closer] = "broken",
           ChildInv'
    PROVE  HostInv'
<1> TaskTypes /\ cur \in 0..MaxSpawns /\ Closer \in Tasks
  BY TypesOfTasks, TaskSets DEF HostInv, TypeOK
<1>1. LockInv'
  BY DEF HostInv, LockInv, InLock, InRpc
<1>2. \A u \in Tasks : CallOK(u)'
  <2> SUFFICES ASSUME NEW u \in Tasks PROVE CallOK(u)'
    OBVIOUS
  <2>1. CallOK(u)
    BY DEF HostInv
  <2>2. InRpc(u) => rpc[u].gen \in Generations
    BY <2>1, TaskSets DEF CallOK, TaskTypes, RpcCalls
  <2>3. ~Running => ~Running'
    BY TaskSets DEF Running
  <2> QED
    BY <2>1, <2>2, <2>3 DEF CallOK, InRpc
<1>3. \A u \in Calls : SentOK(u)'
  BY DEF HostInv, SentOK, InRpc, Unsent
<1>4. CloseOK'
  <2>1. fut[Closer] = "broken" => rpc[Closer].gen \in Generations
    BY TaskSets DEF HostInv, CallOK, InRpc, TaskTypes, RpcCalls
  <2> QED
    BY <2>1 DEF HostInv, CloseOK, InRpc, ClosedRunsNothing
<1>5. TypeOK'
  BY DEF HostInv, TypeOK, TaskTypes, Places, Methods, RpcCalls, Outcomes, Failures, Goals, Pipes
<1> QED
  BY <1>1, <1>2, <1>3, <1>4, <1>5 DEF HostInv

\* What the types say of the children.
LEMMA ChildTypes ==
    HostInv => /\ proc \in [Generations -> {"none", "up", "dead", "reaped"}]
               /\ reader \in [Generations -> {"none", "reading", "ended"} \cup Failures]
               /\ Closer \in Tasks /\ CloseOK /\ ChildInv
               /\ \A t \in Tasks : fut[t] = "pending" => rpc[t].gen \in Generations
BY TaskSets DEF HostInv, TypeOK, CallOK, InRpc

\* The plugin answers a request.
LEMMA AnswerInv ==
    ASSUME HostInv, NEW g \in Generations, Answer(g)
    PROVE  HostInv'
<1> /\ UNCHANGED <<pc, rpc, goal, holder, wrote, cur, enabled, closing, timedOut>>
    /\ UNCHANGED <<proc, reader>> /\ TaskTypes /\ ChildInv /\ pipe' \in Pipes
  BY TypesOfTasks DEF Answer, childVars, modeVars, HostInv, TaskTypes
<1>1. PICK t \in Tasks, answer \in {"result", "rejected"} :
        fut[t] = "pending" /\ fut' = [fut EXCEPT ![t] = answer]
  BY DEF Answer
<1>2. /\ fut' \in [Tasks -> {"none", "pending"} \cup Outcomes]
      /\ \A u \in Tasks : /\ fut'[u] = fut[u] \/ (fut[u] = "pending" /\ fut'[u] = answer)
  BY <1>1 DEF TaskTypes, Outcomes
<1>3. ChildInv'
  <2>1. PendingIsHeard'
    BY <1>2 DEF ChildInv, PendingIsHeard
  <2> QED
    BY <2>1 DEF ChildInv, OneProcess
<1> QED
  BY <1>2, <1>3, ChildTypes, ChildMoves DEF CloseOK

\* The reader meets the end of the file, or bytes that are no message.
LEMMA ReaderFailsInv ==
    ASSUME HostInv, NEW g \in Generations, Eof(g) \/ Breaks(g)
    PROVE  HostInv'
<1>1. PICK error \in {"unavailable", "protocol"} : ReaderFails(g, error)
  BY DEF Eof, Breaks
<1> /\ UNCHANGED <<pc, rpc, fut, goal, holder, wrote, cur, enabled, closing, timedOut>>
    /\ UNCHANGED proc /\ TaskTypes /\ ChildInv /\ pipe' \in Pipes /\ reader[g] = "reading"
    /\ reader' = [reader EXCEPT ![g] = error]
  BY <1>1, TypesOfTasks DEF ReaderFails, taskVars, modeVars, HostInv, TaskTypes
<1>2. reader' \in [Generations -> {"none", "reading", "ended"} \cup Failures]
  BY ChildTypes DEF Failures
<1>3. \A h \in Generations :
        reader'[h] = reader[h] \/ (reader[h] = "reading" /\ reader'[h] = error)
  BY ChildTypes
<1>4. ChildInv'
  <2>1. PendingIsHeard'
    BY <1>3, ChildTypes DEF ChildInv, PendingIsHeard, Failures
  <2> QED
    BY <1>3, <2>1 DEF ChildInv, OneProcess
<1> QED
  BY <1>2, <1>4, ChildTypes, ChildMoves DEF CloseOK, TaskTypes

\* The reader ends, and fails every pending future.
LEMMA ReaderEndsInv ==
    ASSUME HostInv, NEW g \in Generations, ReaderEnds(g)
    PROVE  HostInv'
<1> /\ UNCHANGED <<pc, rpc, goal, holder, wrote, cur, enabled, closing, timedOut>>
    /\ UNCHANGED proc /\ TaskTypes /\ ChildInv /\ reader[g] \in Failures /\ proc[g] = "reaped"
    /\ reader' = [reader EXCEPT ![g] = "ended"] /\ fut' = Failed(reader[g])
    /\ pipe' \in Pipes
  BY TypesOfTasks DEF ReaderEnds, modeVars, HostInv, TaskTypes
<1>1. /\ reader' \in [Generations -> {"none", "reading", "ended"} \cup Failures]
      /\ \A h \in Generations : reader'[h] = IF h = g THEN "ended" ELSE reader[h]
  BY ChildTypes
<1>2. /\ fut' \in [Tasks -> {"none", "pending"} \cup Outcomes]
      /\ \A t \in Tasks : fut'[t] = IF fut[t] = "pending" THEN reader[g] ELSE fut[t]
  BY DEF Failed, TaskTypes, Outcomes, Failures
<1>3. fut'[Closer] # "cancelled"
  <2>1. CASE reader[g] = "cancelled"
    <3>1. PICK t \in Calls : pc[t] = "gather"
      BY <2>1 DEF ChildInv
    <3>2. fut[Closer] = "none"
      BY <3>1, AloneUnderLock, TaskSets DEF InLock
    <3> QED
      BY <1>2, <3>2, TaskSets
  <2>2. CASE reader[g] # "cancelled"
    BY <1>2, <2>2, ChildTypes DEF CloseOK
  <2> QED
    BY <2>1, <2>2
<1>4. ChildInv'
  BY <1>1, <1>2 DEF ChildInv, OneProcess, PendingIsHeard, Failures
<1> QED
  BY <1>1, <1>2, <1>3, <1>4, ChildTypes, ChildMoves DEF Failures

\* The child exits, and is reaped.
LEMMA ExitInv ==
    ASSUME HostInv, NEW g \in Generations, Exit(g) \/ Reap(g)
    PROVE  HostInv'
<1> /\ UNCHANGED <<pc, rpc, fut, goal, holder, wrote, cur, enabled, closing, timedOut>>
    /\ UNCHANGED reader /\ TaskTypes /\ ChildInv
    /\ pipe' \in {pipe, [pipe EXCEPT ![g] = @ \ {"full"}]}
  BY TypesOfTasks DEF Exit, Reap, taskVars, modeVars, HostInv
<1>1. /\ proc' \in [Generations -> {"none", "up", "dead", "reaped"}]
      /\ \A h \in Generations : \/ proc'[h] = proc[h]
                                \/ proc[h] = "up" /\ proc'[h] = "dead"
                                \/ proc[h] = "dead" /\ proc'[h] = "reaped"
  BY ChildTypes DEF Exit, Reap
<1>2. ChildInv'
  <2>1. cur # 0 => cur \in Generations
    BY TaskSets DEF HostInv, TypeOK
  <2> QED
    BY <1>1, <2>1 DEF ChildInv, OneProcess, PendingIsHeard
<1>3. pipe' \in Pipes
  BY DEF TaskTypes, Pipes
<1> QED
  BY <1>1, <1>2, <1>3, ChildTypes, ChildMoves DEF CloseOK, TaskTypes

\* The child empties its pipe, and nothing else happens.
LEMMA PluginReadsInv ==
    ASSUME HostInv, NEW g \in Generations, PluginReads(g)
    PROVE  HostInv'
<1> /\ UNCHANGED <<pc, rpc, fut, goal, holder, wrote, cur, enabled, closing, timedOut>>
    /\ UNCHANGED <<proc, reader>> /\ TaskTypes /\ ChildInv
    /\ pipe' = [pipe EXCEPT ![g] = @ \ {"full"}]
  BY TypesOfTasks DEF PluginReads, childVars, modeVars, HostInv
<1>1. ChildInv'
  BY DEF ChildInv, OneProcess, PendingIsHeard
<1>2. pipe' \in Pipes
  BY DEF TaskTypes, Pipes
<1> QED
  BY <1>1, <1>2, ChildTypes, ChildMoves DEF CloseOK, TaskTypes

----------------------------------------------------------------------------
(* The specification *)

\* The manager has started the plugin, or has not: nothing is under way.
LEMMA HostInit == Init => HostInv
<1> SUFFICES ASSUME Init PROVE HostInv
  OBVIOUS
<1>1. TypeOK
  <2>1. NoCall \in [method : {"execute", "initialize", "list", "shutdown", "stop"},
                    gen : 0..MaxSpawns]
    BY TaskSets DEF NoCall
  <2> QED
    BY <2>1 DEF Init, TypeOK
<1>2. /\ \A t \in Tasks : pc[t] = "idle" /\ fut[t] = "none" /\ goal[t] = "finish"
      /\ \A g \in Generations : /\ proc[g] = IF g = cur THEN "up" ELSE "none"
                                /\ reader[g] = IF g = cur THEN "reading" ELSE "none"
      /\ cur # 0 => cur \in Generations
      /\ holder = None /\ closing = FALSE /\ wrote = {}
  BY TaskSets DEF Init
<1>3. LockInv
  BY <1>2, TaskSets DEF LockInv, InLock, InRpc
<1>4. ChildInv
  BY <1>2 DEF ChildInv, OneProcess, PendingIsHeard
<1>5. CloseOK
  BY <1>2, TaskSets DEF CloseOK, InRpc, ClosedRunsNothing
<1>6. \A t \in Tasks : CallOK(t)
  BY <1>2 DEF CallOK, InRpc
<1>7. \A t \in Calls : SentOK(t)
  BY <1>2, TaskSets DEF SentOK, InRpc, Unsent
<1> QED
  BY <1>1, <1>3, <1>4, <1>5, <1>6, <1>7 DEF HostInv

\* Every step of a task, of the closer, of a child or of its reader.
LEMMA HostStep == HostInv /\ [Next]_vars => HostInv'
<1> SUFFICES ASSUME HostInv, [Next]_vars PROVE HostInv'
  OBVIOUS
<1>1. ASSUME NEW t \in Tasks, TaskStep(t) PROVE HostInv'
  BY <1>1, AcquireInv, SpawnedInv, SpawnFailsInv, GetWriteLockInv, DrainedInv, AnsweredInv,
     TimeoutInv, GatheredInv DEF TaskStep
<1>2. ASSUME NEW t \in Tasks, Cancel(t) PROVE HostInv'
  BY <1>2, CutInv DEF Cancel, HostInv, TypeOK
<1>3. ASSUME NEW t \in Tasks, ToolTimeout(t) PROVE HostInv'
  <2>1. timedOut' \subseteq Calls
    BY <1>3 DEF ToolTimeout, Cut, HostInv, TypeOK
  <2> QED
    BY <1>3, <2>1, CutInv DEF ToolTimeout
<1>4. ASSUME NEW t \in Tasks, Execute(t) \/ Configure(t) PROVE HostInv'
  BY <1>4, ExecuteInv, ConfigureInv
<1>5. ASSUME NEW g \in Generations,
             \/ ReaderEnds(g) \/ Answer(g) \/ Eof(g) \/ Breaks(g) \/ Exit(g) \/ Reap(g)
             \/ PluginReads(g)
      PROVE  HostInv'
  BY <1>5, ReaderEndsInv, AnswerInv, ReaderFailsInv, ExitInv, PluginReadsInv
<1>6. CASE UNCHANGED vars
  <2> USE <1>6 DEF vars, taskVars, childVars, modeVars
  <2>1. TypeOK' /\ LockInv'
    BY DEF HostInv, TypeOK, LockInv, InLock, InRpc
  <2>2. ChildInv' /\ CloseOK'
    BY DEF HostInv, ChildInv, OneProcess, PendingIsHeard, CloseOK, InRpc, ClosedRunsNothing
  <2>3. \A t \in Tasks : CallOK(t)'
    BY DEF HostInv, CallOK, InRpc, Running
  <2>4. \A t \in Calls : SentOK(t)'
    BY DEF HostInv, SentOK, InRpc, Unsent
  <2> QED
    BY <2>1, <2>2, <2>3, <2>4 DEF HostInv
<1> QED
  BY <1>1, <1>2, <1>3, <1>4, <1>5, <1>6, CloseInv DEF Next

\* What every step preserves holds in every reachable state.
THEOREM HostInvariant == Spec => []HostInv
<1> QED
  BY HostInit, HostStep, PTL DEF Spec

\* Every variable of the host keeps its shape.
THEOREM HostTypes == Spec => []TypeOK
<1>1. HostInv => TypeOK
  BY DEF HostInv
<1> QED
  BY <1>1, HostInvariant, PTL

\* Concurrent calls, restarts, configurations, cancellations and the stop
\* never leave a child that the host does not know: at most one process of the
\* plugin lives, and it is _process (manager.py, restart_lock).
THEOREM NoOrphanProcess == Spec => []OneProcess
<1>1. HostInv => OneProcess
  BY DEF HostInv, ChildInv
<1> QED
  BY <1>1, HostInvariant, PTL

\* Whatever restarts and retries happen, tool.execute is written for a call to
\* one process at most: a call of unknown fate is not made again.
THEOREM CallsAreSentOnce == Spec => []NotReplayed
<1>1. HostInv => NotReplayed
  <2> SUFFICES ASSUME HostInv, NEW t \in Calls
               PROVE  Cardinality({g \in Generations : <<t, g>> \in wrote}) =< 1
    BY DEF NotReplayed
  <2> DEFINE sent == {g \in Generations : <<t, g>> \in wrote}
  <2>1. \A g, h \in sent : g = h
    BY DEF HostInv, SentOK
  <2> HIDE DEF sent
  <2>2. CASE sent = {}
    <3>1. Cardinality(sent) = 0
      BY <2>2, FS_EmptySet
    <3> QED
      BY <3>1 DEF sent
  <2>3. CASE sent # {}
    <3>1. PICK g \in sent : TRUE
      BY <2>3
    <3>2. sent = {g}
      BY <2>1, <3>1
    <3>3. Cardinality(sent) = 1
      BY <3>2, FS_Singleton
    <3> QED
      BY <3>3 DEF sent
  <2> QED
    BY <2>2, <2>3
<1> QED
  BY <1>1, HostInvariant, PTL

\* No task waits for the answer of a process whose reader is over: a pending
\* future is still to be answered, or to be failed by _read_loop.
THEOREM NoCallUnheard == Spec => []PendingIsHeard
<1>1. HostInv => PendingIsHeard
  BY DEF HostInv, ChildInv
<1> QED
  BY <1>1, HostInvariant, PTL

\* When PluginManager.stop() has returned no process of the plugin is up, and
\* none comes up later.
THEOREM StopIsFinal == Spec => []ClosedRunsNothing
<1>1. HostInv => ClosedRunsNothing
  BY DEF HostInv, CloseOK
<1> QED
  BY <1>1, HostInvariant, PTL
=============================================================================
