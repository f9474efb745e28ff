-------------------------- MODULE DelegationProofs --------------------------
(***************************************************************************)
(* Proofs about Delegation, for every forest of requests, every assignment *)
(* of agents and roots and every bound.  The bus only restricts when the   *)
(* queue may act, so what TaskQueueProofs shows of the queue holds under   *)
(* the bus; on top of it the wait graph counts who waits and has no cycle, *)
(* and jobs whose roots share no agent never wait for each other.          *)
(***************************************************************************)
EXTENDS Delegation, TaskQueueProofs

(* What a step of the bus does *)

\* A wait begins: the queue accepts a delegation, whose edge is recorded.
Asks(r) ==
    /\ MayAsk(r) /\ IsNested(r) /\ closing = "open" /\ ~MakesCycle(r)
    /\ SubmitAttach(r) \/ SubmitNew(r)
    /\ waits' = [waits EXCEPT ![Edge(r)] = @ + 1]

\* A wait ends, answered or cancelled.
Leaves(r) == (Return(r) \/ DeliverCancel(r)) /\ RemoveWait(r)

\* No wait begins or ends along any edge.
WaitsKept ==
    /\ UNCHANGED waits
    /\ closing' = "closed" <=> closing = "closed"
    /\ \A r \in Requests : IsNested(r) => (call'[r] = "waiting" <=> call[r] = "waiting")

\* Under the bus the queue takes its own steps.
LEMMA BusStepIsStep == [BusNext]_allVars => [Next]_vars
<1>1. ASSUME NEW r \in Requests, Request(r) PROVE [Next]_vars
  BY <1>1 DEF Request, RootRequest, RequestUnknown, RequestCycle, Delegate, Submit, Next
<1>2. ASSUME NEW r \in Requests, Reply(r) \/ ReplyCancelled(r) PROVE [Next]_vars
  BY <1>2 DEF Reply, ReplyCancelled, Next
<1>3. ASSUME NEW r \in Requests, ClientLeaves(r) \/ PassOn(r) \/ Timeout(r) PROVE [Next]_vars
  <2>1. \E S \in SUBSET Requests : CancelCallers(S)
    BY <1>3 DEF ClientLeaves, PassOn, Timeout, Awaited, Children
  <2> QED
    BY <2>1 DEF Next
<1>4. ASSUME NEW t \in Targets, Unregister(t) \/ WorkerStart(t) PROVE [Next]_vars
  BY <1>4 DEF Unregister, Next
<1>5. ASSUME NEW root \in Roots, Stop(root) PROVE [Next]_vars
  BY <1>5 DEF Stop, Next
<1>6. CASE BusShutdownBegin \/ BusShutdownEnd
  BY <1>6 DEF BusShutdownBegin, BusShutdownEnd, Next
<1>7. ASSUME NEW j \in Requests,
             Worker(j) \/ BusExec(j) \/ BusInterrupted(j) \/ BusHandlerEnd(j) \/ Cleanup(j)
      PROVE  [Next]_vars
  BY <1>7 DEF BusExec, BusInterrupted, BusHandlerEnd, Exec, Next
<1>8. CASE UNCHANGED allVars
  BY <1>8 DEF allVars
<1> QED
  BY <1>1, <1>2, <1>3, <1>4, <1>5, <1>6, <1>7, <1>8 DEF BusNext

\* Whatever the queue guarantees it guarantees under the bus.
THEOREM BusRefinesQueue == BusSpec => Spec
<1>1. BusInit => Init
  BY DEF BusInit
<1> QED
  BY <1>1, BusStepIsStep, PTL DEF BusSpec, Spec

\* Who waits for what after a step of the bus.
LEMMA BusStepWaits ==
    ASSUME QueueInv, [BusNext]_allVars
    PROVE  \/ \E r \in Requests : Asks(r)
           \/ \E r \in Requests : Leaves(r)
           \/ BusShutdownEnd
           \/ WaitsKept
<1> call \in [Requests -> CallStates] /\ closing \in {"open", "draining", "closed"}
  BY DEF QueueInv, TypeOK
<1>1. ASSUME NEW r \in Requests, RootRequest(r) PROVE WaitsKept
  <2>1. UNCHANGED <<waits, closing>> /\ \A x \in Requests \ {r} : call'[x] = call[x]
    BY <1>1 DEF RootRequest, Submit, SubmitClosed, SubmitAttach, SubmitFull, SubmitNew, busVars
  <2> QED
    BY <1>1, <2>1 DEF RootRequest, WaitsKept
<1>2. ASSUME NEW r \in Requests, Delegate(r) PROVE Asks(r) \/ WaitsKept
  <2>1. CASE SubmitFull(r) /\ UNCHANGED waits
    <3>1. call[r] = "idle" /\ call' = [call EXCEPT ![r] = "backpressure"] /\ UNCHANGED closing
      BY <2>1 DEF SubmitFull
    <3> QED
      BY <2>1, <3>1 DEF WaitsKept
  <2> QED
    BY <1>2, <2>1 DEF Delegate, Asks
<1>3. ASSUME UNCHANGED <<call, closing, waits>> PROVE WaitsKept
  BY <1>3 DEF WaitsKept
<1>4. ASSUME NEW r \in Requests, RequestUnknown(r) \/ RequestCycle(r) \/ ClientLeaves(r)
                                 \/ PassOn(r) \/ Timeout(r)
      PROVE  WaitsKept
  BY <1>3, <1>4 DEF RequestUnknown, RequestCycle, ClientLeaves, PassOn, Timeout, CancelCallers,
                    vars, callVars, busVars
<1>5. ASSUME NEW r \in Requests, Reply(r) \/ ReplyCancelled(r) PROVE Leaves(r)
  BY <1>5 DEF Reply, ReplyCancelled, Leaves
<1>6. ASSUME NEW t \in Targets, Unregister(t) \/ (WorkerStart(t) /\ UNCHANGED busVars)
      PROVE  WaitsKept
  BY <1>3, <1>6 DEF Unregister, WorkerStart, vars, callVars, busVars
<1>7. ASSUME NEW root \in Roots, Stop(root) PROVE WaitsKept
  BY <1>3, <1>7 DEF Stop, CancelRoot, callVars, busVars
<1>8. CASE BusShutdownBegin
  BY <1>8 DEF BusShutdownBegin, ShutdownBegin, callVars, busVars, WaitsKept
<1>9. ASSUME NEW j \in Requests,
             \/ (Worker(j) \/ Cleanup(j)) /\ UNCHANGED busVars
             \/ BusExec(j) \/ BusInterrupted(j) \/ BusHandlerEnd(j)
      PROVE  WaitsKept
  <2>1. UNCHANGED <<call, closing>>
    BY <1>9 DEF Worker, WorkerResume, WorkerAbort, Cleanup, BusExec, ExecStart, ExecGranted,
                ExecCancelled, BusInterrupted, HandlerInterrupted, BusHandlerEnd, HandlerEnd,
                callVars
  <2> QED
    BY <1>3, <1>9, <2>1 DEF BusExec, BusInterrupted, BusHandlerEnd, busVars
<1>10. CASE UNCHANGED allVars
  BY <1>3, <1>10 DEF allVars, vars, callVars, busVars
<1> QED
  BY <1>1, <1>2, <1>4, <1>5, <1>6, <1>7, <1>8, <1>9, <1>10 DEF BusNext, Request

\* A delegation: its caller's handler runs uncancelled, its edge joins agents
\* of its root.
LEMMA EdgeType ==
    ASSUME NEW r \in Requests, IsNested(r)
    PROVE  /\ ParentOf[r] \in Requests /\ RootOf[r] \in Roots /\ RootOf[ParentOf[r]] = RootOf[r]
           /\ TargetOf[r] \in Targets /\ TargetOf[ParentOf[r]] \in Targets
           /\ Edge(r) \in Roots \X Targets \X Targets
BY ParentAssumption, RequestsAssumption DEF IsNested, Edge

\* What the start of a wait changes.
LEMMA AsksStep ==
    ASSUME QueueInv, NEW r \in Requests, Asks(r)
    PROVE  /\ call[r] = "idle" /\ call' = [call EXCEPT ![r] = "waiting"]
           /\ exec[ParentOf[r]] = "running" /\ ParentOf[r] \notin execCancel
           /\ UNCHANGED <<exec, execCancel, closing>>
BY DEF Asks, MayAsk, SubmitAttach, SubmitNew, execVars

\* What its end changes.
LEMMA LeavesStep ==
    ASSUME QueueInv, NEW r \in Requests, Leaves(r)
    PROVE  /\ call[r] = "waiting" /\ call'[r] \in CallStates \ {"idle", "waiting"}
           /\ \A x \in Requests \ {r} : call'[x] = call[x]
           /\ UNCHANGED closing
<1> call \in [Requests -> CallStates] /\ closing \in {"open", "draining", "closed"}
  BY DEF QueueInv, TypeOK
<1>1. CASE Return(r)
  <2>1. PICK j \in Requests : /\ r \in waiters[j] /\ fut[j] # "pending"
                              /\ call' = [call EXCEPT ![r] = fut[j]] /\ UNCHANGED closing
    BY <1>1 DEF Return
  <2>2. call[r] = "waiting" /\ fut[j] \in {"result", "error", "cancelled", "shutdown"}
    BY <2>1 DEF QueueInv, TypeOK, Futures, JobsInv, WaitersInv, NoAbandonedWork
  <2> QED
    BY <2>1, <2>2 DEF CallStates
<1>2. CASE DeliverCancel(r)
  <2>1. PICK j \in Requests : /\ r \in waiters[j]
                              /\ call' = [call EXCEPT ![r] = "cancelled"] /\ UNCHANGED closing
    BY <1>2 DEF DeliverCancel, LeaveJob
  <2>2. call[r] = "waiting"
    BY <2>1 DEF QueueInv, WaitersInv, NoAbandonedWork
  <2> QED
    BY <2>1, <2>2 DEF CallStates
<1> QED
  BY <1>1, <1>2 DEF Leaves

----------------------------------------------------------------------------
(* The wait graph counts who waits *)

BusInv == BusTypeOK /\ GraphInv

LEMMA BusInvInit == BusInit => BusInv
<1> SUFFICES ASSUME BusInit PROVE BusInv
  OBVIOUS
<1> USE DEF BusInit, Init
<1>1. BusTypeOK
  BY DEF BusTypeOK
<1>2. \A e : WaitingAlong(e) = {}
  BY DEF WaitingAlong
<1>3. GraphInv
  BY <1>2, FS_EmptySet DEF GraphInv
<1> QED
  BY <1>1, <1>3 DEF BusInv

\* The counts go up with the wait that begins.
LEMMA AsksGraph ==
    ASSUME QueueInv, BusInv, NEW r \in Requests, Asks(r)
    PROVE  GraphInv' /\ waits' \in [Roots \X Targets \X Targets -> Nat]
<1> DEFINE E == Roots \X Targets \X Targets
<1> /\ waits \in [E -> Nat] /\ call \in [Requests -> CallStates]
    /\ GraphInv /\ IsNested(r) /\ Edge(r) \in E /\ closing = "open"
    /\ waits' = [waits EXCEPT ![Edge(r)] = @ + 1]
  BY EdgeType DEF BusInv, BusTypeOK, QueueInv, TypeOK, Asks
<1>1. call[r] = "idle" /\ call' = [call EXCEPT ![r] = "waiting"] /\ UNCHANGED closing
  BY AsksStep
<1>2. SUFFICES ASSUME NEW e \in E
               PROVE  /\ IsFiniteSet(WaitingAlong(e)')
                      /\ waits'[e] = Cardinality(WaitingAlong(e)')
  BY <1>1 DEF GraphInv
<1>3. IsFiniteSet(WaitingAlong(e)) /\ waits[e] = Cardinality(WaitingAlong(e))
  BY DEF GraphInv
<1>4. CASE e = Edge(r)
  <2>1. WaitingAlong(e)' = WaitingAlong(e) \cup {r} /\ r \notin WaitingAlong(e)
    BY <1>1, <1>4 DEF WaitingAlong, IsNested, Edge
  <2>2. waits'[e] = waits[e] + 1
    BY <1>4
  <2> QED
    BY <1>3, <2>1, <2>2, FS_AddElement
<1>5. CASE e # Edge(r)
  <2>1. WaitingAlong(e)' = WaitingAlong(e) /\ waits'[e] = waits[e]
    BY <1>1, <1>5 DEF WaitingAlong, IsNested, Edge
  <2> QED
    BY <1>3, <2>1
<1> QED
  BY <1>4, <1>5

\* They go down with the wait that ends, and never below it: an answered
\* delegation is counted until its ticket is released.
LEMMA LeavesGraph ==
    ASSUME QueueInv, BusInv, NEW r \in Requests, Leaves(r)
    PROVE  GraphInv' /\ waits' \in [Roots \X Targets \X Targets -> Nat]
<1> DEFINE E == Roots \X Targets \X Targets
<1> /\ waits \in [E -> Nat] /\ GraphInv /\ RemoveWait(r)
  BY DEF BusInv, BusTypeOK, Leaves
<1>1. /\ call[r] = "waiting" /\ call'[r] # "waiting"
      /\ \A x \in Requests \ {r} : call'[x] = call[x]
      /\ UNCHANGED closing
  BY LeavesStep
<1>2. waits' \in [E -> Nat]
  <2>1. IsNested(r) => Edge(r) \in E
    BY EdgeType
  <2> QED
    BY <2>1 DEF RemoveWait
<1>3. SUFFICES ASSUME NEW e \in E
               PROVE  /\ IsFiniteSet(WaitingAlong(e)')
                      /\ waits'[e] = IF closing = "closed" THEN 0
                                     ELSE Cardinality(WaitingAlong(e)')
  BY <1>1, <1>2 DEF GraphInv
<1>4. /\ IsFiniteSet(WaitingAlong(e))
      /\ waits[e] = IF closing = "closed" THEN 0 ELSE Cardinality(WaitingAlong(e))
  BY DEF GraphInv
<1>5. CASE IsNested(r) /\ e = Edge(r)
  <2>1. WaitingAlong(e)' = WaitingAlong(e) \ {r} /\ r \in WaitingAlong(e)
    BY <1>1, <1>5 DEF WaitingAlong, IsNested, Edge
  <2>2. /\ IsFiniteSet(WaitingAlong(e)')
        /\ Cardinality(WaitingAlong(e)') = Cardinality(WaitingAlong(e)) - 1
    BY <1>4, <2>1, FS_RemoveElement
  <2>3. Cardinality(WaitingAlong(e)) \in Nat /\ Cardinality(WaitingAlong(e)') \in Nat
    BY <1>4, <2>2, FS_CardinalityType
  <2>4. waits'[e] = IF waits[e] > 0 THEN waits[e] - 1 ELSE waits[e]
    BY <1>5 DEF RemoveWait
  <2> QED
    BY <1>4, <2>2, <2>3, <2>4
<1>6. CASE ~(IsNested(r) /\ e = Edge(r))
  <2>1. WaitingAlong(e)' = WaitingAlong(e)
    BY <1>1, <1>6 DEF WaitingAlong, IsNested, Edge
  <2>2. waits'[e] = waits[e]
    BY <1>6 DEF RemoveWait
  <2> QED
    BY <1>4, <2>1, <2>2
<1> QED
  BY <1>5, <1>6

\* Every step of the bus keeps the wait graph counting.
LEMMA BusInvStep ==
    ASSUME QueueInv, BusInv, [BusNext]_allVars
    PROVE  BusInv'
<1> DEFINE E == Roots \X Targets \X Targets
<1> waits \in [E -> Nat] /\ GraphInv
  BY DEF BusInv, BusTypeOK
<1>1. GraphInv' /\ waits' \in [E -> Nat]
  <2>1. CASE BusShutdownEnd
    <3>1. waits' = [e \in E |-> 0] /\ closing' = "closed" /\ UNCHANGED call
      BY <2>1 DEF BusShutdownEnd, ShutdownEnd, callVars
    <3>2. \A e : WaitingAlong(e)' = WaitingAlong(e)
      BY <3>1 DEF WaitingAlong, IsNested, Edge
    <3> QED
      BY <3>1, <3>2 DEF GraphInv
  <2>2. CASE WaitsKept
    <3>1. \A e : WaitingAlong(e)' = WaitingAlong(e)
      BY <2>2 DEF WaitingAlong, WaitsKept, IsNested, Edge
    <3> QED
      BY <2>2, <3>1 DEF GraphInv, WaitsKept
  <2> QED
    BY <2>1, <2>2, BusStepWaits, AsksGraph, LeavesGraph
<1>2. registered' \subseteq Targets /\ denied' \in [Requests -> {"no", "unknown", "cycle"}]
  <2>1. CASE \E r \in Requests : Request(r)
    BY <2>1 DEF BusInv, BusTypeOK, Request, RootRequest, RequestUnknown, RequestCycle, Delegate,
                busVars
  <2>2. CASE \/ \E r \in Requests : Reply(r) \/ ReplyCancelled(r) \/ ClientLeaves(r)
             \/ \E p \in Requests : PassOn(p) \/ Timeout(p)
             \/ \E t \in Targets : Unregister(t) \/ (WorkerStart(t) /\ UNCHANGED busVars)
             \/ \E root \in Roots : Stop(root)
    BY <2>2 DEF BusInv, BusTypeOK, Reply, ReplyCancelled, ClientLeaves, PassOn, Timeout,
                Unregister, Stop, busVars
  <2>3. CASE \/ BusShutdownBegin \/ BusShutdownEnd \/ UNCHANGED allVars
             \/ \E j \in Requests : \/ (Worker(j) \/ Cleanup(j)) /\ UNCHANGED busVars
                                    \/ BusExec(j) \/ BusInterrupted(j) \/ BusHandlerEnd(j)
    BY <2>3 DEF BusInv, BusTypeOK, BusShutdownBegin, BusShutdownEnd, BusExec, BusInterrupted,
                BusHandlerEnd, allVars, busVars
  <2> QED
    BY <2>1, <2>2, <2>3 DEF BusNext
<1> QED
  BY <1>1, <1>2 DEF BusInv, BusTypeOK

\* The wait graph is exact at all times.
LEMMA BusInvariant == BusSpec => []BusInv
<1>1. QueueInv /\ BusInv /\ [BusNext]_allVars => BusInv'
  BY BusInvStep
<1> QED
  BY <1>1, BusInvInit, BusRefinesQueue, QueueInvariant, PTL DEF BusSpec

\* No outcome, refusal or cancellation leaks an edge of the wait graph or drops
\* one that is still waited along.
THEOREM GraphIsExact == BusSpec => []GraphCountsWaits
<1>1. BusInv => GraphCountsWaits
  BY DEF BusInv, BusTypeOK, GraphInv, GraphCountsWaits
<1> QED
  BY <1>1, BusInvariant, PTL

----------------------------------------------------------------------------
(* Handlers and what they delegate *)

\* A handler's execution leaves "running" only when nothing it delegated waits.
LEMMA HandlersAwait ==
    ASSUME QueueInv, [BusNext]_allVars, NEW p \in Requests,
           exec[p] = "running", exec'[p] # "running"
    PROVE  Awaited(p) = {} /\ UNCHANGED call
<1> exec \in [Requests -> ExecStates] /\ state \in [Requests -> JobStates]
    /\ semq \in Seq(Requests) /\ \A i \in 1..Len(semq) : exec[semq[i]] = "waiting"
    /\ serving \in SUBSET Requests
  BY DEF QueueInv, TypeOK, SemInv
<1>1. ASSUME NEW j \in Requests, NEW o, ExecEnd(j, o), exec'[p] # "running" PROVE p = j
  BY <1>1 DEF ExecEnd, ReleaseSlot
<1>2. ASSUME NEW r \in Requests,
             Request(r) \/ Reply(r) \/ ReplyCancelled(r) \/ ClientLeaves(r) \/ PassOn(r)
               \/ Timeout(r)
      PROVE  FALSE
  <2>1. UNCHANGED exec
    BY <1>2 DEF Request, RootRequest, RequestUnknown, RequestCycle, Delegate, Submit,
                SubmitClosed, SubmitAttach, SubmitFull, SubmitNew, Reply, Return, ReplyCancelled,
                DeliverCancel, LeaveJob, ClientLeaves, PassOn, Timeout, CancelCallers, vars,
                execVars
  <2> QED
    BY <2>1
<1>3. ASSUME NEW t \in Targets, Unregister(t) PROVE FALSE
  BY <1>3 DEF Unregister, vars, execVars
<1>4. ASSUME NEW root \in Roots, Stop(root) PROVE FALSE
  BY <1>4 DEF Stop, CancelRoot
<1>5. CASE BusShutdownBegin \/ BusShutdownEnd \/ UNCHANGED allVars
  BY <1>5 DEF BusShutdownBegin, ShutdownBegin, BusShutdownEnd, ShutdownEnd, allVars, vars, execVars
<1>6. CASE \/ \E t \in Targets : WorkerStart(t)
           \/ \E j \in Requests : WorkerResume(j)
  <2>1. \A x \in Requests : exec'[x] = exec[x] \/ exec[x] = "none"
    BY <1>6, WorkerLifecycle
  <2> QED
    BY <2>1
<1>7. ASSUME NEW j \in Requests, WorkerAbort(j) \/ BusExec(j) \/ Cleanup(j) PROVE FALSE
  <2>1. ASSUME WorkerAbort(j) PROVE FALSE
    BY <2>1 DEF WorkerAbort, execVars
  <2>2. ASSUME ExecStart(j) \/ ExecGranted(j) PROVE FALSE
    BY <2>2 DEF ExecStart, ExecGranted
  <2>3. ASSUME ExecCancelled(j) PROVE FALSE
    BY <2>3 DEF ExecCancelled, ReleaseSlot
  <2>4. ASSUME Cleanup(j) PROVE FALSE
    BY <1>1, <2>4 DEF Cleanup
  <2> QED
    BY <1>7, <2>1, <2>2, <2>3, <2>4 DEF BusExec
<1>8. ASSUME NEW j \in Requests, BusInterrupted(j) \/ BusHandlerEnd(j)
      PROVE  Awaited(p) = {} /\ UNCHANGED call
  <2>1. p = j
    BY <1>1, <1>8 DEF BusInterrupted, HandlerInterrupted, BusHandlerEnd, HandlerEnd
  <2> QED
    BY <1>8, <2>1 DEF BusInterrupted, HandlerInterrupted, BusHandlerEnd, HandlerEnd, callVars
<1> QED
  BY <1>2, <1>3, <1>4, <1>5, <1>6, <1>7, <1>8 DEF BusNext, Worker

\* A delegation is asked for only by its caller's own running, uncancelled handler.
LEMMA AskedByHandler ==
    ASSUME QueueInv, [BusNext]_allVars, NEW r \in Requests, IsNested(r),
           call[r] = "idle", call'[r] # "idle"
    PROVE  /\ exec[ParentOf[r]] = "running" /\ ParentOf[r] \notin execCancel
           /\ UNCHANGED exec
<1> call \in [Requests -> CallStates]
  BY DEF QueueInv, TypeOK
<1>1. ASSUME NEW s \in Requests, Leaves(s) PROVE FALSE
  BY <1>1, LeavesStep
<1>2. CASE \E s \in Requests : Request(s)
  <2>1. PICK s \in Requests : Request(s)
    BY <1>2
  <2>2. ~RequestUnknown(s) /\ ~RequestCycle(s)
    BY DEF RequestUnknown, RequestCycle, vars, callVars
  <2>3. Submit(s) /\ MayAsk(s)
    BY <2>1, <2>2 DEF Request, RootRequest, Delegate, Submit
  <2>4. UNCHANGED exec /\ \A x \in Requests \ {s} : call'[x] = call[x]
    BY <2>3 DEF Submit, SubmitClosed, SubmitAttach, SubmitFull, SubmitNew, execVars
  <2>5. s = r
    BY <2>4
  <2> QED
    BY <2>3, <2>4, <2>5 DEF MayAsk
<1>3. CASE ~\E s \in Requests : Request(s)
  <2>1. CASE \E s \in Requests : Reply(s) \/ ReplyCancelled(s)
    BY <1>1, <2>1 DEF Reply, ReplyCancelled, Leaves
  <2>2. CASE ~\E s \in Requests : Reply(s) \/ ReplyCancelled(s)
    <3>1. UNCHANGED call
      BY <1>3, <2>2 DEF BusNext, ClientLeaves, PassOn, Timeout, CancelCallers, Unregister, WorkerStart,
           Stop, CancelRoot, BusShutdownBegin, ShutdownBegin, BusShutdownEnd, ShutdownEnd,
           Worker, WorkerResume, WorkerAbort, BusExec, ExecStart, ExecGranted, ExecCancelled,
           BusInterrupted, HandlerInterrupted, BusHandlerEnd, HandlerEnd, Cleanup,
           allVars, vars, callVars
    <3> QED
      BY <3>1
  <2> QED
    BY <2>1, <2>2
<1> QED
  BY <1>2, <1>3

\* Who waits asked just now, or waited already.
LEMMA WaitsBegin ==
    ASSUME QueueInv, [BusNext]_allVars, NEW r \in Requests, IsNested(r), call'[r] = "waiting"
    PROVE  call[r] \in {"idle", "waiting"}
<1>1. \A s \in Requests : Asks(s) => call[r] \in {"idle", "waiting"}
  BY AsksStep DEF QueueInv, TypeOK
<1>2. \A s \in Requests : Leaves(s) => call[r] = "waiting"
  BY LeavesStep
<1>3. BusShutdownEnd => UNCHANGED call
  BY DEF BusShutdownEnd, ShutdownEnd, callVars
<1> QED
  BY <1>1, <1>2, <1>3, BusStepWaits DEF WaitsKept

\* No delegation outlives the handler that asked for it.
THEOREM DelegationsAreAwaited == BusSpec => []NoOrphans
<1>1. BusInit => NoOrphans
  BY DEF BusInit, Init, NoOrphans
<1>2. QueueInv /\ NoOrphans /\ [BusNext]_allVars => NoOrphans'
  <2> SUFFICES ASSUME QueueInv, NoOrphans, [BusNext]_allVars, NEW r \in Requests,
                      IsNested(r), call'[r] = "waiting"
               PROVE  exec'[ParentOf[r]] = "running"
    BY DEF NoOrphans, IsNested
  <2>1. CASE call[r] # "waiting"
    <3>1. call[r] = "idle"
      BY <2>1, WaitsBegin
    <3> QED
      BY <3>1, AskedByHandler
  <2>2. CASE call[r] = "waiting"
    <3>1. ParentOf[r] \in Requests /\ exec[ParentOf[r]] = "running" /\ r \in Awaited(ParentOf[r])
      BY <2>2, EdgeType DEF NoOrphans, Awaited, Children
    <3> QED
      BY <3>1, HandlersAwait
  <2> QED
    BY <2>1, <2>2
<1> QED
  BY <1>1, <1>2, BusRefinesQueue, QueueInvariant, PTL DEF BusSpec

\* cancel_root() and shutdown() reach also the handler that is about to
\* delegate: it asks for nothing more.
THEOREM DoomedDelegateNothing == BusSpec => DoomedAskNothing
<1>1. QueueInv /\ DoomedInv /\ [BusNext]_allVars =>
        [\A r \in Requests :
            IsNested(r) /\ call[r] = "idle" /\ call'[r] = "waiting" =>
                state[ParentOf[r]] = "running"]_allVars
  <2> SUFFICES ASSUME QueueInv, DoomedInv, [BusNext]_allVars, NEW r \in Requests,
                      IsNested(r), call[r] = "idle", call'[r] = "waiting"
               PROVE  state[ParentOf[r]] = "running"
    OBVIOUS
  <2>1. exec[ParentOf[r]] = "running" /\ ParentOf[r] \notin execCancel
    BY AskedByHandler
  <2>2. ParentOf[r] \in Requests
    BY EdgeType
  <2> QED
    BY <2>1, <2>2 DEF DoomedInv, QueueInv, ExecInv, Alive
<1> QED
  BY <1>1, BusRefinesQueue, QueueInvariant, DoomIsPending, PTL DEF BusSpec, DoomedAskNothing

----------------------------------------------------------------------------
(* The wait graph has no cycle *)

\* A new edge that closes no path keeps the graph of its root without cycles:
\* among agents of which the edge's target reaches some, one of those waits
\* for no other; among the rest, who waited for none still does.
LEMMA NewEdgeNoCycle ==
    ASSUME waits \in [Roots \X Targets \X Targets -> Nat], NoWaitCycle,
           NEW root \in Roots, NEW a \in Targets, NEW b \in Targets,
           ~HasPath(root, b, a),
           waits' = [waits EXCEPT ![<<root, a, b>>] = @ + 1]
    PROVE  NoWaitCycle'
<1>1. PICK R \in SUBSET Targets :
        /\ b \in R /\ a \notin R
        /\ \A s \in R, t \in Targets : waits[<<root, s, t>>] > 0 => t \in R
  BY DEF HasPath
<1>2. SUFFICES ASSUME NEW o \in Roots, NEW U \in (SUBSET Targets) \ {{}}
               PROVE  \E s \in U : \A t \in U : waits'[<<o, s, t>>] = 0
  BY DEF NoWaitCycle
<1>3. \A s, t \in Targets : <<o, s, t>> # <<root, a, b>> => waits'[<<o, s, t>>] = waits[<<o, s, t>>]
  OBVIOUS
<1>4. CASE o # root
  <2>1. PICK s \in U : \A t \in U : waits[<<o, s, t>>] = 0
    BY DEF NoWaitCycle
  <2> QED
    BY <1>3, <1>4, <2>1
<1>5. CASE o = root /\ U \cap R # {}
  <2>1. PICK s \in U \cap R : \A t \in U \cap R : waits[<<root, s, t>>] = 0
    BY <1>5 DEF NoWaitCycle
  <2>2. \A t \in U : waits[<<root, s, t>>] = 0
    <3> SUFFICES ASSUME NEW t \in U, waits[<<root, s, t>>] # 0
                 PROVE  FALSE
      OBVIOUS
    <3>1. waits[<<root, s, t>>] \in Nat
      OBVIOUS
    <3>2. t \in R
      BY <1>1, <3>1
    <3> QED
      BY <2>1, <3>2
  <2>3. s # a
    BY <1>1
  <2> QED
    BY <1>3, <1>5, <2>2, <2>3
<1>6. CASE o = root /\ U \cap R = {}
  <2>1. PICK s \in U : \A t \in U : waits[<<root, s, t>>] = 0
    BY DEF NoWaitCycle
  <2>2. b \notin U
    BY <1>1, <1>6
  <2> QED
    BY <1>3, <1>6, <2>1, <2>2
<1> QED
  BY <1>4, <1>5, <1>6

\* Counts that only fall make no cycle.
LEMMA FewerEdgesNoCycle ==
    ASSUME NoWaitCycle,
           \A e \in Roots \X Targets \X Targets : waits[e] = 0 => waits'[e] = 0
    PROVE  NoWaitCycle'
<1> SUFFICES ASSUME NEW root \in Roots, NEW U \in (SUBSET Targets) \ {{}}
             PROVE  \E s \in U : \A t \in U : waits'[<<root, s, t>>] = 0
  BY DEF NoWaitCycle
<1>1. PICK s \in U : \A t \in U : waits[<<root, s, t>>] = 0
  BY DEF NoWaitCycle
<1>2. \A t \in U : <<root, s, t>> \in Roots \X Targets \X Targets
  OBVIOUS
<1> QED
  BY <1>1, <1>2

\* request() refuses every wait that would close a cycle.
THEOREM WaitGraphAcyclic == BusSpec => []NoWaitCycle
<1>1. BusInit => NoWaitCycle
  BY DEF BusInit, NoWaitCycle
<1>2. QueueInv /\ BusInv /\ NoWaitCycle /\ [BusNext]_allVars => NoWaitCycle'
  <2> SUFFICES ASSUME QueueInv, BusInv, NoWaitCycle, [BusNext]_allVars
               PROVE  NoWaitCycle'
    OBVIOUS
  <2> waits \in [Roots \X Targets \X Targets -> Nat]
    BY DEF BusInv, BusTypeOK
  <2>1. ASSUME NEW r \in Requests, Asks(r) PROVE NoWaitCycle'
    BY <2>1, EdgeType, NewEdgeNoCycle DEF Asks, MakesCycle, Edge
  <2>2. ASSUME NEW r \in Requests, Leaves(r) PROVE NoWaitCycle'
    BY <2>2, EdgeType, FewerEdgesNoCycle DEF Leaves, RemoveWait
  <2>3. CASE BusShutdownEnd
    BY <2>3, FewerEdgesNoCycle DEF BusShutdownEnd
  <2>4. CASE WaitsKept
    BY <2>4 DEF WaitsKept, NoWaitCycle
  <2> QED
    BY <2>1, <2>2, <2>3, <2>4, BusStepWaits
<1> QED
  BY <1>1, <1>2, BusInvariant, BusRefinesQueue, QueueInvariant, PTL DEF BusSpec

----------------------------------------------------------------------------
(* Jobs whose roots share no agent never wait for each other *)

\* A ticket is for the job of the request's own key.
LEMMA TicketsAreOwn == Spec => []TicketsInv
<1>1. Init => TicketsInv
  BY DEF Init, TicketsInv
<1>2. QueueInv /\ TicketsInv /\ [Next]_vars => TicketsInv'
  <2> SUFFICES ASSUME QueueInv, TicketsInv, [Next]_vars
               PROVE  TicketsInv'
    OBVIOUS
  <2> waiters \in [Requests -> SUBSET Requests] /\ jobs \subseteq Requests
    BY DEF QueueInv, TypeOK
  <2>1. ASSUME NEW r \in Requests, Submit(r) PROVE TicketsInv'
    BY <2>1 DEF Submit, SubmitClosed, SubmitAttach, SubmitFull, SubmitNew, Existing, jobVars,
                TicketsInv
  <2>2. ASSUME NEW r \in Requests, DeliverCancel(r) \/ Return(r) PROVE TicketsInv'
    <3>1. PICK j \in Requests : waiters' = [waiters EXCEPT ![j] = @ \ {r}]
      BY <2>2 DEF DeliverCancel, LeaveJob, Return
    <3> QED
      BY <3>1 DEF TicketsInv
  <2>3. CASE \/ \E S \in SUBSET Requests : CancelCallers(S)
             \/ \E root \in Roots : CancelRoot(root)
             \/ ShutdownBegin \/ ShutdownEnd \/ UNCHANGED vars
             \/ \E t \in Targets : WorkerStart(t)
             \/ \E j \in Requests : Worker(j) \/ Exec(j) \/ HandlerEnd(j) \/ Cleanup(j)
    <3>1. UNCHANGED waiters
      BY <2>3 DEF CancelCallers, CancelRoot, ShutdownBegin, ShutdownEnd, WorkerStart, Worker,
                  WorkerResume, WorkerAbort, Exec, ExecStart, ExecGranted, ExecCancelled,
                  HandlerInterrupted, HandlerEnd, Cleanup, vars, jobVars
    <3> QED
      BY <3>1 DEF TicketsInv
  <2> QED
    BY <2>1, <2>2, <2>3 DEF Next
<1> QED
  BY <1>1, <1>2, QueueInvariant, PTL DEF Spec

\* An execution that began has begun for good.
LEMMA BegunStays ==
    ASSUME QueueInv, [Next]_vars, NEW x \in Requests, exec[x] \in Began
    PROVE  exec'[x] \in Began
<1>1. Lifecycle(x)
  BY StepLifecycle
<1> QED
  BY <1>1 DEF Lifecycle, Began, Ended

\* While a root's job still queues for its slot nothing is delegated under it.
LEMMA RootBeginsFirst ==
    ASSUME RootsOpenOnce
    PROVE  BusSpec => []RootsBegin
<1>1. BusInit => RootsBegin
  BY DEF BusInit, Init, RootsBegin
<1>2. QueueInv /\ RootsBegin /\ [BusNext]_allVars => RootsBegin'
  <2> SUFFICES ASSUME QueueInv, RootsBegin, [BusNext]_allVars,
                      NEW r \in Requests, NEW s \in Requests,
                      IsNested(r), call'[r] # "idle", ~IsNested(s), RootOf[s] = RootOf[r]
               PROVE  exec'[s] \in Began
    BY DEF RootsBegin, IsNested
  <2>1. CASE call[r] # "idle"
    BY <2>1, BusStepIsStep, BegunStays DEF RootsBegin
  <2>2. CASE call[r] = "idle"
    <3> DEFINE p == ParentOf[r]
    <3>1. p \in Requests /\ exec[p] = "running" /\ RootOf[p] = RootOf[s]
      BY <2>2, EdgeType, AskedByHandler
    <3>2. exec[s] \in Began
      <4>1. CASE IsNested(p)
        <5>1. call[p] # "idle"
          BY <3>1 DEF QueueInv, JobsInv, ExecInv
        <5> QED
          BY <3>1, <4>1, <5>1 DEF RootsBegin
      <4>2. CASE ~IsNested(p)
        BY <3>1, <4>2 DEF RootsOpenOnce, Began
      <4> QED
        BY <4>1, <4>2
    <3> QED
      BY <3>2, BusStepIsStep, BegunStays
  <2> QED
    BY <2>1, <2>2
<1> QED
  BY <1>1, <1>2, BusRefinesQueue, QueueInvariant, PTL DEF BusSpec

\* In a set of jobs that hold each other up, one runs and waits for another: who
\* queues does so behind one that runs, who waits for a slot waits for one that
\* holds it.
LEMMA SomebodyWaits ==
    ASSUME QueueInv, SlotsInv, NEW S \in (SUBSET Requests) \ {{}},
           \A j \in S : HeldUpBy(j, S)
    PROVE  /\ \E j \in S : exec[j] = "running"
           /\ \A j \in S : exec[j] = "running" =>
                \E r \in Awaited(j), c \in S : r \in waiters[c] /\ fut[c] = "pending"
           /\ \A j \in S : state[j] = "queued" =>
                \E i \in S : TargetOf[i] = TargetOf[j] /\ exec[i] \in {"running", "waiting"}
           /\ \A j \in S : \/ exec[j] = "running" \/ state[j] = "queued"
                           \/ exec[j] = "waiting"
<1> \A j \in Requests : state[j] = "queued" => exec[j] = "none" /\ j \notin serving
  BY DEF QueueInv, ExecInv
<1>1. \A j \in S : \/ exec[j] = "running" \/ state[j] = "queued" \/ exec[j] = "waiting"
  BY DEF HeldUpBy
<1>2. \A j \in S : exec[j] = "running" =>
        \E r \in Awaited(j), c \in S : r \in waiters[c] /\ fut[c] = "pending"
  BY DEF HeldUpBy
<1>3. \A j \in S : state[j] = "queued" =>
        \E i \in S : TargetOf[i] = TargetOf[j] /\ exec[i] \in {"running", "waiting"}
  BY <1>1 DEF HeldUpBy
<1>4. ASSUME NEW j \in S, exec[j] = "waiting" PROVE \E i \in S : exec[i] = "running"
  <2>1. permits = 0 /\ Holders \subseteq S
    BY <1>4 DEF HeldUpBy
  <2>2. Holders # {}
    BY <2>1, FS_EmptySet, BoundsAssumption DEF SlotsInv, SlotsConserved
  <2> QED
    BY <1>1, <2>1, <2>2 DEF Holders
<1> QED
  BY <1>1, <1>2, <1>3, <1>4

\* With roots of their own agents, no set of jobs is held up by itself.
LEMMA NobodyHeldUp ==
    ASSUME RootsOpenOnce, RootsApart, QueueInv, SlotsInv, BusInv, NoWaitCycle, TicketsInv,
           RootsBegin
    PROVE  NoCircularWait
<1> SUFFICES ASSUME NEW S \in (SUBSET Requests) \ {{}}, \A j \in S : HeldUpBy(j, S)
             PROVE  FALSE
  BY DEF NoCircularWait
<1>1. PICK first \in S : exec[first] = "running"
  BY SomebodyWaits
<1> DEFINE root == RootOf[first]
           Busy == {j \in S : exec[j] = "running" /\ RootOf[j] = root}
           U    == {TargetOf[j] : j \in Busy}
<1>2. root \in Roots /\ U \in (SUBSET Targets) \ {{}}
  BY <1>1, RequestsAssumption
<1>3. ASSUME NEW j \in Busy PROVE \E t \in U : waits[<<root, TargetOf[j], t>>] # 0
  <2>1. PICK r \in Awaited(j), c \in S : r \in waiters[c] /\ fut[c] = "pending"
    BY SomebodyWaits
  <2>2. /\ r \in Requests /\ IsNested(r) /\ ParentOf[r] = j /\ call[r] = "waiting"
        /\ RootOf[r] = root
    BY ParentAssumption DEF Awaited, Children, IsNested
  <2>3. RootOf[c] = root /\ TargetOf[c] = TargetOf[r]
    BY <2>1, <2>2, KeyAssumption DEF TicketsInv
  <2>4. waits[<<root, TargetOf[j], TargetOf[c]>>] # 0
    <3>1. closing # "closed"
      BY <2>1 DEF QueueInv, JobsInv, WorkersInv
    <3>2. Edge(r) \in Roots \X Targets \X Targets /\ Edge(r) = <<root, TargetOf[j], TargetOf[c]>>
      BY <2>2, <2>3, EdgeType DEF Edge
    <3>3. IsFiniteSet(WaitingAlong(Edge(r))) /\ r \in WaitingAlong(Edge(r))
      BY <2>2, <3>2 DEF BusInv, GraphInv, WaitingAlong
    <3>4. Cardinality(WaitingAlong(Edge(r))) # 0
      BY <3>3, FS_EmptySet
    <3> QED
      BY <3>1, <3>2, <3>4 DEF BusInv, GraphInv
  <2>5. \A i \in S : RootOf[i] = root => exec[i] # "waiting"
    <3> SUFFICES ASSUME NEW i \in S, RootOf[i] = root, exec[i] = "waiting"
                 PROVE  FALSE
      OBVIOUS
    <3>1. ~IsNested(i)
      BY InheritAssumption DEF SlotsInv, IsNested
    <3>2. call[r] # "idle"
      BY <2>2
    <3> QED
      BY <2>2, <3>1, <3>2 DEF RootsBegin, Began, Ended
  <2>6. \E i \in S : TargetOf[i] = TargetOf[c] /\ exec[i] = "running" /\ RootOf[i] = root
    <3>1. CASE state[c] = "queued"
      <4>1. PICK i \in S : TargetOf[i] = TargetOf[c] /\ exec[i] \in {"running", "waiting"}
        BY <3>1, SomebodyWaits
      <4>2. RootOf[i] = root
        BY <2>3, <4>1 DEF RootsApart
      <4> QED
        BY <2>5, <4>1, <4>2
    <3>2. CASE state[c] # "queued"
      BY <2>3, <2>5, <3>2, SomebodyWaits
    <3> QED
      BY <3>1, <3>2
  <2> QED
    BY <2>4, <2>6
<1>4. PICK s \in U : \A t \in U : waits[<<root, s, t>>] = 0
  BY <1>2 DEF NoWaitCycle
<1>5. PICK j \in Busy : s = TargetOf[j]
  OBVIOUS
<1> QED
  BY <1>3, <1>4, <1>5

\* Nested work inherits its root's slot and the wait graph rejects cycles: so
\* among roots that share no agent the jobs of no set wait only for each other,
\* whatever the delegations, the number of slots and the batches.  (Roots that
\* do share one may block each other: the runs show it.)
THEOREM NoDeadlockApart ==
    ASSUME RootsOpenOnce, RootsApart
    PROVE  BusSpec => []NoCircularWait
<1>1. QueueInv /\ SlotsInv /\ BusInv /\ NoWaitCycle /\ TicketsInv /\ RootsBegin => NoCircularWait
  BY NobodyHeldUp
<1>2. BusSpec => []BusInv
  BY BusInvariant
<1>3. BusSpec => []RootsBegin
  BY RootBeginsFirst
<1> QED
  BY <1>1, <1>2, <1>3, BusRefinesQueue, QueueInvariant, SlotsInvariant, WaitGraphAcyclic,
     TicketsAreOwn, PTL
=============================================================================
