-------------------------- MODULE TaskQueueProofs --------------------------
(***************************************************************************)
(* Proofs about TaskQueue, for every set of requests, every assignment of  *)
(* keys, targets and roots, and every bound.  The invariant QueueInv is    *)
(* inductive: one lemma per action, and under it one step per part of the  *)
(* invariant the action disturbs; the frame lemmas deal with the others.   *)
(***************************************************************************)
EXTENDS TaskQueue, SequenceTheorems, FiniteSetTheorems, TLAPS

(* Frame lemmas *)

\* JobsInv rests on the job table, the futures, the history and who is idle.
LEMMA JobsFrame ==
    ASSUME JobsInv, UNCHANGED <<call, state, fut, archive, jobs>>
    PROVE  JobsInv'
BY DEF JobsInv, HistoryTellsOutcome, Live

\* ExecInv rests on job states, workers and executions.
LEMMA ExecFrame ==
    ASSUME ExecInv, UNCHANGED <<state, serving, exec>>
    PROVE  ExecInv'
BY DEF ExecInv

\* DequesInv rests on the deques and the job states.
LEMMA DequesFrame ==
    ASSUME DequesInv, UNCHANGED <<state, deque>>
    PROVE  DequesInv'
BY DEF DequesInv

\* WorkersInv rests on the deques, the workers and the job table.
LEMMA WorkersFrame ==
    ASSUME WorkersInv, UNCHANGED <<state, jobs, deque, fresh, serving, closing>>
    PROVE  WorkersInv'
BY DEF WorkersInv, NoStrandedJob, HasWorker

\* WaitersInv rests on the tickets and on who waits.
LEMMA WaitersFrame ==
    ASSUME WaitersInv, UNCHANGED <<call, state, waiters>>
    PROVE  WaitersInv'
BY DEF WaitersInv, NoAbandonedWork, Live

\* SemInv rests on the semaphore and the executions.
LEMMA SemFrame ==
    ASSUME SemInv, UNCHANGED <<exec, permits, semq>>, execCancel \subseteq execCancel'
    PROVE  SemInv'
BY DEF SemInv

\* An execution that was alive takes a step or ends: the others stay as they are.
LEMMA ExecStepFrame ==
    ASSUME ExecInv, UNCHANGED <<state, serving>>,
           \A x \in Requests : \/ exec'[x] = exec[x]
                               \/ exec[x] \in Alive /\ exec'[x] \in Alive \cup Ended
    PROVE  ExecInv'
BY DEF ExecInv, Alive, Ended

----------------------------------------------------------------------------
(* Lemmas about the operators *)

\* Removing the i-th element keeps the others, in order.
LEMMA RemoveAtProperties ==
    ASSUME NEW S, NEW q \in Seq(S), NEW i \in 1..Len(q)
    PROVE  /\ RemoveAt(q, i) \in Seq(S)
           /\ Len(RemoveAt(q, i)) = Len(q) - 1
           /\ \A n \in 1..(Len(q) - 1) :
                RemoveAt(q, i)[n] = IF n < i THEN q[n] ELSE q[n + 1]
<1> DEFINE front == SubSeq(q, 1, i - 1)
           back  == SubSeq(q, i + 1, Len(q))
<1>1. /\ front \in Seq(S) /\ Len(front) = i - 1
      /\ \A n \in 1..(i - 1) : front[n] = q[n]
  OBVIOUS
<1>2. /\ back \in Seq(S) /\ Len(back) = Len(q) - i
      /\ \A n \in 1..(Len(q) - i) : back[n] = q[n + i]
  OBVIOUS
<1>3. RemoveAt(q, i) = front \o back
  BY DEF RemoveAt
<1> HIDE DEF front, back
<1>4. /\ front \o back \in Seq(S) /\ Len(front \o back) = Len(front) + Len(back)
      /\ \A n \in 1..(Len(front) + Len(back)) : (front \o back)[n] =
           IF n <= Len(front) THEN front[n] ELSE back[n - Len(front)]
  BY <1>1, <1>2, ConcatProperties
<1>5. \A n \in 1..(Len(q) - 1) : ~(n < i) => back[n - (i - 1)] = q[n + 1]
  BY <1>2
<1> QED
  BY <1>1, <1>2, <1>3, <1>4, <1>5

\* What taking the i-th of the waiting executions out of the queue leaves.
LEMMA RemoveWaiting ==
    ASSUME TypeOK, SemInv, NEW i \in 1..Len(semq), semq' = RemoveAt(semq, i),
           \A x \in Requests : exec'[x] = "waiting" <=> exec[x] = "waiting" /\ x # semq[i]
    PROVE  /\ semq' \in Seq(Requests)
           /\ \A n \in 1..Len(semq') : exec'[semq'[n]] = "waiting"
           /\ \A n, k \in 1..Len(semq') : semq'[n] = semq'[k] => n = k
           /\ \A j \in Requests : exec'[j] = "waiting" => \E n \in 1..Len(semq') : semq'[n] = j
           /\ \A n \in 1..Len(semq') : \E k \in 1..Len(semq) : semq'[n] = semq[k]
<1> semq \in Seq(Requests) /\ Len(semq) \in Nat
  BY DEF TypeOK
<1>1. /\ semq' \in Seq(Requests)
      /\ Len(semq') = Len(semq) - 1
      /\ \A n \in 1..(Len(semq) - 1) : semq'[n] = IF n < i THEN semq[n] ELSE semq[n + 1]
  BY RemoveAtProperties
<1>2. \A n \in 1..Len(semq') : \E k \in 1..Len(semq) : k # i /\ semq'[n] = semq[k]
  <2> TAKE n \in 1..Len(semq')
  <2>1. CASE n < i
    BY <2>1, <1>1
  <2>2. CASE ~(n < i)
    BY <2>2, <1>1
  <2> QED
    BY <2>1, <2>2
<1>3. \A n \in 1..Len(semq') : exec'[semq'[n]] = "waiting"
  BY <1>1, <1>2 DEF SemInv
<1>4. \A n, k \in 1..Len(semq') : semq'[n] = semq'[k] => n = k
  BY <1>1 DEF SemInv
<1>5. ASSUME NEW j \in Requests, exec'[j] = "waiting"
      PROVE  \E n \in 1..Len(semq') : semq'[n] = j
  <2>1. PICK k \in 1..Len(semq) : semq[k] = j /\ k # i
    BY <1>5 DEF SemInv
  <2>2. CASE k < i
    BY <2>1, <2>2, <1>1
  <2>3. CASE k > i
    <3>1. k - 1 \in 1..Len(semq') /\ semq'[k - 1] = semq[k]
      BY <2>1, <2>3, <1>1
    <3> QED
      BY <3>1, <2>1
  <2> QED
    BY <2>1, <2>2, <2>3
<1> QED
  BY <1>1, <1>2, <1>3, <1>4, <1>5

\* Giving back a slot ends the execution of j and wakes at most one that waits.
LEMMA ReleaseSlotStep ==
    ASSUME TypeOK, SemInv, NEW j \in Requests, NEW o \in Ended, ReleaseSlot(j, o),
           exec[j] \in Alive \ {"waiting"}, execCancel \ {j} \subseteq execCancel'
    PROVE  /\ exec' \in [Requests -> ExecStates] /\ permits' \in Nat
           /\ semq' \in Seq(Requests)
           /\ SemInv'
           /\ \A x \in Requests :
                \/ exec'[x] = exec[x]
                \/ exec[x] \in Alive /\ exec'[x] \in Alive \cup Ended
<1> /\ permits \in Nat /\ exec \in [Requests -> ExecStates]
    /\ semq \in Seq(Requests) /\ Len(semq) \in Nat
  BY DEF TypeOK
<1>1. CASE /\ \A i \in 1..Len(semq) : semq[i] \in execCancel
           /\ permits' = permits + 1
           /\ exec' = [exec EXCEPT ![j] = o]
           /\ UNCHANGED semq
  BY <1>1 DEF SemInv, ExecStates, Alive, Ended
<1>2. CASE \E i \in 1..Len(semq) :
             /\ semq[i] \notin execCancel
             /\ exec' = [exec EXCEPT ![j] = o, ![semq[i]] = "granted"]
             /\ semq' = RemoveAt(semq, i)
             /\ UNCHANGED permits
  <2>1. PICK i \in 1..Len(semq) :
             /\ semq[i] \notin execCancel
             /\ exec' = [exec EXCEPT ![j] = o, ![semq[i]] = "granted"]
             /\ semq' = RemoveAt(semq, i)
             /\ UNCHANGED permits
    BY <1>2
  <2>2. semq[i] \in Requests /\ exec[semq[i]] = "waiting" /\ semq[i] # j
    BY DEF SemInv
  <2>3. /\ exec' \in [Requests -> ExecStates]
        /\ exec'[j] = o /\ exec'[semq[i]] = "granted"
        /\ \A x \in Requests \ {j, semq[i]} : exec'[x] = exec[x]
    BY <2>1, <2>2 DEF ExecStates, Alive, Ended
  <2>4. \A x \in Requests : exec'[x] = "waiting" <=> exec[x] = "waiting" /\ x # semq[i]
    BY <2>2, <2>3 DEF Ended
  <2>5. permits = 0 /\ permits' = 0
    BY <2>1 DEF SemInv
  <2>6. semq' \in Seq(Requests) /\ SemInv'
    BY <2>1, <2>4, <2>5, RemoveWaiting DEF SemInv
  <2> QED
    BY <2>1, <2>2, <2>3, <2>6 DEF Alive
<1> QED
  BY <1>1, <1>2 DEF ReleaseSlot

----------------------------------------------------------------------------
(* Initial states and the actions of submit() *)

\* The invariant holds in the initial state of AsyncTaskQueue.
LEMMA QueueInvInit == Init => QueueInv
<1> SUFFICES ASSUME Init PROVE QueueInv
  OBVIOUS
<1> USE DEF Init
<1>1. TypeOK
  BY BoundsAssumption DEF TypeOK, CallStates, JobStates, Futures, Statuses, ExecStates
<1>2. JobsInv
  BY DEF JobsInv, HistoryTellsOutcome, Live
<1>3. ExecInv
  BY DEF ExecInv, Alive
<1>4. DequesInv
  BY DEF DequesInv
<1>5. WorkersInv
  BY DEF WorkersInv, NoStrandedJob
<1>6. WaitersInv
  BY DEF WaitersInv, NoAbandonedWork, Live
<1>7. SemInv
  BY DEF SemInv
<1> QED
  BY <1>1, <1>2, <1>3, <1>4, <1>5, <1>6, <1>7 DEF QueueInv

\* Requests turned away touch nothing but their own state.
LEMMA SubmitRefusedInv ==
    ASSUME QueueInv, NEW r \in Requests, SubmitClosed(r) \/ SubmitFull(r)
    PROVE  QueueInv'
<1> /\ call[r] = "idle" /\ call' \in [Requests -> CallStates]
    /\ call'[r] \notin {"idle", "waiting"} /\ \A x \in Requests \ {r} : call'[x] = call[x]
    /\ UNCHANGED <<callCancel, jobVars, workVars, execVars, closing>>
  BY DEF QueueInv, TypeOK, SubmitClosed, SubmitFull, CallStates
<1> USE DEF jobVars, workVars, execVars
<1>1. TypeOK'
  BY DEF QueueInv, TypeOK
<1>2. JobsInv'
  BY DEF QueueInv, JobsInv, HistoryTellsOutcome, Live
<1>3. WaitersInv'
  BY DEF QueueInv, WaitersInv, NoAbandonedWork, Live
<1> QED
  BY <1>1, <1>2, <1>3, ExecFrame, DequesFrame, WorkersFrame, SemFrame DEF QueueInv

\* submit() attaching a waiter to a live job keeps the invariant.
LEMMA SubmitAttachInv ==
    ASSUME QueueInv, NEW r \in Requests, SubmitAttach(r)
    PROVE  QueueInv'
<1> PICK j \in Existing(r) : waiters' = [waiters EXCEPT ![j] = @ \cup {r}]
  BY DEF SubmitAttach
<1> j \in Requests /\ Live(j)
  BY DEF Existing, QueueInv, TypeOK
<1> /\ call[r] = "idle" /\ call' = [call EXCEPT ![r] = "waiting"]
    /\ UNCHANGED <<callCancel, state, fut, archive, jobs, workVars, execVars, closing>>
  BY DEF SubmitAttach
<1> USE DEF workVars, execVars
<1>1. TypeOK'
  BY DEF QueueInv, TypeOK, CallStates
<1>2. JobsInv'
  BY DEF QueueInv, TypeOK, JobsInv, HistoryTellsOutcome, Live
<1>3. WaitersInv'
  BY DEF QueueInv, TypeOK, WaitersInv, NoAbandonedWork, Live
<1> QED
  BY <1>1, <1>2, <1>3, ExecFrame, DequesFrame, WorkersFrame, SemFrame DEF QueueInv

\* submit() creating a job, and a worker if there is none, keeps the invariant.
LEMMA SubmitNewInv ==
    ASSUME QueueInv, NEW r \in Requests, SubmitNew(r)
    PROVE  QueueInv'
<1> DEFINE t == TargetOf[r]
           q == deque[t]
<1> /\ t \in Targets /\ q \in Seq(Requests) /\ Len(q) \in Nat
    /\ KeyOf \in [Requests -> Keys] /\ TargetOf \in [Requests -> Targets]
  BY RequestsAssumption DEF QueueInv, TypeOK
<1> call[r] = "idle" /\ state[r] = "new" /\ exec[r] = "none" /\ waiters[r] = {}
  BY DEF SubmitNew, QueueInv, JobsInv, ExecInv, WaitersInv
<1>1. TypeOK'
  BY DEF QueueInv, TypeOK, SubmitNew, execVars, CallStates, JobStates, Futures
<1>2. JobsInv'
  BY DEF QueueInv, TypeOK, JobsInv, HistoryTellsOutcome, Live, SubmitNew, Existing
<1>3. ExecInv'
  BY DEF QueueInv, TypeOK, ExecInv, SubmitNew, execVars
<1>4. /\ deque' = [deque EXCEPT ![t] = Append(q, r)]
      /\ Len(Append(q, r)) = Len(q) + 1 /\ Append(q, r)[Len(q) + 1] = r
      /\ \A i \in 1..Len(q) : Append(q, r)[i] = q[i]
  BY DEF SubmitNew
<1>5. DequesInv'
  <2>1. \A i \in 1..Len(q) : q[i] # r
    BY DEF QueueInv, DequesInv
  <2>2. state' = [state EXCEPT ![r] = "queued"]
    BY DEF SubmitNew
  <2> QED
    BY <1>4, <2>1, <2>2 DEF QueueInv, TypeOK, DequesInv
<1>6. WorkersInv'
  <2>1. NoStrandedJob'
    <3> SUFFICES ASSUME NEW j \in Requests, state'[j] = "queued"
                 PROVE  /\ \E i \in 1..Len(deque'[TargetOf[j]]) : deque'[TargetOf[j]][i] = j
                        /\ HasWorker(TargetOf[j])'
      BY DEF NoStrandedJob
    <3>1. CASE j = r
      BY <3>1, <1>4 DEF SubmitNew, HasWorker, QueueInv, TypeOK
    <3>2. CASE j # r
      <4>1. /\ HasWorker(TargetOf[j])
            /\ \E i \in 1..Len(deque[TargetOf[j]]) : deque[TargetOf[j]][i] = j
        BY <3>2 DEF SubmitNew, QueueInv, TypeOK, WorkersInv, NoStrandedJob
      <4>2. HasWorker(TargetOf[j])'
        BY <4>1 DEF SubmitNew, HasWorker
      <4>3. \E i \in 1..Len(deque'[TargetOf[j]]) : deque'[TargetOf[j]][i] = j
        BY <4>1, <1>4 DEF QueueInv, TypeOK
      <4> QED
        BY <4>2, <4>3
    <3> QED
      BY <3>1, <3>2
  <2> QED
    BY <2>1 DEF QueueInv, WorkersInv, SubmitNew, HasWorker
<1>7. WaitersInv'
  BY DEF QueueInv, TypeOK, WaitersInv, NoAbandonedWork, Live, SubmitNew
<1> QED
  BY <1>1, <1>2, <1>3, <1>5, <1>6, <1>7, SemFrame DEF QueueInv, SubmitNew, execVars

----------------------------------------------------------------------------
(* Cancelling and answering *)

\* Dooming live jobs keeps the table, the futures and the history in step, and
\* takes no queued job from the deques that stays queued.
LEMMA DoomStep ==
    ASSUME QueueInv, NEW S \in SUBSET jobs, NEW value \in {"cancelled", "shutdown"},
           Doom(S, value), call' \in [Requests -> CallStates],
           \A r \in Requests : call'[r] = "idle" => call[r] = "idle"
    PROVE  /\ state' \in [Requests -> JobStates] /\ fut' \in [Requests -> Futures]
           /\ archive' \in [Requests -> Statuses] /\ jobs' \subseteq Requests
           /\ JobsInv'
           /\ \A j \in Requests : state'[j] = IF j \in S THEN "cancelling" ELSE state[j]
           /\ \A j \in Requests : Live(j)' <=> Live(j) /\ j \notin S
<1> S \subseteq Requests /\ jobs \subseteq Requests
  BY DEF QueueInv, TypeOK
<1> USE DEF Doom, Settled, Archived
<1>1. /\ state' \in [Requests -> JobStates] /\ fut' \in [Requests -> Futures]
      /\ archive' \in [Requests -> Statuses] /\ jobs' \subseteq Requests
  BY DEF QueueInv, TypeOK, JobStates, Futures, Statuses
<1>2. \A j \in Requests : state'[j] = IF j \in S THEN "cancelling" ELSE state[j]
  OBVIOUS
<1>3. \A j \in Requests : Live(j)' <=> Live(j) /\ j \notin S
  BY <1>2 DEF Live
<1>4. \A j \in S : Live(j) /\ fut[j] = "pending" /\ archive[j] = "none" /\ call[j] # "idle"
  BY DEF QueueInv, JobsInv, Live
<1>5. JobsInv'
  <2>1. \A j \in Requests :
          /\ (j \in jobs' <=> Live(j)') /\ (j \in jobs' <=> fut'[j] = "pending")
          /\ state'[j] = "new" <=> fut'[j] = "none"
          /\ archive'[j] = "none" <=> state'[j] \in {"new", "queued", "running"}
          /\ call'[j] = "idle" => state'[j] = "new"
    BY <1>2, <1>3, <1>4 DEF QueueInv, JobsInv
  <2>2. \A i, j \in jobs' : KeyOf[i] = KeyOf[j] => i = j
    BY DEF QueueInv, JobsInv
  <2>3. HistoryTellsOutcome'
    BY <1>4 DEF QueueInv, JobsInv, HistoryTellsOutcome
  <2> QED
    BY <2>1, <2>2, <2>3 DEF JobsInv
<1> QED
  BY <1>1, <1>2, <1>3, <1>5

\* ... and leaves executions, deques and workers as they were.
LEMMA DoomFrame ==
    ASSUME QueueInv, NEW S \in SUBSET jobs, UNCHANGED <<exec, deque, serving, permits, semq>>,
           state' = [j \in Requests |-> IF j \in S THEN "cancelling" ELSE state[j]],
           execCancel \subseteq execCancel'
    PROVE  ExecInv' /\ DequesInv' /\ SemInv'
<1> S \subseteq Requests /\ \A j \in S : state[j] \in {"queued", "running"}
  BY DEF QueueInv, TypeOK, JobsInv, Live
<1>1. ExecInv'
  <2> SUFFICES ASSUME NEW j \in Requests
               PROVE  /\ state'[j] \in {"new", "queued"} => exec[j] = "none"
                      /\ state'[j] = "running" => j \in serving
                      /\ j \in serving => state'[j] \in {"running", "cancelling"} /\ exec[j] # "none"
                      /\ exec[j] \in Alive => j \in serving
    BY DEF ExecInv
  <2> QED
    BY DEF QueueInv, ExecInv
<1>2. DequesInv'
  <2> \A t \in Targets : \A i \in 1..Len(deque[t]) : deque[t][i] \in Requests
    BY DEF QueueInv, TypeOK
  <2> QED
    BY DEF QueueInv, DequesInv
<1> QED
  BY <1>1, <1>2, SemFrame DEF QueueInv

\* Cancelled executions are executions.
LEMMA InterruptType ==
    ASSUME TypeOK, NEW S \in SUBSET Requests, Interrupt(S)
    PROVE  execCancel' \subseteq Requests /\ execCancel \subseteq execCancel'
BY DEF Interrupt, TypeOK

\* Cancelling tasks that wait keeps the invariant.
LEMMA CancelCallersInv ==
    ASSUME QueueInv, NEW S \in SUBSET Requests, CancelCallers(S)
    PROVE  QueueInv'
<1> USE DEF CancelCallers, jobVars, workVars, execVars
<1>1. TypeOK'
  BY DEF QueueInv, TypeOK
<1> QED
  BY <1>1, JobsFrame, ExecFrame, DequesFrame, WorkersFrame, WaitersFrame, SemFrame DEF QueueInv

\* release(cancel=True), dooming the job or not, keeps the invariant.
LEMMA DeliverCancelInv ==
    ASSUME QueueInv, NEW r \in Requests, DeliverCancel(r)
    PROVE  QueueInv'
<1>1. PICK j \in Requests, S \in SUBSET Requests :
        /\ S = {i \in {j} : waiters[i] = {r} /\ Live(i)}
        /\ r \in waiters[j] /\ r \in callCancel
        /\ waiters' = [waiters EXCEPT ![j] = @ \ {r}]
        /\ call' = [call EXCEPT ![r] = "cancelled"]
        /\ callCancel' = callCancel \ {r}
        /\ Doom(S, "cancelled") /\ Interrupt(S)
        /\ UNCHANGED <<workVars, exec, permits, semq, closing>>
  BY DEF DeliverCancel, LeaveJob
<1>2. S \in SUBSET jobs
  BY <1>1 DEF QueueInv, JobsInv
<1>3. call' \in [Requests -> CallStates] /\ \A x \in Requests : call'[x] = "idle" => call[x] = "idle"
  BY <1>1 DEF QueueInv, TypeOK, CallStates
<1>4. /\ state' \in [Requests -> JobStates] /\ fut' \in [Requests -> Futures]
      /\ archive' \in [Requests -> Statuses] /\ jobs' \subseteq Requests
      /\ JobsInv'
      /\ \A x \in Requests : state'[x] = IF x \in S THEN "cancelling" ELSE state[x]
      /\ \A x \in Requests : Live(x)' <=> Live(x) /\ x \notin S
  BY <1>1, <1>2, <1>3, DoomStep
<1>5. execCancel' \subseteq Requests /\ execCancel \subseteq execCancel'
  BY <1>1, InterruptType DEF QueueInv
<1>6. TypeOK'
  BY <1>1, <1>3, <1>4, <1>5 DEF QueueInv, TypeOK, workVars
<1>7. ExecInv' /\ DequesInv' /\ SemInv'
  BY <1>1, <1>2, <1>5, DoomFrame DEF workVars, Doom
<1>8. WorkersInv'
  BY <1>1, <1>4 DEF QueueInv, WorkersInv, NoStrandedJob, HasWorker, workVars, Doom
<1>9. WaitersInv'
  BY <1>1, <1>4 DEF QueueInv, TypeOK, WaitersInv, NoAbandonedWork
<1> QED
  BY <1>4, <1>6, <1>7, <1>8, <1>9 DEF QueueInv

\* A request that resumes with its outcome keeps the invariant.
LEMMA ReturnInv ==
    ASSUME QueueInv, NEW r \in Requests, Return(r)
    PROVE  QueueInv'
<1>1. PICK j \in Requests :
        /\ r \in waiters[j] /\ fut[j] # "pending"
        /\ waiters' = [waiters EXCEPT ![j] = @ \ {r}]
        /\ call' = [call EXCEPT ![r] = fut[j]]
        /\ UNCHANGED <<callCancel, state, fut, archive, jobs, workVars, execVars, closing>>
  BY DEF Return
<1>2. fut[j] \in {"result", "error", "cancelled", "shutdown"} /\ ~Live(j)
  BY <1>1 DEF QueueInv, TypeOK, Futures, JobsInv, WaitersInv
<1>3. TypeOK'
  BY <1>1, <1>2 DEF QueueInv, TypeOK, CallStates, workVars, execVars
<1>4. JobsInv'
  BY <1>1, <1>2 DEF QueueInv, TypeOK, JobsInv, HistoryTellsOutcome, Live
<1>5. WaitersInv'
  BY <1>1, <1>2 DEF QueueInv, TypeOK, WaitersInv, NoAbandonedWork, Live
<1> QED
  BY <1>1, <1>3, <1>4, <1>5, ExecFrame, DequesFrame, WorkersFrame, SemFrame
     DEF QueueInv, workVars, execVars

\* cancel_root() keeps the invariant.
LEMMA CancelRootInv ==
    ASSUME QueueInv, NEW root \in Roots, CancelRoot(root)
    PROVE  QueueInv'
<1> DEFINE S == {j \in jobs : RootOf[j] = root /\ Live(j)}
<1>1. /\ Doom(S, "cancelled") /\ Interrupt(S)
      /\ UNCHANGED <<callVars, waiters, workVars, exec, permits, semq, closing>>
  BY DEF CancelRoot
<1>2. S \in SUBSET jobs /\ S \in SUBSET Requests
  BY DEF QueueInv, TypeOK
<1> HIDE DEF S
<1>3. call' \in [Requests -> CallStates] /\ \A x \in Requests : call'[x] = "idle" => call[x] = "idle"
  BY <1>1 DEF QueueInv, TypeOK, callVars
<1>4. /\ state' \in [Requests -> JobStates] /\ fut' \in [Requests -> Futures]
      /\ archive' \in [Requests -> Statuses] /\ jobs' \subseteq Requests
      /\ JobsInv'
      /\ \A x \in Requests : state'[x] = IF x \in S THEN "cancelling" ELSE state[x]
      /\ \A x \in Requests : Live(x)' <=> Live(x) /\ x \notin S
  BY <1>1, <1>2, <1>3, DoomStep
<1>5. execCancel' \subseteq Requests /\ execCancel \subseteq execCancel'
  BY <1>1, <1>2, InterruptType DEF QueueInv
<1>6. TypeOK'
  BY <1>1, <1>4, <1>5 DEF QueueInv, TypeOK, workVars, callVars
<1>7. ExecInv' /\ DequesInv' /\ SemInv'
  BY <1>1, <1>2, <1>5, DoomFrame DEF workVars, Doom
<1>8. WorkersInv'
  BY <1>1, <1>4 DEF QueueInv, WorkersInv, NoStrandedJob, HasWorker, workVars, Doom
<1>9. WaitersInv'
  BY <1>1, <1>4 DEF QueueInv, TypeOK, WaitersInv, NoAbandonedWork, callVars
<1> QED
  BY <1>4, <1>6, <1>7, <1>8, <1>9 DEF QueueInv

\* shutdown() up to its gather keeps the invariant.
LEMMA ShutdownBeginInv ==
    ASSUME QueueInv, ShutdownBegin
    PROVE  QueueInv'
<1>1. /\ Doom(jobs, "shutdown") /\ Interrupt(jobs \cup serving)
      /\ closing' = "draining" /\ fresh' = {}
      /\ UNCHANGED <<callVars, waiters, deque, serving, exec, permits, semq>>
  BY DEF ShutdownBegin
<1>2. jobs \in SUBSET Requests /\ jobs \cup serving \in SUBSET Requests
  BY DEF QueueInv, TypeOK
<1>3. call' \in [Requests -> CallStates] /\ \A x \in Requests : call'[x] = "idle" => call[x] = "idle"
  BY <1>1 DEF QueueInv, TypeOK, callVars
<1>4. /\ state' \in [Requests -> JobStates] /\ fut' \in [Requests -> Futures]
      /\ archive' \in [Requests -> Statuses] /\ jobs' \subseteq Requests
      /\ JobsInv'
      /\ \A x \in Requests : state'[x] = IF x \in jobs THEN "cancelling" ELSE state[x]
      /\ \A x \in Requests : Live(x)' <=> Live(x) /\ x \notin jobs
  BY <1>1, <1>2, <1>3, DoomStep
<1>5. execCancel' \subseteq Requests /\ execCancel \subseteq execCancel'
  BY <1>1, <1>2, InterruptType DEF QueueInv
<1>6. TypeOK'
  BY <1>1, <1>4, <1>5 DEF QueueInv, TypeOK, callVars
<1>7. ExecInv' /\ DequesInv' /\ SemInv'
  BY <1>1, <1>2, <1>5, DoomFrame DEF Doom
<1>8. WorkersInv'
  <2>1. \A x \in Requests : state'[x] # "queued"
    BY <1>4 DEF QueueInv, JobsInv, Live
  <2> QED
    BY <1>1, <2>1 DEF QueueInv, WorkersInv, NoStrandedJob, Doom
<1>9. WaitersInv'
  BY <1>1, <1>4 DEF QueueInv, TypeOK, WaitersInv, NoAbandonedWork, callVars
<1> QED
  BY <1>4, <1>6, <1>7, <1>8, <1>9 DEF QueueInv

\* shutdown() after its gather keeps the invariant.
LEMMA ShutdownEndInv ==
    ASSUME QueueInv, ShutdownEnd
    PROVE  QueueInv'
<1> USE DEF ShutdownEnd, callVars, jobVars, execVars
<1>1. TypeOK'
  BY DEF QueueInv, TypeOK
<1>2. DequesInv'
  BY DEF DequesInv
<1>3. WorkersInv'
  <2>1. \A x \in Requests : state[x] # "queued"
    BY DEF QueueInv, WorkersInv, JobsInv, Live
  <2> QED
    BY <2>1 DEF QueueInv, WorkersInv, NoStrandedJob
<1> QED
  BY <1>1, <1>2, <1>3, JobsFrame, ExecFrame, WaitersFrame, SemFrame DEF QueueInv

----------------------------------------------------------------------------
(* The worker *)

\* What a worker does when it looks for work: it starts the set N, which holds
\* the first queued job of its deque if there is one, and skips the doomed jobs K.
Started(t, st, past, others, N, K) ==
    /\ \A x \in N : st[x] = "queued" /\ \E i \in 1..Len(deque[t]) : deque[t][i] = x
    /\ \A x, y \in N : x = y
    /\ \A x \in K : st[x] # "queued" /\ \E i \in 1..Len(deque[t]) : deque[t][i] = x
    /\ state' \in [Requests -> JobStates] /\ exec' \in [Requests -> ExecStates]
    /\ \A x \in Requests : state'[x] = IF x \in N THEN "running" ELSE st[x]
    /\ \A x \in Requests : exec'[x] = IF x \in N THEN "created" ELSE exec[x]
    /\ archive' = Archived(past, K, "cancelled")
    /\ serving' = others \cup N
    /\ deque' \in [Targets -> Seq(Requests)]
    /\ \A u \in Targets \ {t} : deque'[u] = deque[u]
    /\ \A n \in 1..Len(deque'[t]) :
         deque'[t][n] \notin N /\ \E i \in 1..Len(deque[t]) : deque[t][i] = deque'[t][n]
    /\ \A n, k \in 1..Len(deque'[t]) : deque'[t][n] = deque'[t][k] => n = k
    /\ \A i \in 1..Len(deque[t]) : st[deque[t][i]] = "queued" =>
         N # {} /\ \/ deque[t][i] \in N
                   \/ \E n \in 1..Len(deque'[t]) : deque'[t][n] = deque[t][i]

\* What StartNext does, in the terms of the invariant: the deque
\* shrinks, at most one queued job starts.
LEMMA StartNextStep ==
    ASSUME NEW t \in Targets, NEW st \in [Requests -> JobStates],
           NEW past, NEW others \in SUBSET Requests,
           deque \in [Targets -> Seq(Requests)], exec \in [Requests -> ExecStates],
           \A i, k \in 1..Len(deque[t]) : deque[t][i] = deque[t][k] => i = k,
           StartNext(t, st, past, others)
    PROVE  \E N, K \in SUBSET Requests : Started(t, st, past, others, N, K)
<1> DEFINE q == deque[t]
<1> q \in Seq(Requests) /\ Len(q) \in Nat
  OBVIOUS
<1>1. ASSUME \A i \in 1..Len(q) : st[q[i]] # "queued",
             state' = st,
             archive' = Archived(past, {q[i] : i \in 1..Len(q)}, "cancelled"),
             deque' = [deque EXCEPT ![t] = <<>>],
             serving' = others,
             UNCHANGED exec
      PROVE  Started(t, st, past, others, {}, {q[i] : i \in 1..Len(q)})
  <2>1. deque' \in [Targets -> Seq(Requests)] /\ deque'[t] = <<>>
        /\ \A u \in Targets \ {t} : deque'[u] = deque[u]
    BY <1>1
  <2>2. Len(<<>>) = 0
    OBVIOUS
  <2> HIDE DEF q
  <2> QED
    BY <1>1, <2>1, <2>2 DEF Started, q
<1>2. ASSUME NEW i \in 1..Len(q),
             st[q[i]] = "queued", \A k \in 1..(i - 1) : st[q[k]] # "queued",
             state' = [st EXCEPT ![q[i]] = "running"],
             archive' = Archived(past, {q[k] : k \in 1..(i - 1)}, "cancelled"),
             deque' = [deque EXCEPT ![t] = SubSeq(q, i + 1, Len(q))],
             serving' = others \cup {q[i]},
             exec' = [exec EXCEPT ![q[i]] = "created"]
      PROVE  Started(t, st, past, others, {q[i]}, {q[k] : k \in 1..(i - 1)})
  <2> DEFINE rest == SubSeq(q, i + 1, Len(q))
  <2>1. /\ rest \in Seq(Requests) /\ Len(rest) = Len(q) - i
        /\ \A n \in 1..(Len(q) - i) : rest[n] = q[n + i]
    OBVIOUS
  <2>2. /\ deque'[t] = rest /\ deque' \in [Targets -> Seq(Requests)]
        /\ \A u \in Targets \ {t} : deque'[u] = deque[u]
    BY <1>2, <2>1
  <2> HIDE DEF rest
  <2>3. \A n \in 1..Len(rest) : rest[n] # q[i] /\ \E k \in 1..Len(q) : q[k] = rest[n]
    <3> TAKE n \in 1..Len(rest)
    <3>1. n + i \in 1..Len(q) /\ n + i # i /\ rest[n] = q[n + i]
      BY <2>1
    <3> QED
      BY <3>1
  <2>4. \A n, k \in 1..Len(rest) : rest[n] = rest[k] => n = k
    <3> TAKE n, k \in 1..Len(rest)
    <3>1. n + i \in 1..Len(q) /\ k + i \in 1..Len(q)
          /\ rest[n] = q[n + i] /\ rest[k] = q[k + i]
      BY <2>1
    <3>2. q[n + i] = q[k + i] => n + i = k + i
      BY <3>1
    <3>3. n \in Int /\ k \in Int /\ i \in Int
      BY <2>1
    <3> QED
      BY <3>1, <3>2, <3>3
  <2>5. ASSUME NEW n \in 1..Len(q), st[q[n]] = "queued", n # i
        PROVE  \E k \in 1..Len(rest) : rest[k] = q[n]
    <3>1. n > i
      BY <1>2, <2>5
    <3>2. n - i \in 1..Len(rest) /\ rest[n - i] = q[n]
      BY <3>1, <2>1
    <3> QED
      BY <3>2
  <2>6. q[i] \in Requests
    OBVIOUS
  <2>7. /\ state' \in [Requests -> JobStates] /\ exec' \in [Requests -> ExecStates]
        /\ \A x \in Requests : state'[x] = IF x \in {q[i]} THEN "running" ELSE st[x]
        /\ \A x \in Requests : exec'[x] = IF x \in {q[i]} THEN "created" ELSE exec[x]
    BY <1>2, <2>6 DEF JobStates, ExecStates, Alive
  <2>8. \A x \in {q[k] : k \in 1..(i - 1)} : st[x] # "queued" /\ \E n \in 1..Len(q) : q[n] = x
    <3> TAKE x \in {q[k] : k \in 1..(i - 1)}
    <3>1. PICK k \in 1..(i - 1) : x = q[k]
      OBVIOUS
    <3>2. k \in 1..Len(q)
      OBVIOUS
    <3> QED
      BY <1>2, <3>1, <3>2
  <2>9. \A n \in 1..Len(q) : st[q[n]] = "queued" =>
          q[n] \in {q[i]} \/ \E k \in 1..Len(rest) : rest[k] = q[n]
    BY <2>5
  <2> DEFINE N == {q[i]}
             K == {q[k] : k \in 1..(i - 1)}
  <2>10. /\ \A x \in N : st[x] = "queued" /\ \E n \in 1..Len(q) : q[n] = x
         /\ N # {} /\ \A x, y \in N : x = y
         /\ archive' = Archived(past, K, "cancelled") /\ serving' = others \cup N
         /\ \A n \in 1..Len(rest) : rest[n] \notin N /\ \E k \in 1..Len(q) : q[k] = rest[n]
    BY <1>2, <2>3
  <2> HIDE DEF q, N, K
  <2>11. Started(t, st, past, others, N, K)
    BY <2>2, <2>4, <2>7, <2>8, <2>9, <2>10 DEF Started, q, N, K
  <2> QED
    BY <2>11 DEF N, K
<1>3. /\ {q[k] : k \in 1..Len(q)} \in SUBSET Requests
      /\ \A i \in 1..Len(q) : {q[i]} \in SUBSET Requests
                              /\ {q[k] : k \in 1..(i - 1)} \in SUBSET Requests
  OBVIOUS
<1>4. CASE /\ \A i \in 1..Len(q) : st[q[i]] # "queued"
           /\ state' = st
           /\ archive' = Archived(past, {q[i] : i \in 1..Len(q)}, "cancelled")
           /\ deque' = [deque EXCEPT ![t] = <<>>]
           /\ serving' = others
           /\ UNCHANGED exec
  BY <1>1, <1>3, <1>4
<1>5. CASE \E i \in 1..Len(q) :
             /\ st[q[i]] = "queued" /\ \A k \in 1..(i - 1) : st[q[k]] # "queued"
             /\ state' = [st EXCEPT ![q[i]] = "running"]
             /\ archive' = Archived(past, {q[k] : k \in 1..(i - 1)}, "cancelled")
             /\ deque' = [deque EXCEPT ![t] = SubSeq(q, i + 1, Len(q))]
             /\ serving' = others \cup {q[i]}
             /\ exec' = [exec EXCEPT ![q[i]] = "created"]
  BY <1>2, <1>3, <1>5
<1> QED
  BY <1>4, <1>5 DEF StartNext

\* What holds between the bookkeeping of a worker (st, past, jobs', fut') and its
\* search for work: tables in step, and no work under way for its target.
Bookkept(t, st, past, others) ==
    /\ \A x \in Requests :
        /\ st[x] \in {"new", "queued", "cancelling"} <=> state[x] \in {"new", "queued", "cancelling"}
        /\ state[x] \in {"new", "queued", "cancelling"} => st[x] = state[x]
        /\ st[x] = "running" => x \in others
        /\ x \in others => st[x] = state[x]
        /\ x \in serving \ others => TargetOf[x] = t /\ exec[x] \notin Alive
        /\ x \in others => TargetOf[x] # t
    /\ t \notin fresh' /\ fresh' \subseteq fresh /\ fresh \subseteq fresh' \cup {t}
    /\ \A x \in Requests :
        /\ (x \in jobs' <=> st[x] \in {"queued", "running"})
        /\ (x \in jobs' <=> fut'[x] = "pending")
        /\ st[x] = "new" <=> fut'[x] = "none"
        /\ past[x] = "none" <=> st[x] \in {"new", "queued", "running"}
        /\ past[x] = "completed" => fut'[x] = "result"
        /\ past[x] = "failed" => fut'[x] = "error"
        /\ past[x] = "cancelled" => fut'[x] \in {"cancelled", "shutdown"}

\* Tickets stay in step when jobs only cease to be live.
LEMMA WaitersLess ==
    ASSUME WaitersInv, UNCHANGED <<call, waiters>>,
           \A x \in Requests :
             /\ state'[x] \in {"queued", "running"} => state[x] \in {"queued", "running"}
             /\ state'[x] = "new" => state[x] = "new"
    PROVE  WaitersInv'
<1>1. \A x \in Requests : Live(x)' => Live(x)
  BY DEF Live
<1> QED
  BY <1>1 DEF WaitersInv, NoAbandonedWork

\* The search for work restores the invariant.
LEMMA DrainInv ==
    ASSUME QueueInv, NEW t \in Targets, NEW st \in [Requests -> JobStates],
           NEW past \in [Requests -> Statuses], NEW others \in SUBSET serving,
           StartNext(t, st, past, others),
           jobs' \subseteq jobs, fut' \in [Requests -> Futures],
           UNCHANGED <<call, callCancel, waiters, execCancel, permits, semq, closing>>,
           closing # "closed",
           Bookkept(t, st, past, others)
    PROVE  QueueInv'
<1> /\ deque \in [Targets -> Seq(Requests)] /\ exec \in [Requests -> ExecStates]
    /\ serving \subseteq Requests /\ others \in SUBSET Requests /\ jobs \subseteq Requests
    /\ TypeOK /\ JobsInv /\ ExecInv /\ DequesInv /\ WorkersInv /\ WaitersInv /\ SemInv
  BY DEF QueueInv, TypeOK
<1> USE DEF Bookkept
<1>1. PICK N, K \in SUBSET Requests : Started(t, st, past, others, N, K)
  BY StartNextStep DEF DequesInv
<1>2. /\ \A x \in N : st[x] = "queued" /\ \E i \in 1..Len(deque[t]) : deque[t][i] = x
      /\ \A x, y \in N : x = y
      /\ \A x \in K : st[x] # "queued" /\ \E i \in 1..Len(deque[t]) : deque[t][i] = x
      /\ state' \in [Requests -> JobStates] /\ exec' \in [Requests -> ExecStates]
      /\ \A x \in Requests : state'[x] = IF x \in N THEN "running" ELSE st[x]
      /\ \A x \in Requests : exec'[x] = IF x \in N THEN "created" ELSE exec[x]
      /\ archive' = Archived(past, K, "cancelled")
      /\ serving' = others \cup N
  BY <1>1 DEF Started
<1>3. /\ deque' \in [Targets -> Seq(Requests)]
      /\ \A u \in Targets \ {t} : deque'[u] = deque[u]
      /\ \A n \in 1..Len(deque'[t]) :
           deque'[t][n] \notin N /\ \E i \in 1..Len(deque[t]) : deque[t][i] = deque'[t][n]
      /\ \A n, k \in 1..Len(deque'[t]) : deque'[t][n] = deque'[t][k] => n = k
      /\ \A i \in 1..Len(deque[t]) : st[deque[t][i]] = "queued" =>
           N # {} /\ \/ deque[t][i] \in N
                     \/ \E n \in 1..Len(deque'[t]) : deque'[t][n] = deque[t][i]
  BY <1>1 DEF Started
<1>4. \A x \in N : state[x] = "queued" /\ TargetOf[x] = t /\ exec[x] = "none"
  BY <1>2 DEF DequesInv, ExecInv
<1>5. archive' = past
  <2>1. \A x \in K : past[x] # "none"
    BY <1>2 DEF DequesInv
  <2>2. archive' = [x \in Requests |-> past[x]]
    BY <1>2, <2>1 DEF Archived
  <2> QED
    BY <2>2
<1>6. TypeOK'
  BY <1>2, <1>3, <1>5 DEF TypeOK
<1>7. JobsInv'
  BY <1>2, <1>5 DEF JobsInv, HistoryTellsOutcome, Live
<1>8. ExecInv'
  <2> SUFFICES ASSUME NEW j \in Requests
               PROVE  /\ state'[j] \in {"new", "queued"} => exec'[j] = "none"
                      /\ state'[j] = "running" => j \in serving'
                      /\ j \in serving' => state'[j] \in {"running", "cancelling"} /\ exec'[j] # "none"
                      /\ exec'[j] \in Alive => j \in serving'
    BY DEF ExecInv
  <2> QED
    BY <1>2 DEF ExecInv
<1>9. DequesInv'
  <2> SUFFICES ASSUME NEW u \in Targets
               PROVE  /\ \A i \in 1..Len(deque'[u]) :
                           /\ TargetOf[deque'[u][i]] = u
                           /\ state'[deque'[u][i]] \in {"queued", "cancelling"}
                      /\ \A i, k \in 1..Len(deque'[u]) : deque'[u][i] = deque'[u][k] => i = k
    BY DEF DequesInv
  <2>1. \A i \in 1..Len(deque[u]) :
          /\ deque[u][i] \in Requests /\ TargetOf[deque[u][i]] = u
          /\ st[deque[u][i]] \in {"queued", "cancelling"}
    BY DEF DequesInv
  <2>2. CASE u = t
    <3>1. ASSUME NEW n \in 1..Len(deque'[t])
          PROVE  /\ TargetOf[deque'[t][n]] = t
                 /\ state'[deque'[t][n]] \in {"queued", "cancelling"}
      <4>1. PICK i \in 1..Len(deque[t]) : deque[t][i] = deque'[t][n] /\ deque'[t][n] \notin N
        BY <1>3
      <4> QED
        BY <4>1, <2>1, <2>2, <1>2
    <3> QED
      BY <3>1, <2>2, <1>3
  <2>3. CASE u # t
    <3>1. deque'[u] = deque[u]
      BY <2>3, <1>3
    <3>2. ASSUME NEW i \in 1..Len(deque[u])
          PROVE  deque[u][i] \notin N
      <4>1. TargetOf[deque[u][i]] # t
        BY <2>1, <2>3
      <4> QED
        BY <4>1, <1>4
    <3> QED
      BY <3>1, <3>2, <2>1, <1>2 DEF DequesInv
  <2> QED
    BY <2>2, <2>3
<1>10. WorkersInv'
  <2>1. \A i, j \in serving' : TargetOf[i] = TargetOf[j] => i = j
    BY <1>2, <1>4 DEF WorkersInv
  <2>2. \A u \in fresh', j \in serving' : TargetOf[j] # u
    BY <1>2, <1>4 DEF WorkersInv
  <2>3. NoStrandedJob'
    <3> SUFFICES ASSUME NEW j \in Requests, state'[j] = "queued"
                 PROVE  /\ \E i \in 1..Len(deque'[TargetOf[j]]) : deque'[TargetOf[j]][i] = j
                        /\ HasWorker(TargetOf[j])'
      BY DEF NoStrandedJob
    <3>1. st[j] = "queued" /\ state[j] = "queued" /\ j \notin N /\ TargetOf[j] \in Targets
      BY <1>2, RequestsAssumption
    <3>2. /\ \E i \in 1..Len(deque[TargetOf[j]]) : deque[TargetOf[j]][i] = j
          /\ HasWorker(TargetOf[j])
      BY <3>1 DEF WorkersInv, NoStrandedJob
    <3>3. CASE TargetOf[j] = t
      <4>1. PICK i \in 1..Len(deque[t]) : deque[t][i] = j
        BY <3>2, <3>3
      <4>2. N # {} /\ \E n \in 1..Len(deque'[t]) : deque'[t][n] = j
        <5>1. /\ st[deque[t][i]] = "queued" /\ deque[t][i] \notin N
          BY <4>1, <3>1
        <5>2. N # {} /\ \E n \in 1..Len(deque'[t]) : deque'[t][n] = deque[t][i]
          BY <5>1, <1>3
        <5> QED
          BY <5>2, <4>1
      <4>3. HasWorker(t)'
        <5>1. PICK x \in N : TRUE
          BY <4>2
        <5>2. x \in serving' /\ TargetOf[x] = t
          BY <1>2, <1>4
        <5> QED
          BY <5>2 DEF HasWorker
      <4> QED
        BY <4>2, <4>3, <3>3
    <3>4. CASE TargetOf[j] # t
      BY <3>1, <3>2, <3>4, <1>2, <1>3 DEF HasWorker
    <3> QED
      BY <3>3, <3>4
  <2> QED
    BY <2>1, <2>2, <2>3 DEF WorkersInv
<1>11. WaitersInv'
  <2>1. \A x \in Requests :
          /\ state'[x] \in {"queued", "running"} => state[x] \in {"queued", "running"}
          /\ state'[x] = "new" => state[x] = "new"
    BY <1>2 DEF JobStates
  <2> QED
    BY <2>1, WaitersLess
<1>12. SemInv'
  <2>1. \A x \in Requests : exec'[x] = "waiting" <=> exec[x] = "waiting"
    BY <1>2, <1>4
  <2>2. \A i \in 1..Len(semq) : semq[i] \in Requests
    BY DEF TypeOK
  <2> QED
    BY <2>1, <2>2 DEF SemInv
<1> QED
  BY <1>6, <1>7, <1>8, <1>9, <1>10, <1>11, <1>12 DEF QueueInv

\* The first step of a worker keeps the invariant.
LEMMA WorkerStartInv ==
    ASSUME QueueInv, NEW t \in Targets, WorkerStart(t)
    PROVE  QueueInv'
<1>1. /\ t \in fresh /\ fresh' = fresh \ {t}
      /\ StartNext(t, state, archive, serving)
      /\ UNCHANGED <<call, callCancel, fut, waiters, jobs, execCancel, permits, semq, closing>>
  BY DEF WorkerStart, callVars
<1>2. /\ state \in [Requests -> JobStates] /\ archive \in [Requests -> Statuses]
      /\ fut' \in [Requests -> Futures] /\ serving \in SUBSET serving
  BY <1>1 DEF QueueInv, TypeOK
<1>3. closing # "closed" /\ \A x \in serving : TargetOf[x] # t
  BY <1>1 DEF QueueInv, WorkersInv
<1>4. \A x \in Requests : state[x] = "running" => x \in serving
  BY DEF QueueInv, ExecInv
<1>5. \A x \in Requests :
        /\ (x \in jobs' <=> state[x] \in {"queued", "running"})
        /\ (x \in jobs' <=> fut'[x] = "pending")
        /\ state[x] = "new" <=> fut'[x] = "none"
        /\ archive[x] = "none" <=> state[x] \in {"new", "queued", "running"}
        /\ archive[x] = "completed" => fut'[x] = "result"
        /\ archive[x] = "failed" => fut'[x] = "error"
        /\ archive[x] = "cancelled" => fut'[x] \in {"cancelled", "shutdown"}
  BY <1>1 DEF QueueInv, JobsInv, HistoryTellsOutcome, Live
<1>6. Bookkept(t, state, archive, serving)
  BY <1>1, <1>3, <1>4, <1>5 DEF Bookkept
<1> QED
  BY <1>1, <1>2, <1>3, <1>6, DrainInv

\* The outcome tables agree: what a future holds is what the history tells.
LEMMA OutcomeTables ==
    /\ FutureOf["returned"] = "result" /\ FutureOf["failed"] = "error"
    /\ FutureOf["cancelled"] = "cancelled"
    /\ StatusOf["returned"] = "completed" /\ StatusOf["failed"] = "failed"
    /\ StatusOf["cancelled"] = "cancelled"
    /\ \A e \in Ended : LateStatusOf[e] \in {"completed", "cancelled"}
BY DEF FutureOf, StatusOf, LateStatusOf, Ended

\* A worker that resumes, finishes its job and goes on keeps the invariant.
LEMMA WorkerResumeInv ==
    ASSUME QueueInv, NEW j \in Requests, WorkerResume(j)
    PROVE  QueueInv'
<1> DEFINE t    == TargetOf[j]
           st   == IF state[j] = "cancelling" THEN state ELSE [state EXCEPT ![j] = "finished"]
           stat == IF fut[j] = "pending" THEN StatusOf[exec[j]] ELSE LateStatusOf[exec[j]]
           past == Archived(archive, {j}, stat)
<1>1. /\ j \in serving /\ exec[j] \in Ended
      /\ jobs' = jobs \ {j} /\ fut' = Settled({j}, FutureOf[exec[j]])
      /\ StartNext(t, st, past, serving \ {j})
      /\ UNCHANGED <<call, callCancel, waiters, fresh, execCancel, permits, semq, closing>>
  BY DEF WorkerResume, callVars
<1>2. /\ state \in [Requests -> JobStates] /\ archive \in [Requests -> Statuses]
      /\ fut \in [Requests -> Futures] /\ t \in Targets /\ jobs \subseteq Requests
  BY RequestsAssumption DEF QueueInv, TypeOK
<1>3. state[j] \in {"running", "cancelling"}
  BY <1>1 DEF QueueInv, ExecInv
<1>4. /\ \A x \in Requests : (x \in jobs <=> Live(x)) /\ (x \in jobs <=> fut[x] = "pending")
      /\ \A x \in Requests : state[x] = "new" <=> fut[x] = "none"
      /\ \A x \in Requests : archive[x] = "none" <=> state[x] \in {"new", "queued", "running"}
      /\ \A x \in Requests :
           /\ archive[x] = "completed" => fut[x] = "result"
           /\ archive[x] = "failed" => fut[x] = "error"
           /\ archive[x] = "cancelled" => fut[x] \in {"cancelled", "shutdown"}
  BY DEF QueueInv, JobsInv, HistoryTellsOutcome
<1>5. /\ st \in [Requests -> JobStates]
      /\ \A x \in Requests : st[x] = IF x = j /\ state[j] = "running" THEN "finished" ELSE state[x]
  BY <1>2, <1>3 DEF JobStates
<1>6. CASE state[j] = "running"
  <2>1. fut[j] = "pending" /\ archive[j] = "none" /\ j \in jobs
    BY <1>4, <1>6 DEF Live
  <2>2. stat = StatusOf[exec[j]]
    BY <2>1
  <2>3. /\ FutureOf[exec[j]] \in {"result", "error", "cancelled"}
        /\ stat \in {"completed", "failed", "cancelled"}
        /\ stat = "completed" => FutureOf[exec[j]] = "result"
        /\ stat = "failed" => FutureOf[exec[j]] = "error"
        /\ stat = "cancelled" => FutureOf[exec[j]] = "cancelled"
    BY <1>1, <2>2, OutcomeTables DEF Ended
  <2> HIDE DEF stat
  <2>4. /\ past \in [Requests -> Statuses] /\ fut' \in [Requests -> Futures]
        /\ \A x \in Requests : past[x] = IF x = j THEN stat ELSE archive[x]
        /\ \A x \in Requests : fut'[x] = IF x = j THEN FutureOf[exec[j]] ELSE fut[x]
    BY <1>1, <1>2, <2>1, <2>3 DEF Archived, Settled, Statuses, Futures
  <2> HIDE DEF st, past
  <2>5. \A x \in Requests :
          /\ (x \in jobs' <=> st[x] \in {"queued", "running"})
          /\ (x \in jobs' <=> fut'[x] = "pending")
          /\ st[x] = "new" <=> fut'[x] = "none"
          /\ past[x] = "none" <=> st[x] \in {"new", "queued", "running"}
          /\ past[x] = "completed" => fut'[x] = "result"
          /\ past[x] = "failed" => fut'[x] = "error"
          /\ past[x] = "cancelled" => fut'[x] \in {"cancelled", "shutdown"}
    <3>1. \A x \in Requests : x # j =>
            /\ st[x] = state[x] /\ past[x] = archive[x] /\ fut'[x] = fut[x]
            /\ x \in jobs' <=> x \in jobs
      BY <1>1, <1>5, <2>4
    <3>2. /\ st[j] = "finished" /\ j \notin jobs' /\ past[j] = stat
          /\ fut'[j] = FutureOf[exec[j]]
      BY <1>1, <1>5, <1>6, <2>4
    <3>3. ASSUME NEW x \in Requests, x # j
          PROVE  /\ (x \in jobs' <=> st[x] \in {"queued", "running"})
                 /\ (x \in jobs' <=> fut'[x] = "pending")
                 /\ st[x] = "new" <=> fut'[x] = "none"
                 /\ past[x] = "none" <=> st[x] \in {"new", "queued", "running"}
                 /\ past[x] = "completed" => fut'[x] = "result"
                 /\ past[x] = "failed" => fut'[x] = "error"
                 /\ past[x] = "cancelled" => fut'[x] \in {"cancelled", "shutdown"}
      BY <1>4, <3>1, <3>3 DEF Live
    <3> QED
      BY <2>3, <3>2, <3>3
  <2> HIDE DEF t
  <2> QED
    <3>1. closing # "closed" /\ t \notin fresh
          /\ \A x \in serving \ {j} : TargetOf[x] # t
      BY <1>1 DEF QueueInv, WorkersInv, t
    <3>2. \A x \in Requests :
            /\ st[x] \in {"new", "queued", "cancelling"} <=> state[x] \in {"new", "queued", "cancelling"}
            /\ state[x] \in {"new", "queued", "cancelling"} => st[x] = state[x]
            /\ st[x] = "running" => x \in serving \ {j}
            /\ x \in serving \ {j} => st[x] = state[x]
            /\ x \in serving \ (serving \ {j}) => TargetOf[x] = t /\ exec[x] \notin Alive
      BY <1>1, <1>5, <1>6 DEF QueueInv, ExecInv, t, Ended, Alive
    <3>3. Bookkept(t, st, past, serving \ {j})
      BY <1>1, <2>5, <3>1, <3>2 DEF Bookkept
    <3> QED
      BY <1>1, <1>2, <1>5, <2>4, <3>1, <3>3, DrainInv
<1>7. CASE state[j] = "cancelling"
  <2>1. fut[j] # "pending" /\ archive[j] # "none" /\ j \notin jobs
    BY <1>4, <1>7 DEF Live
  <2>2. past = [x \in Requests |-> archive[x]] /\ fut' = [x \in Requests |-> fut[x]]
    BY <1>1, <2>1 DEF Archived, Settled
  <2>3. past = archive /\ fut' = fut /\ jobs' = jobs /\ st = state
    BY <1>1, <1>2, <1>7, <2>1, <2>2
  <2> HIDE DEF st, past
  <2>4. StartNext(t, state, archive, serving \ {j})
    BY <1>1, <2>3
  <2> HIDE DEF t
  <2>5. closing # "closed" /\ t \notin fresh
        /\ \A x \in serving \ {j} : TargetOf[x] # t
    BY <1>1 DEF QueueInv, WorkersInv, t
  <2>6. \A x \in Requests :
          /\ state[x] = "running" => x \in serving \ {j}
          /\ x \in serving \ (serving \ {j}) => TargetOf[x] = t /\ exec[x] \notin Alive
    BY <1>1, <1>7 DEF QueueInv, ExecInv, t, Ended, Alive
  <2>7. \A x \in Requests :
          /\ (x \in jobs' <=> state[x] \in {"queued", "running"})
          /\ (x \in jobs' <=> fut'[x] = "pending")
          /\ state[x] = "new" <=> fut'[x] = "none"
          /\ archive[x] = "none" <=> state[x] \in {"new", "queued", "running"}
          /\ archive[x] = "completed" => fut'[x] = "result"
          /\ archive[x] = "failed" => fut'[x] = "error"
          /\ archive[x] = "cancelled" => fut'[x] \in {"cancelled", "shutdown"}
    BY <1>4, <2>3 DEF Live
  <2>8. Bookkept(t, state, archive, serving \ {j})
    BY <1>1, <2>5, <2>6, <2>7 DEF Bookkept
  <2> QED
    BY <1>1, <1>2, <2>3, <2>4, <2>5, <2>8, DrainInv
<1> QED
  BY <1>3, <1>6, <1>7

\* A worker cancelled by shutdown() keeps the invariant.
LEMMA WorkerAbortInv ==
    ASSUME QueueInv, NEW j \in Requests, WorkerAbort(j)
    PROVE  QueueInv'
<1>1. /\ j \in serving /\ exec[j] \in Ended /\ closing # "open" /\ serving' = serving \ {j}
      /\ UNCHANGED <<callVars, jobVars, deque, fresh, execVars, closing>>
  BY DEF WorkerAbort
<1> USE <1>1 DEF callVars, jobVars, execVars
<1>2. TypeOK'
  BY DEF QueueInv, TypeOK
<1>3. \A x \in Requests : state[x] \notin {"queued", "running"}
  BY DEF QueueInv, WorkersInv, JobsInv, Live
<1>4. ExecInv'
  BY <1>3 DEF QueueInv, ExecInv, Ended, Alive
<1>5. WorkersInv'
  BY <1>3 DEF QueueInv, WorkersInv, NoStrandedJob
<1> QED
  BY <1>2, <1>4, <1>5, JobsFrame, DequesFrame, WaitersFrame, SemFrame DEF QueueInv

----------------------------------------------------------------------------
(* Executions *)

\* A step of an execution disturbs nothing but the semaphore.
LEMMA ExecutionFrame ==
    ASSUME QueueInv, UNCHANGED <<callVars, jobVars, workVars, closing>>,
           exec' \in [Requests -> ExecStates], execCancel' \subseteq Requests,
           permits' \in Nat, semq' \in Seq(Requests), SemInv',
           \A x \in Requests : \/ exec'[x] = exec[x]
                               \/ exec[x] \in Alive /\ exec'[x] \in Alive \cup Ended
    PROVE  QueueInv'
<1> USE DEF callVars, jobVars, workVars
<1>1. TypeOK'
  BY DEF QueueInv, TypeOK
<1> QED
  BY <1>1, JobsFrame, ExecStepFrame, DequesFrame, WorkersFrame, WaitersFrame DEF QueueInv

\* An execution that does not wait for a slot moves on: the semaphore stays put.
LEMMA SemKept ==
    ASSUME QueueInv, NEW j \in Requests, exec[j] \in Alive \ {"waiting"},
           NEW o \in (Alive \ {"waiting"}) \cup Ended, exec' = [exec EXCEPT ![j] = o],
           UNCHANGED semq, permits' > 0 => permits > 0, execCancel \ {j} \subseteq execCancel'
    PROVE  SemInv' /\ exec' \in [Requests -> ExecStates]
<1>1. /\ exec' \in [Requests -> ExecStates]
      /\ \A x \in Requests : exec'[x] = "waiting" <=> exec[x] = "waiting"
  BY DEF QueueInv, TypeOK, ExecStates, Alive, Ended
<1>2. \A i \in 1..Len(semq) : semq[i] \in Requests /\ semq[i] # j
  BY DEF QueueInv, TypeOK, SemInv
<1> QED
  BY <1>1, <1>2 DEF QueueInv, SemInv

\* The first step of an execution keeps the invariant.
LEMMA ExecStartInv ==
    ASSUME QueueInv, NEW j \in Requests, ExecStart(j)
    PROVE  QueueInv'
<1>1. /\ exec[j] = "created" /\ j \notin execCancel
      /\ UNCHANGED <<callVars, jobVars, workVars, execCancel, closing>>
  BY DEF ExecStart
<1>2. /\ exec \in [Requests -> ExecStates] /\ permits \in Nat /\ semq \in Seq(Requests)
      /\ Len(semq) \in Nat /\ execCancel' \subseteq Requests
  BY <1>1 DEF QueueInv, TypeOK
<1>3. CASE /\ exec' = [exec EXCEPT ![j] = "running"]
           /\ \/ UNCHANGED permits
              \/ permits > 0 /\ permits' = permits - 1
           /\ UNCHANGED semq
  <2>1. permits' \in Nat /\ (permits' > 0 => permits > 0)
    BY <1>2, <1>3
  <2>2. SemInv' /\ exec' \in [Requests -> ExecStates]
    BY <1>1, <1>3, <2>1, SemKept DEF Alive
  <2> QED
    BY <1>1, <1>2, <1>3, <2>1, <2>2, ExecutionFrame DEF Alive
<1>4. CASE /\ permits = 0 /\ UNCHANGED permits
           /\ exec' = [exec EXCEPT ![j] = "waiting"]
           /\ semq' = Append(semq, j)
  <2>1. /\ semq' \in Seq(Requests) /\ Len(semq') = Len(semq) + 1
        /\ semq'[Len(semq) + 1] = j /\ \A i \in 1..Len(semq) : semq'[i] = semq[i]
    BY <1>2, <1>4
  <2>2. \A i \in 1..Len(semq) : semq[i] \in Requests /\ semq[i] # j
    BY <1>1, <1>2 DEF QueueInv, SemInv
  <2>3. /\ exec' \in [Requests -> ExecStates]
        /\ \A x \in Requests : exec'[x] = IF x = j THEN "waiting" ELSE exec[x]
    BY <1>2, <1>4 DEF ExecStates, Alive
  <2>4. \A x \in Requests : exec'[x] = "waiting" => \E i \in 1..Len(semq') : semq'[i] = x
    <3> SUFFICES ASSUME NEW x \in Requests, exec'[x] = "waiting"
                 PROVE  \E i \in 1..Len(semq') : semq'[i] = x
      OBVIOUS
    <3>1. CASE x = j
      <4>1. Len(semq) + 1 \in 1..Len(semq')
        BY <1>2, <2>1
      <4> QED
        BY <3>1, <4>1, <2>1
    <3>2. CASE x # j
      <4>1. PICK i \in 1..Len(semq) : semq[i] = x
        BY <3>2, <2>3 DEF QueueInv, SemInv
      <4> QED
        BY <4>1, <2>1, <1>2
    <3> QED
      BY <3>1, <3>2
  <2>5. SemInv'
    BY <1>2, <1>4, <2>1, <2>2, <2>3, <2>4 DEF QueueInv, SemInv
  <2>6. /\ permits' \in Nat
        /\ \A x \in Requests : \/ exec'[x] = exec[x]
                               \/ exec[x] \in Alive /\ exec'[x] \in Alive \cup Ended
    <3>1. permits' \in Nat
      BY <1>2, <1>4
    <3>2. exec[j] \in Alive /\ exec'[j] \in Alive
      BY <1>1, <2>3 DEF Alive
    <3> QED
      BY <3>1, <3>2, <2>3
  <2> QED
    BY <1>1, <1>2, <2>1, <2>3, <2>5, <2>6, ExecutionFrame
<1> QED
  BY <1>3, <1>4 DEF ExecStart

\* An execution that resumes with its slot keeps the invariant.
LEMMA ExecGrantedInv ==
    ASSUME QueueInv, NEW j \in Requests, ExecGranted(j)
    PROVE  QueueInv'
<1>1. /\ exec[j] = "granted" /\ exec' = [exec EXCEPT ![j] = "running"]
      /\ UNCHANGED <<callVars, jobVars, workVars, execCancel, permits, semq, closing>>
  BY DEF ExecGranted
<1>2. SemInv' /\ exec' \in [Requests -> ExecStates]
  BY <1>1, SemKept DEF Alive
<1>3. /\ execCancel' \subseteq Requests /\ permits' \in Nat /\ semq' \in Seq(Requests)
      /\ exec \in [Requests -> ExecStates]
  BY <1>1 DEF QueueInv, TypeOK
<1> QED
  BY <1>1, <1>2, <1>3, ExecutionFrame DEF Alive

\* CancelledError reaching a handler keeps the invariant.
LEMMA HandlerInterruptedInv ==
    ASSUME QueueInv, NEW j \in Requests, HandlerInterrupted(j)
    PROVE  QueueInv'
<1>1. /\ exec[j] = "running" /\ exec' = [exec EXCEPT ![j] = "unwinding"]
      /\ execCancel' = execCancel \ {j}
      /\ UNCHANGED <<callVars, jobVars, workVars, permits, semq, closing>>
  BY DEF HandlerInterrupted
<1>2. SemInv' /\ exec' \in [Requests -> ExecStates]
  BY <1>1, SemKept DEF Alive
<1>3. /\ execCancel' \subseteq Requests /\ permits' \in Nat /\ semq' \in Seq(Requests)
      /\ exec \in [Requests -> ExecStates]
  BY <1>1 DEF QueueInv, TypeOK
<1> QED
  BY <1>1, <1>2, <1>3, ExecutionFrame DEF Alive

\* The end of an execution, by itself or after its cleanup.
LEMMA ExecEndInv ==
    ASSUME QueueInv, NEW j \in Requests, NEW o \in Ended, ExecEnd(j, o),
           exec[j] \in {"running", "unwinding"},
           UNCHANGED <<callVars, jobVars, workVars, execCancel, closing>>
    PROVE  QueueInv'
<1>1. /\ execCancel' \subseteq Requests /\ permits \in Nat /\ semq \in Seq(Requests)
      /\ exec \in [Requests -> ExecStates] /\ TypeOK /\ SemInv
  BY DEF QueueInv, TypeOK
<1>2. CASE j \in Inherits
  <2>1. exec' = [exec EXCEPT ![j] = o] /\ UNCHANGED <<permits, semq>>
    BY <1>2 DEF ExecEnd
  <2>2. SemInv' /\ exec' \in [Requests -> ExecStates]
    BY <2>1, SemKept DEF Alive
  <2> QED
    BY <1>1, <2>1, <2>2, ExecutionFrame DEF Alive
<1>3. CASE j \notin Inherits
  <2>1. ReleaseSlot(j, o)
    BY <1>3 DEF ExecEnd
  <2>2. exec[j] \in Alive \ {"waiting"} /\ execCancel \ {j} \subseteq execCancel'
    BY DEF Alive
  <2>3. /\ exec' \in [Requests -> ExecStates] /\ permits' \in Nat
        /\ semq' \in Seq(Requests)
        /\ SemInv'
        /\ \A x \in Requests :
             \/ exec'[x] = exec[x]
             \/ exec[x] \in Alive /\ exec'[x] \in Alive \cup Ended
    BY <1>1, <2>1, <2>2, ReleaseSlotStep
  <2> QED
    BY <1>1, <2>3, ExecutionFrame
<1> QED
  BY <1>2, <1>3

\* A handler that ends keeps the invariant.
LEMMA HandlerEndInv ==
    ASSUME QueueInv, NEW j \in Requests, HandlerEnd(j)
    PROVE  QueueInv'
BY ExecEndInv DEF HandlerEnd

\* An interrupted handler that ends keeps the invariant.
LEMMA CleanupInv ==
    ASSUME QueueInv, NEW j \in Requests, Cleanup(j)
    PROVE  QueueInv'
BY ExecEndInv DEF Cleanup

\* An execution cancelled before its handler began keeps the invariant.
LEMMA ExecCancelledInv ==
    ASSUME QueueInv, NEW j \in Requests, ExecCancelled(j)
    PROVE  QueueInv'
<1>1. /\ j \in execCancel /\ execCancel' = execCancel \ {j}
      /\ UNCHANGED <<callVars, jobVars, workVars, closing>>
  BY DEF ExecCancelled
<1>2. /\ execCancel' \subseteq Requests /\ permits \in Nat /\ semq \in Seq(Requests)
      /\ Len(semq) \in Nat /\ exec \in [Requests -> ExecStates] /\ TypeOK /\ SemInv
  BY <1>1 DEF QueueInv, TypeOK
<1>3. CASE /\ exec[j] = "created" /\ exec' = [exec EXCEPT ![j] = "cancelled"]
           /\ UNCHANGED <<permits, semq>>
  <2>1. SemInv' /\ exec' \in [Requests -> ExecStates]
    BY <1>1, <1>3, SemKept DEF Alive, Ended
  <2> QED
    BY <1>1, <1>2, <1>3, <2>1, ExecutionFrame DEF Alive, Ended
<1>4. CASE /\ exec[j] = "waiting" /\ exec' = [exec EXCEPT ![j] = "cancelled"]
           /\ \E i \in 1..Len(semq) : semq[i] = j /\ semq' = RemoveAt(semq, i)
           /\ UNCHANGED permits
  <2>1. PICK i \in 1..Len(semq) : semq[i] = j /\ semq' = RemoveAt(semq, i)
    BY <1>4
  <2>2. /\ exec' \in [Requests -> ExecStates]
        /\ \A x \in Requests : exec'[x] = IF x = j THEN "cancelled" ELSE exec[x]
    BY <1>2, <1>4 DEF ExecStates, Ended
  <2>3. /\ semq' \in Seq(Requests)
        /\ \A n \in 1..Len(semq') : exec'[semq'[n]] = "waiting"
        /\ \A n, k \in 1..Len(semq') : semq'[n] = semq'[k] => n = k
        /\ \A x \in Requests : exec'[x] = "waiting" => \E n \in 1..Len(semq') : semq'[n] = x
        /\ \A n \in 1..Len(semq') : \E k \in 1..Len(semq) : semq'[n] = semq[k]
    BY <1>2, <2>1, <2>2, RemoveWaiting
  <2>4. permits' > 0 => \A n \in 1..Len(semq') : semq'[n] \in execCancel'
    <3> SUFFICES ASSUME permits' > 0, NEW n \in 1..Len(semq')
                 PROVE  semq'[n] \in execCancel'
      OBVIOUS
    <3>1. semq'[n] \in execCancel
      <4>1. PICK k \in 1..Len(semq) : semq'[n] = semq[k]
        BY <2>3
      <4>2. semq[k] \in execCancel
        BY <1>4 DEF QueueInv, SemInv
      <4> QED
        BY <4>1, <4>2
    <3>2. semq'[n] # j
      BY <2>2, <2>3
    <3> QED
      BY <1>1, <3>1, <3>2
  <2>5. SemInv'
    BY <2>3, <2>4 DEF SemInv
  <2> QED
    BY <1>1, <1>2, <1>4, <2>2, <2>3, <2>5, ExecutionFrame DEF Alive, Ended
<1>5. CASE exec[j] = "granted" /\ ReleaseSlot(j, "cancelled")
  <2>1. /\ "cancelled" \in Ended /\ exec[j] \in Alive \ {"waiting"}
        /\ execCancel \ {j} \subseteq execCancel'
    BY <1>1, <1>5 DEF Alive, Ended
  <2>2. /\ exec' \in [Requests -> ExecStates] /\ permits' \in Nat
        /\ semq' \in Seq(Requests)
        /\ SemInv'
        /\ \A x \in Requests :
             \/ exec'[x] = exec[x]
             \/ exec[x] \in Alive /\ exec'[x] \in Alive \cup Ended
    BY <1>2, <1>5, <2>1, ReleaseSlotStep
  <2> QED
    BY <1>1, <1>2, <2>2, ExecutionFrame
<1> QED
  BY <1>3, <1>4, <1>5 DEF ExecCancelled

----------------------------------------------------------------------------
(* The invariant and what follows from it *)

\* So does a step that changes nothing.
LEMMA StutterInv ==
    ASSUME QueueInv, UNCHANGED vars
    PROVE  QueueInv'
<1> USE DEF vars, callVars, jobVars, workVars, execVars
<1>1. TypeOK'
  BY DEF QueueInv, TypeOK
<1> QED
  BY <1>1, JobsFrame, ExecFrame, DequesFrame, WorkersFrame, WaitersFrame, SemFrame DEF QueueInv

\* QueueInv is inductive: whatever callers, workers, handlers and shutdown do, in
\* any order, the job table, futures, history, deques, workers, tickets and
\* semaphore of AsyncTaskQueue stay consistent.
THEOREM QueueInvariant == Spec => []QueueInv
<1>1. QueueInv /\ [Next]_vars => QueueInv'
  <2> SUFFICES ASSUME QueueInv, [Next]_vars PROVE QueueInv'
    OBVIOUS
  <2>1. ASSUME NEW r \in Requests, Submit(r) PROVE QueueInv'
    BY <2>1, SubmitRefusedInv, SubmitAttachInv, SubmitNewInv DEF Submit
  <2>2. ASSUME NEW r \in Requests, DeliverCancel(r) PROVE QueueInv'
    BY <2>2, DeliverCancelInv
  <2>3. ASSUME NEW r \in Requests, Return(r) PROVE QueueInv'
    BY <2>3, ReturnInv
  <2>4. ASSUME NEW S \in SUBSET Requests, CancelCallers(S) PROVE QueueInv'
    BY <2>4, CancelCallersInv
  <2>5. ASSUME NEW root \in Roots, CancelRoot(root) PROVE QueueInv'
    BY <2>5, CancelRootInv
  <2>6. CASE ShutdownBegin
    BY <2>6, ShutdownBeginInv
  <2>7. CASE ShutdownEnd
    BY <2>7, ShutdownEndInv
  <2>8. ASSUME NEW t \in Targets, WorkerStart(t) PROVE QueueInv'
    BY <2>8, WorkerStartInv
  <2>9. ASSUME NEW j \in Requests, Worker(j) PROVE QueueInv'
    BY <2>9, WorkerResumeInv, WorkerAbortInv DEF Worker
  <2>10. ASSUME NEW j \in Requests, Exec(j) PROVE QueueInv'
    BY <2>10, ExecStartInv, ExecGrantedInv, ExecCancelledInv, HandlerInterruptedInv DEF Exec
  <2>11. ASSUME NEW j \in Requests, HandlerEnd(j) \/ Cleanup(j) PROVE QueueInv'
    BY <2>11, HandlerEndInv, CleanupInv
  <2>12. CASE UNCHANGED vars
    BY <2>12, StutterInv
  <2> QED
    BY <2>1, <2>2, <2>3, <2>4, <2>5, <2>6, <2>7, <2>8, <2>9, <2>10, <2>11, <2>12 DEF Next
<1> QED
  BY <1>1, QueueInvInit, PTL DEF Spec

\* Every variable of the queue keeps its shape.
THEOREM TypeCorrect == Spec => []TypeOK
<1>1. QueueInv => TypeOK
  BY DEF QueueInv
<1> QED
  BY <1>1, QueueInvariant, PTL

\* An agent runs one task at a time, cleanup of a cancelled one included: an
\* execution is alive only under a worker that awaits it, and a target has one.
THEOREM AgentsSerialized == Spec => []OneAtATime
<1>1. QueueInv => OneAtATime
  BY DEF QueueInv, ExecInv, WorkersInv, OneAtATime
<1> QED
  BY <1>1, QueueInvariant, PTL

\* No lost wake-up between submit() and the exit of an idle worker.
THEOREM NoLostWakeup == Spec => []NoStrandedJob
<1>1. QueueInv => NoStrandedJob
  BY DEF QueueInv, WorkersInv
<1> QED
  BY <1>1, QueueInvariant, PTL

\* Deduplication: submit() never has two live jobs of one key.
THEOREM Deduplicated == Spec => []SingleFlight
<1>1. QueueInv => SingleFlight
  BY DEF QueueInv, JobsInv, SingleFlight
<1> QED
  BY <1>1, QueueInvariant, PTL

\* recent_tasks() neither loses a job nor shows it twice.
THEOREM HistoryComplete == Spec => []ListedOnce
<1>1. QueueInv => ListedOnce
  BY DEF QueueInv, TypeOK, JobStates, JobsInv, Live, ListedOnce
<1> QED
  BY <1>1, QueueInvariant, PTL

\* The history agrees with what the waiters of each job were told.
THEOREM HistoryTrue == Spec => []HistoryTellsOutcome
<1>1. QueueInv => HistoryTellsOutcome
  BY DEF QueueInv, JobsInv
<1> QED
  BY <1>1, QueueInvariant, PTL

\* Work is live only while somebody waits for it, and nobody waits without a ticket.
THEOREM WorkIsWanted == Spec => []NoAbandonedWork
<1>1. QueueInv => NoAbandonedWork
  BY DEF QueueInv, WaitersInv
<1> QED
  BY <1>1, QueueInvariant, PTL

\* When shutdown() returns nothing of the queue is left running or waiting.
THEOREM ShutdownIsComplete == Spec => []ClosedIsQuiet
<1>1. QueueInv => ClosedIsQuiet
  BY DEF QueueInv, JobsInv, ExecInv, WorkersInv, Live, ClosedIsQuiet
<1> QED
  BY <1>1, QueueInvariant, PTL

-----------------------------------------------------------------------------
(* Steps: what one step of the queue may do, and the results that need it    *)
(* besides QueueInv: doomed jobs never begin, no slot is lost or given out   *)
(* twice, cancellation keeps its scope, and the queue implements             *)
(* TicketService, step by step.                                              *)

\* The life of an execution: what a step may change of exec[x], execCancel and
\* the doom of x.
Lifecycle(x) ==
    /\ \/ exec'[x] = exec[x]
       \/ exec[x] = "none" /\ exec'[x] = "created" /\ state'[x] = "running"
       \/ exec[x] = "created" /\ x \notin execCancel /\ exec'[x] \in {"running", "waiting"}
       \/ exec[x] = "waiting" /\ exec'[x] = "granted"
       \/ exec[x] = "granted" /\ x \notin execCancel /\ exec'[x] = "running"
       \/ exec'[x] \in {"unwinding"} \cup Ended
    /\ x \in execCancel \ execCancel' => exec'[x] \in {"unwinding"} \cup Ended
    /\ state'[x] = "cancelling" =>
         \/ state[x] = "cancelling"
         \/ /\ exec'[x] = exec[x]
            /\ exec[x] \in {"created", "waiting", "granted", "running"} => x \in execCancel'

\* A step that moves neither jobs nor executions.
LEMMA QuietLifecycle ==
    ASSUME UNCHANGED <<state, exec, execCancel>>, NEW x \in Requests
    PROVE  Lifecycle(x)
BY DEF Lifecycle

\* Dooming jobs and interrupting their executions.
LEMMA DoomLifecycle ==
    ASSUME NEW S, NEW T, S \subseteq T, NEW value, Doom(S, value), Interrupt(T),
           UNCHANGED exec, NEW x \in Requests
    PROVE  Lifecycle(x)
BY DEF Lifecycle, Doom, Interrupt

\* The worker of t starts nothing but queued jobs.
LEMMA StartLifecycle ==
    ASSUME QueueInv, NEW t \in Targets, NEW st \in [Requests -> JobStates],
           NEW past, NEW others \in SUBSET Requests,
           StartNext(t, st, past, others), UNCHANGED execCancel,
           \A y \in Requests : st[y] \in {"queued", "cancelling"} => st[y] = state[y]
    PROVE  /\ \A x \in Requests : Lifecycle(x)
           /\ \A x \in Requests : \/ exec'[x] = exec[x]
                                  \/ exec[x] = "none" /\ exec'[x] = "created"
           /\ \A x \in Requests : state'[x] = "cancelling" => state[x] = "cancelling"
<1>1. PICK N, K \in SUBSET Requests : Started(t, st, past, others, N, K)
  BY StartNextStep DEF QueueInv, TypeOK, DequesInv
<1>2. /\ \A x \in N : st[x] = "queued"
      /\ \A x \in Requests : state'[x] = IF x \in N THEN "running" ELSE st[x]
      /\ \A x \in Requests : exec'[x] = IF x \in N THEN "created" ELSE exec[x]
  BY <1>1 DEF Started
<1>3. \A x \in N : state[x] = "queued" /\ exec[x] = "none"
  BY <1>2 DEF QueueInv, ExecInv
<1> SUFFICES ASSUME NEW x \in Requests
             PROVE  /\ Lifecycle(x)
                    /\ exec'[x] = exec[x] \/ (exec[x] = "none" /\ exec'[x] = "created")
                    /\ state'[x] = "cancelling" => state[x] = "cancelling"
  OBVIOUS
<1>4. CASE x \in N
  BY <1>2, <1>3, <1>4 DEF Lifecycle
<1>5. CASE x \notin N
  <2>1. exec'[x] = exec[x] /\ state'[x] = st[x]
    BY <1>2, <1>5
  <2>2. st[x] = "cancelling" => state[x] = "cancelling"
    OBVIOUS
  <2> QED
    BY <2>1, <2>2 DEF Lifecycle
<1> QED
  BY <1>4, <1>5

\* So both steps of a worker that look for work start only queued jobs and
\* doom none.
LEMMA WorkerLifecycle ==
    ASSUME QueueInv,
           \/ \E t \in Targets : WorkerStart(t)
           \/ \E j \in Requests : WorkerResume(j)
    PROVE  /\ \A x \in Requests : Lifecycle(x)
           /\ \A x \in Requests : \/ exec'[x] = exec[x]
                                  \/ exec[x] = "none" /\ exec'[x] = "created"
           /\ \A x \in Requests : state'[x] = "cancelling" => state[x] = "cancelling"
           /\ UNCHANGED <<permits, execCancel>>
<1> state \in [Requests -> JobStates] /\ serving \in SUBSET Requests
  BY DEF QueueInv, TypeOK
<1> DEFINE Few == /\ \A x \in Requests : Lifecycle(x)
                  /\ \A x \in Requests : \/ exec'[x] = exec[x]
                                         \/ exec[x] = "none" /\ exec'[x] = "created"
                  /\ \A x \in Requests : state'[x] = "cancelling" => state[x] = "cancelling"
<1>1. ASSUME NEW t \in Targets, WorkerStart(t) PROVE Few /\ UNCHANGED <<permits, execCancel>>
  BY <1>1, StartLifecycle DEF WorkerStart
<1>2. ASSUME NEW j \in Requests, WorkerResume(j) PROVE Few /\ UNCHANGED <<permits, execCancel>>
  <2> DEFINE st == IF state[j] = "cancelling" THEN state ELSE [state EXCEPT ![j] = "finished"]
  <2>1. state[j] # "queued" /\ TargetOf[j] \in Targets
    BY <1>2, RequestsAssumption DEF WorkerResume, QueueInv, ExecInv
  <2>2. /\ st \in [Requests -> JobStates]
        /\ \A y \in Requests : st[y] \in {"queued", "cancelling"} => st[y] = state[y]
    BY <2>1 DEF JobStates
  <2>3. PICK past : StartNext(TargetOf[j], st, past, serving \ {j})
    BY <1>2 DEF WorkerResume
  <2>4. UNCHANGED <<permits, execCancel>> /\ serving \ {j} \in SUBSET Requests
    BY <1>2 DEF WorkerResume
  <2> HIDE DEF st
  <2> QED
    BY <2>1, <2>2, <2>3, <2>4, StartLifecycle
<1> QED
  BY <1>1, <1>2

\* Giving back a slot wakes nobody whose cancellation is pending.
LEMMA ReleaseLifecycle ==
    ASSUME QueueInv, NEW j \in Requests, NEW o \in Ended, ReleaseSlot(j, o),
           exec[j] # "waiting", UNCHANGED state,
           execCancel \ {j} \subseteq execCancel', NEW x \in Requests
    PROVE  Lifecycle(x)
<1> /\ exec \in [Requests -> ExecStates] /\ semq \in Seq(Requests)
    /\ \A i \in 1..Len(semq) : semq[i] \in Requests /\ exec[semq[i]] = "waiting"
  BY DEF QueueInv, TypeOK, SemInv
<1>1. \/ exec'[x] = exec[x] /\ x # j
      \/ exec'[x] \in Ended
      \/ exec[x] = "waiting" /\ exec'[x] = "granted" /\ x # j
  BY DEF ReleaseSlot
<1> QED
  BY <1>1 DEF Lifecycle

\* Every step of the queue respects the life cycle of jobs.
LEMMA StepLifecycle ==
    ASSUME QueueInv, [Next]_vars, NEW x \in Requests
    PROVE  Lifecycle(x)
<1> exec \in [Requests -> ExecStates]
  BY DEF QueueInv, TypeOK
<1>1. ASSUME NEW r \in Requests, Submit(r) PROVE Lifecycle(x)
  <2>1. state'[x] = state[x] \/ state'[x] = "queued"
    BY <1>1 DEF Submit, SubmitClosed, SubmitAttach, SubmitFull, SubmitNew, jobVars, QueueInv, TypeOK
  <2>2. UNCHANGED <<exec, execCancel>>
    BY <1>1 DEF Submit, SubmitClosed, SubmitAttach, SubmitFull, SubmitNew, execVars
  <2> QED
    BY <2>1, <2>2 DEF Lifecycle
<1>2. ASSUME NEW r \in Requests, DeliverCancel(r) PROVE Lifecycle(x)
  <2>1. PICK S : Doom(S, "cancelled") /\ Interrupt(S) /\ UNCHANGED exec
    BY <1>2 DEF DeliverCancel, LeaveJob
  <2> QED
    BY <2>1, DoomLifecycle
<1>3. ASSUME NEW root \in Roots, CancelRoot(root) PROVE Lifecycle(x)
  <2>1. PICK S : Doom(S, "cancelled") /\ Interrupt(S) /\ UNCHANGED exec
    BY <1>3 DEF CancelRoot
  <2> QED
    BY <2>1, DoomLifecycle
<1>4. CASE ShutdownBegin
  <2>1. Doom(jobs, "shutdown") /\ Interrupt(jobs \cup serving) /\ UNCHANGED exec
    BY <1>4 DEF ShutdownBegin
  <2> QED
    BY <2>1, DoomLifecycle
<1>5. CASE \/ \E t \in Targets : WorkerStart(t)
           \/ \E j \in Requests : WorkerResume(j)
  BY <1>5, WorkerLifecycle
<1>6. ASSUME NEW j \in Requests, ExecCancelled(j) PROVE Lifecycle(x)
  <2>1. j \in execCancel /\ execCancel' = execCancel \ {j} /\ UNCHANGED state
    BY <1>6 DEF ExecCancelled, jobVars
  <2>2. CASE exec' = [exec EXCEPT ![j] = "cancelled"]
    BY <2>1, <2>2 DEF Lifecycle, Ended
  <2>3. CASE exec[j] = "granted" /\ ReleaseSlot(j, "cancelled")
    BY <2>1, <2>3, ReleaseLifecycle DEF Ended
  <2> QED
    BY <1>6, <2>2, <2>3 DEF ExecCancelled
<1>7. ASSUME NEW j \in Requests, ExecStart(j) \/ ExecGranted(j) \/ HandlerInterrupted(j)
      PROVE  Lifecycle(x)
  BY <1>7 DEF ExecStart, ExecGranted, HandlerInterrupted, Lifecycle, jobVars
<1>8. ASSUME NEW j \in Requests, HandlerEnd(j) \/ Cleanup(j) PROVE Lifecycle(x)
  <2>1. PICK o \in Ended : ExecEnd(j, o)
    BY <1>8 DEF HandlerEnd, Cleanup
  <2>2. UNCHANGED <<state, execCancel>> /\ exec[j] # "waiting"
    BY <1>8 DEF HandlerEnd, Cleanup, jobVars
  <2>3. CASE exec' = [exec EXCEPT ![j] = o]
    BY <2>2, <2>3 DEF Lifecycle
  <2>4. CASE ReleaseSlot(j, o)
    BY <2>2, <2>4, ReleaseLifecycle
  <2> QED
    BY <2>1, <2>3, <2>4 DEF ExecEnd
<1>9. CASE \/ \E r \in Requests : Return(r)
            \/ \E S \in SUBSET Requests : CancelCallers(S)
            \/ \E j \in Requests : WorkerAbort(j)
            \/ ShutdownEnd \/ UNCHANGED vars
  <2>1. UNCHANGED <<state, exec, execCancel>>
    BY <1>9 DEF Return, CancelCallers, WorkerAbort, ShutdownEnd, vars, jobVars, execVars
  <2> QED
    BY <2>1, QuietLifecycle
<1> QED
  BY <1>1, <1>2, <1>3, <1>4, <1>5, <1>6, <1>7, <1>8, <1>9 DEF Next, Worker, Exec

----------------------------------------------------------------------------
\* The cancellation of a doomed job's execution stays pending until delivered.
THEOREM DoomIsPending == Spec => []DoomedInv
<1>1. Init => DoomedInv
  BY DEF Init, DoomedInv
<1>2. QueueInv /\ DoomedInv /\ [Next]_vars => DoomedInv'
  <2> SUFFICES ASSUME QueueInv, DoomedInv, [Next]_vars, NEW x \in Requests,
                      state'[x] = "cancelling",
                      exec'[x] \in {"created", "waiting", "granted", "running"}
               PROVE  x \in execCancel'
    BY DEF DoomedInv
  <2>1. Lifecycle(x)
    BY StepLifecycle
  <2> QED
    BY <2>1 DEF Lifecycle, DoomedInv, Ended
<1> QED
  BY <1>1, <1>2, QueueInvariant, PTL DEF Spec

\* A doomed job's handler does not begin: cancel_root(), the last waiter's
\* release() and shutdown() stop it wherever they find it, a slot just handed
\* to it included.
THEOREM DoomedStayOut == Spec => DoomedNeverBegins
<1>1. QueueInv /\ DoomedInv /\ [Next]_vars =>
        [\A j \in Requests :
            state[j] = "cancelling" /\ exec[j] # "running" => exec'[j] # "running"]_vars
  <2> SUFFICES ASSUME QueueInv, DoomedInv, [Next]_vars, NEW x \in Requests,
                      state[x] = "cancelling", exec[x] # "running"
               PROVE  exec'[x] # "running"
    OBVIOUS
  <2>1. Lifecycle(x)
    BY StepLifecycle
  <2> QED
    BY <2>1 DEF Lifecycle, DoomedInv, Ended
<1> QED
  BY <1>1, QueueInvariant, DoomIsPending, PTL DEF Spec, DoomedNeverBegins

----------------------------------------------------------------------------
(* The slots of the semaphore *)

\* Who holds a slot depends on the executions alone.
LEMMA HoldersKept ==
    ASSUME SlotsInv, Holders' = Holders, UNCHANGED permits,
           \A x \in Inherits : exec'[x] \notin {"waiting", "granted"}
    PROVE  SlotsInv'
BY DEF SlotsInv, SlotsConserved

\* One execution takes a free slot, or gives its slot back.
LEMMA SlotTaken ==
    ASSUME SlotsInv, NEW j, j \notin Holders, Holders' = Holders \cup {j},
           permits \in Nat \ {0}, permits' = permits - 1,
           \A x \in Inherits : exec'[x] \notin {"waiting", "granted"}
    PROVE  SlotsInv'
<1>1. IsFiniteSet(Holders') /\ Cardinality(Holders') = Cardinality(Holders) + 1
  BY FS_AddElement DEF SlotsInv
<1>2. Cardinality(Holders) \in Nat
  BY FS_CardinalityType DEF SlotsInv
<1> QED
  BY <1>1, <1>2, BoundsAssumption DEF SlotsInv, SlotsConserved

LEMMA SlotFreed ==
    ASSUME SlotsInv, NEW j \in Holders, Holders' = Holders \ {j},
           permits \in Nat, permits' = permits + 1,
           \A x \in Inherits : exec'[x] \notin {"waiting", "granted"}
    PROVE  SlotsInv'
<1>1. IsFiniteSet(Holders') /\ Cardinality(Holders') = Cardinality(Holders) - 1
  BY FS_RemoveElement DEF SlotsInv
<1>2. Cardinality(Holders) \in Nat
  BY FS_CardinalityType DEF SlotsInv
<1> QED
  BY <1>1, <1>2, BoundsAssumption DEF SlotsInv, SlotsConserved

\* One execution hands its slot to another.
LEMMA SlotHandedOver ==
    ASSUME SlotsInv, NEW j \in Holders, NEW k, k \notin Holders,
           Holders' = (Holders \ {j}) \cup {k}, UNCHANGED permits,
           \A x \in Inherits : exec'[x] \notin {"waiting", "granted"}
    PROVE  SlotsInv'
<1>1. IsFiniteSet(Holders \ {j}) /\ Cardinality(Holders \ {j}) = Cardinality(Holders) - 1
  BY FS_RemoveElement DEF SlotsInv
<1>2. /\ IsFiniteSet(Holders')
      /\ Cardinality(Holders') = Cardinality(Holders \ {j}) + 1
  BY <1>1, FS_AddElement
<1>3. Cardinality(Holders) \in Nat
  BY FS_CardinalityType DEF SlotsInv
<1> QED
  BY <1>1, <1>2, <1>3 DEF SlotsInv, SlotsConserved

\* ReleaseSlot loses no slot and makes none.
LEMMA ReleaseSlots ==
    ASSUME QueueInv, SlotsInv, NEW j \in Requests \ Inherits, NEW o \in Ended,
           ReleaseSlot(j, o), exec[j] \in {"granted", "running", "unwinding"}
    PROVE  SlotsInv'
<1> /\ exec \in [Requests -> ExecStates] /\ semq \in Seq(Requests) /\ permits \in Nat
    /\ \A i \in 1..Len(semq) : semq[i] \in Requests /\ exec[semq[i]] = "waiting"
    /\ j \in Holders /\ Inherits \subseteq Requests
  BY RequestsAssumption DEF QueueInv, TypeOK, SemInv, Holders
<1>1. CASE permits' = permits + 1 /\ exec' = [exec EXCEPT ![j] = o]
  <2>1. Holders' = Holders \ {j}
    BY <1>1 DEF Holders, Ended
  <2>2. \A x \in Inherits : exec'[x] \notin {"waiting", "granted"}
    BY <1>1 DEF SlotsInv
  <2> QED
    BY <1>1, <2>1, <2>2, SlotFreed
<1>2. CASE \E i \in 1..Len(semq) :
             exec' = [exec EXCEPT ![j] = o, ![semq[i]] = "granted"] /\ UNCHANGED permits
  <2>1. PICK i \in 1..Len(semq) :
             exec' = [exec EXCEPT ![j] = o, ![semq[i]] = "granted"] /\ UNCHANGED permits
    BY <1>2
  <2>2. semq[i] \in Requests \ Inherits /\ semq[i] # j /\ semq[i] \notin Holders
    BY DEF SlotsInv, Holders
  <2>3. \A x \in Requests :
          exec'[x] = IF x = semq[i] THEN "granted" ELSE IF x = j THEN o ELSE exec[x]
    BY <2>1, <2>2
  <2>4. Holders' = (Holders \ {j}) \cup {semq[i]}
    BY <2>2, <2>3 DEF Holders, Ended
  <2>5. \A x \in Inherits : exec'[x] \notin {"waiting", "granted"}
    BY <2>2, <2>3 DEF SlotsInv
  <2> QED
    BY <2>1, <2>2, <2>4, <2>5, SlotHandedOver
<1> QED
  BY <1>1, <1>2 DEF ReleaseSlot

\* An execution moves within or outside the holders.
LEMMA SlotsUntouched ==
    ASSUME QueueInv, SlotsInv, UNCHANGED permits, NEW j \in Requests, NEW o,
           exec' = [exec EXCEPT ![j] = o],
           j \in Inherits => o \notin {"waiting", "granted"},
           j \notin Inherits => (o \in {"granted", "running", "unwinding"}
                                 <=> exec[j] \in {"granted", "running", "unwinding"})
    PROVE  SlotsInv'
<1> exec \in [Requests -> ExecStates] /\ Inherits \subseteq Requests
  BY RequestsAssumption DEF QueueInv, TypeOK
<1>1. Holders' = Holders
  BY DEF Holders
<1>2. \A x \in Inherits : exec'[x] \notin {"waiting", "granted"}
  BY DEF SlotsInv
<1> QED
  BY <1>1, <1>2, HoldersKept

\* No step of the queue loses or makes a slot.
LEMMA SlotsStep ==
    ASSUME QueueInv, SlotsInv, [Next]_vars
    PROVE  SlotsInv'
<1> /\ exec \in [Requests -> ExecStates] /\ permits \in Nat
    /\ state \in [Requests -> JobStates] /\ Inherits \subseteq Requests
  BY RequestsAssumption DEF QueueInv, TypeOK
<1>1. ASSUME UNCHANGED <<exec, permits>> PROVE SlotsInv'
  BY <1>1, HoldersKept DEF Holders, SlotsInv
<1>2. CASE \/ \E r \in Requests : Submit(r) \/ DeliverCancel(r) \/ Return(r)
           \/ \E S \in SUBSET Requests : CancelCallers(S)
           \/ \E root \in Roots : CancelRoot(root)
           \/ ShutdownBegin \/ ShutdownEnd
           \/ \E j \in Requests : WorkerAbort(j)
           \/ UNCHANGED vars
  <2>1. UNCHANGED <<exec, permits>>
    BY <1>2 DEF Submit, SubmitClosed, SubmitAttach, SubmitFull, SubmitNew, DeliverCancel,
                LeaveJob, Return, CancelCallers, CancelRoot, ShutdownBegin, ShutdownEnd, WorkerAbort,
                vars, execVars
  <2> QED
    BY <2>1, <1>1
<1>3. CASE \/ \E t \in Targets : WorkerStart(t)
           \/ \E j \in Requests : WorkerResume(j)
  <2>1. /\ UNCHANGED permits
        /\ \A x \in Requests : \/ exec'[x] = exec[x]
                               \/ exec[x] = "none" /\ exec'[x] = "created"
    BY <1>3, WorkerLifecycle
  <2>2. Holders' = Holders
    BY <2>1 DEF Holders
  <2>3. \A x \in Inherits : exec'[x] \notin {"waiting", "granted"}
    BY <2>1 DEF SlotsInv
  <2> QED
    BY <2>1, <2>2, <2>3, HoldersKept
<1>4. ASSUME NEW j \in Requests, ExecStart(j) PROVE SlotsInv'
  <2>1. exec[j] = "created"
    BY <1>4 DEF ExecStart
  <2>2. CASE j \in Inherits /\ exec' = [exec EXCEPT ![j] = "running"] /\ UNCHANGED permits
    BY <2>2, SlotsUntouched
  <2>3. CASE /\ j \notin Inherits /\ permits > 0
             /\ exec' = [exec EXCEPT ![j] = "running"] /\ permits' = permits - 1
    <3>1. j \notin Holders /\ Holders' = Holders \cup {j}
      BY <2>1, <2>3 DEF Holders
    <3>2. \A x \in Inherits : exec'[x] \notin {"waiting", "granted"}
      BY <2>3 DEF SlotsInv
    <3> QED
      BY <2>3, <3>1, <3>2, SlotTaken
  <2>4. CASE j \notin Inherits /\ exec' = [exec EXCEPT ![j] = "waiting"] /\ UNCHANGED permits
    BY <2>1, <2>4, SlotsUntouched
  <2> QED
    BY <1>4, <2>2, <2>3, <2>4 DEF ExecStart
<1>5. ASSUME NEW j \in Requests, ExecGranted(j) \/ HandlerInterrupted(j) PROVE SlotsInv'
  BY <1>5, SlotsUntouched DEF ExecGranted, HandlerInterrupted
<1>6. ASSUME NEW j \in Requests, ExecCancelled(j) PROVE SlotsInv'
  <2>1. CASE /\ exec[j] \in {"created", "waiting"}
             /\ exec' = [exec EXCEPT ![j] = "cancelled"] /\ UNCHANGED permits
    BY <2>1, SlotsUntouched
  <2>2. CASE exec[j] = "granted" /\ ReleaseSlot(j, "cancelled")
    BY <2>2, ReleaseSlots DEF SlotsInv, Ended
  <2> QED
    BY <1>6, <2>1, <2>2 DEF ExecCancelled
<1>7. ASSUME NEW j \in Requests, HandlerEnd(j) \/ Cleanup(j) PROVE SlotsInv'
  <2>1. PICK o \in Ended : ExecEnd(j, o)
    BY <1>7 DEF HandlerEnd, Cleanup
  <2>2. exec[j] \in {"running", "unwinding"}
    BY <1>7 DEF HandlerEnd, Cleanup
  <2>3. CASE j \in Inherits
    <3>1. exec' = [exec EXCEPT ![j] = o] /\ UNCHANGED permits
      BY <2>1, <2>3 DEF ExecEnd
    <3> QED
      BY <2>3, <3>1, SlotsUntouched DEF Ended
  <2>4. CASE j \notin Inherits
    BY <2>1, <2>2, <2>4, ReleaseSlots DEF ExecEnd
  <2> QED
    BY <2>3, <2>4
<1> QED
  BY <1>2, <1>3, <1>4, <1>5, <1>6, <1>7 DEF Next, Worker, Exec

\* Slots are conserved, and who inherits one neither waits for a slot nor holds one.
LEMMA SlotsInvariant == Spec => []SlotsInv
<1>1. Init => SlotsInv
  <2> SUFFICES ASSUME Init PROVE SlotsInv
    OBVIOUS
  <2>1. Holders = {}
    BY DEF Init, Holders
  <2>2. \A j \in Inherits : exec[j] \notin {"waiting", "granted"}
    BY RequestsAssumption DEF Init
  <2> QED
    BY <2>1, <2>2, FS_EmptySet, BoundsAssumption DEF Init, SlotsInv, SlotsConserved
<1>2. QueueInv /\ SlotsInv /\ [Next]_vars => SlotsInv'
  BY SlotsStep
<1> QED
  BY <1>1, <1>2, QueueInvariant, PTL DEF Spec

\* max_concurrent is never exceeded and no slot leaks: a slot is free or held by
\* exactly one execution, whatever cancellation does to those that wait for it.
THEOREM SlotsAreConserved == Spec => []SlotsConserved
<1>1. SlotsInv => SlotsConserved
  BY DEF SlotsInv
<1> QED
  BY <1>1, SlotsInvariant, PTL

----------------------------------------------------------------------------
(* Who dooms jobs *)

\* Only a departing waiter, cancel_root() and shutdown() doom jobs.
LEMMA DoomedByFew ==
    ASSUME QueueInv, [Next]_vars,
           ~\E r \in Requests : DeliverCancel(r),
           ~\E root \in Roots : CancelRoot(root), ~ShutdownBegin,
           NEW x \in Requests, state'[x] = "cancelling"
    PROVE  state[x] = "cancelling"
<1> /\ state \in [Requests -> JobStates] /\ serving \in SUBSET Requests
    /\ jobs \subseteq Requests
  BY DEF QueueInv, TypeOK
<1>1. CASE \E r \in Requests : Submit(r)
  BY <1>1 DEF Submit, SubmitClosed, SubmitAttach, SubmitFull, SubmitNew, jobVars
<1>2. CASE \/ \E t \in Targets : WorkerStart(t)
           \/ \E j \in Requests : WorkerResume(j)
  BY <1>2, WorkerLifecycle
<1>3. CASE \/ \E r \in Requests : Return(r)
           \/ \E S \in SUBSET Requests : CancelCallers(S)
           \/ \E j \in Requests : WorkerAbort(j) \/ Exec(j) \/ HandlerEnd(j) \/ Cleanup(j)
           \/ ShutdownEnd \/ UNCHANGED vars
  <2>1. UNCHANGED state
    BY <1>3 DEF Return, CancelCallers, WorkerAbort, Exec, ExecStart, ExecGranted, ExecCancelled,
                HandlerInterrupted, HandlerEnd, Cleanup, ShutdownEnd, vars, jobVars
  <2> QED
    BY <2>1
<1> QED
  BY <1>1, <1>2, <1>3 DEF Next, Worker

\* Waiter isolation: cancelling one of several waiters of a shared job leaves
\* the job be; what dooms a job is its last waiter's release(), cancel_root(),
\* which leaves no job of the root live, or shutdown().
THEOREM CancellationIsScoped == Spec => CancelScope
<1>1. QueueInv /\ [Next]_vars =>
        [\A j \in Requests :
            state[j] # "cancelling" /\ state'[j] = "cancelling" =>
                \/ waiters'[j] = {}
                \/ call' = call /\ \A i \in Requests : RootOf[i] = RootOf[j] => ~Live(i)'
                \/ closing' = "draining"]_vars
  <2> SUFFICES ASSUME QueueInv, [Next]_vars, NEW x \in Requests,
                      state[x] # "cancelling", state'[x] = "cancelling",
                      closing' # "draining"
               PROVE  \/ waiters'[x] = {}
                      \/ call' = call /\ \A i \in Requests : RootOf[i] = RootOf[x] => ~Live(i)'
    OBVIOUS
  <2> /\ state \in [Requests -> JobStates] /\ waiters \in [Requests -> SUBSET Requests]
      /\ \A i \in Requests : Live(i) => i \in jobs
    BY DEF QueueInv, TypeOK, JobsInv
  <2>1. ASSUME NEW r \in Requests, DeliverCancel(r) PROVE waiters'[x] = {}
    <3>1. PICK j \in Requests :
            /\ Doom({i \in {j} : waiters[i] = {r} /\ Live(i)}, "cancelled")
            /\ waiters' = [waiters EXCEPT ![j] = @ \ {r}]
      BY <2>1 DEF DeliverCancel, LeaveJob
    <3>2. x = j /\ waiters[j] = {r}
      BY <3>1 DEF Doom
    <3> QED
      BY <3>1, <3>2
  <2>2. ASSUME NEW root \in Roots, CancelRoot(root)
        PROVE  call' = call /\ \A i \in Requests : RootOf[i] = RootOf[x] => ~Live(i)'
    <3> DEFINE S == {j \in jobs : RootOf[j] = root /\ Live(j)}
    <3>1. /\ state' = [j \in Requests |-> IF j \in S THEN "cancelling" ELSE state[j]]
          /\ UNCHANGED call
      BY <2>2 DEF CancelRoot, Doom, callVars
    <3>2. RootOf[x] = root
      BY <3>1
    <3>3. \A i \in Requests : RootOf[i] = root => ~Live(i)'
      BY <3>1 DEF Live
    <3> QED
      BY <3>1, <3>2, <3>3
  <2>3. ~ShutdownBegin
    BY DEF ShutdownBegin
  <2> QED
    BY <2>1, <2>2, <2>3, DoomedByFew
<1> QED
  BY <1>1, QueueInvariant, PTL DEF Spec, CancelScope

----------------------------------------------------------------------------
(* The queue implements the ticket service *)

\* Settling pending futures sets them all; settling those that are done, none.
LEMMA SettledPending ==
    ASSUME QueueInv, NEW S \in SUBSET Requests, NEW value
    PROVE  /\ (\A j \in S : fut[j] = "pending") =>
                Settled(S, value) = [j \in Requests |-> IF j \in S THEN value ELSE fut[j]]
           /\ (\A j \in S : fut[j] # "pending") => Settled(S, value) = fut
<1> fut \in [Requests -> Futures]
  BY DEF QueueInv, TypeOK
<1>1. ASSUME \A j \in S : fut[j] # "pending" PROVE Settled(S, value) = fut
  <2>1. Settled(S, value) = [j \in Requests |-> fut[j]]
    BY <1>1 DEF Settled
  <2> QED
    BY <2>1
<1> QED
  BY <1>1 DEF Settled

\* Submission: refused, sharing a pending promise, or opening one.
LEMMA SubmitImplements ==
    ASSUME QueueInv, NEW r \in Requests, Submit(r)
    PROVE  Service!Next
<1> /\ call[r] = "idle" /\ state[r] = "new" /\ fut[r] # "pending"
    /\ fut \in [Requests -> Futures]
    /\ \A j \in jobs : j \in Requests /\ fut[j] = "pending"
    /\ \A j \in Requests : fut[j] = "pending" => j \in jobs /\ Live(j)
  BY DEF QueueInv, TypeOK, JobsInv, Submit, SubmitClosed, SubmitAttach, SubmitFull, SubmitNew
<1>1. CASE SubmitClosed(r) \/ SubmitFull(r)
  <2>1. Service!Refuse(r)
    BY <1>1 DEF SubmitClosed, SubmitFull, Service!Refuse, jobVars
  <2> QED
    BY <2>1 DEF Service!Next
<1>2. CASE SubmitAttach(r)
  <2>1. Service!Join(r)
    BY <1>2 DEF SubmitAttach, Existing, Service!Join
  <2> QED
    BY <2>1 DEF Service!Next
<1>3. CASE SubmitNew(r)
  <2>1. \A j \in Requests : KeyOf[j] = KeyOf[r] => fut[j] # "pending"
    BY <1>3 DEF SubmitNew, Existing
  <2>2. Service!Open(r)
    BY <1>3, <2>1 DEF SubmitNew, Service!Open
  <2> QED
    BY <2>2 DEF Service!Next
<1> QED
  BY <1>1, <1>2, <1>3 DEF Submit

\* A waiter's departure settles the promise exactly when it is the last one.
LEMMA DepartureImplements ==
    ASSUME QueueInv, NEW r \in Requests, DeliverCancel(r)
    PROVE  Service!Next
<1>1. PICK j \in Requests :
        /\ r \in waiters[j]
        /\ waiters' = [waiters EXCEPT ![j] = @ \ {r}]
        /\ call' = [call EXCEPT ![r] = "cancelled"]
        /\ fut' = Settled({i \in {j} : waiters[i] = {r} /\ Live(i)}, "cancelled")
  BY DEF DeliverCancel, LeaveJob, Doom
<1> DEFINE S == {i \in {j} : waiters[i] = {r} /\ Live(i)}
<1>2. fut \in [Requests -> Futures] /\ (Live(j) <=> fut[j] = "pending")
  BY DEF QueueInv, TypeOK, JobsInv
<1>3. CASE waiters[j] = {r} /\ fut[j] = "pending"
  <2>1. fut' = [i \in Requests |-> IF i \in {j} THEN "cancelled" ELSE fut[i]]
    BY <1>1, <1>2, <1>3, SettledPending
  <2>2. fut' = [fut EXCEPT ![j] = "cancelled"]
    BY <1>2, <2>1
  <2> QED
    BY <1>1, <1>3, <2>2 DEF Service!Leave, Service!Next
<1>4. CASE ~(waiters[j] = {r} /\ fut[j] = "pending")
  <2>1. S = {}
    BY <1>2, <1>4
  <2>2. fut' = fut
    BY <1>1, <2>1, SettledPending
  <2> QED
    BY <1>1, <1>4, <2>2 DEF Service!Leave, Service!Next
<1> QED
  BY <1>3, <1>4

\* Dooming jobs of the table settles their promises together.
LEMMA DoomImplements ==
    ASSUME QueueInv, NEW S \in SUBSET jobs, NEW value \in {"cancelled", "shutdown"},
           Doom(S, value), UNCHANGED <<call, waiters>>
    PROVE  Service!Next
<1>1. S \in SUBSET Requests /\ \A j \in S : fut[j] = "pending"
  BY DEF QueueInv, TypeOK, JobsInv
<1>2. Service!Settle(S, value)
  BY <1>1, SettledPending DEF Doom, Service!Settle
<1> QED
  BY <1>1, <1>2 DEF Service!Next

\* The worker settles the promise of the job it awaited, if nobody has yet.
LEMMA ResumeImplements ==
    ASSUME QueueInv, NEW j \in Requests, WorkerResume(j)
    PROVE  Service!Next \/ UNCHANGED <<call, waiters, fut>>
<1>1. /\ fut' = Settled({j}, FutureOf[exec[j]]) /\ exec[j] \in Ended
      /\ UNCHANGED <<call, waiters>>
  BY DEF WorkerResume, callVars
<1>2. FutureOf[exec[j]] \in {"result", "error", "cancelled"}
  BY <1>1 DEF FutureOf, Ended
<1>3. CASE fut[j] = "pending"
  <2>1. Service!Settle({j}, FutureOf[exec[j]])
    BY <1>1, <1>3, SettledPending DEF Service!Settle
  <2> QED
    BY <1>2, <2>1 DEF Service!Next
<1>4. CASE fut[j] # "pending"
  BY <1>1, <1>4, SettledPending
<1> QED
  BY <1>3, <1>4

\* Each step of the queue is a step of TicketService on the requests, the
\* tickets and the futures, or leaves them alone.
LEMMA StepImplements ==
    ASSUME QueueInv, [Next]_vars
    PROVE  Service!Next \/ UNCHANGED <<call, waiters, fut>>
<1>1. ASSUME NEW r \in Requests, Return(r) PROVE Service!Next
  <2>1. PICK j \in Requests :
          /\ r \in waiters[j] /\ fut[j] # "pending"
          /\ waiters' = [waiters EXCEPT ![j] = @ \ {r}]
          /\ call' = [call EXCEPT ![r] = fut[j]] /\ UNCHANGED fut
    BY <1>1 DEF Return
  <2>2. fut[j] \in Service!Outcomes
    BY <2>1 DEF QueueInv, TypeOK, Futures, JobsInv, WaitersInv, Service!Outcomes
  <2> QED
    BY <2>1, <2>2 DEF Service!Answer, Service!Next
<1>2. ASSUME NEW root \in Roots, CancelRoot(root) PROVE Service!Next
  <2>1. PICK S \in SUBSET jobs : Doom(S, "cancelled")
    BY <1>2 DEF CancelRoot
  <2> QED
    BY <1>2, <2>1, DoomImplements DEF CancelRoot, callVars
<1>3. CASE ShutdownBegin
  BY <1>3, DoomImplements DEF ShutdownBegin, callVars
<1>4. CASE \/ \E S \in SUBSET Requests : CancelCallers(S)
           \/ \E t \in Targets : WorkerStart(t)
           \/ \E j \in Requests : WorkerAbort(j) \/ Exec(j) \/ HandlerEnd(j) \/ Cleanup(j)
           \/ ShutdownEnd \/ UNCHANGED vars
  BY <1>4 DEF CancelCallers, WorkerStart, WorkerAbort, Exec, ExecStart, ExecGranted,
              ExecCancelled, HandlerInterrupted, HandlerEnd, Cleanup, ShutdownEnd, vars,
              callVars, jobVars
<1> QED
  BY <1>1, <1>2, <1>3, <1>4, SubmitImplements, DepartureImplements, ResumeImplements
     DEF Next, Worker

\* The queue is a ticket service: outcomes are final and the same for all who
\* attached to a job, only pending work is attached to, a key has one pending
\* job, and the departure of the last waiter cancels it.
THEOREM QueueIsTicketService == Spec => ImplementsTicketSafety
<1>1. Init => Service!Init
  BY DEF Init, Service!Init
<1>2. QueueInv /\ [Next]_vars => [Service!Next]_(Service!vars)
  BY StepImplements DEF Service!vars
<1> QED
  BY <1>1, <1>2, QueueInvariant, PTL DEF Spec, ImplementsTicketSafety
=============================================================================
