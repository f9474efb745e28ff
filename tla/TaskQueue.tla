----------------------------- MODULE TaskQueue -----------------------------
(***************************************************************************)
(* The bounded in-process task queue (fastclaw/orchestration/queue.py):    *)
(* AsyncTaskQueue, its WaitTickets, one FIFO worker task per target agent, *)
(* one execution task per started job and the semaphore of execution       *)
(* slots.                                                                  *)
(*                                                                         *)
(* A request is one call of submit() followed by ticket.result() and       *)
(* ticket.release(), the pattern of both callers (InProcessMessageBus      *)
(* .request and the producer of AgentRuntimeManager.stream).  A job is     *)
(* named after the request that created it, whose handler it runs.         *)
(*                                                                         *)
(* The queue lives on one event loop and never holds its lock across an    *)
(* await, so the code between two real suspension points is one step.      *)
(***************************************************************************)
EXTENDS Integers, Sequences, FiniteSets, SequencesExt

CONSTANTS
    Requests,       \* calls of submit(), each made at most once
    Keys,           \* dedup keys: (user, root, target agent, task)
    Targets,        \* (user, agent)
    Roots,          \* root execution ids
    KeyOf, TargetOf, RootOf,
    Inherits,       \* the requests submitted with inherit_slot=True
    MaxConcurrent,  \* slots of the semaphore
    MaxPending      \* cap on _jobs

ASSUME RequestsAssumption ==
    /\ KeyOf \in [Requests -> Keys]
    /\ TargetOf \in [Requests -> Targets]
    /\ RootOf \in [Requests -> Roots]
    /\ Inherits \subseteq Requests
ASSUME KeyAssumption ==     \* a dedup key contains the root and the target
    \A r, s \in Requests :
        KeyOf[r] = KeyOf[s] => TargetOf[r] = TargetOf[s] /\ RootOf[r] = RootOf[s]
ASSUME BoundsAssumption ==
    MaxConcurrent \in Nat \ {0} /\ MaxPending \in Nat \ {0}

VARIABLES
    call,       \* the request: idle, waiting in ticket.result(), or how it ended
    callCancel, \* waiting requests whose task was cancelled, not yet resumed
    state,      \* job.state; "new" before the job exists
    fut,        \* job.future
    waiters,    \* job.waiters, the tokens named after their requests
    archive,    \* status under which _history holds the job; "none" if it does not
    jobs,       \* the jobs _jobs holds, under their dedup keys
    deque,      \* _queues
    fresh,      \* targets whose worker task is scheduled but has not started
    serving,    \* jobs whose execution some worker is awaiting
    exec,       \* the job's execution task
    execCancel, \* executions cancelled, not yet resumed
    permits,    \* free slots of the semaphore
    semq,       \* executions waiting for a slot, longest first
    closing     \* open; draining (shutdown awaits the workers); closed

callVars == <<call, callCancel>>
jobVars  == <<state, fut, waiters, archive, jobs>>
workVars == <<deque, fresh, serving>>
execVars == <<exec, execCancel, permits, semq>>
vars == <<callVars, jobVars, workVars, execVars, closing>>

CallStates == {"idle", "waiting", "result", "error", "cancelled", "shutdown",
               "rejected", "backpressure"}
JobStates  == {"new", "queued", "running", "cancelling", "finished"}
Futures    == {"none", "pending", "result", "error", "cancelled", "shutdown"}
Statuses   == {"none", "completed", "failed", "cancelled"}
Ended      == {"returned", "failed", "cancelled"}
Alive      == {"created", "waiting", "granted", "running", "unwinding"}
ExecStates == {"none"} \cup Alive \cup Ended

Live(j)   == state[j] \in {"queued", "running"}
\* Holding a slot of the semaphore, or already handed one.
Holders   == {j \in Requests \ Inherits : exec[j] \in {"granted", "running", "unwinding"}}
\* Fault: a worker that awaits an execution is not counted.
HasIdleWorker(t) == t \in fresh
HasWorker(t) == t \in fresh \/ \E j \in serving : TargetOf[j] = t

Init ==
    /\ call = [r \in Requests |-> "idle"]
    /\ callCancel = {}
    /\ state = [r \in Requests |-> "new"]
    /\ fut = [r \in Requests |-> "none"]
    /\ waiters = [r \in Requests |-> {}]
    /\ archive = [r \in Requests |-> "none"]
    /\ jobs = {}
    /\ deque = [t \in Targets |-> <<>>]
    /\ fresh = {}
    /\ serving = {}
    /\ exec = [r \in Requests |-> "none"]
    /\ execCancel = {}
    /\ permits = MaxConcurrent
    /\ semq = <<>>
    /\ closing = "open"

----------------------------------------------------------------------------
(* submit() *)

\* Fault: a job that runs is not attached to.
ExistingQueued(r) == {j \in jobs : KeyOf[j] = KeyOf[r] /\ state[j] = "queued"}
\* The job submit() may attach to: _jobs.get(dedup_key), if it is not doomed.
Existing(r) == {j \in jobs : KeyOf[j] = KeyOf[r] /\ Live(j)}

SubmitClosed(r) ==
    /\ call[r] = "idle" /\ closing # "open"
    /\ call' = [call EXCEPT ![r] = "rejected"]
    /\ UNCHANGED <<callCancel, jobVars, workVars, execVars, closing>>

SubmitAttach(r) ==
    /\ call[r] = "idle" /\ closing = "open"
    /\ \E j \in Existing(r) : waiters' = [waiters EXCEPT ![j] = @ \cup {r}]
    /\ call' = [call EXCEPT ![r] = "waiting"]
    /\ UNCHANGED <<callCancel, state, fut, archive, jobs, workVars, execVars, closing>>

SubmitFull(r) ==
    /\ call[r] = "idle" /\ closing = "open" /\ Existing(r) = {}
    /\ Cardinality(jobs) >= MaxPending
    /\ call' = [call EXCEPT ![r] = "backpressure"]
    /\ UNCHANGED <<callCancel, jobVars, workVars, execVars, closing>>

\* Storing the job under its key drops what _jobs held there; a worker is
\* created when the target has none.
SubmitNew(r) ==
    LET t == TargetOf[r] IN
    /\ call[r] = "idle" /\ closing = "open" /\ Existing(r) = {}
    /\ Cardinality(jobs) < MaxPending
    /\ call' = [call EXCEPT ![r] = "waiting"]
    /\ state' = [state EXCEPT ![r] = "queued"]
    /\ fut' = [fut EXCEPT ![r] = "pending"]
    /\ waiters' = [waiters EXCEPT ![r] = {r}]
    /\ jobs' = {j \in jobs : KeyOf[j] # KeyOf[r]} \cup {r}
    /\ deque' = [deque EXCEPT ![t] = Append(@, r)]
    /\ fresh' = IF HasWorker(t) THEN fresh ELSE fresh \cup {t}
    /\ UNCHANGED <<callCancel, archive, serving, execVars, closing>>

Submit(r) == SubmitClosed(r) \/ SubmitAttach(r) \/ SubmitFull(r) \/ SubmitNew(r)

----------------------------------------------------------------------------
(* Cancelling jobs and answering requests *)

\* Fault: the history takes the latest status.
ArchivedAgain(past, S, status) == [j \in Requests |-> IF j \in S THEN status ELSE past[j]]

\* _archive_locked: a job enters the history once.
Archived(past, S, status) ==
    [j \in Requests |-> IF j \in S /\ past[j] = "none" THEN status ELSE past[j]]

\* Fault: a settled future is settled again.
SettledAgain(S, value) == [j \in Requests |-> IF j \in S THEN value ELSE fut[j]]

\* job.future.cancel() / set_exception() unless it is done.
Settled(S, value) ==
    [j \in Requests |-> IF j \in S /\ fut[j] = "pending" THEN value ELSE fut[j]]

\* Fault: only running handlers are cancelled.
InterruptRunning(S) == execCancel' = execCancel \cup {j \in S : exec[j] = "running"}

\* Task.cancel() of the executions of S.  One that already unwinds only sees
\* its cleanup cut short, which Cleanup allows anyway.
Interrupt(S) ==
    execCancel' = execCancel \cup
        {j \in S : exec[j] \in {"created", "waiting", "granted", "running"}}

\* Faults: a doomed job is not archived; its future is left to the worker.
DoomUnrecorded(S, value) ==
    /\ state' = [j \in Requests |-> IF j \in S THEN "cancelling" ELSE state[j]]
    /\ jobs' = jobs \ S /\ fut' = Settled(S, value) /\ UNCHANGED archive
DoomUnsettled(S, value) ==
    /\ state' = [j \in Requests |-> IF j \in S THEN "cancelling" ELSE state[j]]
    /\ jobs' = jobs \ S /\ UNCHANGED fut /\ archive' = Archived(archive, S, "cancelled")

\* Dooms the jobs S: CANCELLING, out of _jobs, future settled, archived.
Doom(S, value) ==
    /\ state' = [j \in Requests |-> IF j \in S THEN "cancelling" ELSE state[j]]
    /\ jobs' = jobs \ S
    /\ fut' = Settled(S, value)
    /\ archive' = Archived(archive, S, "cancelled")

\* The environment cancels the tasks that wait (client gone, Stop, or the
\* timeout of a tool call, which takes a whole batch).
CancelCallers(S) ==
    /\ S # {} /\ S \cap callCancel = {} /\ \A r \in S : call[r] = "waiting"
    /\ callCancel' = callCancel \cup S
    /\ UNCHANGED <<call, jobVars, workVars, execVars, closing>>

\* What release(cancel=True) does to the ticket of r on j, dooming the jobs S.
LeaveJob(r, j, S) ==
    /\ r \in waiters[j] /\ r \in callCancel
    /\ waiters' = [waiters EXCEPT ![j] = @ \ {r}]
    /\ call' = [call EXCEPT ![r] = "cancelled"]
    /\ callCancel' = callCancel \ {r}
    /\ Doom(S, "cancelled") /\ Interrupt(S)
    /\ UNCHANGED <<workVars, exec, permits, semq, closing>>

\* Faults: the last waiter leaves the job running; any waiter dooms it; the
\* release waits for the handler.
DeliverCancelOnly(r) == \E j \in Requests : LeaveJob(r, j, {})
DeliverCancelAll(r)  == \E j \in Requests : LeaveJob(r, j, {j} \cap jobs)
DeliverCancelLate(r) ==
    \E j \in Requests : exec[j] \notin Alive /\ LeaveJob(r, j, {j} \cap jobs)

\* CancelledError reaches the request: release(cancel=True).  The last waiter
\* to leave dooms the job.
DeliverCancel(r) ==
    \E j \in Requests : LeaveJob(r, j, {i \in {j} : waiters[i] = {r} /\ Live(i)})

\* The future is done and the request resumes with its outcome; its ticket
\* is released.
Return(r) ==
    \E j \in Requests :
        /\ r \in waiters[j] /\ r \notin callCancel
        /\ fut[j] # "pending"
        /\ waiters' = [waiters EXCEPT ![j] = @ \ {r}]
        /\ call' = [call EXCEPT ![r] = fut[j]]
        /\ UNCHANGED <<callCancel, state, fut, archive, jobs, workVars, execVars, closing>>

CancelRoot(root) ==
    LET matches == {j \in jobs : RootOf[j] = root /\ Live(j)} IN
    /\ matches # {}
    /\ Doom(matches, "cancelled") /\ Interrupt(matches)
    /\ UNCHANGED <<callVars, waiters, workVars, exec, permits, semq, closing>>

\* shutdown() up to its gather: dooms every job and cancels every worker.  A
\* worker that has not started never runs; one that awaits an execution passes
\* the cancellation on to it.
ShutdownBegin ==
    /\ closing = "open"
    /\ closing' = "draining"
    /\ Doom(jobs, "shutdown") /\ Interrupt(jobs \cup serving)
    /\ fresh' = {}
    /\ UNCHANGED <<callVars, waiters, deque, serving, exec, permits, semq>>

\* Faults: shutdown() does not wait for its workers; it waits for empty queues.
ShutdownEndAtOnce ==
    /\ closing = "draining" /\ closing' = "closed"
    /\ deque' = [t \in Targets |-> <<>>]
    /\ UNCHANGED <<callVars, jobVars, fresh, serving, execVars>>
ShutdownEndDrained ==
    /\ closing = "draining" /\ serving = {} /\ \A t \in Targets : deque[t] = <<>>
    /\ closing' = "closed"
    /\ UNCHANGED <<callVars, jobVars, workVars, execVars>>

ShutdownEnd ==
    /\ closing = "draining" /\ serving = {}
    /\ closing' = "closed"
    /\ deque' = [t \in Targets |-> <<>>]
    /\ UNCHANGED <<callVars, jobVars, fresh, serving, execVars>>

----------------------------------------------------------------------------
(* The worker of a target: _drain() and _finish() *)

\* Fault: the worker ends when it pops a doomed job.
StartHead(t, st, past, others) ==
    LET q == deque[t] IN
    /\ deque' = [deque EXCEPT ![t] = IF q = <<>> THEN q ELSE Tail(q)]
    /\ LET N == {j \in {q[i] : i \in 1..Len(q)} : j = Head(q) /\ st[j] = "queued"} IN
       /\ state' = [j \in Requests |-> IF j \in N THEN "running" ELSE st[j]]
       /\ exec' = [j \in Requests |-> IF j \in N THEN "created" ELSE exec[j]]
       /\ serving' = others \cup N
       /\ archive' = past

\* The worker pops jobs until one is still queued, starts its execution and
\* awaits it; with none it removes its queue and itself.  st and past are
\* state and archive after the bookkeeping of the job it has just awaited,
\* others the jobs the other workers await.
StartNext(t, st, past, others) ==
    LET q == deque[t] IN
    \/ /\ \A i \in 1..Len(q) : st[q[i]] # "queued"
       /\ state' = st
       /\ archive' = Archived(past, {q[i] : i \in 1..Len(q)}, "cancelled")
       /\ deque' = [deque EXCEPT ![t] = <<>>]
       /\ serving' = others
       /\ UNCHANGED exec
    \/ \E i \in 1..Len(q) :
       /\ st[q[i]] = "queued" /\ \A k \in 1..(i - 1) : st[q[k]] # "queued"
       /\ state' = [st EXCEPT ![q[i]] = "running"]
       /\ archive' = Archived(past, {q[k] : k \in 1..(i - 1)}, "cancelled")
       /\ deque' = [deque EXCEPT ![t] = SubSeq(q, i + 1, Len(q))]
       /\ serving' = others \cup {q[i]}
       /\ exec' = [exec EXCEPT ![q[i]] = "created"]

WorkerStart(t) ==
    /\ t \in fresh
    /\ fresh' = fresh \ {t}
    /\ StartNext(t, state, archive, serving)
    /\ UNCHANGED <<callVars, fut, waiters, jobs, execCancel, permits, semq, closing>>

FutureOf == [returned |-> "result", failed |-> "error", cancelled |-> "cancelled"]
StatusOf == [returned |-> "completed", failed |-> "failed", cancelled |-> "cancelled"]
\* Status given to a job whose future was settled before its execution ended.
LateStatusOf == [returned |-> "completed", failed |-> "completed", cancelled |-> "cancelled"]

\* The execution of job j ended and its worker resumes: _finish(j), then on to
\* the next job.
WorkerResume(j) ==
    /\ j \in serving /\ exec[j] \in Ended
    /\ closing = "open" \/ exec[j] # "cancelled"
    /\ jobs' = jobs \ {j}
    /\ fut' = Settled({j}, FutureOf[exec[j]])
    /\ StartNext(TargetOf[j],
                 IF state[j] = "cancelling" THEN state ELSE [state EXCEPT ![j] = "finished"],
                 Archived(archive, {j}, IF fut[j] = "pending" THEN StatusOf[exec[j]]
                                        ELSE LateStatusOf[exec[j]]),
                 serving \ {j})
    /\ UNCHANGED <<callVars, waiters, fresh, execCancel, permits, semq, closing>>

\* The same resumption with CancelledError: shutdown cancelled the worker.
WorkerAbort(j) ==
    /\ j \in serving /\ exec[j] \in Ended /\ closing # "open"
    /\ serving' = serving \ {j}
    /\ UNCHANGED <<callVars, jobVars, deque, fresh, execVars, closing>>

----------------------------------------------------------------------------
(* The execution of a job: _execute() around its handler *)

\* A slot is given back: to the longest waiter that is not cancelled, if any.
\* (asyncio.Semaphore, outside the repository.)
ReleaseSlot(j, outcome) ==
    \/ /\ \A i \in 1..Len(semq) : semq[i] \in execCancel
       /\ permits' = permits + 1
       /\ exec' = [exec EXCEPT ![j] = outcome]
       /\ UNCHANGED semq
    \/ \E i \in 1..Len(semq) :
       /\ semq[i] \notin execCancel /\ \A k \in 1..(i - 1) : semq[k] \in execCancel
       /\ exec' = [exec EXCEPT ![j] = outcome, ![semq[i]] = "granted"]
       /\ semq' = RemoveAt(semq, i)
       /\ UNCHANGED permits

\* Fault: a cancelled handler keeps its slot.
ExecEndKeeps(j, outcome) ==
    IF j \in Inherits \/ outcome = "cancelled"
    THEN exec' = [exec EXCEPT ![j] = outcome] /\ UNCHANGED <<permits, semq>>
    ELSE ReleaseSlot(j, outcome)

ExecEnd(j, outcome) ==
    IF j \in Inherits
    THEN exec' = [exec EXCEPT ![j] = outcome] /\ UNCHANGED <<permits, semq>>
    ELSE ReleaseSlot(j, outcome)

\* The execution task takes its first step: it runs the handler at once or
\* first acquires a slot.  (One that arrives while a slot is free but another
\* execution has yet to resume with its own is queued by asyncio for that
\* instant; here it takes this step later.)
ExecStart(j) ==
    /\ exec[j] = "created" /\ j \notin execCancel
    /\ \/ /\ j \in Inherits
          /\ exec' = [exec EXCEPT ![j] = "running"]
          /\ UNCHANGED <<permits, semq>>
       \/ /\ j \notin Inherits /\ permits > 0
          /\ exec' = [exec EXCEPT ![j] = "running"]
          /\ permits' = permits - 1
          /\ UNCHANGED semq
       \/ /\ j \notin Inherits /\ permits = 0
          /\ exec' = [exec EXCEPT ![j] = "waiting"]
          /\ semq' = Append(semq, j)
          /\ UNCHANGED permits
    /\ UNCHANGED <<callVars, jobVars, workVars, execCancel, closing>>

\* It resumes with the slot it was handed.
ExecGranted(j) ==
    /\ exec[j] = "granted" /\ j \notin execCancel
    /\ exec' = [exec EXCEPT ![j] = "running"]
    /\ UNCHANGED <<callVars, jobVars, workVars, execCancel, permits, semq, closing>>

\* Fault: an execution cancelled with a slot just handed to it keeps the slot.
ExecCancelledKeeps(j) ==
    /\ j \in execCancel /\ exec[j] \in {"created", "granted"}
    /\ execCancel' = execCancel \ {j}
    /\ exec' = [exec EXCEPT ![j] = "cancelled"]
    /\ UNCHANGED <<callVars, jobVars, workVars, permits, semq, closing>>

\* Cancelled before its handler began: it never runs, and gives back the slot
\* it may have been handed.
ExecCancelled(j) ==
    /\ j \in execCancel
    /\ execCancel' = execCancel \ {j}
    /\ \/ /\ exec[j] = "created"
          /\ exec' = [exec EXCEPT ![j] = "cancelled"]
          /\ UNCHANGED <<permits, semq>>
       \/ /\ exec[j] = "waiting"
          /\ exec' = [exec EXCEPT ![j] = "cancelled"]
          /\ \E i \in 1..Len(semq) : semq[i] = j /\ semq' = RemoveAt(semq, i)
          /\ UNCHANGED permits
       \/ exec[j] = "granted" /\ ReleaseSlot(j, "cancelled")
    /\ UNCHANGED <<callVars, jobVars, workVars, closing>>

\* CancelledError reaches the running handler, which begins to clean up.
HandlerInterrupted(j) ==
    /\ exec[j] = "running" /\ j \in execCancel
    /\ exec' = [exec EXCEPT ![j] = "unwinding"]
    /\ execCancel' = execCancel \ {j}
    /\ UNCHANGED <<callVars, jobVars, workVars, permits, semq, closing>>

\* The handler ends by itself: a value, an exception, or a CancelledError of
\* its own (a delegation it awaited was cancelled).
HandlerEnd(j) ==
    /\ exec[j] = "running" /\ j \notin execCancel
    /\ \E outcome \in Ended : ExecEnd(j, outcome)
    /\ UNCHANGED <<callVars, jobVars, workVars, execCancel, closing>>

\* The interrupted handler ends, maybe with a value or error of its own.
Cleanup(j) ==
    /\ exec[j] = "unwinding"
    /\ \E outcome \in Ended : ExecEnd(j, outcome)
    /\ UNCHANGED <<callVars, jobVars, workVars, execCancel, closing>>

----------------------------------------------------------------------------
Exec(j) == ExecStart(j) \/ ExecGranted(j) \/ ExecCancelled(j) \/ HandlerInterrupted(j)
Worker(j) == WorkerResume(j) \/ WorkerAbort(j)

Next ==
    \/ \E r \in Requests : Submit(r) \/ DeliverCancel(r) \/ Return(r)
    \/ \E S \in SUBSET Requests : CancelCallers(S)
    \/ \E root \in Roots : CancelRoot(root)
    \/ ShutdownBegin \/ ShutdownEnd
    \/ \E t \in Targets : WorkerStart(t)
    \/ \E j \in Requests : Worker(j) \/ Exec(j) \/ HandlerEnd(j) \/ Cleanup(j)

\* What the event loop guarantees: a task that can take a step takes it.
LoopFairness ==
    /\ \A r \in Requests : WF_vars(DeliverCancel(r)) /\ WF_vars(Return(r))
    /\ \A t \in Targets : WF_vars(WorkerStart(t))
    /\ \A j \in Requests : WF_vars(Worker(j)) /\ WF_vars(Exec(j))
    /\ WF_vars(ShutdownEnd)

\* What the handlers owe: they end, and end their cleanup.
HandlersEnd == \A j \in Requests : WF_vars(HandlerEnd(j)) /\ WF_vars(Cleanup(j))

Spec     == Init /\ [][Next]_vars
LoopSpec == Spec /\ LoopFairness

----------------------------------------------------------------------------
(* Properties *)

\* Every variable of the queue keeps its shape.
TypeOK ==
    /\ call \in [Requests -> CallStates]
    /\ callCancel \subseteq Requests
    /\ state \in [Requests -> JobStates]
    /\ fut \in [Requests -> Futures]
    /\ waiters \in [Requests -> SUBSET Requests]
    /\ archive \in [Requests -> Statuses]
    /\ jobs \subseteq Requests
    /\ deque \in [Targets -> Seq(Requests)]
    /\ fresh \subseteq Targets
    /\ serving \subseteq Requests
    /\ exec \in [Requests -> ExecStates]
    /\ execCancel \subseteq Requests
    /\ permits \in Nat
    /\ semq \in Seq(Requests)
    /\ closing \in {"open", "draining", "closed"}

\* An agent runs one task at a time: two executions of one target never
\* overlap, the cleanup of a cancelled one included (_drain awaits it).
OneAtATime ==
    \A i, j \in Requests :
        i # j /\ TargetOf[i] = TargetOf[j] => ~(exec[i] \in Alive /\ exec[j] \in Alive)

\* A slot is free or held by exactly one execution, so at most MaxConcurrent
\* root handlers run and no cancellation loses a slot (_execute's semaphore).
SlotsConserved == permits + Cardinality(Holders) = MaxConcurrent

\* No lost wake-up: a queued job is in its target's deque and a worker of that
\* target is alive to reach it (submit's test of the worker against _drain's exit).
NoStrandedJob ==
    \A j \in Requests : state[j] = "queued" =>
        /\ \E i \in 1..Len(deque[TargetOf[j]]) : deque[TargetOf[j]][i] = j
        /\ HasWorker(TargetOf[j])

\* Deduplication: two jobs with one key are never both queued or running
\* (submit attaches to the live job, and overwrites only a doomed one).
SingleFlight ==
    \A i, j \in Requests : i # j /\ KeyOf[i] = KeyOf[j] => ~(Live(i) /\ Live(j))

\* recent_tasks() shows every submitted job exactly once: in _jobs with a live
\* state and a pending future, or in the history.
ListedOnce ==
    \A j \in Requests : state[j] # "new" =>
        /\ j \in jobs <=> archive[j] = "none"
        /\ j \in jobs <=> Live(j) /\ fut[j] = "pending"

\* A job stays live only while someone waits for it, and exactly the waiting
\* requests hold a ticket, one each (the waiter count of _release_waiter).
NoAbandonedWork ==
    /\ \A j \in Requests : Live(j) => waiters[j] # {}
    /\ \A r \in Requests : call[r] = "waiting" <=> \E j \in Requests : r \in waiters[j]
    /\ \A i, j \in Requests : i # j => waiters[i] \cap waiters[j] = {}

\* The history tells each job's outcome as its waiters saw it: completed,
\* failed or cancelled (also by shutdown), never another one.
HistoryTellsOutcome ==
    \A j \in Requests :
        /\ archive[j] = "completed" => fut[j] = "result"
        /\ archive[j] = "failed" => fut[j] = "error"
        /\ archive[j] = "cancelled" => fut[j] \in {"cancelled", "shutdown"}

\* After shutdown() nothing of the queue is left: no execution is alive, no job
\* is live and everybody who still waits has an outcome to pick up.
ClosedIsQuiet ==
    closing = "closed" => \A j \in Requests :
        exec[j] \notin Alive /\ ~Live(j) /\ fut[j] # "pending"

\* Once a job is doomed its handler does not begin, wherever the cancellation
\* found it: queued, created, waiting for a slot or just handed one.
DoomedNeverBegins ==
    [][\A j \in Requests :
        state[j] = "cancelling" /\ exec[j] # "running" => exec'[j] # "running"]_vars

\* Waiter isolation: a job is doomed only when its last waiter leaves, by what
\* dooms its whole root and lets nobody leave, or by shutdown; cancelling one of
\* two waiters leaves it be.
CancelScope ==
    [][\A j \in Requests :
        state[j] # "cancelling" /\ state'[j] = "cancelling" =>
            \/ waiters'[j] = {}
            \/ call' = call /\ \A i \in Requests : RootOf[i] = RootOf[j] => ~Live(i)'
            \/ closing' = "draining"]_vars

\* Every request that waits is answered, if handlers end.
AllAnswered ==
    HandlersEnd => \A r \in Requests : call[r] = "waiting" ~> call[r] # "waiting"

\* shutdown() returns, if handlers end.
ShutdownReturns == HandlersEnd => (closing = "draining" ~> closing = "closed")

\* A cancelled request resumes even if no handler ever ends.
CancelIsPrompt == \A r \in Requests : r \in callCancel ~> call[r] = "cancelled"

\* Cancelling a root answers all who wait for its jobs, even if no handler
\* ever ends.
DoomIsPrompt ==
    \A j, r \in Requests :
        state[j] = "cancelling" /\ r \in waiters[j] ~> call[r] # "waiting"

----------------------------------------------------------------------------
(* What callers see of the queue is TicketService, job futures its promises. *)

Service == INSTANCE TicketService WITH promise <- fut

\* The queue implements the ticket service: outcomes are final and shared by
\* all who attached, only pending work is attached to, one pending job per key.
\* (The service's fairness, every waiting request answered or gone, is AllAnswered.)
ImplementsTicketSafety == Service!Init /\ [][Service!Next]_(Service!vars)

----------------------------------------------------------------------------
(* The inductive invariant behind the safety properties. *)

\* The job table, the futures and the history move together.
JobsInv ==
    /\ \A j \in Requests :
        /\ (j \in jobs <=> Live(j)) /\ (j \in jobs <=> fut[j] = "pending")
        /\ state[j] = "new" <=> fut[j] = "none"
        /\ archive[j] = "none" <=> state[j] \in {"new", "queued", "running"}
        /\ call[j] = "idle" => state[j] = "new"
    /\ \A i, j \in jobs : KeyOf[i] = KeyOf[j] => i = j
    /\ HistoryTellsOutcome

\* A job is executed only under a worker that awaits it.
ExecInv ==
    \A j \in Requests :
        /\ state[j] \in {"new", "queued"} => exec[j] = "none"
        /\ state[j] = "running" => j \in serving
        /\ j \in serving => state[j] \in {"running", "cancelling"} /\ exec[j] # "none"
        /\ exec[j] \in Alive => j \in serving

\* A deque holds queued jobs of its target and doomed ones, each once.
DequesInv ==
    \A t \in Targets :
        /\ \A i \in 1..Len(deque[t]) :
            TargetOf[deque[t][i]] = t /\ state[deque[t][i]] \in {"queued", "cancelling"}
        /\ \A i, k \in 1..Len(deque[t]) : deque[t][i] = deque[t][k] => i = k

\* One worker per target, and one wherever there is work while the queue is open.
WorkersInv ==
    /\ \A i, j \in serving : TargetOf[i] = TargetOf[j] => i = j
    /\ \A t \in fresh, j \in serving : TargetOf[j] # t
    /\ NoStrandedJob
    /\ closing # "open" => jobs = {} /\ fresh = {}
    /\ closing = "closed" => serving = {}

\* Live work has waiters, and only jobs that exist have any.
WaitersInv ==
    /\ NoAbandonedWork
    /\ \A j \in Requests : state[j] = "new" => waiters[j] = {}

\* The semaphore's queue holds each execution that waits for a slot once, and
\* a slot stays free only if nobody uncancelled waits.
SemInv ==
    /\ \A i \in 1..Len(semq) : exec[semq[i]] = "waiting"
    /\ \A i, k \in 1..Len(semq) : semq[i] = semq[k] => i = k
    /\ \A j \in Requests : exec[j] = "waiting" => \E i \in 1..Len(semq) : semq[i] = j
    /\ permits > 0 => \A i \in 1..Len(semq) : semq[i] \in execCancel

\* All of it: what every step of the queue preserves.
QueueInv ==
    TypeOK /\ JobsInv /\ ExecInv /\ DequesInv /\ WorkersInv /\ WaitersInv /\ SemInv

\* The cancellation of a doomed job's execution stays pending until it is
\* delivered (behind DoomedNeverBegins and Delegation's DoomedAskNothing).
DoomedInv ==
    \A j \in Requests :
        state[j] = "cancelling" /\ exec[j] \in {"created", "waiting", "granted", "running"} =>
            j \in execCancel

\* Executions that inherit a slot never queue for one (behind SlotsConserved).
SlotsInv ==
    /\ \A j \in Inherits : exec[j] \notin {"waiting", "granted"}
    /\ IsFiniteSet(Holders)
    /\ SlotsConserved
=============================================================================
