----------------------------- MODULE PluginHost -----------------------------
(***************************************************************************)
(* The host of one plugin (fastclaw/plugin/manager.py and process.py):     *)
(* PluginManager.execute, configure and stop, the restart of a process     *)
(* that is gone, and PluginProcess, which speaks JSON-RPC with one child   *)
(* process at a time.                                                      *)
(*                                                                         *)
(* Every operation is a task of one event loop; the code between two real  *)
(* suspension points is one step.  A task is in at most one JSON-RPC call  *)
(* at a time (rpc), and its future (fut) is in _pending while it is        *)
(* "pending".  The processes are numbered in the order of their spawning.  *)
(*                                                                         *)
(* PluginProcess._lifecycle_lock is left out: start() and stop() run under *)
(* restart_lock or, in PluginManager.stop(), when no other task is left,   *)
(* so nobody ever waits for it.                                            *)
(***************************************************************************)
EXTENDS Integers, FiniteSets

CONSTANTS
    Calls,      \* PluginManager.execute(), each made at most once
    Admins,     \* PluginManager.configure(), each made at most once
    Asks,       \* what each of them asks for
    Closer,     \* PluginManager.stop()
    BigCalls,   \* the calls whose request does not fit in the child's pipe
    OwnTimerFirst, \* call_timeout is below the registry's tool_timeout
    MaxSpawns,  \* bound: no child can be spawned after that many
    None

Tasks == Calls \cup Admins \cup {Closer}
Generations == 1..MaxSpawns

ASSUME TasksAssumption ==
    /\ Asks \in [Admins -> {"disable", "enable", "restart"}]
    /\ BigCalls \subseteq Calls
    /\ Calls \cap Admins = {} /\ Closer \notin Calls \cup Admins
    /\ None \notin Tasks
    /\ OwnTimerFirst \in BOOLEAN
ASSUME SpawnsAssumption == MaxSpawns \in Nat

VARIABLES
    pc,         \* where each task is suspended
    rpc,        \* its current JSON-RPC call, [method, gen]
    fut,        \* the future of that call
    goal,       \* execute: what follows the restart; configure: the stop
    proc,       \* each child: none, up, dead, reaped (returncode is set)
    reader,     \* its _read_loop: reading, failed (why), ended
    cur,        \* PluginProcess._process, 0 for None
    holder,     \* of restart_lock
    pipe,       \* the stdin of each child: "full" while its transport is
                \* paused, "closed" once stop() has closed it
    enabled,    \* PluginInstance.enabled
    closing,    \* PluginManager._closing
    wrote,      \* history: <<t, g>> when t's tool.execute went to child g
    timedOut    \* history: the calls the registry's timer cut while waiting

taskVars == <<pc, rpc, fut, goal, holder, wrote, pipe>>
childVars == <<proc, reader, cur>>
modeVars == <<enabled, closing, timedOut>>
vars == <<taskVars, childVars, modeVars>>

Failures == {"unavailable", "protocol", "cancelled"}

NoCall == [method |-> "stop", gen |-> 0]

Init ==     \* PluginManager.start() is over: the plugin is up, or is not
    /\ pc = [t \in Tasks |-> "idle"]
    /\ rpc = [t \in Tasks |-> NoCall]
    /\ fut = [t \in Tasks |-> "none"]
    /\ goal = [t \in Tasks |-> "finish"]
    /\ cur \in {0, 1} \cap 0..MaxSpawns
    /\ proc = [g \in Generations |-> IF g = cur THEN "up" ELSE "none"]
    /\ reader = [g \in Generations |-> IF g = cur THEN "reading" ELSE "none"]
    /\ enabled \in {TRUE} \cup (IF cur = 0 THEN {FALSE} ELSE {})
    /\ closing = FALSE
    /\ holder = None
    /\ pipe = [g \in Generations |-> {}]
    /\ wrote = {} /\ timedOut = {}

Running == cur # 0 /\ proc[cur] # "reaped"

WriteLocked == \E t \in Tasks : pc[t] = "drain"

Failed(error) ==    \* the futures after _fail_pending(error)
    [t \in Tasks |-> IF fut[t] = "pending" THEN error ELSE fut[t]]

---------------------------------------------------------------------------
(***************************************************************************)
(* What a task does up to its next suspension.  Each of these operators    *)
(* gives the next value of every variable in taskVars.                     *)
(***************************************************************************)

Move(t, where) ==
    /\ pc' = [pc EXCEPT ![t] = where]
    /\ fut' = [fut EXCEPT ![t] = "none"]
    /\ UNCHANGED <<rpc, wrote, pipe>>

LeaveLocked(t) ==       \* mutant: restart_lock is not released
    /\ pc' = [pc EXCEPT ![t] = "done"]
    /\ rpc' = [rpc EXCEPT ![t] = NoCall]
    /\ goal' = [goal EXCEPT ![t] = "finish"]
    /\ UNCHANGED <<holder, wrote, pipe>>

Leave(t) ==     \* return or raise, leaving restart_lock
    /\ pc' = [pc EXCEPT ![t] = "done"]
    /\ rpc' = [rpc EXCEPT ![t] = NoCall]
    /\ goal' = [goal EXCEPT ![t] = "finish"]
    /\ holder' = IF holder = t THEN None ELSE holder
    /\ UNCHANGED <<wrote, pipe>>

Finish(t) == Leave(t) /\ fut' = [fut EXCEPT ![t] = "none"]

\* Under _write_lock: write to a child that takes requests, or fail.  drain()
\* returns without suspension unless the transport is paused, by this request
\* or by an earlier one that the child has not read yet.
Put(t, method, g, state, future) ==
    \/ /\ state = "up" /\ "closed" \notin pipe[g]
       /\ LET paused == "full" \in pipe[g] \/ (method = "execute" /\ t \in BigCalls)
          IN  /\ pc' = [pc EXCEPT ![t] = IF paused THEN "drain" ELSE "wait"]
              /\ pipe' = IF paused THEN [pipe EXCEPT ![g] = @ \cup {"full"}] ELSE pipe
       /\ wrote' = IF method = "execute" THEN wrote \cup {<<t, g>>} ELSE wrote
       /\ fut' = [fut EXCEPT ![t] = future]
    \/ /\ state # "up" \/ "closed" \in pipe[g]
       /\ \E error \in {"unavailable", "broken"} :
            /\ error = "broken" => state = "dead" /\ "closed" \notin pipe[g]
            /\ fut' = [fut EXCEPT ![t] = error]
       /\ pc' = [pc EXCEPT ![t] = "wait"]
       /\ UNCHANGED <<wrote, pipe>>

Request(t, method, g, state) ==     \* PluginProcess.call() to a live child
    /\ rpc' = [rpc EXCEPT ![t] = [method |-> method, gen |-> g]]
    /\ IF WriteLocked
       THEN /\ pc' = [pc EXCEPT ![t] = "wlock"]
            /\ fut' = [fut EXCEPT ![t] = "pending"]
            /\ UNCHANGED <<wrote, pipe>>
       ELSE Put(t, method, g, state, "pending")

\* Leave restart_lock; execute() goes on to its call if the child is there.
Return(t, next) ==
    IF next = "call" /\ Running
    THEN /\ Request(t, "execute", cur, proc[cur])
         /\ holder' = IF holder = t THEN None ELSE holder
         /\ goal' = [goal EXCEPT ![t] = next]
    ELSE Finish(t)

\* stop() has cleared _process: configure() starts a child or is done, a
\* task whose start failed is done.
Stopped(t, next) ==
    IF next = "spawn"
    THEN /\ pc' = [pc EXCEPT ![t] = "spawn"]
         /\ holder' = t
         /\ goal' = [goal EXCEPT ![t] = "finish"]
         /\ UNCHANGED <<rpc, wrote, pipe>>
    ELSE Leave(t)

Stop(t, next) ==    \* PluginProcess.stop(), by the holder or the closer
    IF cur = 0
    THEN /\ Stopped(t, next)
         /\ fut' = [fut EXCEPT ![t] = "none"]
    ELSE /\ holder' = IF t = Closer THEN holder ELSE t
         /\ goal' = [goal EXCEPT ![t] = next]
         /\ IF Running THEN Request(t, "shutdown", cur, proc[cur])
                       ELSE Move(t, "gather")

\* _restart() with restart_lock held.
Restart(t, next) ==
    IF closing \/ Running
    THEN Return(t, next)
    ELSE /\ Move(t, "spawn")
         /\ holder' = t
         /\ goal' = [goal EXCEPT ![t] = next]

EnterRestartUnlocked(t, next) == Restart(t, next)   \* mutant: no restart_lock

EnterRestartReplays(t, next) ==     \* mutant: the call is made again
    /\ holder = None
    /\ Restart(t, "call")

EnterRestart(t, next) ==
    IF holder = None
    THEN Restart(t, next)
    ELSE /\ Move(t, "lock")
         /\ goal' = [goal EXCEPT ![t] = next]
         /\ UNCHANGED holder

\* What follows the end of t's JSON-RPC call.
After(t, outcome) ==
    LET method == rpc[t].method IN
    CASE method = "execute" /\ outcome = "unavailable" -> EnterRestart(t, "fail")
      [] method = "execute" /\ outcome # "unavailable" -> Finish(t)
      [] method = "initialize" /\ outcome = "result" /\ Running ->
             /\ Request(t, "list", cur, proc[cur])
             /\ UNCHANGED <<holder, goal>>
      [] method = "initialize" /\ ~ (outcome = "result" /\ Running) ->
             Stop(t, goal[t])
      [] method = "list" /\ outcome = "result" -> Return(t, goal[t])
      [] method = "list" /\ outcome \in {"broken", "cancelled"} -> Finish(t)
      [] method = "list" /\ outcome \in {"unavailable", "protocol", "rejected"} ->
             Stop(t, goal[t])
      [] method = "shutdown" /\ outcome \in {"broken", "cancelled"} -> Finish(t)
      [] method = "shutdown" /\ outcome \notin {"broken", "cancelled"} ->
             /\ pc' = [pc EXCEPT ![t] = IF proc[cur] = "reaped" THEN "gather"
                                                                ELSE "term"]
             /\ rpc' = [rpc EXCEPT ![t].method = "stop"]
             /\ fut' = [fut EXCEPT ![t] = "none"]
             /\ pipe' = [pipe EXCEPT ![cur] = @ \cup {"closed"}]
             /\ UNCHANGED <<goal, holder, wrote>>

---------------------------------------------------------------------------
(***************************************************************************)
(* The tasks.                                                              *)
(***************************************************************************)

Execute(t) ==
    /\ t \in Calls /\ pc[t] = "idle"
    /\ IF ~ enabled \/ closing THEN Finish(t)
       ELSE IF Running THEN Return(t, "call")
       ELSE EnterRestart(t, "call")
    /\ UNCHANGED <<childVars, modeVars>>

Configured(t) ==    \* configure() with restart_lock held
    \/ /\ Asks[t] = "disable"
       /\ enabled' = FALSE
       /\ Stop(t, "finish")
    \/ /\ \/ Asks[t] = "enable"
          \/ Asks[t] = "restart" /\ enabled
       /\ enabled' = TRUE
       /\ Stop(t, "spawn")
    \/ /\ Asks[t] = "restart" /\ ~ enabled
       /\ Finish(t)
       /\ UNCHANGED enabled

\* The server has no request left when the manager is stopped.
Configure(t) ==
    /\ t \in Admins /\ pc[t] = "idle" /\ ~ closing
    /\ IF holder = None
       THEN Configured(t)
       ELSE /\ Move(t, "lock")
            /\ UNCHANGED <<goal, holder, enabled>>
    /\ UNCHANGED <<childVars, closing, timedOut>>

Acquire(t) ==   \* restart_lock
    /\ pc[t] = "lock" /\ holder = None
    /\ \/ t \in Calls /\ Restart(t, goal[t]) /\ UNCHANGED enabled
       \/ t \in Admins /\ Configured(t)
    /\ UNCHANGED <<childVars, closing, timedOut>>

CloseEarly ==   \* mutant: the plugins are stopped before the bus
    /\ pc[Closer] = "idle"
    /\ closing' = TRUE
    /\ Stop(Closer, "finish")
    /\ UNCHANGED <<childVars, enabled, timedOut>>

\* AgentRuntimeManager.stop() has shut the bus down: no task is under way.
Close ==
    /\ pc[Closer] = "idle"
    /\ \A t \in Calls \cup Admins : pc[t] \in {"idle", "done"}
    /\ closing' = TRUE
    /\ Stop(Closer, "finish")
    /\ UNCHANGED <<childVars, enabled, timedOut>>

Spawned(t) ==
    /\ pc[t] = "spawn"
    /\ \E g \in Generations :
        /\ proc[g] = "none" /\ \A h \in 1..(g - 1) : proc[h] # "none"
        /\ proc' = [proc EXCEPT ![g] = "up"]
        /\ reader' = [reader EXCEPT ![g] = "reading"]
        /\ cur' = g
        /\ Request(t, "initialize", g, "up")
    /\ UNCHANGED <<goal, holder, modeVars>>

SpawnFails(t) ==
    /\ pc[t] = "spawn"
    /\ \/ Finish(t)             \* OSError
       \/ Stop(t, goal[t])      \* PluginError of _command()
    /\ UNCHANGED <<childVars, modeVars>>

GetWriteLock(t) ==
    /\ pc[t] = "wlock" /\ ~ WriteLocked
    /\ LET g == rpc[t].gen IN Put(t, rpc[t].method, g, proc[g], fut[t])
    /\ UNCHANGED <<rpc, goal, holder, childVars, modeVars>>

\* drain() goes on when the transport does; it raises if the child is gone.
Drained(t) ==
    /\ pc[t] = "drain" /\ "full" \notin pipe[rpc[t].gen]
    /\ pc' = [pc EXCEPT ![t] = "wait"]
    /\ \/ UNCHANGED fut
       \/ proc[rpc[t].gen] # "up" /\ fut' = [fut EXCEPT ![t] = "broken"]
    /\ UNCHANGED <<rpc, goal, holder, wrote, pipe, childVars, modeVars>>

Answered(t) ==
    /\ pc[t] = "wait" /\ fut[t] # "pending"
    /\ After(t, fut[t])
    /\ UNCHANGED <<childVars, modeVars>>

\* asyncio.timeout wins over an answer the task has not yet seen.  The timer
\* of a tool.execute starts after the registry's.
Timeout(t) ==
    /\ pc[t] = "wait" /\ fut[t] # "broken"
    /\ rpc[t].method = "execute" => OwnTimerFirst
    /\ IF proc[rpc[t].gen] = "reaped"
       THEN After(t, "unavailable")
       ELSE Move(t, "term") /\ UNCHANGED <<goal, holder>>
    /\ UNCHANGED <<childVars, modeVars>>

Terminated(t) ==
    /\ pc[t] = "term" /\ proc[rpc[t].gen] = "reaped"
    /\ IF rpc[t].method = "stop"
       THEN Move(t, "gather") /\ UNCHANGED <<goal, holder>>
       ELSE After(t, "unavailable")
    /\ UNCHANGED <<childVars, modeVars>>

Gathered(t) ==
    /\ pc[t] = "gather" /\ reader[cur] = "ended"
    /\ \/ /\ goal[t] # "raise"
          /\ fut' = Failed("unavailable")
          /\ cur' = 0
          /\ Stopped(t, goal[t])
       \/ /\ goal[t] = "raise"
          /\ Finish(t)
          /\ UNCHANGED cur
    /\ UNCHANGED <<proc, reader, modeVars>>

\* The call is cut at its suspension point.  gather() cancels the reader and
\* raises only when that has ended.
Cut(t) ==
    /\ t \in Calls /\ pc[t] \notin {"idle", "done"}
    /\ \/ /\ \/ pc[t] \in {"wlock", "drain", "wait"}
             \/ pc[t] = "term" /\ rpc[t].method # "stop"
          /\ After(t, "cancelled")
          /\ UNCHANGED reader
       \/ /\ \/ pc[t] \in {"lock", "spawn"}
             \/ pc[t] = "term" /\ rpc[t].method = "stop"
          /\ Finish(t)
          /\ UNCHANGED reader
       \/ /\ pc[t] = "gather"
          /\ goal' = [goal EXCEPT ![t] = "raise"]
          /\ reader' = IF reader[cur] = "reading"
                       THEN [reader EXCEPT ![cur] = "cancelled"] ELSE reader
          /\ UNCHANGED <<pc, rpc, fut, holder, wrote, pipe>>
    /\ UNCHANGED <<proc, cur, enabled, closing>>

Cancel(t) == Cut(t) /\ UNCHANGED timedOut  \* with the job that makes the call

ToolTimeoutSparesWrites(t) ==   \* mutant: the write is shielded
    /\ Cut(t) /\ pc[t] # "drain"
    /\ UNCHANGED timedOut

ToolTimeout(t) ==   \* the timer of ToolRegistry.execute
    /\ Cut(t)
    /\ timedOut' = IF pc[t] = "wait" /\ rpc[t].method = "execute"
                      /\ fut[t] = "pending"
                   THEN timedOut \cup {t} ELSE timedOut

---------------------------------------------------------------------------
(***************************************************************************)
(* The children and their readers.                                         *)
(***************************************************************************)

PluginReads(g) ==   \* the child empties its pipe: the transport resumes
    /\ proc[g] = "up" /\ "full" \in pipe[g]
    /\ pipe' = [pipe EXCEPT ![g] = @ \ {"full"}]
    /\ UNCHANGED <<pc, rpc, fut, goal, holder, wrote, childVars, modeVars>>

Answer(g) ==    \* result, or an error object
    /\ reader[g] = "reading"
    /\ \E t \in Tasks, answer \in {"result", "rejected"} :
        /\ pc[t] = "wait" /\ fut[t] = "pending" /\ rpc[t].gen = g
        /\ fut' = [fut EXCEPT ![t] = answer]
    /\ UNCHANGED <<pc, rpc, goal, holder, wrote, pipe, childVars, modeVars>>

\* End of file, at any time after the exit when a process of the plugin's
\* own keeps the pipe open, or bytes that are no JSON-RPC message.
ReaderFails(g, error) ==
    /\ reader[g] = "reading"
    /\ reader' = [reader EXCEPT ![g] = error]
    /\ UNCHANGED <<taskVars, proc, cur, modeVars>>

Eof(g) == proc[g] = "reaped" /\ ReaderFails(g, "unavailable")

Breaks(g) == \/ proc[g] \in {"up", "dead"} /\ ReaderFails(g, "unavailable")
             \/ ReaderFails(g, "protocol")

ReaderEndsSilently(g) ==    \* mutant: the pending futures are not failed
    /\ reader[g] \in Failures /\ proc[g] = "reaped"
    /\ reader' = [reader EXCEPT ![g] = "ended"]
    /\ UNCHANGED <<taskVars, proc, cur, modeVars>>

ReaderEnds(g) ==
    /\ reader[g] \in Failures /\ proc[g] = "reaped"
    /\ reader' = [reader EXCEPT ![g] = "ended"]
    /\ fut' = Failed(reader[g])
    /\ UNCHANGED <<pc, rpc, goal, holder, wrote, pipe, proc, cur, modeVars>>

\* _terminate() sends SIGTERM and, if it still waits a second later, SIGKILL:
\* the child's exit is certain as long as a task or the reader waits for it.
Killed(g) ==
    \/ reader[g] \in Failures
    \/ \E t \in Tasks : pc[t] = "term" /\ rpc[t].gen = g

Exit(g) ==      \* by itself, by SIGTERM or by SIGKILL; its pipe breaks
    /\ proc[g] = "up"
    /\ proc' = [proc EXCEPT ![g] = "dead"]
    /\ pipe' = [pipe EXCEPT ![g] = @ \ {"full"}]
    /\ UNCHANGED <<pc, rpc, fut, goal, holder, wrote, reader, cur, modeVars>>

Reap(g) ==
    /\ proc[g] = "dead"
    /\ proc' = [proc EXCEPT ![g] = "reaped"]
    /\ UNCHANGED <<taskVars, reader, cur, modeVars>>

TaskStep(t) ==      \* the steps the event loop owes to a task
    \/ Acquire(t) \/ Spawned(t) \/ SpawnFails(t)
    \/ GetWriteLock(t) \/ Drained(t) \/ Answered(t) \/ Timeout(t)
    \/ Terminated(t) \/ Gathered(t)

Next ==
    \/ \E t \in Tasks :
        \/ TaskStep(t) \/ ToolTimeout(t)
        \/ Execute(t) \/ Configure(t) \/ Cancel(t)
    \/ Close
    \/ \E g \in Generations :
        \/ ReaderEnds(g) \/ Answer(g) \/ Eof(g) \/ Breaks(g) \/ Exit(g) \/ Reap(g)
        \/ PluginReads(g)

Spec == Init /\ [][Next]_vars

\* The loop runs its tasks and timers, the system kills and reaps, and the
\* pipes of a dead child are closed in the end.  Nothing is asked of the plugin,
\* not even that it reads; only while it lives does it keep its stdin open.
FairSpec ==
    /\ Spec
    /\ \A t \in Tasks : WF_vars(TaskStep(t)) /\ WF_vars(ToolTimeout(t))
    /\ \A g \in Generations :
        /\ WF_vars(ReaderEnds(g)) /\ WF_vars(Eof(g)) /\ WF_vars(Reap(g))
        /\ WF_vars(Killed(g) /\ Exit(g))

---------------------------------------------------------------------------
(***************************************************************************)
(* Properties.                                                             *)
(***************************************************************************)

\* Every variable keeps its shape.
TypeOK ==
    /\ pc \in [Tasks -> {"idle", "lock", "spawn", "wlock", "drain", "wait",
                         "term", "gather", "done"}]
    /\ rpc \in [Tasks -> [method : {"execute", "initialize", "list",
                                    "shutdown", "stop"},
                          gen : 0..MaxSpawns]]
    /\ fut \in [Tasks -> {"none", "pending", "result", "rejected", "broken"}
                         \cup Failures]
    /\ goal \in [Tasks -> {"call", "fail", "spawn", "finish", "raise"}]
    /\ proc \in [Generations -> {"none", "up", "dead", "reaped"}]
    /\ reader \in [Generations -> {"none", "reading", "ended"} \cup Failures]
    /\ cur \in 0..MaxSpawns
    /\ holder \in Calls \cup Admins \cup {None}
    /\ enabled \in BOOLEAN /\ closing \in BOOLEAN
    /\ wrote \subseteq Calls \X Generations
    /\ pipe \in [Generations -> SUBSET {"full", "closed"}]
    /\ timedOut \subseteq Calls

\* At most one process of the plugin lives at a time, and it is the one the
\* host knows: concurrent calls, restarts and configurations never leave an
\* orphan (the purpose of restart_lock and of the check under it).
OneProcess == \A g \in Generations : proc[g] \in {"up", "dead"} => g = cur

\* A tool.execute whose fate is unknown is never sent a second time, to the
\* restarted process or to the same one (manager.py:234).
NotReplayed ==
    \A t \in Calls : Cardinality({g \in Generations : <<t, g>> \in wrote}) =< 1

\* A registered future has a reader that will answer or fail it: no task
\* waits for a process whose reader is over.
PendingIsHeard ==
    \A t \in Tasks : fut[t] = "pending" =>
        reader[rpc[t].gen] \in {"reading"} \cup Failures

\* Once PluginManager.stop() is over no process of the plugin is up, and none
\* comes up later.
ClosedRunsNothing ==
    pc[Closer] = "done" => \A g \in Generations : proc[g] # "up"

\* A call that was let in ends, whatever the plugin does: the registry's timer
\* reaches it at every suspension, the unbounded wait in drain() included.
CallsEnd == \A t \in Calls : pc[t] # "idle" ~> pc[t] = "done"

\* Configurations and the stop end as well, with every lock given back, unless
\* a living child leaves its pipe full for good: drain() is the only wait of
\* theirs that has no bound.
TasksEnd ==
    []<>(\A g \in Generations : "full" \notin pipe[g])
        => \A t \in Tasks : pc[t] # "idle" ~> pc[t] = "done"

\* No JSON-RPC call waits for ever to be written: "bounded calls".  The one of
\* a configuration or of the stop has a timer, which starts after drain().
WritesEnd ==
    \A t \in Tasks : pc[t] \in {"wlock", "drain"} ~> pc[t] \notin {"wlock", "drain"}

\* A disabled plugin is stopped and stays stopped: once no task is under way
\* no process of it is up.
DisabledStaysDown ==
    ~ enabled /\ (\A t \in Tasks : pc[t] \in {"idle", "done"})
        => \A g \in Generations : proc[g] # "up"

\* A call made after another one timed out is not sent to the process that
\* did not answer: "the process is restarted for later calls".
TimedOutIsReplaced ==
    [][\A t \in timedOut, u \in Calls, g \in Generations :
        pc[t] = "done" /\ <<t, g>> \in wrote => <<u, g>> \notin wrote' \ wrote]_vars

---------------------------------------------------------------------------
(***************************************************************************)
(* The inductive invariant behind the safety properties.                   *)
(***************************************************************************)

InRpc(t) == pc[t] \in {"wlock", "drain", "wait", "term"}

\* Between the acquisition and the release of restart_lock; the closer, which
\* takes no lock, runs the same code.
InLock(t) ==
    \/ pc[t] \in {"spawn", "gather"}
    \/ InRpc(t) /\ rpc[t].method # "execute"

\* restart_lock is held by whoever is under it, and nobody is when the closer is.
LockInv ==
    /\ \A t \in Calls \cup Admins : holder = t <=> InLock(t)
    /\ closing <=> pc[Closer] # "idle"
    /\ closing => \A t \in Calls \cup Admins : pc[t] \in {"idle", "done"}

\* A future exists exactly while its call is under way, only execute() sends
\* tool.execute, and whoever is under the lock deals with the current child.
CallOK(t) ==
    /\ pc[t] \in {"wlock", "drain", "wait"} <=> fut[t] # "none"
    /\ pc[t] \in {"wlock", "drain", "wait"} => rpc[t].method # "stop"
    /\ InRpc(t) => rpc[t].gen # 0 /\ proc[rpc[t].gen] # "none"
    /\ InRpc(t) /\ rpc[t].method = "execute" => t \in Calls
    /\ InRpc(t) /\ rpc[t].method # "execute" => rpc[t].gen = cur
    /\ pc[t] = "spawn" => ~ Running
    /\ pc[t] = "gather" => cur # 0
    /\ t \in Admins => goal[t] \in {"finish", "spawn"}

\* A reader ends after its child, and is cancelled only under the lock.
ChildInv ==
    /\ OneProcess
    /\ cur # 0 => proc[cur] # "none"
    /\ \A g \in Generations :
        /\ reader[g] = "none" <=> proc[g] = "none"
        /\ reader[g] = "ended" => proc[g] = "reaped"
        /\ reader[g] = "cancelled" => g = cur /\ \E t \in Calls : pc[t] = "gather"
    /\ PendingIsHeard

\* The call of t has not been written, and may still be.
Unsent(t) ==
    \/ pc[t] = "idle"
    \/ pc[t] # "done" /\ goal[t] = "call"
       /\ ~ (rpc[t].method = "execute" /\ pc[t] \in {"drain", "wait", "term"})

\* What execute() may still do, it does once.
SentOK(t) ==
    /\ pc[t] \notin {"idle", "done"} => goal[t] \in {"call", "fail", "raise"}
    /\ goal[t] = "raise" => pc[t] = "gather"
    /\ InRpc(t) /\ rpc[t].method = "execute" => goal[t] = "call"
    /\ Unsent(t) => \A g \in Generations : <<t, g>> \notin wrote
    /\ \A g, h \in Generations : <<t, g>> \in wrote /\ <<t, h>> \in wrote => g = h

\* What the closer's shutdown call may end with.
CloseOK ==
    /\ pc[Closer] \notin {"lock", "spawn"} /\ goal[Closer] = "finish"
    /\ InRpc(Closer) => rpc[Closer].method \in {"shutdown", "stop"}
    /\ fut[Closer] # "cancelled"
    /\ fut[Closer] = "broken" => proc[rpc[Closer].gen] # "up"
    /\ ClosedRunsNothing

\* All of it: what every step preserves.
HostInv ==
    /\ TypeOK /\ LockInv /\ ChildInv /\ CloseOK
    /\ \A t \in Tasks : CallOK(t)
    /\ \A t \in Calls : SentOK(t)
=============================================================================
