---------------------------- MODULE Delegation ----------------------------
(***************************************************************************)
(* Agents delegating to agents: InProcessMessageBus (orchestration/bus.py) *)
(* and the spawn_subagent tool on top of the task queue, whose actions     *)
(* this module restricts and extends.                                      *)
(*                                                                         *)
(* A request without parent is the producer of AgentRuntimeManager.stream, *)
(* which submits a root job on a slot of its own.  Any other request is    *)
(* made by the handler of its parent's job, alone or in a batch, and the   *)
(* handler does not go on before all it asked for have answered.           *)
(***************************************************************************)
EXTENDS TaskQueue

CONSTANTS
    ParentOf,   \* the request whose job makes this one
    NoParent,
    Removable,  \* targets whose agents may be unregistered
    Events      \* what else may happen to a run: a part of AllEvents

AllEvents == {"leave", "timeout", "stop", "shutdown"}

ASSUME ParentAssumption ==
    /\ NoParent \notin Requests
    /\ ParentOf \in [Requests -> Requests \cup {NoParent}]
    /\ Removable \subseteq Targets /\ Events \subseteq AllEvents
    /\ \A r \in Requests : ParentOf[r] # NoParent => RootOf[ParentOf[r]] = RootOf[r]
\* inherit_slot=bool(call_path) in request(), False in stream().
ASSUME InheritAssumption == Inherits = {r \in Requests : ParentOf[r] # NoParent}

VARIABLES
    registered, \* targets with an entry in _handlers
    denied,     \* requests the bus refused before they reached the queue
    waits       \* _wait_graph: <<root, source, target>> to its reference count

busVars == <<registered, denied, waits>>

IsNested(r) == ParentOf[r] # NoParent
Children(p) == {r \in Requests : ParentOf[r] = p}
\* The requests a handler is suspended on.
Awaited(p)  == {r \in Children(p) : call[r] = "waiting"}
\* The nodes of the call path a request's handler runs under.
CallPath[r \in Requests] ==
    {TargetOf[r]} \cup IF IsNested(r) THEN CallPath[ParentOf[r]] ELSE {}
Edge(r) == <<RootOf[r], TargetOf[ParentOf[r]], TargetOf[r]>>

\* _has_path: every set of agents that holds a and what its members wait for
\* holds b.
HasPath(root, a, b) ==
    \A S \in SUBSET Targets :
        a \in S /\ (\A s \in S, t \in Targets : waits[<<root, s, t>>] > 0 => t \in S) => b \in S

BusInit ==
    /\ Init
    /\ registered = Targets
    /\ denied = [r \in Requests |-> "no"]
    /\ waits = [e \in Roots \X Targets \X Targets |-> 0]

----------------------------------------------------------------------------
(* request() up to its await *)

\* Fault: a handler delegates although its cancellation is pending.
MayAskDoomed(r) ==
    /\ call[r] = "idle" /\ denied[r] = "no"
    /\ IsNested(r) => exec[ParentOf[r]] \in {"running", "unwinding"}

\* Whoever makes the request is at work: the client, or an uncancelled handler.
\* (Once the bus is closing every handler is cancelled, so request()'s own test
\* of _closing is never met by a delegation.)
MayAsk(r) ==
    /\ call[r] = "idle" /\ denied[r] = "no"
    /\ IsNested(r) => exec[ParentOf[r]] = "running" /\ ParentOf[r] \notin execCancel

RootRequest(r) == MayAsk(r) /\ ~IsNested(r) /\ Submit(r) /\ UNCHANGED busVars

\* No handler of that name for the tenant.
RequestUnknown(r) ==
    /\ MayAsk(r) /\ IsNested(r) /\ closing = "open"
    /\ TargetOf[r] \notin registered
    /\ denied' = [denied EXCEPT ![r] = "unknown"]
    /\ UNCHANGED <<vars, registered, waits>>

\* Fault: only the call path is looked at.
OnCallPath(r) == TargetOf[r] \in CallPath[ParentOf[r]]

\* The target is on the call path, or the wait would close a cycle.
MakesCycle(r) ==
    \/ TargetOf[r] \in CallPath[ParentOf[r]]
    \/ HasPath(RootOf[r], TargetOf[r], TargetOf[ParentOf[r]])

RequestCycle(r) ==
    /\ MayAsk(r) /\ IsNested(r) /\ closing = "open"
    /\ TargetOf[r] \in registered /\ MakesCycle(r)
    /\ denied' = [denied EXCEPT ![r] = "cycle"]
    /\ UNCHANGED <<vars, registered, waits>>

\* The wait is recorded and the task submitted; a full queue undoes the wait.
Delegate(r) ==
    /\ MayAsk(r) /\ IsNested(r) /\ closing = "open"
    /\ TargetOf[r] \in registered /\ ~MakesCycle(r)
    /\ \/ /\ SubmitAttach(r) \/ SubmitNew(r)
          /\ waits' = [waits EXCEPT ![Edge(r)] = @ + 1]
       \/ SubmitFull(r) /\ UNCHANGED waits
    /\ UNCHANGED <<registered, denied>>

Request(r) == RootRequest(r) \/ RequestUnknown(r) \/ RequestCycle(r) \/ Delegate(r)
----------------------------------------------------------------------------
(* request() after its await: the ticket is released, then the wait *)

\* Fault: the edge goes with the first of the waits it counts.
RemoveAllWaits(r) == waits' = IF IsNested(r) THEN [waits EXCEPT ![Edge(r)] = 0] ELSE waits

\* _decrement_wait
RemoveWait(r) ==
    waits' = IF IsNested(r) /\ waits[Edge(r)] > 0
             THEN [waits EXCEPT ![Edge(r)] = @ - 1] ELSE waits

\* A cancelled handler sees CancelledError in whatever it awaits, never a reply.
Reply(r) ==
    /\ IsNested(r) => ParentOf[r] \notin execCancel
    /\ Return(r) /\ RemoveWait(r)
    /\ UNCHANGED <<registered, denied>>

ReplyCancelled(r) == DeliverCancel(r) /\ RemoveWait(r) /\ UNCHANGED <<registered, denied>>

\* The client leaves, or Stop cancels its task.
ClientLeaves(r) ==
    "leave" \in Events /\ ~IsNested(r) /\ CancelCallers({r}) /\ UNCHANGED busVars

\* Cancelling a handler's task cancels what it awaits.  (The cancellation of
\* the task does both at once; Reply and HandlerInterrupted wait for it.)
PassOn(p) == p \in execCancel /\ CancelCallers(Awaited(p) \ callCancel) /\ UNCHANGED busVars

\* Fault: the timer starts with the delegated job.
TimeoutStarted(p) ==
    /\ "timeout" \in Events
    /\ exec[p] = "running" /\ p \notin execCancel
    /\ \A r \in Awaited(p), j \in Requests : r \in waiters[j] => state[j] # "queued"
    /\ CancelCallers(Awaited(p) \ callCancel)
    /\ UNCHANGED busVars

\* The timeout of the tool call a handler is suspended on (ToolRegistry).
Timeout(p) ==
    /\ "timeout" \in Events
    /\ exec[p] = "running" /\ p \notin execCancel
    /\ CancelCallers(Awaited(p) \ callCancel)
    /\ UNCHANGED busVars

----------------------------------------------------------------------------
Stop(root) == "stop" \in Events /\ CancelRoot(root) /\ UNCHANGED busVars

Unregister(t) ==
    /\ t \in Removable /\ t \in registered
    /\ registered' = registered \ {t}
    /\ UNCHANGED <<vars, denied, waits>>

BusShutdownBegin == "shutdown" \in Events /\ ShutdownBegin /\ UNCHANGED busVars

\* shutdown() of the bus clears the wait graph once the queue is shut down.
BusShutdownEnd ==
    /\ ShutdownEnd
    /\ waits' = [e \in DOMAIN waits |-> 0]
    /\ UNCHANGED <<registered, denied>>

\* Fault: a handler does not wait for all it asked for.
BusHandlerEndEarly(j) == HandlerEnd(j) /\ UNCHANGED busVars

\* A handler ends, or begins to unwind, once all it awaited has returned.
BusHandlerEnd(j) == Awaited(j) = {} /\ HandlerEnd(j) /\ UNCHANGED busVars

BusInterrupted(j) == Awaited(j) = {} /\ HandlerInterrupted(j) /\ UNCHANGED busVars

BusExec(j) == (ExecStart(j) \/ ExecGranted(j) \/ ExecCancelled(j)) /\ UNCHANGED busVars

BusNext ==
    \/ \E r \in Requests : Request(r) \/ Reply(r) \/ ReplyCancelled(r) \/ ClientLeaves(r)
    \/ \E p \in Requests : PassOn(p) \/ Timeout(p)
    \/ \E t \in Targets : Unregister(t) \/ (WorkerStart(t) /\ UNCHANGED busVars)
    \/ \E root \in Roots : Stop(root)
    \/ BusShutdownBegin \/ BusShutdownEnd
    \/ \E j \in Requests : \/ Worker(j) /\ UNCHANGED busVars
                           \/ BusExec(j) \/ BusInterrupted(j) \/ BusHandlerEnd(j)
                           \/ Cleanup(j) /\ UNCHANGED busVars

allVars == <<vars, busVars>>

BusSpec == BusInit /\ [][BusNext]_allVars

\* The loop runs what is ready, handlers end when nothing holds them up.
BusFairness ==
    /\ \A r \in Requests : WF_allVars(Reply(r)) /\ WF_allVars(ReplyCancelled(r))
    /\ \A t \in Targets : WF_allVars(WorkerStart(t) /\ UNCHANGED busVars)
    /\ \A j \in Requests :
        /\ WF_allVars(Worker(j) /\ UNCHANGED busVars)
        /\ WF_allVars(BusExec(j)) /\ WF_allVars(PassOn(j)) /\ WF_allVars(BusInterrupted(j))
        /\ WF_allVars(BusHandlerEnd(j)) /\ WF_allVars(Cleanup(j) /\ UNCHANGED busVars)
    /\ WF_allVars(BusShutdownEnd)

\* Delegations may last for ever ...
PatientSpec == BusSpec /\ BusFairness
\* ... or the timer of every tool call fires.
TimedSpec == PatientSpec /\ \A p \in Requests : WF_allVars(Timeout(p))

----------------------------------------------------------------------------
(* Properties *)

\* The delegations that wait along an edge of the graph.
WaitingAlong(e) == {r \in Requests : IsNested(r) /\ call[r] = "waiting" /\ Edge(r) = e}

\* The wait graph counts exactly the delegations that wait, so that no
\* outcome, refusal or cancellation leaks an edge (a leaked edge would refuse
\* later delegations of the root as cycles).
GraphCountsWaits ==
    closing # "closed" =>
        \A e \in DOMAIN waits : waits[e] = Cardinality(WaitingAlong(e))

\* Delegated work does not outlive the handler that asked for it: who waits for
\* a delegation is a handler still suspended on it.
NoOrphans ==
    \A r \in Requests : IsNested(r) /\ call[r] = "waiting" => exec[ParentOf[r]] = "running"

\* A handler whose job is doomed starts no more delegations (cancel_root and
\* shutdown reach "every nested job", also one about to be asked for).
DoomedAskNothing ==
    [][\A r \in Requests :
        IsNested(r) /\ call[r] = "idle" /\ call'[r] = "waiting" =>
            state[ParentOf[r]] = "running"]_allVars

\* A job of S makes no progress unless another job of S does: it awaits one,
\* queues behind one, or waits for slots which only they hold.
HeldUpBy(j, S) ==
    \/ /\ exec[j] = "running" /\ j \notin execCancel
       /\ \E r \in Awaited(j) \ callCancel, c \in S : r \in waiters[c] /\ fut[c] = "pending"
    \/ state[j] = "queued" /\ \E i \in S \cap serving : TargetOf[i] = TargetOf[j]
    \/ exec[j] = "waiting" /\ j \notin execCancel /\ permits = 0 /\ Holders \subseteq S

\* No circular wait among jobs (README.md and phase-4-multi-agent.md: nested
\* work inherits its root's slot, the wait graph rejects cycles).
NoCircularWait ==
    ~\E S \in (SUBSET Requests) \ {{}} : \A j \in S : HeldUpBy(j, S)

\* Every waiting request is answered.
AllReplied == \A r \in Requests : call[r] = "waiting" ~> call[r] # "waiting"

----------------------------------------------------------------------------
(* The inductive invariants behind the properties, besides QueueInv. *)

BusTypeOK ==
    /\ registered \subseteq Targets
    /\ denied \in [Requests -> {"no", "unknown", "cycle"}]
    /\ waits \in [Roots \X Targets \X Targets -> Nat]

\* The reference counts of the wait graph; shutdown() of the bus clears it.
GraphInv ==
    \A e \in Roots \X Targets \X Targets :
        /\ IsFiniteSet(WaitingAlong(e))
        /\ waits[e] = IF closing = "closed" THEN 0 ELSE Cardinality(WaitingAlong(e))

\* Among any agents, one waits for none of them: the graph of a root has no cycle.
NoWaitCycle ==
    \A root \in Roots, U \in (SUBSET Targets) \ {{}} :
        \E s \in U : \A t \in U : waits[<<root, s, t>>] = 0

\* Tickets are held for jobs of the request's key.
TicketsInv == \A j, r \in Requests : r \in waiters[j] => KeyOf[r] = KeyOf[j]

Began == {"running", "unwinding"} \cup Ended

\* Nothing is delegated under a root before the handler of its root job began,
\* so that slots are waited for only where nothing is delegated yet.
RootsBegin ==
    \A r, s \in Requests :
        IsNested(r) /\ call[r] # "idle" /\ ~IsNested(s) /\ RootOf[s] = RootOf[r] =>
            exec[s] \in Began

\* Each call of stream() opens a root of its own.
RootsOpenOnce ==
    \A r, s \in Requests : ~IsNested(r) /\ ~IsNested(s) /\ RootOf[r] = RootOf[s] => r = s

\* Roots that run at the same time use different agents.
RootsApart == \A r, s \in Requests : TargetOf[r] = TargetOf[s] => RootOf[r] = RootOf[s]
=============================================================================
