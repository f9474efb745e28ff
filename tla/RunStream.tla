----------------------------- MODULE RunStream -----------------------------
(***************************************************************************)
(* One root run and its reader: ManagedAgentStream and the producer that   *)
(* manager.stream gives it (agent/manager.py), the events AgentRunner      *)
(* yields (agent/runner.py) from a ProviderStream (providers/stream.py),   *)
(* and the three HTTP endpoints that read them (gateway/router.py).        *)
(*                                                                         *)
(* The run is a job of the task queue, which TaskQueue models: here it is  *)
(* queued, runs, and may be cancelled through its root.  The supervising   *)
(* task waits for it; the reader takes events, may leave at any time, and  *)
(* may cancel.                                                             *)
(***************************************************************************)
EXTENDS Integers, SequencesExt

CONSTANTS
    Readers,       \* kinds of endpoint: "sse", "chat"
    MaxDeltas      \* bound on the content deltas of a run

VARIABLES
    kind,       \* the endpoint of the reader
    run,        \* the job: new, queued, streaming, saving, closing, over
    outcome,    \* how the job ended: none, value, failed, cancelled
    upstream,   \* the provider's response: none, open, closed
    saved,      \* the turn's session was written
    deltas,     \* content deltas emitted
    events,     \* ManagedAgentStream._events
    flags,      \* which of detached, closed, sawError, sawDone are set
    tracked,    \* the root is in manager._agent_roots
    supervisor, \* new, waiting, done
    reader,     \* reading, answered, refused, left, stopped
    got         \* what the reader took: error, message

streamVars == <<kind, run, outcome, upstream, saved, deltas, events, flags, tracked,
                supervisor, reader, got>>

StreamInit ==
    /\ kind \in Readers
    /\ run = "new" /\ outcome = "none" /\ upstream = "none"
    /\ saved = FALSE /\ deltas = 0
    /\ events = <<>> /\ flags = {}
    /\ tracked = TRUE /\ supervisor = "new"
    /\ reader = "reading" /\ got = {}

\* Fault: queued all the same.
EmitAlways(items) ==
    /\ flags' = flags
          \cup (IF "ERROR" \in ToSet(items) THEN {"sawError"} ELSE {})
          \cup (IF {"DONE", "FAILED"} \cap ToSet(items) # {} THEN {"sawDone"} ELSE {})
    /\ events' = events \o items

\* emit: what was seen is noted, and nothing is queued for a reader that left.
Emit(items) ==
    /\ flags' = flags
          \cup (IF "ERROR" \in ToSet(items) THEN {"sawError"} ELSE {})
          \cup (IF {"DONE", "FAILED"} \cap ToSet(items) # {} THEN {"sawDone"} ELSE {})
    /\ events' = IF "detached" \in flags THEN events ELSE events \o items

(***************************************************************************)
(* The run.                                                                *)
(***************************************************************************)
\* The supervisor's first step: the queue takes the job or refuses it.
Submit ==
    /\ supervisor = "new"
    /\ supervisor' = "waiting"
    /\ \/ run' = "queued" /\ UNCHANGED outcome
       \/ run' = "over" /\ outcome' = "failed"
    /\ UNCHANGED <<kind, upstream, saved, deltas, events, flags, tracked, reader, got>>

\* A worker starts it; making the provider or the tools may fail before the
\* runner has yielded anything.
Begin ==
    /\ run = "queued"
    /\ \/ run' = "streaming" /\ upstream' = "open" /\ UNCHANGED outcome
       \/ run' = "over" /\ outcome' = "failed" /\ UNCHANGED upstream
    /\ UNCHANGED <<kind, saved, deltas, events, flags, tracked, supervisor, reader, got>>

Delta ==
    /\ run = "streaming" /\ upstream = "open" /\ deltas < MaxDeltas
    /\ deltas' = deltas + 1
    /\ Emit(<<"delta">>)
    /\ UNCHANGED <<kind, run, outcome, upstream, saved, tracked, supervisor, reader, got>>

\* The provider's terminal event ends its response; the answer is then saved,
\* or tools are called and the next round asks again.
Terminal ==
    /\ run = "streaming" /\ upstream = "open"
    /\ \/ run' = "saving" /\ upstream' = "closed"
       \/ UNCHANGED <<run, upstream>>
    /\ UNCHANGED <<kind, outcome, saved, deltas, events, flags, tracked, supervisor, reader, got>>

Commit ==
    /\ run = "saving" /\ ~ saved
    /\ saved' = TRUE
    /\ UNCHANGED <<kind, run, outcome, upstream, deltas, events, flags, tracked, supervisor,
                   reader, got>>

\* CONTENT and DONE with the message, once the session is written.
Answer ==
    /\ run = "saving" /\ saved
    /\ Emit(<<"content", "DONE">>)
    /\ run' = "closing" /\ outcome' = "value"
    /\ UNCHANGED <<kind, upstream, saved, deltas, tracked, supervisor, reader, got>>

\* The provider, a tool or the database fails: the runner yields ERROR and DONE,
\* and its finally closes the provider's stream.
Fail ==
    /\ run \in {"streaming", "saving"} /\ ~ saved
    /\ Emit(<<"ERROR", "FAILED">>)
    /\ run' = "closing" /\ outcome' = "failed"
    /\ upstream' = "closed"
    /\ UNCHANGED <<kind, saved, deltas, tracked, supervisor, reader, got>>

\* stream.aclose, then the provider that is owned by the run is stopped.
Close ==
    /\ run = "closing"
    /\ run' = "over"
    /\ UNCHANGED <<kind, outcome, upstream, saved, deltas, events, flags, tracked, supervisor,
                   reader, got>>

\* cancel_root, of an archived agent or at shutdown, or by the reader: the job
\* is cancelled where it is, without an event.  Its future is cancelled at once.
Cancelled ==
    /\ run \notin {"new", "over"} /\ outcome # "cancelled"
    /\ run' = IF run = "queued" THEN "over" ELSE "closing"
    /\ outcome' = "cancelled"
    /\ upstream' = IF upstream = "open" THEN "closed" ELSE upstream

CancelRun ==
    /\ tracked
    /\ Cancelled
    /\ UNCHANGED <<kind, saved, deltas, events, flags, tracked, supervisor, reader, got>>

\* An exception nobody reported becomes ERROR and DONE, and a reader that is
\* still there gets the sentinel.
Report == IF outcome = "failed" /\ "sawError" \notin flags /\ reader # "stopped"
          THEN <<"ERROR", "FAILED">> ELSE <<>>
\* Fault: a cancelled run ends without the sentinel.
EndingUnlessCancelled == IF outcome = "cancelled" THEN <<>> ELSE Append(Report, "STOP")
Ending == Append(Report, "STOP")

\* ticket.result() returns or raises, or the task is cancelled; the ticket is
\* released, and the finally ends the stream.
Supervise ==
    /\ supervisor = "waiting"
    /\ run = "over" \/ outcome = "cancelled" \/ reader = "stopped"
    /\ Emit(Ending)
    /\ tracked' = FALSE
    /\ supervisor' = "done"
    /\ UNCHANGED <<kind, run, outcome, upstream, saved, deltas, reader, got>>

(***************************************************************************)
(* The reader.                                                             *)
(***************************************************************************)
Take ==
    /\ reader = "reading" /\ events # <<>> /\ Head(events) # "STOP"
    /\ events' = Tail(events)
    /\ got' = got \cup
          (CASE Head(events) = "ERROR" -> {"error"}
             [] Head(events) = "DONE" -> {"message"}
             [] OTHER -> {})
    /\ UNCHANGED <<kind, run, outcome, upstream, saved, deltas, flags, tracked, supervisor, reader>>

\* The sentinel ends the loop: the event stream detaches, the other endpoints
\* answer with result(), whose error includes a missing terminal event.
TakeStop ==
    /\ reader = "reading" /\ events # <<>> /\ Head(events) = "STOP"
    /\ events' = <<>>
    /\ flags' = flags \cup {"closed"} \cup (IF kind = "sse" THEN {"detached"} ELSE {})
    /\ reader' = IF kind = "sse" THEN "left"
                 ELSE IF "message" \in got /\ "error" \notin got /\ "sawDone" \in flags
                 THEN "answered" ELSE "refused"
    /\ UNCHANGED <<kind, run, outcome, upstream, saved, deltas, tracked, supervisor, got>>

\* The client disconnects: detach drops what is queued and lets the run go on.
Leave ==
    /\ reader = "reading"
    /\ reader' = "left"
    /\ flags' = flags \cup {"detached", "closed"}
    /\ events' = <<>>
    /\ UNCHANGED <<kind, run, outcome, upstream, saved, deltas, tracked, supervisor, got>>

\* aclose, the explicit cancellation: of the root, and of the supervisor.
StopRun ==
    /\ reader = "reading" /\ supervisor # "new"
    /\ reader' = "stopped"
    /\ flags' = flags \cup {"closed"}
    /\ \/ Cancelled
       \/ /\ run = "over" \/ outcome = "cancelled"
          /\ UNCHANGED <<run, outcome, upstream>>
    /\ UNCHANGED <<kind, saved, deltas, events, tracked, supervisor, got>>

StreamNext ==
    \/ Submit \/ Begin \/ Delta \/ Terminal \/ Commit \/ Answer \/ Fail \/ Close
    \/ CancelRun \/ Supervise
    \/ Take \/ TakeStop \/ Leave \/ StopRun

\* Tasks that can go on do: the loop serves them all.  The provider answers or
\* fails in the end (its HTTP client has timeouts); nobody has to leave or cancel.
StreamFairness ==
    /\ WF_streamVars(Submit) /\ WF_streamVars(Begin) /\ WF_streamVars(Commit)
    /\ WF_streamVars(Answer) /\ WF_streamVars(Close) /\ WF_streamVars(Supervise)
    /\ WF_streamVars(Take) /\ WF_streamVars(TakeStop)
    /\ WF_streamVars(Fail \/ (Terminal /\ run' = "saving"))

StreamSpec == StreamInit /\ [][StreamNext]_streamVars /\ StreamFairness

(***************************************************************************)
(* Properties.                                                             *)
(***************************************************************************)
\* A run whose reader has left queues nothing for it, whatever happens next.
DetachedHoldsNothing == "detached" \in flags => events = <<>>

\* As long as its job may be cancelled, archiving the agent finds the root.
RunIsTracked == run \in {"queued", "streaming", "saving"} => tracked \/ reader = "stopped"

\* A reader has an answer only if the turn is in the session, and is never
\* given both an answer and an error.
AnswerWasSaved ==
    /\ "message" \in got => saved /\ "error" \notin got
    /\ reader = "answered" => "message" \in got

\* When the job is over the provider's response is closed.
UpstreamClosed == run = "over" => upstream # "open"

\* All of them.
StreamIsSound == DetachedHoldsNothing /\ RunIsTracked /\ AnswerWasSaved /\ UpstreamClosed

\* A reader that stays is told the end: of an answer, a failure, a job that
\* was refused or cancelled.
ReaderEnds == (reader = "reading") ~> (reader # "reading")
=============================================================================
