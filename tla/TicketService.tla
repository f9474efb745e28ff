--------------------------- MODULE TicketService ---------------------------
(***************************************************************************)
(* What the task queue promises its callers, with nothing of how it works: *)
(* no workers, no executions, no slots.  Every accepted request holds one  *)
(* ticket of a promise; a promise is settled once; who waits for it sees   *)
(* that one outcome, or leaves early; a promise nobody waits for is        *)
(* cancelled with the departure of its last waiter.                        *)
(***************************************************************************)
EXTENDS Integers, FiniteSets

CONSTANTS Requests, Keys, KeyOf

VARIABLES
    call,       \* what each request knows
    waiters,    \* who holds a ticket of the promise
    promise     \* promises, named after the requests that opened them

vars == <<call, waiters, promise>>

Outcomes == {"result", "error", "cancelled", "shutdown"}

Init ==
    /\ call = [r \in Requests |-> "idle"]
    /\ waiters = [r \in Requests |-> {}]
    /\ promise = [r \in Requests |-> "none"]

\* A request is turned away at once ...
Refuse(r) ==
    /\ call[r] = "idle"
    /\ \E why \in {"rejected", "backpressure"} : call' = [call EXCEPT ![r] = why]
    /\ UNCHANGED <<waiters, promise>>

\* ... or shares the pending promise of its key ...
Join(r) ==
    /\ call[r] = "idle"
    /\ call' = [call EXCEPT ![r] = "waiting"]
    /\ \E j \in Requests :
        /\ KeyOf[j] = KeyOf[r] /\ promise[j] = "pending"
        /\ waiters' = [waiters EXCEPT ![j] = @ \cup {r}]
    /\ UNCHANGED promise

\* ... or, when its key has none, opens one.
Open(r) ==
    /\ call[r] = "idle"
    /\ \A j \in Requests : KeyOf[j] = KeyOf[r] => promise[j] # "pending"
    /\ call' = [call EXCEPT ![r] = "waiting"]
    /\ waiters' = [waiters EXCEPT ![r] = {r}]
    /\ promise' = [promise EXCEPT ![r] = "pending"]

\* Pending promises get their outcome: one, or several at once when a root is
\* cancelled or the service shuts down.
Settle(P, outcome) ==
    /\ \A j \in P : promise[j] = "pending"
    /\ promise' = [j \in Requests |-> IF j \in P THEN outcome ELSE promise[j]]
    /\ UNCHANGED <<call, waiters>>

\* A waiting request learns the outcome.
Answer(r) ==
    \E j \in Requests :
        /\ r \in waiters[j] /\ promise[j] \in Outcomes
        /\ call' = [call EXCEPT ![r] = promise[j]]
        /\ waiters' = [waiters EXCEPT ![j] = @ \ {r}]
        /\ UNCHANGED promise

\* A waiting request is cancelled; the last one to go cancels the promise.
Leave(r) ==
    \E j \in Requests :
        /\ r \in waiters[j]
        /\ call' = [call EXCEPT ![r] = "cancelled"]
        /\ waiters' = [waiters EXCEPT ![j] = @ \ {r}]
        /\ promise' = IF waiters[j] = {r} /\ promise[j] = "pending"
                      THEN [promise EXCEPT ![j] = "cancelled"] ELSE promise

Next ==
    \/ \E r \in Requests : Refuse(r) \/ Join(r) \/ Open(r) \/ Answer(r) \/ Leave(r)
    \/ \E j \in Requests, outcome \in {"result", "error"} : Settle({j}, outcome)
    \/ \E P \in SUBSET Requests, outcome \in {"cancelled", "shutdown"} : Settle(P, outcome)

\* Whoever can be answered is answered.
Spec == Init /\ [][Next]_vars /\ \A r \in Requests : WF_vars(Answer(r) \/ Leave(r))

=============================================================================
