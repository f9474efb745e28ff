--------------------------- MODULE MCDelegation ---------------------------
(***************************************************************************)
(* Instances of Delegation for TLC: agents and roots A, B, C.  A request   *)
(* is named after its path: "ab" is what the root job "a" asks of agent B. *)
(***************************************************************************)
EXTENDS Delegation, TLC
CONSTANTS a, b, ab, ac, ac2, abc, acb, ba, A, B, C

Own == [r \in Requests |-> r]      \* every request has a key of its own

\* Batch: one root; agent A delegates to B and C at once, which delegate to
\* each other.
BatchTarget == a :> A @@ ab :> B @@ ac :> C @@ abc :> C @@ acb :> B
BatchRoot   == [r \in Requests |-> A]
BatchParent == a :> NoParent @@ ab :> a @@ ac :> a @@ abc :> ab @@ acb :> ac

\* Team: two roots; a asks agent C two things at once, the other root runs on C.
TeamTarget == a :> A @@ b :> C @@ ac :> C @@ ac2 :> C
TeamRoot   == a :> A @@ b :> B @@ ac :> A @@ ac2 :> A
TeamParent == a :> NoParent @@ b :> NoParent @@ ac :> a @@ ac2 :> a

\* Busy: two roots; A delegates to the agent on which the other root runs.
BusyTarget == a :> A @@ b :> B @@ ab :> B
BusyRoot   == a :> A @@ b :> B @@ ab :> A
BusyParent == a :> NoParent @@ b :> NoParent @@ ab :> a

=============================================================================
