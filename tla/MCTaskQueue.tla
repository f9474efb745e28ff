---------------------------- MODULE MCTaskQueue ----------------------------
(***************************************************************************)
(* Instances of TaskQueue for TLC.                                         *)
(***************************************************************************)
EXTENDS TaskQueue, TLC
CONSTANTS r1, r2, r3, k1, k2, k3, t1, t2, rootA, rootB

\* Shared: r1 and r2 have one dedup key, r3 is another job for their target.
SharedKeyOf    == r1 :> k1 @@ r2 :> k1 @@ r3 :> k2
SharedTargetOf == r1 :> t1 @@ r2 :> t1 @@ r3 :> t1
SharedRootOf   == r1 :> rootA @@ r2 :> rootA @@ r3 :> rootB

\* Apart: three jobs, r3 for the agent of r1 and r2 for another.
ApartKeyOf    == r1 :> k1 @@ r2 :> k2 @@ r3 :> k3
ApartTargetOf == r1 :> t1 @@ r2 :> t2 @@ r3 :> t1
ApartRootOf   == r1 :> rootA @@ r2 :> rootB @@ r3 :> rootB

\* Two of the three jobs at a time (a bound): r1 with r2 on one slot, or r1 with
\* r3 behind one worker while the queue may refuse r2.
TwoJobs == call[r3] = "idle" \/ call[r2] \in {"idle", "backpressure"}
=============================================================================
