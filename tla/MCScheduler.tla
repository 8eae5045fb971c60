----------------------------- MODULE MCScheduler -----------------------------
(* Instances of Scheduler for TLC: two jobs that share a resource, as the    *)
(* jobs of one library do, and one that does not.                            *)
EXTENDS Scheduler

CONSTANTS t1, t2, c1, c2, scan, rename, library

Shared == {scan, rename}
SharedResources == {scan, rename, library}
SharedResourceOf == [j \in Shared |-> library]

Alone == {scan}
AloneResources == {scan}
AloneResourceOf == [j \in Alone |-> scan]

==============================================================================
