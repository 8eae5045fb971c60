---------------------------- MODULE ExclusiveRuns ----------------------------
(* What the scheduler promises its job handlers, with no database, no clock  *)
(* and no tick: a worker owns a job for the length of a run, a job has one   *)
(* owner at a time, and the body of a run works on its resource alone.       *)
(* Scheduler.tla is shown to implement this module.                          *)
(* Translated from the contract the comments of                              *)
(* apps/server/src/scheduler.ts state ("database claims prevent duplicate    *)
(* dispatch", "Another job is using this resource").                         *)

CONSTANTS Workers,      \* threads of execution that can carry one run
          Jobs,         \* job keys
          Resources,    \* what handlers must not share
          ResourceOf    \* [Jobs -> Resources]

VARIABLE work           \* [Workers -> Idle or a record of the run it carries]

Idle == [job |-> {}, busy |-> FALSE]
Carrying(j, b) == [job |-> {j}, busy |-> b]

TypeOK == work \in [Workers -> [job : SUBSET Jobs, busy : BOOLEAN]]

Init == work = [w \in Workers |-> Idle]

\* A run begins: nobody else owns the job.
Own(w, j) ==
    /\ work[w] = Idle
    /\ \A v \in Workers : j \notin work[v].job
    /\ work' = [work EXCEPT ![w] = Carrying(j, FALSE)]

\* The handler is entered: no other handler is working on the resource.
Enter(w, j) ==
    /\ work[w] = Carrying(j, FALSE)
    /\ \A v \in Workers : \A i \in Jobs :
          work[v] = Carrying(i, TRUE) => ResourceOf[i] # ResourceOf[j]
    /\ work' = [work EXCEPT ![w] = Carrying(j, TRUE)]

\* The handler returned or threw; the run is still being recorded.
Leave(w, j) ==
    /\ work[w] = Carrying(j, TRUE)
    /\ work' = [work EXCEPT ![w] = Carrying(j, FALSE)]

\* The run is over, with or without its handler having been entered.
Disown(w, j) ==
    /\ work[w] = Carrying(j, FALSE)
    /\ work' = [work EXCEPT ![w] = Idle]

\* The server stops: every run it carried is lost at once.
Lose == work' = [w \in Workers |-> Idle]

Next ==
    \/ \E w \in Workers, j \in Jobs :
          Own(w, j) \/ Enter(w, j) \/ Leave(w, j) \/ Disown(w, j)
    \/ Lose

Spec == Init /\ [][Next]_work

==============================================================================
