------------------------------ MODULE JobLedger ------------------------------
(* What a native download client promises the queue about its job numbers,   *)
(* with no engine, no document and no gate: a number is issued once, in      *)
(* order, and the job it names stays until a removal of that very number was *)
(* asked for.  Translated from the headers of plugins/torrent-native and     *)
(* plugins/usenet-native ("Durable job + resume state ... survives restart") *)
(* and from the tests that restart them.                                     *)
EXTENDS Naturals

CONSTANTS Ids,          \* the numbers a behaviour may issue
          Items,        \* what the queue wants downloaded
          NoItem        \* no job

VARIABLES jobs,         \* [Ids -> Items \cup {NoItem}]
          issued,       \* the last number issued
          removing      \* numbers whose removal is under way

vars == <<jobs, issued, removing>>

Init ==
    /\ jobs = [n \in Ids |-> NoItem]
    /\ issued = 0
    /\ removing = {}

\* The next number is issued, to a job that was not there.
Accept(i) ==
    /\ issued + 1 \in Ids
    /\ issued' = issued + 1
    /\ jobs' = [jobs EXCEPT ![issued + 1] = i]
    /\ UNCHANGED removing

\* Removals are asked for, answered, refused or lost with the process.
Ask ==
    /\ removing' \in SUBSET Ids
    /\ UNCHANGED <<jobs, issued>>

\* A job goes, and goes for good: its number is never issued again.
Remove(n) ==
    /\ n \in removing
    /\ jobs' = [jobs EXCEPT ![n] = NoItem]
    /\ removing' \in SUBSET removing
    /\ UNCHANGED issued

Next == Ask \/ \E n \in Ids : Remove(n) \/ \E i \in Items : Accept(i)

Spec == Init /\ [][Next]_vars

==============================================================================
