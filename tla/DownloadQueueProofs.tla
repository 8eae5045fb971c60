------------------------- MODULE DownloadQueueProofs -------------------------
(* Machine-checked theorems about DownloadQueue, for every number of rows,   *)
(* transfers, grabs, operators and faults.                                   *)
EXTENDS DownloadQueue, TLAPS

------------------------------------------------------------------------------
(* The inductive invariant *)

\* The unique indexes: one row per transfer, one active row per item.
Indexes ==
    /\ \A r, q \in Rows : names[r] = names[q] /\ names[r] # None => r = q
    /\ \A r, q \in Active : r = q

\* A grab holds a transfer from its answer to its end, and the row it created
\* names that transfer; no two grabs created the same row.
GrabInv ==
    /\ \A x \in Adders :
          /\ held[x] = None <=> pc[x] \in {"idle", "done", "fetching"}
          /\ held[x] # None => told[x] \in JobStates /\ transfer[held[x]] # "none"
          /\ pc[x] \in {"storing", "writing", "undoing"} => mine[x] # None
          /\ mine[x] # None =>
                /\ pc[x] \in {"storing", "writing", "undoing", "finding", "dropping"}
                /\ names[mine[x]] = held[x]
    /\ \A x, y \in Adders : mine[x] = mine[y] /\ mine[x] # None => x = y

\* An operator flags a row only after its transfer is gone.
RequestInv ==
    \A o \in Operators :
        /\ op[o] \notin {"idle", "done"} =>
              /\ target[o] \in Rows /\ request[o] \in Actions
              /\ names[target[o]] # None
        /\ op[o] \in {"storing", "writing"} => request[o] # "remove"
        /\ op[o] = "flagging" => transfer[names[target[o]]] = "gone"

\* The sync flags a row only after its handoff or when its transfer is gone.
SyncInv ==
    /\ sync \notin {"idle", "next"} => at \in Rows /\ names[at] # None
    /\ sync \in {"reading", "writing"} => seen \in JobStates
    /\ \A r \in todo : names[r] # None
    /\ finished \subseteq handed
    /\ sync = "flagging" => at \in handed \/ transfer[names[at]] = "gone"
    /\ NoSecondImport

\* Why a row was removed: imported, its transfer is gone or was stranded, or
\* the grab that created it is about to take the transfer back.
Reason(r) ==
    \/ r \in handed
    \/ ~Alive(names[r])
    \/ names[r] \in stranded
    \/ \E x \in Adders : mine[x] = r /\ pc[x] \in {"finding", "dropping"}
RemovedInv == \A r \in removed : names[r] # None /\ Reason(r)

\* A transfer that is there has a row, a grab that holds it, or was stranded.
NamedInv ==
    /\ \A t \in Transfers : Alive(t) => t \in Carried \cup stranded \/ RowsOf(t) # {}
    /\ \A r \in Rows : names[r] # None => transfer[names[r]] # "none"

IInv == TypeOK /\ Indexes /\ GrabInv /\ RequestInv /\ SyncInv /\ RemovedInv /\ NamedInv

\* None is no row and no transfer.
LEMMA NoneFacts == None \notin Rows /\ None \notin Transfers
BY IdAssumption, NoneAssumption

------------------------------------------------------------------------------
(* The client plugin and crashes *)

\* A transfer moves on or is recovered.
LEMMA ProgressKeeps ==
    ASSUME IInv, NEW t \in Transfers, Progress(t) \/ Recover(t)
    PROVE  IInv'
<1> USE NoneFacts DEF IInv
<1>1. TypeOK'
  BY BoundAssumption DEF TypeOK, JobStates, AdderPcs, OpPcs, SyncPcs, Actions, vars,
      rowVars, addVars, opVars, syncVars, Progress, Recover, Moves, Fault
<1>2. Indexes'
  BY DEF TypeOK, Indexes, Active, vars, rowVars, addVars, opVars, syncVars, Progress,
      Recover, Moves, Fault
<1>3. GrabInv'
  BY DEF TypeOK, GrabInv, Alive, vars, rowVars, addVars, opVars, syncVars, Progress,
      Recover, Moves, Fault
<1>4. RequestInv'
  BY DEF TypeOK, RequestInv, Alive, Actions, vars, rowVars, addVars, opVars, syncVars,
      Progress, Recover, Moves, Fault
<1>5. SyncInv'
  BY DEF TypeOK, SyncInv, NoSecondImport, Active, Alive, JobStates, vars, rowVars,
      addVars, opVars, syncVars, Progress, Recover, Moves, Fault
<1>6. RemovedInv'
  BY DEF TypeOK, GrabInv, Indexes, RemovedInv, Reason, Alive, Carried, RowsOf, vars,
      rowVars, addVars, opVars, syncVars, Progress, Recover, Moves, Fault
<1>7. NamedInv'
  BY DEF TypeOK, GrabInv, NamedInv, Alive, Carried, RowsOf, Active, vars, rowVars,
      addVars, opVars, syncVars, Progress, Recover, Moves, Fault
<1> QED
  BY <1>1, <1>2, <1>3, <1>4, <1>5, <1>6, <1>7

\* A crash strands what the grabs held.
LEMMA CrashKeeps ==
    ASSUME IInv, Crash
    PROVE  IInv'
<1> USE NoneFacts DEF IInv
<1>1. TypeOK'
  BY BoundAssumption DEF TypeOK, JobStates, AdderPcs, OpPcs, SyncPcs, Actions, vars,
      rowVars, addVars, opVars, syncVars, Crash, Fault, Carried
<1>2. Indexes'
  BY DEF TypeOK, Indexes, Active, vars, rowVars, addVars, opVars, syncVars, Crash, Fault
<1>3. GrabInv'
  BY DEF TypeOK, GrabInv, Alive, vars, rowVars, addVars, opVars, syncVars, Crash, Fault
<1>4. RequestInv'
  BY DEF TypeOK, RequestInv, Alive, Actions, vars, rowVars, addVars, opVars, syncVars,
      Crash, Fault
<1>5. SyncInv'
  BY DEF TypeOK, SyncInv, NoSecondImport, Active, Alive, JobStates, vars, rowVars,
      addVars, opVars, syncVars, Crash, Fault
<1>6. RemovedInv'
  BY DEF TypeOK, GrabInv, Indexes, RemovedInv, Reason, Alive, Carried, RowsOf, vars,
      rowVars, addVars, opVars, syncVars, Crash, Fault
<1>7. NamedInv'
  BY DEF TypeOK, GrabInv, NamedInv, Alive, Carried, RowsOf, Active, vars, rowVars,
      addVars, opVars, syncVars, Crash, Fault
<1> QED
  BY <1>1, <1>2, <1>3, <1>4, <1>5, <1>6, <1>7

------------------------------------------------------------------------------
(* Grabs *)

\* add answers with a transfer.
LEMMA AddKeeps ==
    ASSUME IInv, NEW x \in Adders, NEW t \in Transfers, AddExisting(x, t) \/ AddFresh(x, t)
    PROVE  IInv'
<1> USE NoneFacts DEF IInv
<1>1. TypeOK'
  BY BoundAssumption DEF TypeOK, JobStates, AdderPcs, OpPcs, SyncPcs, Actions, vars,
      rowVars, addVars, opVars, syncVars, AddExisting, AddFresh, Answered, Reusable,
      Alive
<1>2. Indexes'
  BY DEF TypeOK, Indexes, Active, vars, rowVars, addVars, opVars, syncVars,
      AddExisting, AddFresh, Answered, Reusable
<1>3. GrabInv'
  BY DEF TypeOK, GrabInv, Alive, vars, rowVars, addVars, opVars, syncVars,
      AddExisting, AddFresh, Answered, Reusable, JobStates
<1>4. RequestInv'
  BY DEF TypeOK, RequestInv, Alive, Actions, vars, rowVars, addVars, opVars, syncVars,
      AddExisting, AddFresh, Answered, Reusable
<1>5. SyncInv'
  BY DEF TypeOK, SyncInv, NoSecondImport, Active, Alive, JobStates, vars, rowVars,
      addVars, opVars, syncVars, AddExisting, AddFresh, Answered, Reusable
<1>6. RemovedInv'
  BY DEF TypeOK, GrabInv, Indexes, RemovedInv, Reason, Alive, Carried, RowsOf, vars,
      rowVars, addVars, opVars, syncVars, AddExisting, AddFresh, Answered, Reusable,
      NamedInv
<1>7. NamedInv'
  BY DEF TypeOK, GrabInv, NamedInv, Alive, Carried, RowsOf, Active, vars, rowVars,
      addVars, opVars, syncVars, AddExisting, AddFresh, Answered, Reusable
<1> QED
  BY <1>1, <1>2, <1>3, <1>4, <1>5, <1>6, <1>7

\* add fetches a release, or fails.
LEMMA MissKeeps ==
    ASSUME IInv, NEW x \in Adders, AddMisses(x) \/ AddFails(x)
    PROVE  IInv'
<1> USE NoneFacts DEF IInv
<1>1. TypeOK'
  BY BoundAssumption DEF TypeOK, JobStates, AdderPcs, OpPcs, SyncPcs, Actions, vars,
      rowVars, addVars, opVars, syncVars, AddMisses, AddFails, GoesTo, Leaves
<1>2. Indexes'
  BY DEF TypeOK, Indexes, Active, vars, rowVars, addVars, opVars, syncVars, AddMisses,
      AddFails, GoesTo, Leaves
<1>3. GrabInv'
  BY DEF TypeOK, GrabInv, Alive, vars, rowVars, addVars, opVars, syncVars, AddMisses,
      AddFails, GoesTo, Leaves
<1>4. RequestInv'
  BY DEF TypeOK, RequestInv, Alive, Actions, vars, rowVars, addVars, opVars, syncVars,
      AddMisses, AddFails, GoesTo, Leaves
<1>5. SyncInv'
  BY DEF TypeOK, SyncInv, NoSecondImport, Active, Alive, JobStates, vars, rowVars,
      addVars, opVars, syncVars, AddMisses, AddFails, GoesTo, Leaves
<1>6. RemovedInv'
  BY DEF TypeOK, GrabInv, Indexes, RemovedInv, Reason, Alive, Carried, RowsOf, vars,
      rowVars, addVars, opVars, syncVars, AddMisses, AddFails, GoesTo, Leaves
<1>7. NamedInv'
  BY DEF TypeOK, GrabInv, NamedInv, Alive, Carried, RowsOf, Active, vars, rowVars,
      addVars, opVars, syncVars, AddMisses, AddFails, GoesTo, Leaves
<1> QED
  BY <1>1, <1>2, <1>3, <1>4, <1>5, <1>6, <1>7

\* create() looks for an active row.
LEMMA LookKeeps ==
    ASSUME IInv, NEW x \in Adders, Look(x) \/ InsertRefused(x) \/ Winner(x)
    PROVE  IInv'
<1> USE NoneFacts DEF IInv
<1>1. TypeOK'
  BY BoundAssumption DEF TypeOK, JobStates, AdderPcs, OpPcs, SyncPcs, Actions, vars,
      rowVars, addVars, opVars, syncVars, Look, InsertRefused, Winner, Lost, GoesTo,
      Leaves
<1>2. Indexes'
  BY DEF TypeOK, Indexes, Active, vars, rowVars, addVars, opVars, syncVars, Look,
      InsertRefused, Winner, Lost, GoesTo, Leaves
<1>3. GrabInv'
  BY DEF TypeOK, GrabInv, Alive, vars, rowVars, addVars, opVars, syncVars, Look,
      InsertRefused, Winner, Lost, GoesTo, Leaves
<1>4. RequestInv'
  BY DEF TypeOK, RequestInv, Alive, Actions, vars, rowVars, addVars, opVars, syncVars,
      Look, InsertRefused, Winner, Lost, GoesTo, Leaves
<1>5. SyncInv'
  BY DEF TypeOK, SyncInv, NoSecondImport, Active, Alive, JobStates, vars, rowVars,
      addVars, opVars, syncVars, Look, InsertRefused, Winner, Lost, GoesTo, Leaves
<1>6. RemovedInv'
  BY DEF TypeOK, GrabInv, Indexes, RemovedInv, Reason, Alive, Carried, RowsOf, vars,
      rowVars, addVars, opVars, syncVars, Look, InsertRefused, Winner, Lost, GoesTo,
      Leaves
<1>7. NamedInv'
  BY DEF TypeOK, GrabInv, NamedInv, Alive, Carried, RowsOf, Active, vars, rowVars,
      addVars, opVars, syncVars, Look, InsertRefused, Winner, Lost, GoesTo, Leaves
<1> QED
  BY <1>1, <1>2, <1>3, <1>4, <1>5, <1>6, <1>7

\* create() inserts its row.
LEMMA InsertKeeps ==
    ASSUME IInv, NEW x \in Adders, NEW r \in Rows, Insert(x, r)
    PROVE  IInv'
<1> USE NoneFacts DEF IInv
<1>1. TypeOK'
  BY BoundAssumption DEF TypeOK, JobStates, AdderPcs, OpPcs, SyncPcs, Actions, vars,
      rowVars, addVars, opVars, syncVars, Insert, Barred, RowsOf
<1>2. Indexes'
  BY DEF TypeOK, Indexes, Active, vars, rowVars, addVars, opVars, syncVars, Insert,
      Barred, RowsOf
<1>3. GrabInv'
  BY DEF TypeOK, GrabInv, Alive, vars, rowVars, addVars, opVars, syncVars, Insert,
      Barred, RowsOf
<1>4. RequestInv'
  BY DEF TypeOK, RequestInv, Alive, Actions, vars, rowVars, addVars, opVars, syncVars,
      Insert, Barred, RowsOf
<1>5. SyncInv'
  BY DEF TypeOK, SyncInv, NoSecondImport, Active, Alive, JobStates, vars, rowVars,
      addVars, opVars, syncVars, Insert, Barred, RowsOf
<1>6. RemovedInv'
  BY DEF TypeOK, GrabInv, Indexes, RemovedInv, Reason, Alive, Carried, RowsOf, vars,
      rowVars, addVars, opVars, syncVars, Insert, Barred, RowsOf
<1>7. NamedInv'
  BY DEF TypeOK, GrabInv, NamedInv, Alive, Carried, RowsOf, Active, vars, rowVars,
      addVars, opVars, syncVars, Insert, Barred, RowsOf
<1> QED
  BY <1>1, <1>2, <1>3, <1>4, <1>5, <1>6, <1>7

\* updateProgress() on the new row.
LEMMA StoreKeeps ==
    ASSUME IInv, NEW x \in Adders, StoreRead(x) \/ StoreWrite(x)
    PROVE  IInv'
<1> USE NoneFacts DEF IInv
<1>1. TypeOK'
  BY BoundAssumption DEF TypeOK, JobStates, AdderPcs, OpPcs, SyncPcs, Actions, vars,
      rowVars, addVars, opVars, syncVars, StoreRead, StoreWrite, GoesTo, Leaves,
      GrabInv
<1>2. Indexes'
  BY DEF TypeOK, Indexes, Active, vars, rowVars, addVars, opVars, syncVars, StoreRead,
      StoreWrite, GoesTo, Leaves
<1>3. GrabInv'
  BY DEF TypeOK, GrabInv, Alive, vars, rowVars, addVars, opVars, syncVars, StoreRead,
      StoreWrite, GoesTo, Leaves
<1>4. RequestInv'
  BY DEF TypeOK, RequestInv, Alive, Actions, vars, rowVars, addVars, opVars, syncVars,
      StoreRead, StoreWrite, GoesTo, Leaves
<1>5. SyncInv'
  BY DEF TypeOK, SyncInv, NoSecondImport, Active, Alive, JobStates, vars, rowVars,
      addVars, opVars, syncVars, StoreRead, StoreWrite, GoesTo, Leaves
<1>6. RemovedInv'
  BY DEF TypeOK, GrabInv, Indexes, RemovedInv, Reason, Alive, Carried, RowsOf, vars,
      rowVars, addVars, opVars, syncVars, StoreRead, StoreWrite, GoesTo, Leaves
<1>7. NamedInv'
  BY DEF TypeOK, GrabInv, NamedInv, Alive, Carried, RowsOf, Active, vars, rowVars,
      addVars, opVars, syncVars, StoreRead, StoreWrite, GoesTo, Leaves
<1> QED
  BY <1>1, <1>2, <1>3, <1>4, <1>5, <1>6, <1>7

\* The catch block flags the row.
LEMMA UndoKeeps ==
    ASSUME IInv, NEW x \in Adders, Undo(x)
    PROVE  IInv'
<1> USE NoneFacts DEF IInv
<1>1. TypeOK'
  BY BoundAssumption DEF TypeOK, JobStates, AdderPcs, OpPcs, SyncPcs, Actions, vars,
      rowVars, addVars, opVars, syncVars, Undo, GoesTo, GrabInv
<1>2. Indexes'
  BY DEF TypeOK, Indexes, Active, vars, rowVars, addVars, opVars, syncVars, Undo, GoesTo
<1>3. GrabInv'
  BY DEF TypeOK, GrabInv, Alive, vars, rowVars, addVars, opVars, syncVars, Undo, GoesTo
<1>4. RequestInv'
  BY DEF TypeOK, RequestInv, Alive, Actions, vars, rowVars, addVars, opVars, syncVars,
      Undo, GoesTo
<1>5. SyncInv'
  BY DEF TypeOK, SyncInv, NoSecondImport, Active, Alive, JobStates, vars, rowVars,
      addVars, opVars, syncVars, Undo, GoesTo
<1>6. RemovedInv'
  BY DEF TypeOK, GrabInv, Indexes, RemovedInv, Reason, Alive, Carried, RowsOf, vars,
      rowVars, addVars, opVars, syncVars, Undo, GoesTo
<1>7. NamedInv'
  BY DEF TypeOK, GrabInv, NamedInv, Alive, Carried, RowsOf, Active, vars, rowVars,
      addVars, opVars, syncVars, Undo, GoesTo
<1> QED
  BY <1>1, <1>2, <1>3, <1>4, <1>5, <1>6, <1>7

\* It looks who else names the transfer.
LEMMA FindKeeps ==
    ASSUME IInv, NEW x \in Adders, Find(x)
    PROVE  IInv'
<1> USE NoneFacts DEF IInv
<1>1. TypeOK'
  BY BoundAssumption DEF TypeOK, JobStates, AdderPcs, OpPcs, SyncPcs, Actions, vars,
      rowVars, addVars, opVars, syncVars, Find, GoesTo, Leaves, RowsOf
<1>2. Indexes'
  BY DEF TypeOK, Indexes, Active, vars, rowVars, addVars, opVars, syncVars, Find,
      GoesTo, Leaves, RowsOf
<1>3. GrabInv'
  BY DEF TypeOK, GrabInv, Alive, vars, rowVars, addVars, opVars, syncVars, Find,
      GoesTo, Leaves, RowsOf
<1>4. RequestInv'
  BY DEF TypeOK, RequestInv, Alive, Actions, vars, rowVars, addVars, opVars, syncVars,
      Find, GoesTo, Leaves, RowsOf
<1>5. SyncInv'
  BY DEF TypeOK, SyncInv, NoSecondImport, Active, Alive, JobStates, vars, rowVars,
      addVars, opVars, syncVars, Find, GoesTo, Leaves, RowsOf
<1>6. RemovedInv'
  BY DEF TypeOK, GrabInv, Indexes, RemovedInv, Reason, Alive, Carried, RowsOf, vars,
      rowVars, addVars, opVars, syncVars, Find, GoesTo, Leaves, RowsOf
<1>7. NamedInv'
  BY DEF TypeOK, GrabInv, NamedInv, Alive, Carried, RowsOf, Active, vars, rowVars,
      addVars, opVars, syncVars, Find, GoesTo, Leaves, RowsOf
<1> QED
  BY <1>1, <1>2, <1>3, <1>4, <1>5, <1>6, <1>7

\* It takes the transfer back.
LEMMA DropKeeps ==
    ASSUME IInv, NEW x \in Adders, Drop(x)
    PROVE  IInv'
<1> USE NoneFacts DEF IInv
<1>1. TypeOK'
  BY BoundAssumption DEF TypeOK, JobStates, AdderPcs, OpPcs, SyncPcs, Actions, vars,
      rowVars, addVars, opVars, syncVars, Drop, Leaves
<1>2. Indexes'
  BY DEF TypeOK, Indexes, Active, vars, rowVars, addVars, opVars, syncVars, Drop, Leaves
<1>3. GrabInv'
  BY DEF TypeOK, GrabInv, Alive, vars, rowVars, addVars, opVars, syncVars, Drop, Leaves
<1>4. RequestInv'
  BY DEF TypeOK, RequestInv, Alive, Actions, vars, rowVars, addVars, opVars, syncVars,
      Drop, Leaves
<1>5. SyncInv'
  BY DEF TypeOK, SyncInv, NoSecondImport, Active, Alive, JobStates, vars, rowVars,
      addVars, opVars, syncVars, Drop, Leaves
<1>6. RemovedInv'
  BY DEF TypeOK, GrabInv, Indexes, RemovedInv, Reason, Alive, Carried, RowsOf, vars,
      rowVars, addVars, opVars, syncVars, Drop, Leaves
<1>7. NamedInv'
  BY DEF TypeOK, GrabInv, NamedInv, Alive, Carried, RowsOf, Active, vars, rowVars,
      addVars, opVars, syncVars, Drop, Leaves
<1> QED
  BY <1>1, <1>2, <1>3, <1>4, <1>5, <1>6, <1>7

\* One of these calls fails.
LEMMA AdderFaultKeeps ==
    ASSUME IInv, NEW x \in Adders, AdderFault(x)
    PROVE  IInv'
<1> USE NoneFacts DEF IInv
<1>1. TypeOK'
  BY BoundAssumption DEF TypeOK, JobStates, AdderPcs, OpPcs, SyncPcs, Actions, vars,
      rowVars, addVars, opVars, syncVars, AdderFault, Fault, GoesTo, Leaves, GrabInv
<1>2. Indexes'
  BY DEF TypeOK, Indexes, Active, vars, rowVars, addVars, opVars, syncVars,
      AdderFault, Fault, GoesTo, Leaves
<1>3. GrabInv'
  BY DEF TypeOK, GrabInv, Alive, vars, rowVars, addVars, opVars, syncVars, AdderFault,
      Fault, GoesTo, Leaves
<1>4. RequestInv'
  BY DEF TypeOK, RequestInv, Alive, Actions, vars, rowVars, addVars, opVars, syncVars,
      AdderFault, Fault, GoesTo, Leaves
<1>5. SyncInv'
  BY DEF TypeOK, SyncInv, NoSecondImport, Active, Alive, JobStates, vars, rowVars,
      addVars, opVars, syncVars, AdderFault, Fault, GoesTo, Leaves
<1>6. RemovedInv'
  BY DEF TypeOK, GrabInv, Indexes, RemovedInv, Reason, Alive, Carried, RowsOf, vars,
      rowVars, addVars, opVars, syncVars, AdderFault, Fault, GoesTo, Leaves
<1>7. NamedInv'
  BY DEF TypeOK, GrabInv, NamedInv, Alive, Carried, RowsOf, Active, vars, rowVars,
      addVars, opVars, syncVars, AdderFault, Fault, GoesTo, Leaves
<1> QED
  BY <1>1, <1>2, <1>3, <1>4, <1>5, <1>6, <1>7

------------------------------------------------------------------------------
(* Operators *)

\* A request is admitted.
LEMMA AskKeeps ==
    ASSUME IInv, NEW o \in Operators, NEW action \in Actions, NEW r \in Rows, Ask(o, action, r)
    PROVE  IInv'
<1> USE NoneFacts DEF IInv
<1>1. TypeOK'
  BY BoundAssumption DEF TypeOK, JobStates, AdderPcs, OpPcs, SyncPcs, Actions, vars,
      rowVars, addVars, opVars, syncVars, Ask
<1>2. Indexes'
  BY DEF TypeOK, Indexes, Active, vars, rowVars, addVars, opVars, syncVars, Ask
<1>3. GrabInv'
  BY DEF TypeOK, GrabInv, Alive, vars, rowVars, addVars, opVars, syncVars, Ask
<1>4. RequestInv'
  BY DEF TypeOK, RequestInv, Alive, Actions, vars, rowVars, addVars, opVars, syncVars,
      Ask
<1>5. SyncInv'
  BY DEF TypeOK, SyncInv, NoSecondImport, Active, Alive, JobStates, vars, rowVars,
      addVars, opVars, syncVars, Ask
<1>6. RemovedInv'
  BY DEF TypeOK, GrabInv, Indexes, RemovedInv, Reason, Alive, Carried, RowsOf, vars,
      rowVars, addVars, opVars, syncVars, Ask
<1>7. NamedInv'
  BY DEF TypeOK, GrabInv, NamedInv, Alive, Carried, RowsOf, Active, vars, rowVars,
      addVars, opVars, syncVars, Ask
<1> QED
  BY <1>1, <1>2, <1>3, <1>4, <1>5, <1>6, <1>7

\* The plugin carries it out.
LEMMA CallKeeps ==
    ASSUME IInv, NEW o \in Operators, Call(o)
    PROVE  IInv'
<1> USE NoneFacts DEF IInv
<1>1. TypeOK'
  BY BoundAssumption DEF TypeOK, JobStates, AdderPcs, OpPcs, SyncPcs, Actions, vars,
      rowVars, addVars, opVars, syncVars, Call, Proceeds, Outcomes, Begun, RequestInv,
      Alive
<1>2. Indexes'
  BY DEF TypeOK, Indexes, Active, vars, rowVars, addVars, opVars, syncVars, Call,
      Proceeds, Outcomes, Begun
<1>3. GrabInv'
  BY DEF TypeOK, GrabInv, Alive, vars, rowVars, addVars, opVars, syncVars, Call,
      Proceeds, Outcomes, Begun
<1>4. RequestInv'
  BY DEF TypeOK, RequestInv, Alive, Actions, vars, rowVars, addVars, opVars, syncVars,
      Call, Proceeds, Outcomes, Begun
<1>5. SyncInv'
  BY DEF TypeOK, SyncInv, NoSecondImport, Active, Alive, JobStates, vars, rowVars,
      addVars, opVars, syncVars, Call, Proceeds, Outcomes, Begun
<1>6. RemovedInv'
  BY DEF TypeOK, GrabInv, Indexes, RemovedInv, Reason, Alive, Carried, RowsOf, vars,
      rowVars, addVars, opVars, syncVars, Call, Proceeds, Outcomes, Begun
<1>7. NamedInv'
  BY DEF TypeOK, GrabInv, NamedInv, Alive, Carried, RowsOf, Active, vars, rowVars,
      addVars, opVars, syncVars, Call, Proceeds, Outcomes, Begun
<1> QED
  BY <1>1, <1>2, <1>3, <1>4, <1>5, <1>6, <1>7

\* The row is read and written, or is not.
LEMMA RequestKeeps ==
    ASSUME IInv, NEW o \in Operators, CallRefused(o) \/ RequestRead(o) \/ RequestWrite(o) \/ RequestFault(o)
    PROVE  IInv'
<1> USE NoneFacts DEF IInv
<1>1. TypeOK'
  BY BoundAssumption DEF TypeOK, JobStates, AdderPcs, OpPcs, SyncPcs, Actions, vars,
      rowVars, addVars, opVars, syncVars, CallRefused, RequestRead, RequestWrite,
      RequestFault, Asked, Fault, Done, Proceeds, RequestInv
<1>2. Indexes'
  BY DEF TypeOK, Indexes, Active, vars, rowVars, addVars, opVars, syncVars,
      CallRefused, RequestRead, RequestWrite, RequestFault, Asked, Fault, Done,
      Proceeds
<1>3. GrabInv'
  BY DEF TypeOK, GrabInv, Alive, vars, rowVars, addVars, opVars, syncVars,
      CallRefused, RequestRead, RequestWrite, RequestFault, Asked, Fault, Done,
      Proceeds
<1>4. RequestInv'
  BY DEF TypeOK, RequestInv, Alive, Actions, vars, rowVars, addVars, opVars, syncVars,
      CallRefused, RequestRead, RequestWrite, RequestFault, Asked, Fault, Done,
      Proceeds
<1>5. SyncInv'
  BY DEF TypeOK, SyncInv, NoSecondImport, Active, Alive, JobStates, vars, rowVars,
      addVars, opVars, syncVars, CallRefused, RequestRead, RequestWrite, RequestFault,
      Asked, Fault, Done, Proceeds
<1>6. RemovedInv'
  BY DEF TypeOK, GrabInv, Indexes, RemovedInv, Reason, Alive, Carried, RowsOf, vars,
      rowVars, addVars, opVars, syncVars, CallRefused, RequestRead, RequestWrite,
      RequestFault, Asked, Fault, Done, Proceeds
<1>7. NamedInv'
  BY DEF TypeOK, GrabInv, NamedInv, Alive, Carried, RowsOf, Active, vars, rowVars,
      addVars, opVars, syncVars, CallRefused, RequestRead, RequestWrite, RequestFault,
      Asked, Fault, Done, Proceeds
<1> QED
  BY <1>1, <1>2, <1>3, <1>4, <1>5, <1>6, <1>7

\* The row is flagged.
LEMMA RequestFlagKeeps ==
    ASSUME IInv, NEW o \in Operators, RequestFlag(o)
    PROVE  IInv'
<1> USE NoneFacts DEF IInv
<1>1. TypeOK'
  BY BoundAssumption DEF TypeOK, JobStates, AdderPcs, OpPcs, SyncPcs, Actions, vars,
      rowVars, addVars, opVars, syncVars, RequestFlag, Done, RequestInv
<1>2. Indexes'
  BY DEF TypeOK, Indexes, Active, vars, rowVars, addVars, opVars, syncVars,
      RequestFlag, Done
<1>3. GrabInv'
  BY DEF TypeOK, GrabInv, Alive, vars, rowVars, addVars, opVars, syncVars,
      RequestFlag, Done
<1>4. RequestInv'
  BY DEF TypeOK, RequestInv, Alive, Actions, vars, rowVars, addVars, opVars, syncVars,
      RequestFlag, Done
<1>5. SyncInv'
  BY DEF TypeOK, SyncInv, NoSecondImport, Active, Alive, JobStates, vars, rowVars,
      addVars, opVars, syncVars, RequestFlag, Done
<1>6. RemovedInv'
  BY DEF TypeOK, GrabInv, Indexes, RemovedInv, Reason, Alive, Carried, RowsOf, vars,
      rowVars, addVars, opVars, syncVars, RequestFlag, Done, RequestInv
<1>7. NamedInv'
  BY DEF TypeOK, GrabInv, NamedInv, Alive, Carried, RowsOf, Active, vars, rowVars,
      addVars, opVars, syncVars, RequestFlag, Done
<1> QED
  BY <1>1, <1>2, <1>3, <1>4, <1>5, <1>6, <1>7

------------------------------------------------------------------------------
(* The sync *)

\* The list, row by row.
LEMMA ListKeeps ==
    ASSUME IInv, List \/ SyncEnds \/ SyncFault \/ \E r \in Rows : Take(r)
    PROVE  IInv'
<1> USE NoneFacts DEF IInv
<1>1. TypeOK'
  BY BoundAssumption DEF TypeOK, JobStates, AdderPcs, OpPcs, SyncPcs, Actions, vars,
      rowVars, addVars, opVars, syncVars, List, SyncEnds, SyncFault, Take, NextRow,
      Fault, Active
<1>2. Indexes'
  BY DEF TypeOK, Indexes, Active, vars, rowVars, addVars, opVars, syncVars, List,
      SyncEnds, SyncFault, Take, NextRow, Fault
<1>3. GrabInv'
  BY DEF TypeOK, GrabInv, Alive, vars, rowVars, addVars, opVars, syncVars, List,
      SyncEnds, SyncFault, Take, NextRow, Fault
<1>4. RequestInv'
  BY DEF TypeOK, RequestInv, Alive, Actions, vars, rowVars, addVars, opVars, syncVars,
      List, SyncEnds, SyncFault, Take, NextRow, Fault
<1>5. SyncInv'
  BY DEF TypeOK, SyncInv, NoSecondImport, Active, Alive, JobStates, vars, rowVars,
      addVars, opVars, syncVars, List, SyncEnds, SyncFault, Take, NextRow, Fault
<1>6. RemovedInv'
  BY DEF TypeOK, GrabInv, Indexes, RemovedInv, Reason, Alive, Carried, RowsOf, vars,
      rowVars, addVars, opVars, syncVars, List, SyncEnds, SyncFault, Take, NextRow,
      Fault
<1>7. NamedInv'
  BY DEF TypeOK, GrabInv, NamedInv, Alive, Carried, RowsOf, Active, vars, rowVars,
      addVars, opVars, syncVars, List, SyncEnds, SyncFault, Take, NextRow, Fault
<1> QED
  BY <1>1, <1>2, <1>3, <1>4, <1>5, <1>6, <1>7

\* The status, and the row is read.
LEMMA PollKeeps ==
    ASSUME IInv, Poll \/ SyncRead
    PROVE  IInv'
<1> USE NoneFacts DEF IInv
<1>1. TypeOK'
  BY BoundAssumption DEF TypeOK, JobStates, AdderPcs, OpPcs, SyncPcs, Actions, vars,
      rowVars, addVars, opVars, syncVars, Poll, SyncRead, SyncAt, NextRow, Alive,
      SyncInv
<1>2. Indexes'
  BY DEF TypeOK, Indexes, Active, vars, rowVars, addVars, opVars, syncVars, Poll,
      SyncRead, SyncAt, NextRow
<1>3. GrabInv'
  BY DEF TypeOK, GrabInv, Alive, vars, rowVars, addVars, opVars, syncVars, Poll,
      SyncRead, SyncAt, NextRow
<1>4. RequestInv'
  BY DEF TypeOK, RequestInv, Alive, Actions, vars, rowVars, addVars, opVars, syncVars,
      Poll, SyncRead, SyncAt, NextRow
<1>5. SyncInv'
  BY DEF TypeOK, SyncInv, NoSecondImport, Active, Alive, JobStates, vars, rowVars,
      addVars, opVars, syncVars, Poll, SyncRead, SyncAt, NextRow, NamedInv
<1>6. RemovedInv'
  BY DEF TypeOK, GrabInv, Indexes, RemovedInv, Reason, Alive, Carried, RowsOf, vars,
      rowVars, addVars, opVars, syncVars, Poll, SyncRead, SyncAt, NextRow
<1>7. NamedInv'
  BY DEF TypeOK, GrabInv, NamedInv, Alive, Carried, RowsOf, Active, vars, rowVars,
      addVars, opVars, syncVars, Poll, SyncRead, SyncAt, NextRow
<1> QED
  BY <1>1, <1>2, <1>3, <1>4, <1>5, <1>6, <1>7

\* The row is written.
LEMMA SyncWriteKeeps ==
    ASSUME IInv, SyncWrite \/ FailRead \/ FailWrite
    PROVE  IInv'
<1> USE NoneFacts DEF IInv
<1>1. TypeOK'
  BY BoundAssumption DEF TypeOK, JobStates, AdderPcs, OpPcs, SyncPcs, Actions, vars,
      rowVars, addVars, opVars, syncVars, SyncWrite, FailRead, FailWrite, Imports,
      SyncAt, NextRow, SyncInv
<1>2. Indexes'
  BY DEF TypeOK, Indexes, Active, vars, rowVars, addVars, opVars, syncVars, SyncWrite,
      FailRead, FailWrite, Imports, SyncAt, NextRow
<1>3. GrabInv'
  BY DEF TypeOK, GrabInv, Alive, vars, rowVars, addVars, opVars, syncVars, SyncWrite,
      FailRead, FailWrite, Imports, SyncAt, NextRow
<1>4. RequestInv'
  BY DEF TypeOK, RequestInv, Alive, Actions, vars, rowVars, addVars, opVars, syncVars,
      SyncWrite, FailRead, FailWrite, Imports, SyncAt, NextRow
<1>5. SyncInv'
  BY DEF TypeOK, SyncInv, NoSecondImport, Active, Alive, JobStates, vars, rowVars,
      addVars, opVars, syncVars, SyncWrite, FailRead, FailWrite, Imports, SyncAt,
      NextRow
<1>6. RemovedInv'
  BY DEF TypeOK, GrabInv, Indexes, RemovedInv, Reason, Alive, Carried, RowsOf, vars,
      rowVars, addVars, opVars, syncVars, SyncWrite, FailRead, FailWrite, Imports,
      SyncAt, NextRow
<1>7. NamedInv'
  BY DEF TypeOK, GrabInv, NamedInv, Alive, Carried, RowsOf, Active, vars, rowVars,
      addVars, opVars, syncVars, SyncWrite, FailRead, FailWrite, Imports, SyncAt,
      NextRow
<1> QED
  BY <1>1, <1>2, <1>3, <1>4, <1>5, <1>6, <1>7

\* The import and its handoff.
LEMMA ImportKeeps ==
    ASSUME IInv, Import \/ HandoffRead \/ HandoffWrite
    PROVE  IInv'
<1> USE NoneFacts DEF IInv
<1>1. TypeOK'
  BY BoundAssumption DEF TypeOK, JobStates, AdderPcs, OpPcs, SyncPcs, Actions, vars,
      rowVars, addVars, opVars, syncVars, Import, HandoffRead, HandoffWrite, SyncAt,
      NextRow, SyncInv
<1>2. Indexes'
  BY DEF TypeOK, Indexes, Active, vars, rowVars, addVars, opVars, syncVars, Import,
      HandoffRead, HandoffWrite, SyncAt, NextRow
<1>3. GrabInv'
  BY DEF TypeOK, GrabInv, Alive, vars, rowVars, addVars, opVars, syncVars, Import,
      HandoffRead, HandoffWrite, SyncAt, NextRow
<1>4. RequestInv'
  BY DEF TypeOK, RequestInv, Alive, Actions, vars, rowVars, addVars, opVars, syncVars,
      Import, HandoffRead, HandoffWrite, SyncAt, NextRow
<1>5. SyncInv'
  BY DEF TypeOK, SyncInv, NoSecondImport, Active, Alive, JobStates, vars, rowVars,
      addVars, opVars, syncVars, Import, HandoffRead, HandoffWrite, SyncAt, NextRow
<1>6. RemovedInv'
  BY DEF TypeOK, GrabInv, Indexes, RemovedInv, Reason, Alive, Carried, RowsOf, vars,
      rowVars, addVars, opVars, syncVars, Import, HandoffRead, HandoffWrite, SyncAt,
      NextRow
<1>7. NamedInv'
  BY DEF TypeOK, GrabInv, NamedInv, Alive, Carried, RowsOf, Active, vars, rowVars,
      addVars, opVars, syncVars, Import, HandoffRead, HandoffWrite, SyncAt, NextRow
<1> QED
  BY <1>1, <1>2, <1>3, <1>4, <1>5, <1>6, <1>7

\* The row leaves the queue.
LEMMA SyncFlagKeeps ==
    ASSUME IInv, SyncFlag
    PROVE  IInv'
<1> USE NoneFacts DEF IInv
<1>1. TypeOK'
  BY BoundAssumption DEF TypeOK, JobStates, AdderPcs, OpPcs, SyncPcs, Actions, vars,
      rowVars, addVars, opVars, syncVars, SyncFlag, NextRow, SyncInv
<1>2. Indexes'
  BY DEF TypeOK, Indexes, Active, vars, rowVars, addVars, opVars, syncVars, SyncFlag,
      NextRow
<1>3. GrabInv'
  BY DEF TypeOK, GrabInv, Alive, vars, rowVars, addVars, opVars, syncVars, SyncFlag,
      NextRow
<1>4. RequestInv'
  BY DEF TypeOK, RequestInv, Alive, Actions, vars, rowVars, addVars, opVars, syncVars,
      SyncFlag, NextRow
<1>5. SyncInv'
  BY DEF TypeOK, SyncInv, NoSecondImport, Active, Alive, JobStates, vars, rowVars,
      addVars, opVars, syncVars, SyncFlag, NextRow
<1>6. RemovedInv'
  BY DEF TypeOK, GrabInv, Indexes, RemovedInv, Reason, Alive, Carried, RowsOf, vars,
      rowVars, addVars, opVars, syncVars, SyncFlag, NextRow, SyncInv
<1>7. NamedInv'
  BY DEF TypeOK, GrabInv, NamedInv, Alive, Carried, RowsOf, Active, vars, rowVars,
      addVars, opVars, syncVars, SyncFlag, NextRow
<1> QED
  BY <1>1, <1>2, <1>3, <1>4, <1>5, <1>6, <1>7

------------------------------------------------------------------------------
(* Theorems *)

\* The initial states.
LEMMA InitInv == Init => IInv
BY NoneFacts, BoundAssumption
DEF Init, IInv, TypeOK, JobStates, AdderPcs, OpPcs, SyncPcs, Indexes, Active, GrabInv,
    RequestInv, SyncInv, NoSecondImport, RemovedInv, NamedInv, Alive

\* Every step keeps the invariant.
LEMMA StepInv == IInv /\ [Next]_vars => IInv'
<1> SUFFICES ASSUME IInv, [Next]_vars PROVE IInv'
  OBVIOUS
<1>1. CASE \E t \in Transfers : Progress(t) \/ Recover(t)
  BY <1>1, ProgressKeeps
<1>2. ASSUME NEW x \in Adders, AdderStep(x) \/ AdderFault(x)
      PROVE  IInv'
  BY <1>2, AddKeeps, MissKeeps, LookKeeps, InsertKeeps, StoreKeeps, UndoKeeps,
      FindKeeps, DropKeeps, AdderFaultKeeps
  DEF AdderStep
<1>3. ASSUME NEW o \in Operators, OperatorStep(o) \/ RequestFault(o)
      PROVE  IInv'
  BY <1>3, AskKeeps, CallKeeps, RequestKeeps, RequestFlagKeeps DEF OperatorStep
<1>4. CASE SyncStep \/ SyncFault
  BY <1>4, ListKeeps, PollKeeps, SyncWriteKeeps, ImportKeeps, SyncFlagKeeps DEF SyncStep
<1>5. CASE Crash
  BY <1>5, CrashKeeps
<1>6. CASE UNCHANGED vars
  BY <1>6 DEF IInv, TypeOK, Indexes, Active, GrabInv, RequestInv, SyncInv,
      NoSecondImport, RemovedInv, Reason, NamedInv, Alive, RowsOf, Carried, vars,
      rowVars, addVars, opVars, syncVars
<1> QED
  BY <1>1, <1>2, <1>3, <1>4, <1>5, <1>6 DEF Next

THEOREM QueueInvariance == Spec => []IInv
BY InitInv, StepInv, PTL DEF Spec

\* What is removed from the queue without a reason left has its grab.
LEMMA InvTracked == IInv => Tracked
<1> SUFFICES ASSUME IInv, NEW t \in Transfers, Alive(t), t \notin Carried \cup stranded
             PROVE  \E r \in RowsOf(t) : r \notin removed \/ r \in handed
  BY DEF Tracked
<1>1. PICK r \in RowsOf(t) : TRUE
  BY DEF IInv, NamedInv
<1>2. ASSUME r \in removed, r \notin handed
      PROVE  FALSE
  <2>1. PICK x \in Adders : mine[x] = r
    BY <1>1, <1>2 DEF IInv, RemovedInv, Reason, RowsOf
  <2>2. held[x] = t
    BY <1>1, <2>1, NoneFacts DEF IInv, GrabInv, RowsOf
  <2> QED
    BY <2>2, NoneFacts DEF Carried
<1> QED
  BY <1>1, <1>2

\* Two downloads whose import is still to come would have two active rows.
LEMMA InvOneDownload == IInv => OneDownload
<1> SUFFICES ASSUME IInv,
                    NEW t \in Transfers, NEW u \in Transfers,
                    Alive(t), t \notin Carried \cup stranded, RowsOf(t) \cap handed = {},
                    Alive(u), u \notin Carried \cup stranded, RowsOf(u) \cap handed = {}
             PROVE  t = u
  BY DEF OneDownload
<1>1. PICK r \in RowsOf(t) : r \notin removed
  BY InvTracked DEF Tracked
<1>2. PICK q \in RowsOf(u) : q \notin removed
  BY InvTracked DEF Tracked
<1>3. r \in Active /\ q \in Active
  BY <1>1, <1>2, NoneFacts DEF Active, RowsOf
<1> QED
  BY <1>3, <1>1, <1>2 DEF IInv, Indexes, RowsOf

\* Every variable keeps its type.
THEOREM QueueTypes == Spec => []TypeOK
<1>1. IInv => TypeOK
  BY DEF IInv
<1> QED
  BY <1>1, QueueInvariance, PTL

\* Whatever grabs, operators and the sync do between each other's awaits, a
\* transfer the plugin works on has a row in the queue, was imported, or is in
\* the hands of a grab or of a fault.
THEOREM NothingEscapes == Spec => []Tracked
BY InvTracked, QueueInvariance, PTL

\* However many grabs race for the item, it is left with one download.
THEOREM RaceLeavesOne == Spec => []OneDownload
BY InvOneDownload, QueueInvariance, PTL

\* A row that has its handoff is not imported again.
THEOREM HandoffIsFinal == Spec => []NoSecondImport
<1>1. IInv => NoSecondImport
  BY DEF IInv, SyncInv
<1> QED
  BY <1>1, QueueInvariance, PTL

\* However many grabs race, the item has one download to come and a download
\* one import.
THEOREM DownloadsEndOnce == Spec => []ImportedOnce
BY RaceLeavesOne, HandoffIsFinal, PTL DEF ImportedOnce
==============================================================================
