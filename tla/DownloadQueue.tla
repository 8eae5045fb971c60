---------------------------- MODULE DownloadQueue ----------------------------
(* The durable download queue: packages/db/src/download-jobs.ts, its sync    *)
(* with the download clients in apps/server/src/download-manager.ts, the     *)
(* dispatch of a grab in apps/server/src/acquisition/pipeline.ts and the     *)
(* queue actions of apps/server/src/ops-routes.ts.                           *)
(*                                                                           *)
(* The rows and the transfers are those of ONE item with one source, fetched *)
(* through one client plugin: rows of other items meet only in indexes that  *)
(* keep them apart.  A row and a transfer are separate records, the one in   *)
(* the core's database and the other in the plugin, and every step between   *)
(* two awaits is an action here.                                             *)
(*                                                                           *)
(* Data kept abstract: progress, sizes, warnings, failure texts, retry       *)
(* counts and priorities.  The state "cancelled" is left out: no client but  *)
(* a test fixture reports it.  Job ids and download ids are numbered in the  *)
(* order they are made (uuidv7; doc.seq of the plugins).                     *)

EXTENDS Naturals, FiniteSets

CONSTANTS Rows,          \* download_jobs rows that may be inserted
          Transfers,     \* downloads the plugin may be asked for
          Adders,        \* grabs: calls of dispatch
          Operators,     \* calls of POST /api/v1/queue/:jobId/actions
          MaxFaults,     \* bound on faults, losses and crashes
          None           \* no row, no transfer, no status

ASSUME IdAssumption == Rows \subseteq Nat /\ Transfers \subseteq Nat
ASSUME BoundAssumption == MaxFaults \in Nat
ASSUME NoneAssumption == None \notin Nat

VARIABLES
    names,        \* providerJobId of each row, None: not inserted
    state,        \* its state
    removed,      \* rows with removed = 1
    handed,       \* rows with an importHandoffPath
    transfer,     \* what the plugin says of each transfer
    pc, held,     \* where each grab is, the transfer it was answered,
    told, mine,   \* the status it was told, and the row it created
    op, request,  \* where each operator is, what it asks for,
    target,       \* and of which row
    sync,         \* where the one run of job "download-sync" is
    at, seen,     \* the row it looks at and the status it was told
    todo,         \* rows of its list it has not come to
    finished,     \* rows that were completed and handed over in that list
    faults,
    stranded      \* history: transfers a fault took from the hands of a grab

rowVars == <<names, state, removed, handed>>
addVars == <<pc, held, told, mine>>
opVars == <<op, request, target>>
syncVars == <<sync, at, seen, todo, finished>>
vars == <<rowVars, transfer, addVars, opVars, syncVars, faults, stranded>>

------------------------------------------------------------------------------

JobStates == {"queued", "downloading", "paused", "completed", "failed"}
AdderPcs == {"idle", "done", "fetching", "creating", "inserting", "losing", "storing",
             "writing", "discarding", "undoing", "finding", "dropping"}
OpPcs == {"idle", "done", "calling", "storing", "writing", "flagging"}
SyncPcs == {"idle", "next", "polling", "reading", "writing", "failing", "marking",
            "importing", "recording", "handing", "flagging"}
Actions == {"pause", "resume", "retry", "remove"}

TypeOK ==
    /\ names \in [Rows -> Transfers \cup {None}]
    /\ state \in [Rows -> JobStates]
    /\ removed \in SUBSET Rows
    /\ handed \in SUBSET Rows
    /\ transfer \in [Transfers -> JobStates \cup {"none", "gone"}]
    /\ pc \in [Adders -> AdderPcs]
    /\ held \in [Adders -> Transfers \cup {None}]
    /\ told \in [Adders -> JobStates \cup {None}]
    /\ mine \in [Adders -> Rows \cup {None}]
    /\ op \in [Operators -> OpPcs]
    /\ request \in [Operators -> Actions \cup {None}]
    /\ target \in [Operators -> Rows \cup {None}]
    /\ sync \in SyncPcs
    /\ at \in Rows \cup {None}
    /\ seen \in JobStates \cup {None}
    /\ todo \in SUBSET Rows
    /\ finished \in SUBSET Rows
    /\ faults \in 0..MaxFaults
    /\ stranded \in SUBSET Transfers

Init ==
    /\ names = [r \in Rows |-> None]
    /\ state = [r \in Rows |-> "queued"]
    /\ removed = {} /\ handed = {}
    /\ transfer = [t \in Transfers |-> "none"]
    /\ pc = [x \in Adders |-> "idle"]
    /\ held = [x \in Adders |-> None]
    /\ told = [x \in Adders |-> None]
    /\ mine = [x \in Adders |-> None]
    /\ op = [o \in Operators |-> "idle"]
    /\ request = [o \in Operators |-> None]
    /\ target = [o \in Operators |-> None]
    /\ sync = "idle" /\ at = None /\ seen = None
    /\ todo = {} /\ finished = {}
    /\ faults = 0
    /\ stranded = {}

\* Rows in the queue; the partial unique index keeps them to one.
Active == {r \in Rows : names[r] # None /\ r \notin removed}
RowsOf(t) == {r \in Rows : names[r] = t}
Alive(t) == transfer[t] \notin {"none", "gone"}

Fault == faults < MaxFaults /\ faults' = faults + 1

------------------------------------------------------------------------------
(* The download client plugin, as far as its callers see it *)

\* A transfer moves on; the VPN kill switch may pause one that is under way.
Moves ==
    [queued |-> {"downloading", "failed", "paused"},
     downloading |-> {"completed", "failed", "paused"}]

Progress(t) ==
    /\ transfer[t] \in DOMAIN Moves
    /\ \E s \in Moves[transfer[t]] : transfer' = [transfer EXCEPT ![t] = s]
    /\ UNCHANGED <<rowVars, addVars, opVars, syncVars, faults, stranded>>

\* The plugin is mounted again.  A finished usenet job starts again from its
\* checkpoint; a torrent that cannot be recovered is unknown from then on.
Recover(t) ==
    /\ Fault
    /\ \/ transfer[t] = "completed" /\ transfer' = [transfer EXCEPT ![t] = "downloading"]
       \/ Alive(t) /\ transfer' = [transfer EXCEPT ![t] = "gone"]
    /\ UNCHANGED <<rowVars, addVars, opVars, syncVars, stranded>>

\* What a control operation makes of a transfer in state s.  A retry takes a
\* finished usenet job back to its checkpoint and leaves a finished torrent.
Begun == {"queued", "downloading"}
Outcomes(action, s) ==
    CASE action = "pause" /\ s \in Begun -> {"paused"}
      [] action = "resume" /\ s = "paused" -> Begun
      [] action = "retry" /\ s \in {"paused", "failed"} -> Begun
      [] action = "retry" /\ s = "completed" -> {"completed", "downloading"}
      [] action = "remove" -> {"gone"}
      [] OTHER -> {s}

------------------------------------------------------------------------------
(* A grab: GrabPipeline.#dispatch with DownloadJobStore.create *)

\* The grab has its answer or throws.
Leaves(x) ==
    /\ pc' = [pc EXCEPT ![x] = "done"]
    /\ held' = [held EXCEPT ![x] = None]
    /\ told' = [told EXCEPT ![x] = None]
    /\ mine' = [mine EXCEPT ![x] = None]

GoesTo(x, label) ==
    /\ pc' = [pc EXCEPT ![x] = label]
    /\ UNCHANGED <<held, told, mine>>

Answered(x, t, s) ==
    /\ pc' = [pc EXCEPT ![x] = "creating"]
    /\ held' = [held EXCEPT ![x] = t]
    /\ told' = [told EXCEPT ![x] = s]
    /\ UNCHANGED mine

\* add is idempotent: a transfer of the item that has not failed is the answer.
Reusable(t) == Alive(t) /\ transfer[t] # "failed"

AddExisting(x, t) ==
    /\ pc[x] \in {"idle", "fetching"}
    /\ Reusable(t)
    /\ Answered(x, t, transfer[t])
    /\ UNCHANGED <<rowVars, transfer, opVars, syncVars, faults, stranded>>

\* Otherwise the plugin fetches the release, which takes awaits.
AddMisses(x) ==
    /\ pc[x] = "idle"
    /\ \A t \in Transfers : ~Reusable(t)
    /\ GoesTo(x, "fetching")
    /\ UNCHANGED <<rowVars, transfer, opVars, syncVars, faults, stranded>>

AddFresh(x, t) ==
    /\ pc[x] = "fetching"
    /\ transfer[t] = "none"
    /\ \A u \in Transfers : u < t => transfer[u] # "none"
    /\ transfer' = [transfer EXCEPT ![t] = "queued"]
    /\ Answered(x, t, "queued")
    /\ UNCHANGED <<rowVars, opVars, syncVars, faults, stranded>>

\* Refused: kill switch, storage limits, no such release.
AddFails(x) ==
    /\ pc[x] = "fetching"
    /\ Leaves(x)
    /\ UNCHANGED <<rowVars, transfer, opVars, syncVars, faults, stranded>>

\* create() found an active row: a transfer of its own that the row does not
\* name is a duplicate, and goes.
Lost(x) ==
    \E r \in Active : IF names[r] = held[x] THEN Leaves(x) ELSE GoesTo(x, "discarding")

Look(x) ==
    /\ pc[x] = "creating"
    /\ \/ Lost(x)
       \/ Active = {} /\ GoesTo(x, "inserting")
    /\ UNCHANGED <<rowVars, transfer, opVars, syncVars, faults, stranded>>

\* The two unique indexes of download_jobs.
Barred(x) == Active # {} \/ RowsOf(held[x]) # {}

Insert(x, r) ==
    /\ pc[x] = "inserting"
    /\ ~Barred(x)
    /\ names[r] = None
    /\ \A q \in Rows : q < r => names[q] # None
    /\ names' = [names EXCEPT ![r] = held[x]]
    /\ mine' = [mine EXCEPT ![x] = r]
    /\ pc' = [pc EXCEPT ![x] = "storing"]
    /\ UNCHANGED <<state, removed, handed, transfer, held, told, opVars, syncVars,
                   faults, stranded>>

InsertRefused(x) ==
    /\ pc[x] = "inserting"
    /\ Barred(x)
    /\ GoesTo(x, "losing")
    /\ UNCHANGED <<rowVars, transfer, opVars, syncVars, faults, stranded>>

\* The winner of the race, if there is one.
Winner(x) ==
    /\ pc[x] = "losing"
    /\ \/ Lost(x)
       \/ Active = {} /\ GoesTo(x, "finding")
    /\ UNCHANGED <<rowVars, transfer, opVars, syncVars, faults, stranded>>

\* updateProgress() refuses to move a completed row.
Refuses(r, s) == state[r] = "completed" /\ s # "completed"

StoreRead(x) ==
    /\ pc[x] = "storing"
    /\ GoesTo(x, IF Refuses(mine[x], told[x]) THEN "undoing" ELSE "writing")
    /\ UNCHANGED <<rowVars, transfer, opVars, syncVars, faults, stranded>>

StoreWrite(x) ==
    /\ pc[x] = "writing"
    /\ state' = [state EXCEPT ![mine[x]] = told[x]]
    /\ Leaves(x)
    /\ UNCHANGED <<names, removed, handed, transfer, opVars, syncVars, faults,
                   stranded>>

\* The catch block: flag the row it created, look who else names the transfer,
\* and take the transfer back unless somebody does.
Undo(x) ==
    /\ pc[x] = "undoing"
    /\ removed' = removed \cup {mine[x]}
    /\ GoesTo(x, "finding")
    /\ UNCHANGED <<names, state, handed, transfer, opVars, syncVars, faults,
                   stranded>>

Find(x) ==
    /\ pc[x] = "finding"
    /\ IF RowsOf(held[x]) \ {mine[x]} = {} THEN GoesTo(x, "dropping") ELSE Leaves(x)
    /\ UNCHANGED <<rowVars, transfer, opVars, syncVars, faults, stranded>>

Drop(x) ==
    /\ pc[x] \in {"discarding", "dropping"}
    /\ transfer' = [transfer EXCEPT ![held[x]] = "gone"]
    /\ Leaves(x)
    /\ UNCHANGED <<rowVars, opVars, syncVars, faults, stranded>>

\* A call to the database or to the plugin fails.  create() and
\* updateProgress() throw into the catch block, whose own calls do not.
AdderFault(x) ==
    /\ Fault
    /\ \/ /\ pc[x] \in {"creating", "inserting", "losing"}
          /\ GoesTo(x, "finding") /\ UNCHANGED stranded
       \/ /\ pc[x] \in {"storing", "writing"}
          /\ GoesTo(x, "undoing") /\ UNCHANGED stranded
       \/ /\ pc[x] = "undoing"
          /\ GoesTo(x, "finding") /\ UNCHANGED stranded
       \/ /\ pc[x] = "finding"
          /\ GoesTo(x, "dropping") /\ UNCHANGED stranded
       \/ /\ pc[x] \in {"discarding", "dropping"}
          /\ stranded' = stranded \cup {held[x]}
          /\ Leaves(x)
    /\ UNCHANGED <<rowVars, transfer, opVars, syncVars>>

------------------------------------------------------------------------------
(* An operator's action on a row *)

Done(o) ==
    /\ op' = [op EXCEPT ![o] = "done"]
    /\ request' = [request EXCEPT ![o] = None]
    /\ target' = [target EXCEPT ![o] = None]

Proceeds(o, label) ==
    /\ op' = [op EXCEPT ![o] = label]
    /\ UNCHANGED <<request, target>>

\* The route reads the row, whether it is removed or not.
Allowed(action, s) ==
    \/ action = "pause" /\ s = "downloading"
    \/ action = "resume" /\ s = "paused"
    \/ action = "retry" /\ s \in {"failed", "paused"}
    \/ action = "remove"

Ask(o, action, r) ==
    /\ op[o] = "idle"
    /\ names[r] # None
    /\ Allowed(action, state[r])
    /\ op' = [op EXCEPT ![o] = "calling"]
    /\ request' = [request EXCEPT ![o] = action]
    /\ target' = [target EXCEPT ![o] = r]
    /\ UNCHANGED <<rowVars, transfer, addVars, syncVars, faults, stranded>>

\* The plugin first, the row afterwards.
Call(o) ==
    LET t == names[target[o]] IN
    /\ op[o] = "calling"
    /\ Alive(t)
    /\ \E s \in Outcomes(request[o], transfer[t]) : transfer' = [transfer EXCEPT ![t] = s]
    /\ Proceeds(o, IF request[o] = "remove" THEN "flagging" ELSE "storing")
    /\ UNCHANGED <<rowVars, addVars, syncVars, faults, stranded>>

\* The plugin does not know the transfer, or refuses: tunnel down, obligations
\* of the tracker not met.  Mutant: the row is flagged all the same.
CallRefused_Flags(o) ==
    /\ op[o] = "calling"
    /\ Proceeds(o, "flagging")
    /\ UNCHANGED <<rowVars, transfer, addVars, syncVars, faults, stranded>>
CallRefused(o) ==
    /\ op[o] = "calling"
    /\ Done(o)
    /\ UNCHANGED <<rowVars, transfer, addVars, syncVars, faults, stranded>>

\* The state each action asks the row to take.
Asked == [pause |-> "paused", resume |-> "downloading", retry |-> "queued"]

\* updateProgress() and retry() read the row once more before they write.
RequestRead(o) ==
    LET r == target[o]
        refused == IF request[o] = "retry"
                   THEN r \in removed \/ state[r] \notin {"failed", "paused"}
                   ELSE Refuses(r, Asked[request[o]])
    IN
    /\ op[o] = "storing"
    /\ IF refused THEN Done(o) ELSE Proceeds(o, "writing")
    /\ UNCHANGED <<rowVars, transfer, addVars, syncVars, faults, stranded>>

RequestWrite(o) ==
    /\ op[o] = "writing"
    /\ state' = [state EXCEPT ![target[o]] = Asked[request[o]]]
    /\ Done(o)
    /\ UNCHANGED <<names, removed, handed, transfer, addVars, syncVars, faults, stranded>>

RequestFlag(o) ==
    /\ op[o] = "flagging"
    /\ removed' = removed \cup {target[o]}
    /\ Done(o)
    /\ UNCHANGED <<names, state, handed, transfer, addVars, syncVars, faults,
                   stranded>>

RequestFault(o) ==
    /\ op[o] \in {"storing", "writing", "flagging"}
    /\ Fault
    /\ Done(o)
    /\ UNCHANGED <<rowVars, transfer, addVars, syncVars, stranded>>

------------------------------------------------------------------------------
(* syncDownloadJobs(); the scheduler keeps its runs to one at a time *)

SyncAt(label) ==
    /\ sync' = label
    /\ UNCHANGED <<at, seen, todo, finished>>

\* The sync is through with the row it looks at.
NextRow ==
    /\ sync' = "next" /\ at' = None /\ seen' = None
    /\ UNCHANGED <<todo, finished>>

List ==
    /\ sync = "idle"
    /\ Active # {}
    /\ sync' = "next"
    /\ todo' = Active
    /\ finished' = {r \in Active : state[r] = "completed" /\ r \in handed}
    /\ UNCHANGED <<rowVars, transfer, addVars, opVars, at, seen, faults,
                   stranded>>

\* Mutant of Take: rows handed over before are not cleared from the queue.
Take_All(r) ==
    /\ sync = "next"
    /\ r \in todo
    /\ at' = r
    /\ todo' = todo \ {r}
    /\ sync' = "polling"
    /\ UNCHANGED <<rowVars, transfer, addVars, opVars, seen, finished, faults,
                   stranded>>
Take(r) ==
    /\ sync = "next"
    /\ r \in todo
    /\ at' = r
    /\ todo' = todo \ {r}
    /\ sync' = IF r \in finished THEN "flagging" ELSE "polling"
    /\ UNCHANGED <<rowVars, transfer, addVars, opVars, seen, finished, faults,
                   stranded>>

SyncEnds ==
    /\ sync = "next"
    /\ todo = {}
    /\ sync' = "idle" /\ finished' = {}
    /\ UNCHANGED <<rowVars, transfer, addVars, opVars, at, seen, todo, faults,
                   stranded>>

\* The plugin's answer.  Mutant of Poll: unknown_download is not told apart.
Poll_Unknown ==
    /\ sync = "polling"
    /\ sync' = "reading" /\ seen' = transfer[names[at]]
    /\ UNCHANGED <<rowVars, transfer, addVars, opVars, at, todo, finished, faults, stranded>>
Poll ==
    LET t == names[at] IN
    /\ sync = "polling"
    /\ IF Alive(t)
       THEN sync' = "reading" /\ seen' = transfer[t] /\ UNCHANGED <<at, todo, finished>>
       ELSE SyncAt("flagging")
    /\ UNCHANGED <<rowVars, transfer, addVars, opVars, faults, stranded>>

SyncRead ==
    /\ sync = "reading"
    /\ IF Refuses(at, seen) THEN NextRow ELSE SyncAt("writing")
    /\ UNCHANGED <<rowVars, transfer, addVars, opVars, faults, stranded>>

\* Is the row to be imported, by what updateProgress() returned?  Mutant: the
\* handoff it may hold already is not looked at.
Imports_Again(r, s) == s = "completed"
Imports(r, s) == s = "completed" /\ r \notin handed

SyncWrite ==
    /\ sync = "writing"
    /\ state' = [state EXCEPT ![at] = seen]
    /\ CASE seen = "failed" -> SyncAt("failing")
         [] Imports(at, seen) -> SyncAt("importing")
         [] OTHER -> NextRow
    /\ UNCHANGED <<names, removed, handed, transfer, addVars, opVars, faults,
                   stranded>>

\* markFailed(), left out when the list had the same reason already.
FailRead ==
    /\ sync = "failing"
    /\ \/ state[at] # "completed" /\ SyncAt("marking")
       \/ NextRow
    /\ UNCHANGED <<rowVars, transfer, addVars, opVars, faults, stranded>>

FailWrite ==
    /\ sync = "marking"
    /\ state' = [state EXCEPT ![at] = "failed"]
    /\ NextRow
    /\ UNCHANGED <<names, removed, handed, transfer, addVars, opVars, faults,
                   stranded>>

\* importCompletedDownload(): there are files only while the plugin says that
\* the transfer is completed.
Import ==
    /\ sync = "importing"
    /\ IF transfer[names[at]] = "completed" THEN SyncAt("recording") ELSE NextRow
    /\ UNCHANGED <<rowVars, transfer, addVars, opVars, faults, stranded>>

\* recordImportHandoff()
HandoffRead ==
    /\ sync = "recording"
    /\ CASE at \in handed -> SyncAt("flagging")
         [] at \notin handed /\ state[at] = "completed" -> SyncAt("handing")
         [] OTHER -> NextRow
    /\ UNCHANGED <<rowVars, transfer, addVars, opVars, faults, stranded>>

HandoffWrite ==
    /\ sync = "handing"
    /\ handed' = handed \cup {at}
    /\ SyncAt("flagging")
    /\ UNCHANGED <<names, state, removed, transfer, addVars, opVars, faults,
                   stranded>>

SyncFlag ==
    /\ sync = "flagging"
    /\ removed' = removed \cup {at}
    /\ NextRow
    /\ UNCHANGED <<names, state, handed, transfer, addVars, opVars, faults,
                   stranded>>

\* The client does not answer, the import fails or a query does: the row is
\* left with a warning, or the whole run fails.
SyncFault ==
    /\ sync # "idle"
    /\ Fault
    /\ \/ sync # "next" /\ NextRow
       \/ /\ sync' = "idle" /\ at' = None /\ seen' = None
          /\ todo' = {} /\ finished' = {}
    /\ UNCHANGED <<rowVars, transfer, addVars, opVars, stranded>>

------------------------------------------------------------------------------
(* The core process ends; the rows and the plugins' resume documents remain *)

Carried == {held[x] : x \in Adders} \ {None}

Crash ==
    /\ Fault
    /\ pc' = [x \in Adders |-> IF pc[x] = "idle" THEN "idle" ELSE "done"]
    /\ held' = [x \in Adders |-> None]
    /\ told' = [x \in Adders |-> None]
    /\ mine' = [x \in Adders |-> None]
    /\ op' = [o \in Operators |-> IF op[o] = "idle" THEN "idle" ELSE "done"]
    /\ request' = [o \in Operators |-> None]
    /\ target' = [o \in Operators |-> None]
    /\ sync' = "idle" /\ at' = None /\ seen' = None
    /\ todo' = {} /\ finished' = {}
    /\ stranded' = stranded \cup Carried
    /\ UNCHANGED <<rowVars, transfer>>

------------------------------------------------------------------------------
(* Specification *)

AdderStep(x) ==
    \/ \E t \in Transfers : AddExisting(x, t) \/ AddFresh(x, t)
    \/ AddMisses(x) \/ AddFails(x) \/ Look(x) \/ InsertRefused(x) \/ Winner(x)
    \/ \E r \in Rows : Insert(x, r)
    \/ StoreRead(x) \/ StoreWrite(x) \/ Undo(x) \/ Find(x) \/ Drop(x)

OperatorStep(o) ==
    \/ \E action \in Actions, r \in Rows : Ask(o, action, r)
    \/ Call(o) \/ CallRefused(o) \/ RequestRead(o) \/ RequestWrite(o) \/ RequestFlag(o)

SyncStep ==
    \/ List \/ SyncEnds \/ Poll \/ SyncRead \/ SyncWrite \/ FailRead \/ FailWrite
    \/ Import \/ HandoffRead \/ HandoffWrite \/ SyncFlag
    \/ \E r \in Rows : Take(r)

Next ==
    \/ \E t \in Transfers : Progress(t) \/ Recover(t)
    \/ \E x \in Adders : AdderStep(x) \/ AdderFault(x)
    \/ \E o \in Operators : OperatorStep(o) \/ RequestFault(o)
    \/ SyncStep \/ SyncFault
    \/ Crash

\* The scheduler starts "download-sync" every two seconds and each of its
\* awaits ends.
Fairness == WF_vars(SyncStep)

Spec == Init /\ [][Next]_vars
FairSpec == Spec /\ Fairness

------------------------------------------------------------------------------
(* Properties *)

\* Nothing the plugin works on is out of the core's sight: a transfer that is
\* there is named by a row of the queue or by one that was imported, or a grab
\* still holds it, or a fault took it from that grab.
Tracked ==
    \A t \in Transfers : Alive(t) =>
        \/ t \in Carried \cup stranded
        \/ \E r \in RowsOf(t) : r \notin removed \/ r \in handed

\* Grabs that race for the item leave it with one download: of the transfers
\* no grab holds, at most one has its import still to come.
OneDownload ==
    LET pending == {t \in Transfers :
                       /\ Alive(t) /\ t \notin Carried \cup stranded
                       /\ RowsOf(t) \cap handed = {}}
    IN \A t, u \in pending : t = u

\* A row that has its handoff is not imported once more, though its state may
\* have been overwritten after the import.
NoSecondImport == sync \in {"importing", "recording"} => at \notin handed

\* Hazard: grabs race for the item, their undo may fail, and rows that were
\* imported are written over (pipeline.ts:284, download-jobs.ts:199).  However
\* it goes the item has one download to come, and a download one import.
ImportedOnce == OneDownload /\ NoSecondImport

\* A row in the queue whose transfer has completed, or is unknown to the
\* plugin, does not stay there.
Settled(r) == r \in Active /\ transfer[names[r]] \in {"completed", "gone"}
QueueDrains == \A r \in Rows : Settled(r) ~> ~Settled(r)

\* A grab that the indexes refuse has lost to a row of the queue: an item that
\* was imported may be fetched again.
RefusedByWinner ==
    \A x \in Adders : pc[x] = "inserting" /\ Barred(x) => Active # {}
==============================================================================
