--------------------------- MODULE SchedulerProofs ---------------------------
(* Machine-checked theorems about Scheduler, for every set of jobs, workers  *)
(* and resources, every fault and every bound.                               *)
EXTENDS Scheduler, TLAPS

------------------------------------------------------------------------------
(* The inductive invariant *)

\* A worker has a job exactly while it is busy, and that job is declared in
\* this process or its library was removed meanwhile.
CarriedJobs ==
    /\ \A w \in Workers :
          IF pc[w] = "idle" THEN runJob[w] = None
          ELSE runJob[w] \in handlers \cup removed
    /\ handlers \cap removed = {}

\* The claim is a lock on the row for as long as there is a row; a row that
\* disappears under a run belongs to a removed library and never comes back.
OwnersHoldLocks ==
    \A w \in Workers : Owning(w) =>
        /\ runJob[w] \in rows => runJob[w] \in locked
        /\ runJob[w] \notin rows => runJob[w] \in removed

\* A process that is not there has no worker, no handler and no resource.
DownIsEmpty ==
    ~Running => /\ \A w \in Workers : pc[w] = "idle"
                /\ handlers = {} /\ resources = {}

UsingPcs == {"started", "executing", "returned", "recorded", "failing", "finalizing"}

\* A run's resource is in the set, is nobody else's, and is the one its
\* definition names unless the definition was gone when the run began.
UsersOwnResources ==
    \A w \in Workers : uses[w] # None =>
        /\ pc[w] \in UsingPcs
        /\ uses[w] \in resources
        /\ runJob[w] \in handlers => uses[w] = ResourceOf[runJob[w]]
        /\ \A v \in Workers : v # w => uses[v] # uses[w]

ExecutorsUse ==
    \A w \in Workers : Executing(w) => uses[w] = ResourceOf[runJob[w]]

\* What the lock on a row guarantees, and what #resources guarantees.
LockInv == CarriedJobs /\ OwnersHoldLocks /\ OneRunPerJob
ResourceInv == UsersOwnResources /\ NoResourceLeak /\ ExecutorsUse

IInv == TypeOK /\ DownIsEmpty /\ LockInv /\ ResourceInv

------------------------------------------------------------------------------
(* Type correctness *)

\* What every step leaves well typed: one lemma per group of actions.
\* Starting, stopping and crashing keep every variable in its type.
LEMMA ProcessType ==
    ASSUME TypeOK, Boot \/ Stop \/ Exit \/ Crash \/ Advance
    PROVE  TypeOK'
BY JobAssumption, ResourceAssumption, ScheduleAssumption, ResultAssumption
DEF TypeOK, table, RunStates, Pcs, OwningPcs, Workers, vars, dbVars, runVars, tickVars,
    envVars, Boot, Stop, Exit, Crash, Advance, NoMemory, RecoveredRun

\* Declaring a job writes a row.
LEMMA DeclareType ==
    ASSUME TypeOK, NEW j \in Jobs, NEW s \in Schedules, DeclareJob(j, s)
    PROVE  TypeOK'
BY JobAssumption, ResourceAssumption, ScheduleAssumption, ResultAssumption
DEF TypeOK, table, RunStates, Pcs, OwningPcs, Workers, vars, dbVars, runVars, tickVars,
    envVars, DeclareJob, Planned, NextRunAt, Never

\* Editing a job writes a row.
LEMMA UpdateType ==
    ASSUME TypeOK, NEW j \in Jobs, NEW s \in Schedules, NEW e \in BOOLEAN, UpdateJob(j, s, e)
    PROVE  TypeOK'
BY JobAssumption, ResourceAssumption, ScheduleAssumption, ResultAssumption
DEF TypeOK, table, RunStates, Pcs, OwningPcs, Workers, vars, dbVars, runVars, tickVars,
    envVars, UpdateJob, Planned, NextRunAt, Never

\* Removing a library's job empties its row.
LEMMA RemoveType ==
    ASSUME TypeOK, NEW j \in Jobs, DropHandler(j) \/ DeleteRow(j)
    PROVE  TypeOK'
BY JobAssumption, ResourceAssumption, ScheduleAssumption, ResultAssumption
DEF TypeOK, table, RunStates, Pcs, OwningPcs, Workers, vars, dbVars, runVars, tickVars,
    envVars, DropHandler, DeleteRow, Never

\* A tick moves jobs from its snapshot to its worker.
LEMMA TickType ==
    ASSUME TypeOK, NEW t \in Ticks, NEW j \in Jobs, TickStart(t) \/ TickSkips(t, j) \/ TickTakes(t, j)
    PROVE  TypeOK'
BY JobAssumption, ResourceAssumption, ScheduleAssumption, ResultAssumption
DEF TypeOK, table, RunStates, Pcs, OwningPcs, Workers, vars, dbVars, runVars, tickVars,
    envVars, TickStart, Due, TickSkips, TickTakes, Admit

\* A dispatch hands a job to its worker.
LEMMA DispatchType ==
    ASSUME TypeOK, NEW w \in Callers, NEW j \in Jobs, Dispatch(w, j)
    PROVE  TypeOK'
BY JobAssumption, ResourceAssumption, ScheduleAssumption, ResultAssumption
DEF TypeOK, table, RunStates, Pcs, OwningPcs, Workers, vars, dbVars, runVars, tickVars,
    envVars, Dispatch, Admit

\* A claim, granted or not.
LEMMA ClaimType ==
    ASSUME TypeOK, NEW w \in Workers, Claim(w) \/ ClaimRefused(w) \/ ClaimFails(w)
    PROVE  TypeOK'
<1>1. CASE Claim(w)
  <2>1. runJob[w] \in Jobs
    BY <1>1 DEF Claim, Claimable, TypeOK
  <2> QED
    BY <1>1, <2>1, JobAssumption, ResourceAssumption
  DEF TypeOK, table, RunStates, Pcs, OwningPcs, Workers, vars,
          dbVars, runVars, tickVars, envVars, Claim, GoTo, Over,
          History
<1>2. CASE ClaimRefused(w)
  BY <1>2, JobAssumption, ResourceAssumption
  DEF TypeOK, table, RunStates, Pcs, OwningPcs, Workers, vars,
          dbVars, runVars, tickVars, envVars, ClaimRefused, GoTo,
          Over, History
<1>3. CASE ClaimFails(w)
  BY <1>3, JobAssumption, ResourceAssumption
  DEF TypeOK, table, RunStates, Pcs, OwningPcs, Workers, vars,
          dbVars, runVars, tickVars, envVars, ClaimFails, GoTo,
          Over, History
<1> QED BY <1>1, <1>2, <1>3

\* Beginning a run, or giving its claim back.
LEMMA BeginType ==
    ASSUME TypeOK, CarriedJobs, NEW w \in Workers, Begin(w) \/ BeginFails(w) \/ Unclaim(w)
    PROVE  TypeOK'
<1>1. CASE Begin(w)
  <2>1. ResourceFor(runJob[w]) \in Resources
    BY <1>1, JobAssumption, ResourceAssumption
    DEF Begin, GoTo, ResourceFor, TypeOK, CarriedJobs
  <2> QED
    BY <1>1, <2>1, JobAssumption, ResourceAssumption
  DEF TypeOK, table, RunStates, Pcs, OwningPcs, Workers, vars,
          dbVars, runVars, tickVars, envVars, Begin, GoTo, Over,
          History
<1>2. CASE BeginFails(w)
  BY <1>2, JobAssumption, ResourceAssumption
  DEF TypeOK, table, RunStates, Pcs, OwningPcs, Workers, vars,
          dbVars, runVars, tickVars, envVars, BeginFails, GoTo,
          Over, History, ResourceFor
<1>3. CASE Unclaim(w)
  BY <1>3, JobAssumption, ResourceAssumption
  DEF TypeOK, table, RunStates, Pcs, OwningPcs, Workers, vars,
          dbVars, runVars, tickVars, envVars, Unclaim, GoTo, Over,
          History, ResourceFor
<1> QED BY <1>1, <1>2, <1>3

\* Entering the handler.
LEMMA EnterType ==
    ASSUME TypeOK, NEW w \in Workers, Enter(w) \/ EnterBlocked(w) \/ EnterMissing(w)
    PROVE  TypeOK'
BY JobAssumption, ResourceAssumption, ScheduleAssumption, ResultAssumption
DEF TypeOK, table, RunStates, Pcs, OwningPcs, Workers, vars, dbVars, runVars, tickVars,
    envVars, Enter, EnterBlocked, EnterMissing, GoTo, CountedUp

\* The handler returns a result.
LEMMA ReturnType ==
    ASSUME TypeOK, NEW w \in Workers, NEW s \in JobResults, HandlerReturns(w, s)
    PROVE  TypeOK'
BY ResultAssumption
DEF TypeOK, table, RunStates, Pcs, OwningPcs, dbVars, tickVars, envVars,
    HandlerReturns, GoTo

\* It throws, or what it returned is recorded, or cannot be.
LEMMA OutcomeType ==
    ASSUME TypeOK, NEW w \in Workers,
           \/ HandlerThrows(w) \/ Record(w) \/ RecordFails(w) \/ Finish(w)
           \/ PublishFails(w) \/ Fail(w) \/ FailFails(w)
    PROVE  TypeOK'
BY DEF TypeOK, table, RunStates, Pcs, OwningPcs, dbVars, tickVars, envVars,
       HandlerThrows, Record, RecordFails, Finish, PublishFails, Fail, FailFails, GoTo

\* The finally block.
LEMMA ReleaseType ==
    ASSUME TypeOK, NEW w \in Workers, ReadBack(w) \/ ReadNothing(w) \/ Unlock(w) \/ ReleaseFails(w)
    PROVE  TypeOK'
<1>1. CASE ReadBack(w)
  BY <1>1, JobAssumption, ResourceAssumption
  DEF TypeOK, table, RunStates, Pcs, OwningPcs, Workers, vars,
          dbVars, runVars, tickVars, envVars, ReadBack, Planned,
          NextRunAt, Never, Freed, GoTo, Over, History
<1>2. CASE ReadNothing(w)
  BY <1>2, JobAssumption, ResourceAssumption
  DEF TypeOK, table, RunStates, Pcs, OwningPcs, Workers, vars,
          dbVars, runVars, tickVars, envVars, ReadNothing, Planned,
          NextRunAt, Never, Freed, GoTo, Over, History
<1>3. CASE Unlock(w)
  <2>1. nextRun' \in [Jobs -> Nat] /\ locked' \in SUBSET Jobs
    BY <1>3 DEF Unlock, Planned, NextRunAt, Never, TypeOK
  <2>2. fired' \in [Jobs -> Nat]
    BY <1>3 DEF Unlock, TypeOK
  <2>3. /\ pc' \in [Workers -> Pcs] /\ ledger' \in [Workers -> RunStates]
        /\ runJob' \in [Workers -> Jobs \cup {None}]
        /\ uses' \in [Workers -> Resources \cup {None}]
        /\ result' \in [Workers -> RunStates] /\ captured' \in [Workers -> Nat]
    BY <1>3 DEF Unlock, TypeOK, Over, History, Pcs, RunStates
  <2> QED
    BY <1>3, <2>1, <2>2, <2>3 DEF Unlock, TypeOK, tickVars, envVars
<1>4. CASE ReleaseFails(w)
  BY <1>4, JobAssumption, ResourceAssumption
  DEF TypeOK, table, RunStates, Pcs, OwningPcs, Workers, vars,
          dbVars, runVars, tickVars, envVars, ReleaseFails, Planned,
          NextRunAt, Never, Freed, GoTo, Over, History
<1> QED BY <1>1, <1>2, <1>3, <1>4

------------------------------------------------------------------------------
(* The two shapes most steps of a run have *)

\* A worker moves from one await to the next between Begin and finally{}.
LEMMA Moves ==
    ASSUME IInv, NEW w \in Workers, NEW to \in UsingPcs,
           pc[w] \in UsingPcs, pc' = [pc EXCEPT ![w] = to],
           to = "executing" => uses[w] = ResourceOf[runJob[w]],
           UNCHANGED <<rows, locked, removed, phase, handlers, resources, runJob, uses>>
    PROVE  DownIsEmpty' /\ LockInv' /\ ResourceInv'
<1> USE DEF IInv, TypeOK, UsingPcs, OwningPcs, Pcs
<1>1. DownIsEmpty'
  BY DEF DownIsEmpty, Running
<1>2. CarriedJobs'
  BY DEF LockInv, CarriedJobs
<1>3. OwnersHoldLocks' /\ OneRunPerJob'
  BY DEF LockInv, OwnersHoldLocks, OneRunPerJob, Owning
<1>4. UsersOwnResources' /\ NoResourceLeak'
  BY DEF ResourceInv, UsersOwnResources, NoResourceLeak
<1>5. ExecutorsUse'
  BY DEF ResourceInv, ExecutorsUse, Executing
<1> QED
  BY <1>1, <1>2, <1>3, <1>4, <1>5 DEF LockInv, ResourceInv

\* A worker comes to the end of its run, having unlocked its job or not.
LEMMA Ends ==
    ASSUME IInv, NEW w \in Workers,
           pc[w] # "idle",
           pc' = [pc EXCEPT ![w] = "idle"],
           runJob' = [runJob EXCEPT ![w] = None],
           uses' = [uses EXCEPT ![w] = None],
           resources' = resources \ {uses[w]},
           \/ locked' = locked
           \/ Owning(w) /\ locked' = locked \ {runJob[w]},
           UNCHANGED <<rows, removed, phase, handlers>>
    PROVE  DownIsEmpty' /\ LockInv' /\ ResourceInv'
<1> USE DEF IInv, TypeOK
<1>1. DownIsEmpty'
  BY DEF DownIsEmpty, Running
<1>2. CarriedJobs'
  BY DEF LockInv, CarriedJobs
<1>3. OneRunPerJob'
  BY DEF LockInv, OneRunPerJob, Owning, OwningPcs
<1>4. OwnersHoldLocks'
  BY DEF LockInv, OwnersHoldLocks, OneRunPerJob, Owning, OwningPcs
<1>5. UsersOwnResources'
  BY JobAssumption DEF ResourceInv, UsersOwnResources
<1>6. NoResourceLeak'
  BY DEF ResourceInv, NoResourceLeak
<1>7. ExecutorsUse'
  BY DEF ResourceInv, ExecutorsUse, Executing
<1> QED
  BY <1>1, <1>2, <1>3, <1>4, <1>5, <1>6, <1>7 DEF LockInv, ResourceInv

------------------------------------------------------------------------------
(* One lemma per group of actions *)

\* Starting, stopping, crashing: either nothing moved or nothing is left.
LEMMA ProcessInv ==
    ASSUME IInv, Boot \/ Stop \/ Exit \/ Crash \/ Advance
    PROVE  DownIsEmpty' /\ LockInv' /\ ResourceInv'
<1> USE DEF IInv, TypeOK, LockInv, ResourceInv, DownIsEmpty, CarriedJobs,
            OwnersHoldLocks, OneRunPerJob, UsersOwnResources, NoResourceLeak,
            ExecutorsUse, Owning, Executing, OwningPcs, UsingPcs, Running, dbVars,
            table, runVars
<1>1. CASE Boot
  BY <1>1 DEF Boot
<1>2. CASE Stop
  BY <1>2 DEF Stop
<1>3. CASE Exit \/ Crash
  BY <1>3 DEF Exit, Crash, NoMemory
<1>4. CASE Advance
  BY <1>4 DEF Advance
<1> QED
  BY <1>1, <1>2, <1>3, <1>4

\* Declaring and editing jobs move no worker, and a row they insert has no
\* owner.
LEMMA DefinitionInv ==
    ASSUME IInv, NEW j \in Jobs, NEW s \in Schedules,
           DeclareJob(j, s) \/ \E e \in BOOLEAN : UpdateJob(j, s, e)
    PROVE  DownIsEmpty' /\ LockInv' /\ ResourceInv'
<1> USE DEF IInv, TypeOK, LockInv, ResourceInv, DownIsEmpty, CarriedJobs,
            OwnersHoldLocks, OneRunPerJob, UsersOwnResources, NoResourceLeak,
            ExecutorsUse, Owning, Executing, OwningPcs, UsingPcs, Running, dbVars,
            table, runVars
<1>1. CASE DeclareJob(j, s)
  <2>1. \A w \in Workers : uses[w] # None => runJob[w] # j
    BY <1>1 DEF DeclareJob
  <2> QED
    BY <1>1, <2>1 DEF DeclareJob
<1>2. CASE \E e \in BOOLEAN : UpdateJob(j, s, e)
  BY <1>2 DEF UpdateJob
<1> QED
  BY <1>1, <1>2

\* A library's jobs are removed: a run in progress keeps what it holds.
LEMMA RemovalInv ==
    ASSUME IInv, NEW j \in Jobs, DropHandler(j) \/ DeleteRow(j)
    PROVE  DownIsEmpty' /\ LockInv' /\ ResourceInv'
<1> USE DEF IInv, TypeOK, LockInv, ResourceInv, DownIsEmpty, CarriedJobs,
            OwnersHoldLocks, OneRunPerJob, UsersOwnResources, NoResourceLeak,
            ExecutorsUse, Owning, Executing, OwningPcs, UsingPcs, Running, dbVars,
            table, runVars
<1>1. CASE DropHandler(j)
  BY <1>1 DEF DropHandler
<1>2. CASE DeleteRow(j)
  BY <1>2 DEF DeleteRow
<1> QED
  BY <1>1, <1>2

\* A tick's snapshot, and a worker handed a job it has not claimed yet.
LEMMA AdmissionInv ==
    ASSUME IInv, NEW w \in Workers, NEW j \in Jobs,
           \/ w \in Ticks /\ (TickStart(w) \/ TickSkips(w, j) \/ TickTakes(w, j))
           \/ Dispatch(w, j)
    PROVE  DownIsEmpty' /\ LockInv' /\ ResourceInv'
<1> USE DEF IInv, TypeOK, LockInv, ResourceInv, DownIsEmpty, CarriedJobs,
            OwnersHoldLocks, OneRunPerJob, UsersOwnResources, NoResourceLeak,
            ExecutorsUse, Owning, Executing, OwningPcs, UsingPcs, Running, dbVars,
            table, runVars
<1>1. CASE w \in Ticks /\ (TickStart(w) \/ TickSkips(w, j))
  <2>1. UNCHANGED <<pc, runJob, uses, resources, handlers, rows, locked, removed, phase>>
    BY <1>1 DEF TickStart, TickSkips
  <2> QED
    BY <2>1
<1>2. CASE (w \in Ticks /\ TickTakes(w, j)) \/ Dispatch(w, j)
  <2>1. /\ pc[w] = "idle" /\ pc' = [pc EXCEPT ![w] = "admitted"]
        /\ runJob' = [runJob EXCEPT ![w] = j] /\ j \in handlers
        /\ UNCHANGED <<uses, resources, handlers, rows, locked, removed, phase>>
    BY <1>2 DEF TickTakes, Dispatch, Admit
  <2>2. Running
    BY <1>2, <2>1 DEF Dispatch, TickTakes
  <2> QED
    BY <2>1, <2>2
<1> QED
  BY <1>1, <1>2

\* The claim and the first steps of #run.
LEMMA BeginInv ==
    ASSUME IInv, NEW w \in Workers, Claim(w) \/ Begin(w) \/ BeginFails(w)
    PROVE  DownIsEmpty' /\ LockInv' /\ ResourceInv'
<1> USE DEF IInv, TypeOK, LockInv, ResourceInv, DownIsEmpty, CarriedJobs,
            OwnersHoldLocks, OneRunPerJob, UsersOwnResources, NoResourceLeak,
            ExecutorsUse, Owning, Executing, OwningPcs, UsingPcs, Running, dbVars,
            table, runVars
<1>1. CASE Claim(w)
  <2>1. \A v \in Workers : Owning(v) => runJob[v] # runJob[w]
    BY <1>1 DEF Claim, Claimable
  <2> QED
    BY <1>1, <2>1 DEF Claim, Claimable, GoTo
<1>2. CASE Begin(w)
  <2> DEFINE x == ResourceFor(runJob[w])
  <2>1. /\ x \in Resources /\ x # None /\ uses[w] = None
        /\ runJob[w] \in handlers => x = ResourceOf[runJob[w]]
        /\ None \notin resources
        /\ x \notin resources => \A v \in Workers : uses[v] # x
    BY <1>2, JobAssumption, ResourceAssumption DEF Begin, GoTo, ResourceFor
  <2>2. /\ uses' = [uses EXCEPT ![w] = IF x \in resources THEN None ELSE x]
        /\ resources' = resources \cup {x}
        /\ pc' = [pc EXCEPT ![w] = "started"]
        /\ UNCHANGED <<runJob, handlers>>
    BY <1>2 DEF Begin, GoTo
  <2>2a. UsersOwnResources'
    BY <2>1, <2>2
  <2>2b. NoResourceLeak'
    BY <2>1, <2>2
  <2>3. DownIsEmpty' /\ LockInv' /\ ExecutorsUse'
    BY <1>2 DEF Begin, GoTo
  <2> QED
    BY <2>2a, <2>2b, <2>3
<1>3. CASE BeginFails(w)
  BY <1>3 DEF BeginFails, GoTo
<1> QED
  BY <1>1, <1>2, <1>3

\* The handler is entered with its resource in hand, or not at all.
LEMMA EntryInv ==
    ASSUME IInv, NEW w \in Workers, Enter(w) \/ EnterBlocked(w) \/ EnterMissing(w)
    PROVE  DownIsEmpty' /\ LockInv' /\ ResourceInv'
<1>1. /\ pc[w] \in UsingPcs
      /\ UNCHANGED <<rows, locked, removed, phase, handlers, resources, runJob, uses>>
  BY DEF Enter, EnterBlocked, EnterMissing, GoTo, UsingPcs, dbVars, table
<1>2. CASE Enter(w)
  <2>1. pc' = [pc EXCEPT ![w] = "executing"] /\ uses[w] = ResourceOf[runJob[w]]
    BY <1>2 DEF Enter, GoTo, IInv, ResourceInv, UsersOwnResources
  <2> QED
    BY <1>1, <2>1, Moves DEF UsingPcs
<1>3. CASE EnterBlocked(w) \/ EnterMissing(w)
  <2>1. \E to \in UsingPcs \ {"executing"} : pc' = [pc EXCEPT ![w] = to]
    BY <1>3 DEF EnterBlocked, EnterMissing, GoTo, UsingPcs
  <2> QED
    BY <1>1, <2>1, Moves
<1> QED
  BY <1>2, <1>3

\* The handler returns a result.
LEMMA HandlerInv ==
    ASSUME IInv, NEW w \in Workers, NEW s \in JobResults, HandlerReturns(w, s)
    PROVE  DownIsEmpty' /\ LockInv' /\ ResourceInv'
BY Moves DEF HandlerReturns, GoTo, UsingPcs, dbVars, table

\* It throws, or what it returned is recorded, or cannot be.
LEMMA OutcomeInv ==
    ASSUME IInv, NEW w \in Workers,
           \/ HandlerThrows(w) \/ Record(w) \/ RecordFails(w) \/ Finish(w)
           \/ PublishFails(w) \/ Fail(w) \/ FailFails(w)
    PROVE  DownIsEmpty' /\ LockInv' /\ ResourceInv'
<1>1. /\ pc[w] \in UsingPcs
      /\ UNCHANGED <<rows, locked, removed, phase, handlers, resources, runJob, uses>>
  BY DEF HandlerThrows, Record, RecordFails, Finish, PublishFails, Fail, FailFails,
         GoTo, UsingPcs, dbVars, table
<1>2. \E to \in UsingPcs \ {"executing"} : pc' = [pc EXCEPT ![w] = to]
  BY DEF HandlerThrows, Record, RecordFails, Finish, PublishFails, Fail, FailFails,
         GoTo, UsingPcs
<1> QED
  BY <1>1, <1>2, Moves

\* Every way a run, or an admission that came to nothing, is over.
LEMMA OverInv ==
    ASSUME IInv, NEW w \in Workers,
           \/ ClaimRefused(w) \/ ClaimFails(w) \/ Unclaim(w)
           \/ ReadNothing(w) \/ Unlock(w) \/ ReleaseFails(w)
    PROVE  DownIsEmpty' /\ LockInv' /\ ResourceInv'
<1>1. pc[w] \notin UsingPcs => resources = resources \ {uses[w]}
  BY JobAssumption DEF IInv, TypeOK, ResourceInv, UsersOwnResources
<1>2. /\ pc[w] # "idle"
      /\ pc' = [pc EXCEPT ![w] = "idle"]
      /\ runJob' = [runJob EXCEPT ![w] = None]
      /\ uses' = [uses EXCEPT ![w] = None]
      /\ UNCHANGED <<rows, removed, phase, handlers>>
  BY DEF ClaimRefused, ClaimFails, Unclaim, ReadNothing, Unlock, ReleaseFails, Over,
      table
<1>3. resources' = resources \ {uses[w]}
  BY <1>1 DEF ClaimRefused, ClaimFails, Unclaim, ReadNothing, Unlock, ReleaseFails,
              Freed, UsingPcs
<1>4. locked' = locked \/ (Owning(w) /\ locked' = locked \ {runJob[w]})
  <2>1. CASE Unclaim(w) \/ Unlock(w)
    BY <2>1 DEF Unclaim, Unlock, Owning, OwningPcs
  <2>2. CASE ~(Unclaim(w) \/ Unlock(w))
    BY <2>2 DEF ClaimRefused, ClaimFails, ReadNothing, ReleaseFails, table
  <2> QED
    BY <2>1, <2>2
<1> QED
  BY <1>2, <1>3, <1>4, Ends

\* finally{} gives the resource back one await before it unlocks the row.
LEMMA ReadBackInv ==
    ASSUME IInv, NEW w \in Workers, ReadBack(w)
    PROVE  DownIsEmpty' /\ LockInv' /\ ResourceInv'
BY JobAssumption
DEF ReadBack, GoTo, Freed, IInv, TypeOK, LockInv, ResourceInv, DownIsEmpty, CarriedJobs,
    OwnersHoldLocks, OneRunPerJob, UsersOwnResources, NoResourceLeak, ExecutorsUse,
    Owning, Executing, OwningPcs, UsingPcs, Running, dbVars, table

------------------------------------------------------------------------------
(* Theorems *)

\* IInv holds of an empty database before the first boot.
LEMMA InitInv ==
    ASSUME Init
    PROVE  IInv
<1>1. TypeOK
  BY DEF Init, TypeOK, Never, Pcs, RunStates
<1>2. DownIsEmpty /\ LockInv /\ ResourceInv
  BY DEF Init, DownIsEmpty, LockInv, ResourceInv, CarriedJobs, OwnersHoldLocks,
         OneRunPerJob, UsersOwnResources, NoResourceLeak, ExecutorsUse, Owning,
         Executing, OwningPcs
<1> QED
  BY <1>1, <1>2 DEF IInv

\* IInv is inductive: one step per group of actions of Next.
LEMMA StepInv ==
    ASSUME IInv, [Next]_vars
    PROVE  IInv'
<1> TypeOK /\ CarriedJobs
  BY DEF IInv, LockInv
<1>1. CASE Boot \/ Stop \/ Exit \/ Crash \/ Advance
  BY <1>1, ProcessType, ProcessInv DEF IInv
<1>2. CASE \E j \in Jobs, s \in Schedules : DeclareJob(j, s)
  BY <1>2, DeclareType, DefinitionInv DEF IInv
<1>3. CASE \E j \in Jobs, s \in Schedules : \E e \in BOOLEAN : UpdateJob(j, s, e)
  BY <1>3, UpdateType, DefinitionInv DEF IInv
<1>4. CASE \E j \in Jobs : DropHandler(j) \/ DeleteRow(j)
  BY <1>4, RemoveType, RemovalInv DEF IInv
<1>5. CASE \E w \in Callers, j \in Jobs : Dispatch(w, j)
  BY <1>5, DispatchType, AdmissionInv DEF IInv, Workers
<1>6. CASE \E t \in Ticks : TickStart(t) \/ TickStep(t)
  <2>1. \A t \in Ticks : TickStart(t) => \E j \in Jobs : TRUE
    BY DEF TickStart, Due
  <2> QED
    BY <1>6, <2>1, TickType, AdmissionInv DEF IInv, Workers, TickStep
<1>7. ASSUME NEW w \in Workers, RunStep(w)
      PROVE  IInv'
  <2>1. CASE Claim(w) \/ Begin(w) \/ BeginFails(w)
    BY <2>1, ClaimType, BeginType, BeginInv DEF IInv
  <2>2. CASE Enter(w) \/ EnterBlocked(w) \/ EnterMissing(w)
    BY <2>2, EnterType, EntryInv DEF IInv
  <2>3. CASE \E s \in JobResults : HandlerReturns(w, s)
    BY <2>3, ReturnType, HandlerInv DEF IInv
  <2>4. CASE \/ HandlerThrows(w) \/ Record(w) \/ RecordFails(w) \/ Finish(w)
             \/ PublishFails(w) \/ Fail(w) \/ FailFails(w)
    BY <2>4, OutcomeType, OutcomeInv DEF IInv
  <2>5. CASE ClaimRefused(w) \/ ClaimFails(w) \/ Unclaim(w)
    BY <2>5, ClaimType, BeginType, OverInv DEF IInv
  <2>6. CASE ReadNothing(w) \/ Unlock(w) \/ ReleaseFails(w)
    BY <2>6, ReleaseType, OverInv DEF IInv
  <2>7. CASE ReadBack(w)
    BY <2>7, ReleaseType, ReadBackInv DEF IInv
  <2> QED
    BY <1>7, <2>1, <2>2, <2>3, <2>4, <2>5, <2>6, <2>7 DEF RunStep
<1>8. CASE UNCHANGED vars
  BY <1>8 DEF vars, dbVars, table, runVars, tickVars, envVars, IInv, TypeOK, LockInv,
         ResourceInv, DownIsEmpty, CarriedJobs, OwnersHoldLocks, OneRunPerJob,
         UsersOwnResources, NoResourceLeak, ExecutorsUse, Owning, Executing, Running
<1> QED
  BY <1>1, <1>2, <1>3, <1>4, <1>5, <1>6, <1>7, <1>8 DEF Next

\* IInv holds in every reachable state.
THEOREM Invariance == Spec => []IInv
<1>1. Init => IInv
  BY InitInv
<1>2. IInv /\ [Next]_vars => IInv'
  BY StepInv
<1> QED
  BY <1>1, <1>2, PTL DEF Spec

\* Every variable keeps its type.
THEOREM TypeCorrectness == Spec => []TypeOK
<1>1. IInv => TypeOK
  BY DEF IInv
<1> QED
  BY <1>1, Invariance, PTL

\* No two handlers run on one resource, whatever fails and whenever jobs are
\* declared, edited and removed: an entered handler holds its resource.
THEOREM SchedulerExclusion == Spec => []MutualExclusion
<1>1. IInv => MutualExclusion
  <2> SUFFICES ASSUME IInv, NEW v \in Workers, NEW w \in Workers,
                      v # w, Executing(v), Executing(w)
               PROVE  ResourceOf[runJob[v]] # ResourceOf[runJob[w]]
    BY DEF MutualExclusion
  <2>1. uses[v] = ResourceOf[runJob[v]] /\ uses[w] = ResourceOf[runJob[w]]
    BY DEF IInv, ResourceInv, ExecutorsUse
  <2>2. uses[v] # None
    <3>1. runJob[v] \in Jobs
      BY DEF IInv, TypeOK, LockInv, CarriedJobs, Executing
    <3> QED
      BY <2>1, <3>1, JobAssumption, ResourceAssumption
  <2> QED
    BY <2>1, <2>2 DEF IInv, ResourceInv, UsersOwnResources
<1> QED
  BY <1>1, Invariance, PTL

\* A job never has two runs, even across a removal of its library.
THEOREM SchedulerOneRun == Spec => []OneRunPerJob
<1>1. IInv => OneRunPerJob
  BY DEF IInv, LockInv
<1> QED
  BY <1>1, Invariance, PTL

\* No resource stays taken after the run that took it.
THEOREM SchedulerNoLeak == Spec => []NoResourceLeak
<1>1. IInv => NoResourceLeak
  BY DEF IInv, ResourceInv
<1> QED
  BY <1>1, Invariance, PTL

------------------------------------------------------------------------------
(* The scheduler implements ExclusiveRuns *)

\* What a worker shows of itself.
Seen(w) == IF Owning(w) THEN Promise!Carrying(runJob[w], Executing(w)) ELSE Promise!Idle

LEMMA WorkIsSeen ==
    /\ work = [w \in Workers |-> Seen(w)]
    /\ work' = [w \in Workers |-> Seen(w)']
BY DEF work, Seen, Promise!Carrying, Promise!Idle

\* A step that leaves pc's owners and their jobs alone shows nothing.
LEMMA Invisible ==
    ASSUME \A w \in Workers : Seen(w)' = Seen(w)
    PROVE  UNCHANGED work
BY WorkIsSeen

\* A step that shows something shows it of one worker.
LEMMA Visible ==
    ASSUME NEW w \in Workers, NEW x, Seen(w)' = x,
           \A v \in Workers \ {w} : Seen(v)' = Seen(v)
    PROVE  work' = [work EXCEPT ![w] = x]
BY WorkIsSeen

\* Everything but the steps of a run is invisible, or loses all runs at once.
LEMMA ProcessRefines ==
    ASSUME IInv,
           \/ Boot \/ Stop \/ Exit \/ Crash \/ Advance
           \/ \E j \in Jobs, s \in Schedules :
                 DeclareJob(j, s) \/ \E e \in BOOLEAN : UpdateJob(j, s, e)
           \/ \E j \in Jobs : DropHandler(j) \/ DeleteRow(j)
           \/ UNCHANGED vars
    PROVE  Promise!Lose \/ UNCHANGED work
<1>1. CASE Exit \/ Crash
  <2>1. \A w \in Workers : Seen(w)' = Promise!Idle
    BY <1>1 DEF Exit, Crash, NoMemory, Seen, Owning, OwningPcs
  <2>2. work' = [w \in Workers |-> Seen(w)']
    BY WorkIsSeen
  <2> QED
    BY <2>1, <2>2 DEF Promise!Lose
<1>2. CASE ~(Exit \/ Crash)
  <2>1. UNCHANGED <<pc, runJob>>
    BY <1>2 DEF Boot, Stop, Advance, DeclareJob, UpdateJob, DropHandler, DeleteRow,
        vars,
                runVars
  <2> QED
    BY <2>1, Invisible DEF Seen, Owning, Executing
<1> QED
  BY <1>1, <1>2

\* Admission is invisible: the job is not claimed yet.
LEMMA AdmissionRefines ==
    ASSUME IInv, NEW w \in Workers, NEW j \in Jobs,
           \/ w \in Ticks /\ (TickStart(w) \/ TickSkips(w, j) \/ TickTakes(w, j))
           \/ Dispatch(w, j)
    PROVE  UNCHANGED work
<1>1. CASE UNCHANGED <<pc, runJob>>
  BY <1>1, Invisible DEF Seen, Owning, Executing
<1>2. CASE ~UNCHANGED <<pc, runJob>>
  <2>1. /\ pc[w] = "idle" /\ pc' = [pc EXCEPT ![w] = "admitted"]
        /\ runJob' = [runJob EXCEPT ![w] = j]
    BY <1>2 DEF TickStart, TickSkips, TickTakes, Dispatch, Admit, runVars
  <2> QED
    BY <2>1, Invisible DEF IInv, TypeOK, Seen, Owning, Executing, OwningPcs
<1> QED
  BY <1>1, <1>2

\* The claim is the moment a worker owns a job.
LEMMA ClaimRefines ==
    ASSUME IInv, NEW w \in Workers, Claim(w)
    PROVE  Promise!Own(w, runJob[w])
<1> USE DEF IInv, TypeOK
<1>1. \A v \in Workers : Owning(v) => runJob[v] # runJob[w]
  BY DEF Claim, Claimable, LockInv, OwnersHoldLocks
<1>2. Seen(w) = Promise!Idle /\ Seen(w)' = Promise!Carrying(runJob[w], FALSE)
  BY DEF Claim, GoTo, Seen, Owning, Executing, OwningPcs
<1>3. \A v \in Workers \ {w} : Seen(v)' = Seen(v)
  BY DEF Claim, GoTo, Seen, Owning, Executing
<1>4. work' = [work EXCEPT ![w] = Promise!Carrying(runJob[w], FALSE)]
  BY <1>2, <1>3, Visible
<1>5. \A v \in Workers : runJob[w] \notin work[v].job
  BY <1>1 DEF work
<1> QED
  BY <1>2, <1>4, <1>5, WorkIsSeen DEF Promise!Own

\* Entering the handler takes a resource no other entered handler has.
LEMMA EnterRefines ==
    ASSUME IInv, NEW w \in Workers, Enter(w)
    PROVE  Promise!Enter(w, runJob[w])
<1> USE DEF IInv, TypeOK
<1>1. /\ Seen(w) = Promise!Carrying(runJob[w], FALSE)
      /\ Seen(w)' = Promise!Carrying(runJob[w], TRUE)
  BY DEF Enter, GoTo, Seen, Owning, Executing, OwningPcs
<1>2. \A v \in Workers \ {w} : Seen(v)' = Seen(v)
  BY DEF Enter, GoTo, Seen, Owning, Executing
<1>3. work' = [work EXCEPT ![w] = Promise!Carrying(runJob[w], TRUE)]
  BY <1>1, <1>2, Visible
<1>4. ASSUME NEW v \in Workers, NEW i \in Jobs, work[v] = Promise!Carrying(i, TRUE)
      PROVE  ResourceOf[i] # ResourceOf[runJob[w]]
  <2>1. Executing(v) /\ runJob[v] = i
    BY <1>4 DEF work, Promise!Carrying
  <2>2. v # w
    BY <2>1 DEF Enter, GoTo, Executing
  <2>3. uses[v] = ResourceOf[i]
    BY <2>1 DEF ResourceInv, ExecutorsUse
  <2>4. uses[w] # None /\ uses[w] = ResourceOf[runJob[w]]
    BY DEF Enter, ResourceInv, UsersOwnResources
  <2> QED
    BY <2>2, <2>3, <2>4 DEF ResourceInv, UsersOwnResources
<1> QED
  BY <1>1, <1>3, <1>4, WorkIsSeen DEF Promise!Enter

\* The handler is left when it returns or throws.
LEMMA LeaveRefines ==
    ASSUME IInv, NEW w \in Workers,
           HandlerThrows(w) \/ \E s \in JobResults : HandlerReturns(w, s)
    PROVE  Promise!Leave(w, runJob[w])
<1> USE DEF IInv, TypeOK
<1>1. /\ Seen(w) = Promise!Carrying(runJob[w], TRUE)
      /\ Seen(w)' = Promise!Carrying(runJob[w], FALSE)
  BY DEF HandlerThrows, HandlerReturns, GoTo, Seen, Owning, Executing, OwningPcs
<1>2. \A v \in Workers \ {w} : Seen(v)' = Seen(v)
  BY DEF HandlerThrows, HandlerReturns, GoTo, Seen, Owning, Executing
<1>3. work' = [work EXCEPT ![w] = Promise!Carrying(runJob[w], FALSE)]
  BY <1>1, <1>2, Visible
<1> QED
  BY <1>1, <1>3, WorkIsSeen DEF Promise!Leave

\* The steps of a run between two handler events show nothing.
LEMMA InnerStepsRefine ==
    ASSUME IInv, NEW w \in Workers,
           \/ Begin(w) \/ BeginFails(w) \/ EnterBlocked(w) \/ EnterMissing(w)
           \/ Record(w) \/ RecordFails(w) \/ Finish(w) \/ PublishFails(w)
           \/ Fail(w) \/ FailFails(w) \/ ReadBack(w)
    PROVE  UNCHANGED work
<1>1. /\ runJob' = runJob /\ pc[w] \in OwningPcs \ {"executing"}
      /\ \E to \in OwningPcs \ {"executing"} : pc' = [pc EXCEPT ![w] = to]
  BY DEF Begin, BeginFails, EnterBlocked, EnterMissing, Record, RecordFails, Finish,
         PublishFails, Fail, FailFails, ReadBack, GoTo, OwningPcs
<1> QED
  BY <1>1, Invisible DEF IInv, TypeOK, Seen, Owning, Executing

\* The end of a run disowns its job; a refused admission shows nothing.
LEMMA OverRefines ==
    ASSUME IInv, NEW w \in Workers,
           \/ ClaimRefused(w) \/ ClaimFails(w) \/ Unclaim(w)
           \/ ReadNothing(w) \/ Unlock(w) \/ ReleaseFails(w)
    PROVE  Promise!Disown(w, runJob[w]) \/ UNCHANGED work
<1> USE DEF IInv, TypeOK
<1>1. /\ pc[w] \in {"admitted", "unclaiming", "finalizing", "unlocking"}
      /\ pc' = [pc EXCEPT ![w] = "idle"]
      /\ runJob' = [runJob EXCEPT ![w] = None]
  BY DEF ClaimRefused, ClaimFails, Unclaim, ReadNothing, Unlock, ReleaseFails, Over
<1>2. \A v \in Workers \ {w} : Seen(v)' = Seen(v)
  BY <1>1 DEF Seen, Owning, Executing
<1>3. Seen(w)' = Promise!Idle
  BY <1>1 DEF Seen, Owning, OwningPcs
<1>4. CASE pc[w] = "admitted"
  BY <1>2, <1>3, <1>4, Invisible DEF Seen, Owning, OwningPcs
<1>5. CASE pc[w] # "admitted"
  <2>1. Seen(w) = Promise!Carrying(runJob[w], FALSE)
    BY <1>1, <1>5 DEF Seen, Owning, Executing, OwningPcs
  <2>2. work' = [work EXCEPT ![w] = Promise!Idle]
    BY <1>2, <1>3, Visible
  <2> QED
    BY <2>1, <2>2, WorkIsSeen DEF Promise!Disown
<1> QED
  BY <1>4, <1>5

\* Every step of the scheduler is a step of ExclusiveRuns, or shows nothing.
LEMMA StepRefines ==
    ASSUME IInv, [Next]_vars
    PROVE  [Promise!Next]_work
<1>1. CASE \/ Boot \/ Stop \/ Exit \/ Crash \/ Advance
           \/ \E j \in Jobs, s \in Schedules :
                 DeclareJob(j, s) \/ \E e \in BOOLEAN : UpdateJob(j, s, e)
           \/ \E j \in Jobs : DropHandler(j) \/ DeleteRow(j)
           \/ UNCHANGED vars
  BY <1>1, ProcessRefines DEF Promise!Next
<1>2. CASE \E w \in Callers, j \in Jobs : Dispatch(w, j)
  BY <1>2, AdmissionRefines DEF Workers
<1>3. CASE \E t \in Ticks : TickStart(t) \/ TickStep(t)
  <2>1. \A t \in Ticks : TickStart(t) => \E j \in Jobs : TRUE
    BY DEF TickStart, Due
  <2> QED
    BY <1>3, <2>1, AdmissionRefines DEF Workers, TickStep
<1>4. ASSUME NEW w \in Workers, RunStep(w)
      PROVE  [Promise!Next]_work
  <2>1. pc[w] # "idle"
    BY <1>4 DEF RunStep, Claim, ClaimRefused, ClaimFails, Begin, BeginFails, Unclaim,
                Enter, EnterBlocked, EnterMissing, HandlerReturns, HandlerThrows, Record,
                RecordFails, Finish, PublishFails, Fail, FailFails, ReadBack,
                ReadNothing, Unlock, ReleaseFails, GoTo
  <2>2. runJob[w] \in Jobs
    BY <2>1 DEF IInv, TypeOK, LockInv, CarriedJobs
  <2>3. \/ Promise!Own(w, runJob[w]) \/ Promise!Enter(w, runJob[w])
        \/ Promise!Leave(w, runJob[w]) \/ Promise!Disown(w, runJob[w])
        \/ UNCHANGED work
    BY <1>4, ClaimRefines, EnterRefines, LeaveRefines, InnerStepsRefine, OverRefines
    DEF RunStep
  <2> QED
    BY <2>2, <2>3 DEF Promise!Next
<1> QED
  BY <1>1, <1>2, <1>3, <1>4 DEF Next

\* The scheduler implements its promise: one owner per job, one entered
\* handler per resource, and nothing but the end of the process takes a job
\* from its owner.
THEOREM SchedulerImplementsPromise == Spec => PromiseSpec
<1>1. Init => Promise!Init
  BY WorkIsSeen DEF Init, Promise!Init, Seen, Owning, OwningPcs, Promise!Idle
<1>2. IInv /\ [Next]_vars => [Promise!Next]_work
  BY StepRefines
<1> QED
  BY <1>1, <1>2, Invariance, PTL DEF Spec, PromiseSpec, Promise!Spec

------------------------------------------------------------------------------
(* What is claimed is given back *)

\* The pcs at which the record of a run may say that it is running.
WritingPcs == {"started", "executing", "returned", "failing"}

LockedAreCarried == \A j \in locked : \E w \in Workers : Owning(w) /\ runJob[w] = j
RunningAreCarried == \A w \in Workers : ledger[w] = "running" => pc[w] \in WritingPcs

\* Of a process that is there, and of one that drain() ended.
OwnersInv ==
    /\ locked \subseteq rows
    /\ Running => LockedAreCarried /\ RunningAreCarried
    /\ \A w \in Workers : pc[w] = "returned" => result[w] # "running"
    /\ phase = "stopped" => locked = {} /\ \A w \in Workers : ledger[w] # "running"

\* A busy worker is a worker of a process that is there.
LEMMA BusyIsRunning ==
    ASSUME IInv, NEW w \in Workers, pc[w] # "idle"
    PROVE  Running /\ phase # "stopped" /\ runJob[w] \in Jobs /\ pc[w] \in Pcs
BY DEF IInv, DownIsEmpty, Running, LockInv, CarriedJobs, TypeOK

\* An owner goes from one await to the next and writes its own record at most.
LEMMA OwnerMoves ==
    ASSUME IInv, OwnersInv, NEW w \in Workers, NEW to \in OwningPcs,
           pc[w] \in OwningPcs, pc' = [pc EXCEPT ![w] = to],
           NEW s, ledger' = [ledger EXCEPT ![w] = s],
           s = "running" => to \in WritingPcs,
           to = "returned" => result'[w] # "running",
           \A v \in Workers \ {w} : result'[v] = result[v],
           UNCHANGED <<rows, locked, phase, runJob>>
    PROVE  OwnersInv'
<1>1. Running /\ phase # "stopped"
  BY BusyIsRunning DEF OwningPcs
<1>2. LockedAreCarried'
  BY <1>1 DEF IInv, TypeOK, OwnersInv, LockedAreCarried, Owning
<1>3. RunningAreCarried'
  BY <1>1 DEF IInv, TypeOK, OwnersInv, RunningAreCarried
<1>4. \A v \in Workers : pc'[v] = "returned" => result'[v] # "running"
  BY DEF IInv, TypeOK, OwnersInv
<1> QED
  BY <1>1, <1>2, <1>3, <1>4 DEF OwnersInv, Running

\* A worker's run is over, and with it the lock of its job if it had one.
LEMMA OwnerEnds ==
    ASSUME IInv, OwnersInv, NEW w \in Workers, pc[w] # "idle", Over(w),
           locked' = IF Owning(w) THEN locked \ {runJob[w]} ELSE locked,
           pc[w] \notin WritingPcs,
           UNCHANGED <<rows, phase>>
    PROVE  OwnersInv'
<1>1. Running /\ phase # "stopped"
  BY BusyIsRunning
<1>2. LockedAreCarried'
  BY <1>1 DEF IInv, TypeOK, OwnersInv, LockedAreCarried, Over, Owning, OwningPcs
<1>3. RunningAreCarried'
  BY <1>1 DEF IInv, TypeOK, OwnersInv, RunningAreCarried, Over, History
<1>4. \A v \in Workers : pc'[v] = "returned" => result'[v] # "running"
  BY DEF IInv, TypeOK, OwnersInv, Over
<1> QED
  BY <1>1, <1>2, <1>3, <1>4 DEF OwnersInv, Running

\* The steps between the claim and the last await of finally{}.
LEMMA OwnersMoveOn ==
    ASSUME IInv, OwnersInv, "record" \notin Faults, NEW w \in Workers,
           \/ Begin(w) \/ BeginFails(w) \/ Enter(w) \/ EnterBlocked(w) \/ EnterMissing(w)
           \/ \E s \in JobResults : HandlerReturns(w, s)
           \/ HandlerThrows(w) \/ Record(w) \/ RecordFails(w) \/ Finish(w)
           \/ PublishFails(w) \/ Fail(w) \/ FailFails(w) \/ ReadBack(w)
    PROVE  OwnersInv'
<1> DEFINE to == pc'[w]
           s  == ledger'[w]
<1>1. /\ pc[w] \in OwningPcs /\ pc[w] # "idle" /\ to \in OwningPcs
      /\ pc' = [pc EXCEPT ![w] = to]
      /\ ledger' = [ledger EXCEPT ![w] = s]
  BY DEF Begin, BeginFails, Enter, EnterBlocked, EnterMissing, HandlerReturns, HandlerThrows,
         Record, RecordFails, Finish, PublishFails, Fail, FailFails, ReadBack, GoTo,
         OwningPcs, dbVars, IInv, TypeOK
<1>2. UNCHANGED <<rows, locked, phase, runJob>>
  BY DEF Begin, BeginFails, Enter, EnterBlocked, EnterMissing, HandlerReturns, HandlerThrows,
         Record, RecordFails, Finish, PublishFails, Fail, FailFails, ReadBack,
         table, dbVars
<1>3. Running /\ RunningAreCarried
  BY <1>1, BusyIsRunning DEF OwnersInv
<1>4. s = "running" => to \in WritingPcs
  <2>1. CASE \/ Begin(w) \/ BeginFails(w) \/ Enter(w) \/ EnterBlocked(w) \/ EnterMissing(w)
             \/ HandlerThrows(w) \/ (\E r \in JobResults : HandlerReturns(w, r))
    BY <1>3, <2>1 DEF Begin, BeginFails, Enter, EnterBlocked, EnterMissing, HandlerReturns,
         HandlerThrows, GoTo, dbVars, IInv, TypeOK, RunningAreCarried, WritingPcs
  <2>2. CASE Record(w) \/ RecordFails(w) \/ Finish(w) \/ PublishFails(w)
             \/ Fail(w) \/ FailFails(w) \/ ReadBack(w)
    BY <1>3, <2>2 DEF Record, RecordFails, Finish, PublishFails, Fail, FailFails, ReadBack,
         GoTo, dbVars, IInv, TypeOK, RunningAreCarried, WritingPcs, OwnersInv
  <2> QED BY <2>1, <2>2
<1>5. /\ to = "returned" => result'[w] # "running"
      /\ \A v \in Workers \ {w} : result'[v] = result[v]
  BY ResultAssumption
  DEF Begin, BeginFails, Enter, EnterBlocked, EnterMissing, HandlerReturns, HandlerThrows,
      Record, RecordFails, Finish, PublishFails, Fail, FailFails, ReadBack, GoTo,
      IInv, TypeOK
<1> HIDE DEF to, s
<1> QED
  BY <1>1, <1>2, <1>4, <1>5, OwnerMoves

\* The ways a run, or an admission, is over.
LEMMA OwnersLeave ==
    ASSUME IInv, OwnersInv, "release" \notin Faults, NEW w \in Workers,
           \/ ClaimRefused(w) \/ ClaimFails(w) \/ Unclaim(w)
           \/ ReadNothing(w) \/ Unlock(w) \/ ReleaseFails(w)
    PROVE  OwnersInv'
<1>1. /\ pc[w] # "idle" /\ pc[w] \notin WritingPcs /\ Over(w)
      /\ UNCHANGED <<rows, phase>>
  BY DEF ClaimRefused, ClaimFails, Unclaim, ReadNothing, Unlock, ReleaseFails, table,
         WritingPcs
<1>2. locked' = IF Owning(w) THEN locked \ {runJob[w]} ELSE locked
  <2>1. CASE ClaimRefused(w) \/ ClaimFails(w)
    BY <2>1 DEF ClaimRefused, ClaimFails, Owning, OwningPcs, table
  <2>2. CASE Unclaim(w) \/ Unlock(w)
    BY <2>2 DEF Unclaim, Unlock, Owning, OwningPcs
  <2>3. CASE ReadNothing(w)
    BY <2>3 DEF ReadNothing, OwnersInv, table, Owning, OwningPcs
  <2> QED BY <2>1, <2>2, <2>3 DEF ReleaseFails
<1> QED BY <1>1, <1>2, OwnerEnds

\* The claim makes its worker the owner; a worker that is handed a job owns
\* nothing yet.
LEMMA OwnersAdmitted ==
    ASSUME IInv, OwnersInv, NEW w \in Workers, NEW j \in Jobs,
           Claim(w) \/ Dispatch(w, j) \/ TickTakes(w, j)
    PROVE  OwnersInv'
<1>1. CASE Claim(w)
  <2>1. /\ pc[w] = "admitted" /\ pc' = [pc EXCEPT ![w] = "claimed"]
        /\ locked' = locked \cup {runJob[w]} /\ runJob[w] \in rows
        /\ UNCHANGED <<rows, phase, ledger, runJob, result>>
    BY <1>1 DEF Claim, GoTo, Claimable
  <2>2. Running /\ phase # "stopped"
    BY <2>1, BusyIsRunning
  <2>3. LockedAreCarried'
    BY <2>1, <2>2 DEF OwnersInv, LockedAreCarried, Owning, OwningPcs, IInv, TypeOK
  <2>4. RunningAreCarried'
    BY <2>1, <2>2 DEF OwnersInv, RunningAreCarried, WritingPcs, IInv, TypeOK
  <2> QED
    BY <2>1, <2>2, <2>3, <2>4 DEF OwnersInv, Running, IInv, TypeOK
<1>2. CASE Dispatch(w, j) \/ TickTakes(w, j)
  <2>1. /\ pc[w] = "idle" /\ pc' = [pc EXCEPT ![w] = "admitted"]
        /\ runJob' = [runJob EXCEPT ![w] = j] /\ j \in handlers
        /\ UNCHANGED <<rows, locked, phase, ledger, result>>
    BY <1>2 DEF Dispatch, TickTakes, Admit, dbVars, table
  <2>2. Running /\ phase # "stopped"
    BY <2>1 DEF IInv, DownIsEmpty, Running
  <2>3. LockedAreCarried'
    BY <2>1, <2>2 DEF OwnersInv, LockedAreCarried, Owning, OwningPcs, IInv, TypeOK
  <2>4. RunningAreCarried'
    BY <2>1, <2>2 DEF OwnersInv, RunningAreCarried, WritingPcs, IInv, TypeOK
  <2> QED
    BY <2>1, <2>2, <2>3, <2>4 DEF OwnersInv, Running, IInv, TypeOK
<1> QED BY <1>1, <1>2

\* No worker moves: jobs are declared, edited and removed, time passes, the
\* process starts, stops and crashes.
LEMMA OwnersStand ==
    ASSUME IInv, OwnersInv,
           \/ Boot \/ Stop \/ Exit \/ Crash \/ Advance
           \/ \E j \in Jobs, s \in Schedules :
                 DeclareJob(j, s) \/ \E e \in BOOLEAN : UpdateJob(j, s, e)
           \/ \E j \in Jobs : DropHandler(j) \/ DeleteRow(j)
           \/ \E t \in Ticks : TickStart(t) \/ \E j \in Jobs : TickSkips(t, j)
           \/ UNCHANGED vars
    PROVE  OwnersInv'
<1> USE DEF OwnersInv, Running, LockedAreCarried, RunningAreCarried, Owning
<1>1. CASE Boot
  BY <1>1 DEF Boot, RecoveredRun, runVars, IInv, DownIsEmpty
<1>2. CASE Exit
  BY <1>2 DEF Exit, NoMemory, dbVars, table, WritingPcs, OwningPcs
<1>3. CASE Crash
  BY <1>3 DEF Crash, NoMemory, dbVars, table
<1>4. CASE Stop \/ Advance \/ UNCHANGED vars
           \/ \E t \in Ticks : TickStart(t) \/ \E j \in Jobs : TickSkips(t, j)
  BY <1>4 DEF Stop, Advance, TickStart, TickSkips, vars, dbVars, table, runVars
<1>5. CASE \/ \E j \in Jobs, s \in Schedules :
                 DeclareJob(j, s) \/ \E e \in BOOLEAN : UpdateJob(j, s, e)
           \/ \E j \in Jobs : DropHandler(j) \/ DeleteRow(j)
  BY <1>5 DEF DeclareJob, UpdateJob, DropHandler, DeleteRow, table, dbVars, runVars
<1> QED BY <1>1, <1>2, <1>3, <1>4, <1>5

LEMMA OwnersStep ==
    ASSUME IInv, OwnersInv, [Next]_vars, "release" \notin Faults, "record" \notin Faults
    PROVE  OwnersInv'
<1>1. ASSUME NEW w \in Workers, RunStep(w)
      PROVE  OwnersInv'
  <2>1. CASE Claim(w)
    <3>1. runJob[w] \in Jobs
      BY <2>1, BusyIsRunning DEF Claim, GoTo
    <3> QED BY <2>1, <3>1, OwnersAdmitted
  <2> QED BY <1>1, <2>1, OwnersMoveOn, OwnersLeave DEF RunStep
<1>2. CASE \/ \E w \in Callers, j \in Jobs : Dispatch(w, j)
           \/ \E t \in Ticks, j \in Jobs : TickTakes(t, j)
  BY <1>2, OwnersAdmitted DEF Workers
<1>3. CASE \/ Boot \/ Stop \/ Exit \/ Crash \/ Advance
           \/ \E j \in Jobs, s \in Schedules :
                 DeclareJob(j, s) \/ \E e \in BOOLEAN : UpdateJob(j, s, e)
           \/ \E j \in Jobs : DropHandler(j) \/ DeleteRow(j)
           \/ \E t \in Ticks : TickStart(t) \/ \E j \in Jobs : TickSkips(t, j)
           \/ UNCHANGED vars
  BY <1>3, OwnersStand
<1> QED BY <1>1, <1>2, <1>3 DEF Next, TickStep

\* If the writes of finally{} and of the catch block do not throw, a lock and a
\* record that says "running" have a worker that carries them, until the
\* process is gone, and drain() leaves neither; and a resource that is taken
\* has a run that frees it (scheduler.ts:145-295).
THEOREM SchedulerKeepsClaims ==
    ASSUME "release" \notin Faults, "record" \notin Faults
    PROVE  Spec => []NothingLeaks
<1>1. Init => OwnersInv
  BY DEF Init, OwnersInv, Running
<1>2. IInv /\ OwnersInv /\ [Next]_vars => OwnersInv'
  BY OwnersStep
<1>3. OwnersInv => ClaimsOwned
  BY DEF OwnersInv, ClaimsOwned, LockedAreCarried, RunningAreCarried, Owning, OwningPcs,
         WritingPcs
<1>4. Spec => []ClaimsOwned
  BY <1>1, <1>2, <1>3, Invariance, PTL DEF Spec
<1> QED
  BY <1>4, SchedulerNoLeak, PTL DEF NothingLeaks

------------------------------------------------------------------------------
(* An occurrence is entered once *)

\* The pcs of a run that has passed the entry of its handler, entered or not.
EnteredPcs == {"executing", "returned", "recorded", "failing", "finalizing", "unlocking"}

\* What keeps ticks from an occurrence that was entered in this life: its job
\* is planned for later, or the run that entered it has not replanned it yet.
Spent(j) ==
    \/ nextRun[j] = Never \/ nextRun[j] > clock
    \/ \E w \in Workers : pc[w] \in EnteredPcs /\ runJob[w] = j

OnceInv ==
    /\ \A t \in Ticks : tickNow[t] <= clock
    /\ \A j \in Jobs \ rows : nextRun[j] = Never
    /\ \A j \in Jobs : fired[j] <= 1 + crashes
    /\ \A j \in Jobs : fired[j] > crashes => Spent(j)
    /\ \A t \in Ticks :
          pc[t] \in {"claimed", "started"} => fired[runJob[t]] <= crashes

\* A worker that is not about to end goes on, or is handed a job.
LEMMA OnceMoves ==
    ASSUME IInv, OnceInv, NEW w \in Workers, NEW to \in Pcs,
           pc' = [pc EXCEPT ![w] = to],
           pc[w] \in EnteredPcs => to \in EnteredPcs /\ runJob'[w] = runJob[w],
           \A v \in Workers \ {w} : runJob'[v] = runJob[v],
           w \in Ticks /\ to \in {"claimed", "started"} => fired[runJob'[w]] <= crashes,
           UNCHANGED <<rows, nextRun, fired, tickNow, clock, crashes>>
    PROVE  OnceInv'
<1>1. \A j \in Jobs : Spent(j) => Spent(j)'
  BY DEF Spent, IInv, TypeOK
<1>2. \A t \in Ticks : pc'[t] \in {"claimed", "started"} => fired[runJob'[t]] <= crashes
  BY DEF OnceInv, IInv, TypeOK, Workers
<1> QED
  BY <1>1, <1>2 DEF OnceInv

\* A run, or an admission, is over: a run that passed the entry has replanned
\* its job, or the job's row is gone.
LEMMA OnceEnds ==
    ASSUME IInv, OnceInv, NEW w \in Workers, pc[w] # "idle", Over(w),
           UNCHANGED <<rows, fired, tickNow, clock, crashes>>,
           NEW n, nextRun' = [nextRun EXCEPT ![runJob[w]] = n],
           n = nextRun[runJob[w]] \/ n = Never \/ n > clock,
           pc[w] \in EnteredPcs => n = Never \/ n > clock,
           runJob[w] \notin rows => n = Never
    PROVE  OnceInv'
<1>1. runJob[w] \in Jobs
  BY BusyIsRunning
<1>2. \A j \in Jobs : Spent(j) => Spent(j)'
  BY <1>1 DEF Spent, IInv, TypeOK, Over
<1>3. \A t \in Ticks : pc'[t] \in {"claimed", "started"} => fired[runJob'[t]] <= crashes
  BY DEF OnceInv, IInv, TypeOK, Over
<1>4. \A j \in Jobs \ rows : nextRun'[j] = Never
  BY <1>1 DEF OnceInv, IInv, TypeOK
<1> QED
  BY <1>2, <1>3, <1>4 DEF OnceInv

\* A claim on behalf of a tick finds an occurrence nobody has entered.
LEMMA OnceClaimed ==
    ASSUME IInv, OnceInv, NEW w \in Workers, Claim(w)
    PROVE  OnceInv'
<1>1. /\ pc[w] = "admitted" /\ pc' = [pc EXCEPT ![w] = "claimed"] /\ runJob[w] \in Jobs
      /\ UNCHANGED <<rows, nextRun, runJob, fired, tickNow, clock, crashes>>
  BY BusyIsRunning DEF Claim, GoTo, tickVars, envVars
<1>2. ASSUME w \in Ticks
      PROVE  fired[runJob[w]] <= crashes
  <2>1. /\ runJob[w] \in rows \ locked /\ nextRun[runJob[w]] # Never
        /\ nextRun[runJob[w]] <= tickNow[w]
    BY <1>2 DEF Claim, Claimable, DueAt
  <2>2. nextRun[runJob[w]] <= clock
    BY <1>1, <1>2, <2>1 DEF OnceInv, IInv, TypeOK
  <2>3. \A v \in Workers : pc[v] \in EnteredPcs => runJob[v] # runJob[w]
    BY <2>1 DEF IInv, LockInv, OwnersHoldLocks, Owning, OwningPcs, EnteredPcs
  <2>4. ~Spent(runJob[w])
    BY <1>1, <2>1, <2>2, <2>3 DEF Spent, IInv, TypeOK
  <2> QED BY <1>1, <2>4 DEF OnceInv, IInv, TypeOK
<1>3. "claimed" \in Pcs /\ pc[w] \notin EnteredPcs
  BY <1>1 DEF Pcs, OwningPcs, EnteredPcs
<1> QED BY <1>1, <1>2, <1>3, OnceMoves

\* The entry counts, and there is one run that could make it.
LEMMA OnceEntered ==
    ASSUME IInv, OnceInv, NEW w \in Workers, Enter(w)
    PROVE  OnceInv'
<1>1. /\ pc[w] = "started" /\ pc' = [pc EXCEPT ![w] = "executing"] /\ runJob[w] \in Jobs
      /\ fired' = IF w \in Ticks THEN [fired EXCEPT ![runJob[w]] = CountedUp(@)] ELSE fired
      /\ UNCHANGED <<rows, nextRun, runJob, tickNow, clock, crashes>>
  BY BusyIsRunning DEF Enter, GoTo, tickVars, envVars, dbVars, table
<1>2. CASE w \notin Ticks
  <2>1. fired' = fired /\ "executing" \in Pcs
    BY <1>1, <1>2 DEF Pcs, OwningPcs
  <2> QED BY <1>1, <1>2, <2>1, OnceMoves DEF EnteredPcs
<1>3. CASE w \in Ticks
  <2>1. fired[runJob[w]] <= crashes
    BY <1>1, <1>3 DEF OnceInv
  <2>2. \A j \in Jobs : fired'[j] <= 1 + crashes
    BY <1>1, <1>3, <2>1, BoundAssumption DEF OnceInv, IInv, TypeOK, CountedUp
  <2>3. \A j \in Jobs : j = runJob[w] => Spent(j)'
    BY <1>1 DEF Spent, EnteredPcs, IInv, TypeOK
  <2>4. \A j \in Jobs \ {runJob[w]} : fired'[j] = fired[j] /\ (Spent(j) => Spent(j)')
    BY <1>1, <1>3 DEF Spent, EnteredPcs, IInv, TypeOK
  <2>5. \A j \in Jobs : fired'[j] > crashes => Spent(j)'
    BY <2>3, <2>4 DEF OnceInv
  <2>6. ASSUME NEW t \in Ticks, pc'[t] \in {"claimed", "started"}
        PROVE  fired'[runJob[t]] <= crashes
    <3>1. t # w /\ pc[t] \in {"claimed", "started"}
      BY <1>1, <2>6 DEF IInv, TypeOK
    <3>2. runJob[t] # runJob[w] /\ runJob[t] \in Jobs
      BY <1>1, <3>1, BusyIsRunning
      DEF IInv, LockInv, OneRunPerJob, Owning, OwningPcs, Workers
    <3> QED BY <2>4, <3>1, <3>2 DEF OnceInv
  <2> QED BY <1>1, <2>2, <2>5, <2>6 DEF OnceInv
<1> QED BY <1>2, <1>3

\* The other steps of a run that goes on.
LEMMA OnceGoesOn ==
    ASSUME IInv, OnceInv, NEW w \in Workers,
           \/ Begin(w) \/ BeginFails(w) \/ EnterBlocked(w) \/ EnterMissing(w)
           \/ \E s \in JobResults : HandlerReturns(w, s)
           \/ HandlerThrows(w) \/ Record(w) \/ RecordFails(w) \/ Finish(w)
           \/ PublishFails(w) \/ Fail(w) \/ FailFails(w) \/ ReadBack(w)
    PROVE  OnceInv'
<1> DEFINE to == pc'[w]
<1>1. /\ pc' = [pc EXCEPT ![w] = to] /\ to \in Pcs
      /\ pc[w] \in EnteredPcs => to \in EnteredPcs
      /\ to \in {"claimed", "started"} => pc[w] = "claimed"
  BY DEF Begin, BeginFails, EnterBlocked, EnterMissing, HandlerReturns, HandlerThrows,
         Record, RecordFails, Finish, PublishFails, Fail, FailFails, ReadBack, GoTo,
         OwningPcs, Pcs, EnteredPcs, IInv, TypeOK
<1>2. UNCHANGED <<rows, nextRun, runJob, fired, tickNow, clock, crashes>>
  BY DEF Begin, BeginFails, EnterBlocked, EnterMissing, HandlerReturns, HandlerThrows,
         Record, RecordFails, Finish, PublishFails, Fail, FailFails, ReadBack,
         table, dbVars, tickVars, envVars
<1>3. w \in Ticks /\ to \in {"claimed", "started"} => fired[runJob[w]] <= crashes
  BY <1>1 DEF OnceInv
<1> HIDE DEF to
<1> QED BY <1>1, <1>2, <1>3, OnceMoves

\* The ways a run, or an admission, is over.
LEMMA OnceLeaves ==
    ASSUME IInv, OnceInv, "release" \notin Faults, NEW w \in Workers,
           \/ ClaimRefused(w) \/ ClaimFails(w) \/ Unclaim(w)
           \/ ReadNothing(w) \/ Unlock(w) \/ ReleaseFails(w)
    PROVE  OnceInv'
<1>1. /\ pc[w] # "idle" /\ Over(w) /\ UNCHANGED <<rows, fired, tickNow, clock, crashes>>
  BY DEF ClaimRefused, ClaimFails, Unclaim, ReadNothing, Unlock, ReleaseFails, table,
         tickVars, envVars
<1>2. runJob[w] \in Jobs
  BY <1>1, BusyIsRunning
<1>3. CASE ~Unlock(w)
  <2>1. /\ nextRun' = [nextRun EXCEPT ![runJob[w]] = nextRun[runJob[w]]]
        /\ pc[w] \in EnteredPcs => runJob[w] \notin rows
    BY <1>2, <1>3 DEF ClaimRefused, ClaimFails, Unclaim, ReadNothing, ReleaseFails, table,
           EnteredPcs, IInv, TypeOK
  <2>2. runJob[w] \notin rows => nextRun[runJob[w]] = Never
    BY <1>2 DEF OnceInv
  <2> QED BY <1>1, <2>1, <2>2, OnceEnds
<1>4. CASE Unlock(w)
  <2> DEFINE n == nextRun'[runJob[w]]
  <2>1. nextRun' = [nextRun EXCEPT ![runJob[w]] = n]
    BY <1>2, <1>4 DEF Unlock, IInv, TypeOK
  <2>2. runJob[w] \notin rows => n = Never
    BY <1>2, <1>4 DEF Unlock, OnceInv
  <2>3. runJob[w] \in rows => n = Never \/ n > clock
    BY <1>2, <1>4 DEF Unlock, IInv, TypeOK, Planned, NextRunAt
  <2> HIDE DEF n
  <2> QED BY <1>1, <2>1, <2>2, <2>3, OnceEnds
<1> QED BY <1>3, <1>4

\* Jobs are declared, edited and removed.
LEMMA OnceDefined ==
    ASSUME IInv, OnceInv, NEW j \in Jobs,
           \/ \E s \in Schedules :
                 DeclareJob(j, s) \/ \E e \in BOOLEAN : UpdateJob(j, s, e)
           \/ DropHandler(j) \/ DeleteRow(j)
    PROVE  OnceInv'
<1>1. UNCHANGED <<pc, runJob, tickNow, clock, crashes>>
  BY DEF DeclareJob, UpdateJob, DropHandler, DeleteRow, runVars, tickVars, envVars
<1>2. \A k \in Jobs \ {j} :
         nextRun'[k] = nextRun[k] /\ fired'[k] = fired[k] /\ (k \in rows <=> k \in rows')
  BY DEF DeclareJob, UpdateJob, DropHandler, DeleteRow, table, IInv, TypeOK
<1>3. \/ fired'[j] = 0 /\ j \in rows'
      \/ fired'[j] = fired[j] /\ nextRun'[j] = nextRun[j] /\ (j \in rows <=> j \in rows')
      \/ fired'[j] = fired[j] /\ nextRun'[j] = Never
  BY DEF DeclareJob, UpdateJob, DropHandler, DeleteRow, table, IInv, TypeOK
<1>4. \A k \in Jobs : fired'[k] = 0 \/ (fired'[k] = fired[k] /\ (Spent(k) => Spent(k)'))
  BY <1>1, <1>2, <1>3 DEF Spent
<1>5. \A k \in Jobs \ rows' : nextRun'[k] = Never
  BY <1>2, <1>3 DEF OnceInv
<1>6. \A k \in Jobs : fired'[k] <= 1 + crashes /\ (fired'[k] > crashes => Spent(k)')
  BY <1>4 DEF OnceInv, IInv, TypeOK
<1>7. \A t \in Ticks : pc[t] \in {"claimed", "started"} => fired'[runJob[t]] <= crashes
  <2>1. \A t \in Ticks : pc[t] \in {"claimed", "started"} => runJob[t] \in Jobs
    BY BusyIsRunning DEF Workers
  <2> QED BY <1>4, <2>1 DEF OnceInv, IInv, TypeOK
<1> QED BY <1>1, <1>5, <1>6, <1>7 DEF OnceInv

\* The process starts, stops and crashes, time passes, a tick takes its
\* snapshot.
LEMMA OnceStands ==
    ASSUME IInv, OnceInv,
           \/ Boot \/ Stop \/ Exit \/ Crash \/ Advance
           \/ \E t \in Ticks : TickStart(t) \/ \E j \in Jobs : TickSkips(t, j)
           \/ UNCHANGED vars
    PROVE  OnceInv'
<1> USE DEF OnceInv, IInv, TypeOK
<1>1. CASE Exit \/ Crash
  <2>1. /\ \A t \in Ticks : pc'[t] = "idle" /\ tickNow'[t] = 0
        /\ UNCHANGED <<rows, nextRun, fired, clock>>
    BY <1>1 DEF Exit, Crash, NoMemory, dbVars, table, envVars, Workers
  <2>2. \/ crashes' = crashes + 1
        \/ crashes' = crashes /\ \A w \in Workers : pc[w] = "idle"
    BY <1>1 DEF Exit, Crash, envVars
  <2>3. \A j \in Jobs : fired[j] > crashes' => Spent(j)'
    BY <2>1, <2>2 DEF Spent, EnteredPcs
  <2> QED BY <2>1, <2>2, <2>3
<1>2. CASE Advance
  <2>1. \A j \in Jobs : fired'[j] = 0 \/ (fired'[j] = fired[j] /\ nextRun[j] # clock + 1)
    BY <1>2 DEF Advance
  <2>2. UNCHANGED <<rows, nextRun, pc, runJob, tickNow, crashes>> /\ clock' = clock + 1
    BY <1>2 DEF Advance, dbVars, table, runVars, tickVars
  <2>3. \A j \in Jobs : nextRun[j] # clock + 1 /\ Spent(j) => Spent(j)'
    BY <2>2 DEF Spent
  <2>4. \A t \in Ticks : pc[t] \in {"claimed", "started"} => runJob[t] \in Jobs
    BY BusyIsRunning DEF Workers
  <2>5. \A j \in Jobs : fired'[j] <= 1 + crashes /\ (fired'[j] > crashes => Spent(j)')
    BY <2>1, <2>3
  <2>6. \A t \in Ticks : pc[t] \in {"claimed", "started"} => fired'[runJob[t]] <= crashes
    BY <2>1, <2>4
  <2>7. \A t \in Ticks : tickNow[t] <= clock + 1
    OBVIOUS
  <2> QED BY <2>2, <2>5, <2>6, <2>7
<1>3. CASE \/ Boot \/ Stop \/ UNCHANGED vars
           \/ \E t \in Ticks : TickStart(t) \/ \E j \in Jobs : TickSkips(t, j)
  BY <1>3 DEF Boot, Stop, TickStart, TickSkips, vars, dbVars, table, runVars, tickVars,
              envVars, Spent
<1> QED BY <1>1, <1>2, <1>3

\* A worker is handed a job.
LEMMA OnceAdmitted ==
    ASSUME IInv, OnceInv, NEW w \in Workers, NEW j \in Jobs,
           Dispatch(w, j) \/ TickTakes(w, j)
    PROVE  OnceInv'
<1>1. /\ pc[w] = "idle" /\ pc' = [pc EXCEPT ![w] = "admitted"]
      /\ runJob' = [runJob EXCEPT ![w] = j]
      /\ UNCHANGED <<rows, nextRun, fired, tickNow, clock, crashes>>
  BY DEF Dispatch, TickTakes, Admit, dbVars, table, tickVars, envVars
<1>2. /\ "admitted" \in Pcs /\ pc[w] \notin EnteredPcs
      /\ \A v \in Workers \ {w} : runJob'[v] = runJob[v]
  BY <1>1 DEF Pcs, EnteredPcs, IInv, TypeOK
<1> QED BY <1>1, <1>2, OnceMoves

LEMMA OnceStep ==
    ASSUME IInv, OnceInv, [Next]_vars, "release" \notin Faults
    PROVE  OnceInv'
<1>1. ASSUME NEW w \in Workers, RunStep(w)
      PROVE  OnceInv'
  BY <1>1, OnceClaimed, OnceEntered, OnceGoesOn, OnceLeaves DEF RunStep
<1>2. CASE \/ \E w \in Callers, j \in Jobs : Dispatch(w, j)
           \/ \E t \in Ticks, j \in Jobs : TickTakes(t, j)
  BY <1>2, OnceAdmitted DEF Workers
<1>3. CASE \/ \E j \in Jobs, s \in Schedules :
                 DeclareJob(j, s) \/ \E e \in BOOLEAN : UpdateJob(j, s, e)
           \/ \E j \in Jobs : DropHandler(j) \/ DeleteRow(j)
  BY <1>3, OnceDefined
<1>4. CASE \/ Boot \/ Stop \/ Exit \/ Crash \/ Advance
           \/ \E t \in Ticks : TickStart(t) \/ \E j \in Jobs : TickSkips(t, j)
           \/ UNCHANGED vars
  BY <1>4, OnceStands
<1> QED BY <1>1, <1>2, <1>3, <1>4 DEF Next, TickStep

\* If the statements of finally{} do not throw, an occurrence enters its handler
\* once per life of the process, however many ticks hold it in their snapshots:
\* the claim tests again what the snapshot saw (scheduler.ts:145-193).
THEOREM SchedulerFiresOnce ==
    ASSUME "release" \notin Faults
    PROVE  Spec => []OncePerLife
<1>1. Init => OnceInv
  BY DEF Init, OnceInv, Workers, Never
<1>2. IInv /\ OnceInv /\ [Next]_vars => OnceInv'
  BY OnceStep
<1>3. OnceInv => OncePerLife
  BY DEF OnceInv, OncePerLife
<1> QED
  BY <1>1, <1>2, <1>3, Invariance, PTL DEF Spec

==============================================================================
