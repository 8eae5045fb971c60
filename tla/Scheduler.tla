------------------------------ MODULE Scheduler ------------------------------
(* The persistent job scheduler of the kernel: apps/server/src/scheduler.ts, *)
(* with the calls kernel.ts and runtime-jobs.ts make on it.                  *)
(*                                                                           *)
(* A job is a row of scheduler_jobs.  Two kinds of workers run jobs: the     *)
(* promise of a timer tick, which walks its own snapshot of the due jobs and *)
(* runs them one after the other, and the promise of an API call             *)
(* (dispatch, runNow, retryRun).  Both claim the row with a compare-and-set  *)
(* on lockedAt and then walk the steps of #begin and #run; every await is an *)
(* interleaving point, so every step between two awaits is an action here.   *)
(*                                                                           *)
(* Data kept abstract: a schedule is the length of its interval, a run's     *)
(* result is its state.  A scheduler_runs row is kept while its worker is at *)
(* work, and longer if it is left "running"; a terminal row of a run that is *)
(* over is history, which retryRun, the API and pruneHistory read.           *)

EXTENDS Naturals

CONSTANTS Ticks,         \* promises of setInterval(tick) that may overlap
          Callers,       \* promises of dispatch / runNow / retryRun calls
          Jobs,          \* composite job keys  pluginId::jobKey
          Resources,     \* members of the #resources set
          ResourceOf,    \* [Jobs -> Resources]: definition.resource
          Schedules,     \* intervals a schedule may have, in clock units
          ManualOnly,    \* jobs declared with manualOnly: true
          Protected,     \* jobs declared with protected: true
          DisabledByDefault,   \* jobs declared with enabled: false
          Removable,     \* jobs whose owner (a library) may be removed
          JobResults,    \* states a handler may return
          Faults,        \* operations that may throw in this instance
          None,          \* no job, no resource
          MaxClock,      \* bound on the clock
          MaxCrashes     \* bound on the number of crashes

Workers == Ticks \cup Callers

FaultKinds == {"claim", "insert", "publish", "handler", "record", "release"}

ASSUME WorkerAssumption == Ticks \cap Callers = {}
ASSUME JobAssumption ==
    /\ None \notin Jobs \cup Resources
    /\ ManualOnly \subseteq Jobs
    /\ Protected \subseteq Jobs
    /\ DisabledByDefault \subseteq Jobs
    /\ Removable \subseteq Jobs
\* Without a resource in its definition a job's own key is its resource.
ASSUME ResourceAssumption ==
    /\ Jobs \subseteq Resources
    /\ ResourceOf \in [Jobs -> Resources]
ASSUME ScheduleAssumption == Schedules \subseteq Nat \ {0}
ASSUME ResultAssumption ==
    /\ JobResults \subseteq {"succeeded", "skipped", "blocked", "partial"}
    /\ Faults \subseteq FaultKinds
ASSUME BoundAssumption == MaxClock \in Nat /\ MaxCrashes \in Nat

VARIABLES
    \* The database, which survives a crash.
    rows,       \* job keys that have a row in scheduler_jobs; its columns:
    enabled,    \*   jobs with enabled = 1
    locked,     \*   jobs whose lockedAt is set
    schedule,   \*   interval of schedule
    default,    \*   interval of defaultSchedule
    nextRun,    \*   nextRunAt
    ledger,     \* state column of the scheduler_runs row of each worker's run
    removed,    \* jobs whose owning library is gone
    \* The process.
    phase,      \* "up", "draining" (shutdown), "stopped" or "crashed"
    handlers,   \* keys of #handlers (and of #definitions)
    resources,  \* #resources
    pc,         \* where each worker is
    runJob,     \* the job a worker carries
    uses,       \* the resource its run added to #resources, None if occupied
    result,     \* what the handler returned
    captured,   \* the interval finally{} read, 0 when the job was disabled
    due,        \* rest of a tick's snapshot of due jobs
    tickNow,    \* the instant the tick started
    \* The environment and history.
    clock, crashes,
    fired       \* scheduled handler entries for the occurrence last come due

table == <<rows, enabled, locked, schedule, default, nextRun>>
dbVars == <<table, ledger, removed>>
runVars == <<pc, runJob, uses, result, captured>>
tickVars == <<due, tickNow>>
envVars == <<clock, crashes>>
vars == <<dbVars, phase, handlers, resources, runVars, tickVars, envVars, fired>>

------------------------------------------------------------------------------
(* Data *)

\* null in nextRunAt; every instant nextRunAt() computes is at least 1.
Never == 0

NextRunAt(interval, from) == from + interval

\* nextRunAt: enabled ? nextRunAt(schedule) : null
Planned(on, interval) == IF on THEN NextRunAt(interval, clock) ELSE Never

RunStates == {"absent", "running", "succeeded", "skipped", "blocked",
              "partial", "failed", "interrupted"}

\* The places a worker can be suspended at.
OwningPcs == {"claimed", "unclaiming", "started", "executing", "returned",
              "recorded", "failing", "finalizing", "unlocking"}
Pcs == {"idle", "admitted"} \cup OwningPcs

\* The worker's claim succeeded and its run has not come to its end.
Owning(w) == pc[w] \in OwningPcs
Executing(w) == pc[w] = "executing"
Running == phase \in {"up", "draining"}

\* WHERE next_run_at <= now AND enabled = 1 of the due query and the claim.
DueAt(j, now) ==
    j \in enabled /\ nextRun[j] # Never /\ nextRun[j] <= now
Due(now) == {j \in Jobs : DueAt(j, now) /\ j \notin locked}

TypeOK ==
    /\ rows \in SUBSET Jobs
    /\ enabled \in SUBSET Jobs
    /\ locked \in SUBSET Jobs
    /\ schedule \in [Jobs -> Nat]
    /\ default \in [Jobs -> Nat]
    /\ nextRun \in [Jobs -> Nat]
    /\ ledger \in [Workers -> RunStates]
    /\ removed \in SUBSET Jobs
    /\ phase \in {"up", "draining", "stopped", "crashed"}
    /\ handlers \in SUBSET Jobs
    /\ resources \in SUBSET Resources
    /\ pc \in [Workers -> Pcs]
    /\ runJob \in [Workers -> Jobs \cup {None}]
    /\ uses \in [Workers -> Resources \cup {None}]
    /\ result \in [Workers -> RunStates]
    /\ captured \in [Workers -> Nat]
    /\ due \in [Ticks -> SUBSET Jobs]
    /\ tickNow \in [Ticks -> Nat]
    /\ clock \in Nat
    /\ crashes \in Nat
    /\ fired \in [Jobs -> Nat]

------------------------------------------------------------------------------
(* The process: start-up, shutdown, crash *)

\* No worker, no tick, no handler: the memory of a process that is not there.
NoMemory ==
    /\ handlers' = {}
    /\ resources' = {}
    /\ pc' = [w \in Workers |-> "idle"]
    /\ runJob' = [w \in Workers |-> None]
    /\ uses' = [w \in Workers |-> None]
    /\ result' = [w \in Workers |-> "absent"]
    /\ captured' = [w \in Workers |-> 0]
    /\ due' = [t \in Ticks |-> {}]
    /\ tickNow' = [t \in Ticks |-> 0]

Init ==
    /\ rows = {} /\ enabled = {} /\ locked = {}
    /\ schedule = [j \in Jobs |-> 0]
    /\ default = [j \in Jobs |-> 0]
    /\ nextRun = [j \in Jobs |-> Never]
    /\ ledger = [w \in Workers |-> "absent"]
    /\ removed = {}
    /\ phase = "stopped"
    /\ handlers = {}
    /\ resources = {}
    /\ pc = [w \in Workers |-> "idle"]
    /\ runJob = [w \in Workers |-> None]
    /\ uses = [w \in Workers |-> None]
    /\ result = [w \in Workers |-> "absent"]
    /\ captured = [w \in Workers |-> 0]
    /\ due = [t \in Ticks |-> {}]
    /\ tickNow = [t \in Ticks |-> 0]
    /\ clock = 0
    /\ crashes = 0
    /\ fired = [j \in Jobs |-> 0]

\* recoverInterrupted(): one transaction over both tables.
RecoveredRun(w) == IF ledger[w] = "running" THEN "interrupted" ELSE ledger[w]

Boot ==
    /\ phase \in {"stopped", "crashed"}
    /\ phase' = "up"
    /\ ledger' = [w \in Workers |-> RecoveredRun(w)]
    /\ locked' = {}
    /\ UNCHANGED <<rows, enabled, schedule, default, nextRun, removed, handlers,
                   resources, runVars, tickVars, envVars, fired>>

\* kernel.shutdown(): HTTP is closed, the timer is cleared.
Stop ==
    /\ phase = "up"
    /\ phase' = "draining"
    /\ UNCHANGED <<dbVars, handlers, resources, runVars, tickVars, envVars, fired>>

\* drain() has settled every promise; the process exits.
Exit ==
    /\ phase = "draining"
    /\ \A w \in Workers : pc[w] = "idle"
    /\ \A t \in Ticks : due[t] = {}
    /\ phase' = "stopped"
    /\ NoMemory
    /\ UNCHANGED <<dbVars, envVars, fired>>

Crash ==
    /\ Running
    /\ crashes < MaxCrashes
    /\ crashes' = crashes + 1
    /\ phase' = "crashed"
    /\ NoMemory
    /\ UNCHANGED <<dbVars, clock, fired>>

\* Time passes; an occurrence comes due at the instant nextRunAt names.
Advance ==
    /\ clock < MaxClock
    /\ clock' = clock + 1
    /\ fired' = [j \in Jobs |-> IF nextRun[j] = clock' THEN 0 ELSE fired[j]]
    /\ UNCHANGED <<dbVars, phase, handlers, resources, runVars, tickVars, crashes>>

------------------------------------------------------------------------------
(* Declarations, edits and removals *)

\* declareJob(): inserts the row, or adopts a changed default unless an
\* operator overrode the schedule.  A job declared again in the same process
\* has the same default and only replaces its handler.
AdoptsDefault(j, s) == default[j] # s /\ schedule[j] = default[j]

DeclareJob(j, s) ==
    LET fresh == j \notin rows
        on == IF fresh THEN j \notin DisabledByDefault ELSE j \in enabled
        writes == fresh \/ AdoptsDefault(j, s)
    IN
    /\ phase = "up"
    /\ j \notin handlers \cup removed
    /\ rows' = rows \cup {j}
    /\ enabled' = IF on THEN enabled \cup {j} ELSE enabled
    /\ default' = [default EXCEPT ![j] = s]
    /\ schedule' = [schedule EXCEPT ![j] = IF writes THEN s ELSE @]
    /\ nextRun' = [nextRun EXCEPT ![j] = IF writes THEN Planned(on, s) ELSE @]
    /\ fired' = [fired EXCEPT ![j] = IF writes THEN 0 ELSE @]
    /\ handlers' = handlers \cup {j}
    /\ UNCHANGED <<locked, ledger, removed, phase, resources, runVars, tickVars,
                   envVars>>

\* updateJob(): what it writes is computed from a row read one await earlier,
\* so any schedule and any enabled flag can reach the table.
UpdateJob(j, s, e) ==
    /\ phase = "up"
    /\ j \in rows \cap handlers
    /\ j \notin Protected \cup ManualOnly
    /\ enabled' = IF e THEN enabled \cup {j} ELSE enabled \ {j}
    /\ schedule' = [schedule EXCEPT ![j] = s]
    /\ nextRun' = [nextRun EXCEPT ![j] = Planned(e, s)]
    /\ fired' = [fired EXCEPT ![j] = 0]
    /\ UNCHANGED <<rows, locked, default, ledger, removed, phase, handlers, resources,
                   runVars, tickVars, envVars>>

\* removeJobsFor(), before its delete: the keys read from the table lose their
\* handlers.  The library is gone, so declare() never brings the job back.
DropHandler(j) ==
    /\ Running
    /\ j \in Removable \ removed
    /\ j \in rows
    /\ removed' = removed \cup {j}
    /\ handlers' = handlers \ {j}
    /\ UNCHANGED <<table, ledger, phase, resources, runVars, tickVars, envVars, fired>>

\* removeJobsFor(), its delete.
DeleteRow(j) ==
    /\ Running
    /\ j \in removed \cap rows
    /\ rows' = rows \ {j}
    /\ enabled' = enabled \ {j}
    /\ locked' = locked \ {j}
    /\ schedule' = [schedule EXCEPT ![j] = 0]
    /\ default' = [default EXCEPT ![j] = 0]
    /\ nextRun' = [nextRun EXCEPT ![j] = Never]
    /\ UNCHANGED <<ledger, removed, phase, handlers, resources, runVars, tickVars,
                   envVars, fired>>

------------------------------------------------------------------------------
(* Where runs come from *)

Admit(w, j) ==
    /\ pc' = [pc EXCEPT ![w] = "admitted"]
    /\ runJob' = [runJob EXCEPT ![w] = j]
    /\ UNCHANGED <<uses, result, captured>>

\* Mutant of TickStart: a timeout in place of the interval.
TickStart_Once(t) ==
    /\ phase = "up"
    /\ pc[t] = "idle" /\ due[t] = {}
    /\ tickNow[t] = 0
    /\ Due(clock) # {}
    /\ due' = [due EXCEPT ![t] = Due(clock)]
    /\ tickNow' = [tickNow EXCEPT ![t] = clock]
    /\ UNCHANGED <<dbVars, phase, handlers, resources, runVars, envVars, fired>>

\* Mutant of TickStart: stop() does not clear the timer.
TickStart_Unstopped(t) ==
    /\ Running
    /\ pc[t] = "idle" /\ due[t] = {}
    /\ Due(clock) # {}
    /\ due' = [due EXCEPT ![t] = Due(clock)]
    /\ tickNow' = [tickNow EXCEPT ![t] = clock]
    /\ UNCHANGED <<dbVars, phase, handlers, resources, runVars, envVars, fired>>

\* tick(): the query that takes the snapshot of due jobs.
TickStart(t) ==
    /\ phase = "up"
    /\ pc[t] = "idle" /\ due[t] = {}
    /\ Due(clock) # {}
    /\ due' = [due EXCEPT ![t] = Due(clock)]
    /\ tickNow' = [tickNow EXCEPT ![t] = clock]
    /\ UNCHANGED <<dbVars, phase, handlers, resources, runVars, envVars, fired>>

\* tick(): the next job of the snapshot, in the order the table gave it.
TickSkips(t, j) ==
    /\ pc[t] = "idle"
    /\ j \in due[t] /\ (j \notin handlers \/ j \in ManualOnly)
    /\ due' = [due EXCEPT ![t] = @ \ {j}]
    /\ UNCHANGED <<dbVars, phase, handlers, resources, runVars, tickNow, envVars,
                   fired>>

TickTakes(t, j) ==
    /\ pc[t] = "idle"
    /\ j \in due[t] /\ j \in handlers \ ManualOnly
    /\ due' = [due EXCEPT ![t] = @ \ {j}]
    /\ Admit(t, j)
    /\ UNCHANGED <<dbVars, phase, handlers, resources, tickNow, envVars, fired>>

\* dispatch() and the calls that end in it, as far as #job(): a row, a handler.
Dispatch(w, j) ==
    /\ phase = "up"
    /\ pc[w] = "idle"
    /\ j \in rows \cap handlers
    /\ Admit(w, j)
    /\ UNCHANGED <<dbVars, phase, handlers, resources, tickVars, envVars, fired>>

------------------------------------------------------------------------------
(* A run *)

\* The worker comes to the end of its run (or never had one).
History(w) == IF ledger[w] = "running" THEN "running" ELSE "absent"
Over(w) ==
    /\ ledger' = [ledger EXCEPT ![w] = History(w)]
    /\ pc' = [pc EXCEPT ![w] = "idle"]
    /\ runJob' = [runJob EXCEPT ![w] = None]
    /\ uses' = [uses EXCEPT ![w] = None]
    /\ result' = [result EXCEPT ![w] = "absent"]
    /\ captured' = [captured EXCEPT ![w] = 0]

GoTo(w, from, to) ==
    /\ pc[w] = from
    /\ pc' = [pc EXCEPT ![w] = to]

\* Mutant of Claimable: a scheduled claim does not test again that the job is
\* due.
Claimable_Stale(w, j) == j \in rows \ locked

\* The conditions of #claim's update.
Claimable(w, j) ==
    /\ j \in rows \ locked
    /\ w \in Ticks => DueAt(j, tickNow[w])

Claim(w) ==
    LET j == runJob[w] IN
    /\ GoTo(w, "admitted", "claimed")
    /\ Claimable(w, j)
    /\ locked' = locked \cup {j}
    /\ UNCHANGED <<rows, enabled, schedule, default, nextRun, ledger, removed,
                   phase, handlers, resources, runJob, uses, result,
                   captured, tickVars, envVars, fired>>

ClaimRefused(w) ==
    /\ pc[w] = "admitted"
    /\ ~Claimable(w, runJob[w])
    /\ Over(w)
    /\ UNCHANGED <<table, removed, phase, handlers, resources, tickVars, envVars,
                   fired>>

\* The claim throws outside tick's try block: the rest of the snapshot is lost.
ClaimFails(w) ==
    /\ "claim" \in Faults
    /\ pc[w] = "admitted"
    /\ Over(w)
    /\ due' = [t \in Ticks |-> IF t = w THEN {} ELSE due[t]]
    /\ UNCHANGED <<table, removed, phase, handlers, resources, tickNow, envVars, fired>>

\* #begin inserts the running record; #run's first lines take the resource
\* before the next await.  Mutant of ResourceFor: there is no fallback to the
\* job's key.
ResourceFor_NoDefault(j) == IF j \in handlers THEN ResourceOf[j] ELSE None
ResourceFor(j) == IF j \in handlers THEN ResourceOf[j] ELSE j

Begin(w) ==
    LET x == ResourceFor(runJob[w])
        occupied == x \in resources
    IN
    /\ GoTo(w, "claimed", "started")
    /\ ledger' = [ledger EXCEPT ![w] = "running"]
    /\ resources' = resources \cup {x}
    /\ uses' = [uses EXCEPT ![w] = IF occupied THEN None ELSE x]
    /\ UNCHANGED <<table, removed, phase, handlers, runJob, result, captured,
                   tickVars, envVars, fired>>

BeginFails(w) ==
    /\ "insert" \in Faults
    /\ GoTo(w, "claimed", "unclaiming")
    /\ UNCHANGED <<dbVars, phase, handlers, resources, runJob, uses, result, captured,
                   tickVars, envVars, fired>>

\* Mutant of Unclaim: the catch only rethrows.
Unclaim_KeepsLock(w) ==
    /\ pc[w] = "unclaiming"
    /\ Over(w)
    /\ UNCHANGED <<table, removed, phase, handlers, resources, tickVars, envVars,
                   fired>>

\* #begin's catch gives the claim back.
Unclaim(w) ==
    /\ pc[w] = "unclaiming"
    /\ locked' = locked \ {runJob[w]}
    /\ Over(w)
    /\ UNCHANGED <<rows, enabled, schedule, default, nextRun, removed, phase,
                   handlers, resources, tickVars, envVars, fired>>

\* Mutant of Enter: the handler runs although the resource is occupied.
Enter_Occupied(w) ==
    LET j == runJob[w] IN
    /\ j \in handlers
    /\ GoTo(w, "started", "executing")
    /\ UNCHANGED <<dbVars, phase, handlers, resources, runJob, uses, result, captured,
                   tickVars, envVars, fired>>

\* The history variable saturates one above what OncePerLife allows.
CountedUp(n) == IF n > 1 + MaxCrashes THEN n ELSE n + 1

\* The "started" event is out: look the handler up, and enter it unless the
\* resource was occupied.
Enter(w) ==
    LET j == runJob[w] IN
    /\ j \in handlers
    /\ uses[w] # None
    /\ GoTo(w, "started", "executing")
    /\ fired' = IF w \in Ticks THEN [fired EXCEPT ![j] = CountedUp(@)] ELSE fired
    /\ UNCHANGED <<dbVars, phase, handlers, resources, runJob, uses, result, captured,
                   tickVars, envVars>>

EnterBlocked(w) ==
    /\ runJob[w] \in handlers
    /\ uses[w] = None
    /\ GoTo(w, "started", "returned")
    /\ result' = [result EXCEPT ![w] = "blocked"]
    /\ UNCHANGED <<dbVars, phase, handlers, resources, runJob, uses, captured,
                   tickVars, envVars, fired>>

EnterMissing(w) ==
    /\ runJob[w] \notin handlers
    /\ GoTo(w, "started", "failing")
    /\ UNCHANGED <<dbVars, phase, handlers, resources, runJob, uses, result, captured,
                   tickVars, envVars, fired>>

HandlerReturns(w, s) ==
    /\ GoTo(w, "executing", "returned")
    /\ result' = [result EXCEPT ![w] = s]
    /\ UNCHANGED <<dbVars, phase, handlers, resources, runJob, uses, captured,
                   tickVars, envVars, fired>>

HandlerThrows(w) ==
    /\ "handler" \in Faults
    /\ GoTo(w, "executing", "failing")
    /\ UNCHANGED <<dbVars, phase, handlers, resources, runJob, uses, result, captured,
                   tickVars, envVars, fired>>

Record(w) ==
    /\ GoTo(w, "returned", "recorded")
    /\ ledger' = [ledger EXCEPT ![w] = result[w]]
    /\ UNCHANGED <<table, removed, phase, handlers, resources, runJob, uses, result,
                   captured, tickVars, envVars, fired>>

\* The "finished" event is out.
Finish(w) ==
    /\ GoTo(w, "recorded", "finalizing")
    /\ UNCHANGED <<dbVars, phase, handlers, resources, runJob, uses, result, captured,
                   tickVars, envVars, fired>>

\* An event could not be appended, or the result could not be written: the
\* catch block takes over, also when the result is already in the table.
PublishFails(w) ==
    /\ "publish" \in Faults
    /\ GoTo(w, "started", "failing") \/ GoTo(w, "recorded", "failing")
    /\ UNCHANGED <<dbVars, phase, handlers, resources, runJob, uses, result, captured,
                   tickVars, envVars, fired>>

RecordFails(w) ==
    /\ "record" \in Faults
    /\ GoTo(w, "returned", "failing")
    /\ UNCHANGED <<dbVars, phase, handlers, resources, runJob, uses, result, captured,
                   tickVars, envVars, fired>>

\* The catch block writes "failed"; whether its event is out or not, finally{}
\* comes next.
Fail(w) ==
    /\ GoTo(w, "failing", "finalizing")
    /\ ledger' = [ledger EXCEPT ![w] = "failed"]
    /\ UNCHANGED <<table, removed, phase, handlers, resources, runJob, uses, result,
                   captured, tickVars, envVars, fired>>

\* The catch block's own write throws: the record stays "running".
FailFails(w) ==
    /\ "record" \in Faults
    /\ GoTo(w, "failing", "finalizing")
    /\ UNCHANGED <<dbVars, phase, handlers, resources, runJob, uses, result, captured,
                   tickVars, envVars, fired>>

\* finally{}: the resource is free, then schedule and enabled are read.
Freed(w) == resources \ {uses[w]}

ReadBack(w) ==
    LET j == runJob[w] IN
    /\ GoTo(w, "finalizing", "unlocking")
    /\ j \in rows
    /\ resources' = Freed(w)
    /\ uses' = [uses EXCEPT ![w] = None]
    /\ captured' = [captured EXCEPT ![w] = IF j \in enabled THEN schedule[j] ELSE 0]
    /\ UNCHANGED <<dbVars, phase, handlers, runJob, result, tickVars, envVars, fired>>

\* if (current): the row is gone, nothing to unlock.
ReadNothing(w) ==
    /\ pc[w] = "finalizing"
    /\ runJob[w] \notin rows
    /\ resources' = Freed(w)
    /\ Over(w)
    /\ UNCHANGED <<table, removed, phase, handlers, tickVars, envVars, fired>>

\* finally{}'s update, with the next occurrence of what was read before it.
Unlock(w) ==
    LET j == runJob[w] IN
    /\ pc[w] = "unlocking"
    /\ locked' = locked \ {j}
    /\ nextRun' = IF j \in rows
                  THEN [nextRun EXCEPT ![j] = Planned(captured[w] # 0, captured[w])]
                  ELSE nextRun
    /\ Over(w)
    /\ UNCHANGED <<rows, enabled, schedule, default, removed, phase, handlers,
                   resources,
                   tickVars, envVars, fired>>

\* A statement of finally{}, or of #begin's catch, throws: the lock stays.
ReleaseFails(w) ==
    /\ "release" \in Faults
    /\ pc[w] \in {"finalizing", "unlocking", "unclaiming"}
    /\ resources' = Freed(w)
    /\ Over(w)
    /\ UNCHANGED <<table, removed, phase, handlers, tickVars, envVars, fired>>

------------------------------------------------------------------------------
(* Specification *)

\* The steps the server owes to a run once it exists, its handler included.
RunStep(w) ==
    \/ Claim(w) \/ ClaimRefused(w) \/ ClaimFails(w)
    \/ Begin(w) \/ BeginFails(w) \/ Unclaim(w)
    \/ Enter(w) \/ EnterBlocked(w) \/ EnterMissing(w)
    \/ \E s \in JobResults : HandlerReturns(w, s)
    \/ HandlerThrows(w)
    \/ Record(w) \/ RecordFails(w) \/ Finish(w) \/ PublishFails(w)
    \/ Fail(w) \/ FailFails(w)
    \/ ReadBack(w) \/ ReadNothing(w) \/ Unlock(w) \/ ReleaseFails(w)

TickStep(t) == \E j \in Jobs : TickSkips(t, j) \/ TickTakes(t, j)

Next ==
    \/ Boot \/ Stop \/ Exit \/ Crash \/ Advance
    \/ \E j \in Jobs, s \in Schedules :
          \/ DeclareJob(j, s)
          \/ \E e \in BOOLEAN : UpdateJob(j, s, e)
    \/ \E j \in Jobs : DropHandler(j) \/ DeleteRow(j)
    \/ \E w \in Workers : RunStep(w)
    \/ \E w \in Callers, j \in Jobs : Dispatch(w, j)
    \/ \E t \in Ticks : TickStart(t) \/ TickStep(t)

\* The event loop resumes every promise whose await settled, handlers settle,
\* the interval timer keeps firing, and a process whose drain() settled exits.
Fairness ==
    /\ \A w \in Workers : WF_vars(RunStep(w))
    /\ \A t \in Ticks : WF_vars(TickStart(t)) /\ WF_vars(TickStep(t))
    /\ WF_vars(Exit)

Spec == Init /\ [][Next]_vars
FairSpec == Spec /\ Fairness

------------------------------------------------------------------------------
(* Properties *)

\* Two handlers never work on the same resource at the same time, although
\* the jobs of one library, or the two searches, share it, ticks overlap and
\* operators dispatch by hand (#resources in #run).
MutualExclusion ==
    \A v, w \in Workers :
        v # w /\ Executing(v) /\ Executing(w)
            => ResourceOf[runJob[v]] # ResourceOf[runJob[w]]

\* A job has one run at a time, from the claim to the end of finally{}: the
\* second of two ticks, or of a tick and an operator, is refused.
OneRunPerJob ==
    \A v, w \in Workers :
        v # w /\ Owning(v) /\ Owning(w) => runJob[v] # runJob[w]

\* Every member of #resources was put there by a run that will take it out: a
\* leaked member would make every later run of its jobs end "blocked".
NoResourceLeak == \A x \in resources : \E w \in Workers : uses[w] = x

\* Within one life of the process an occurrence enters its handler once: two
\* ticks with the same job in their snapshots do not both run it, nor does the
\* slower one run the next occurrence before it is due.
OncePerLife == \A j \in Jobs : fired[j] <= 1 + crashes

\* A locked row has a live worker that is going to unlock it, until the
\* process is gone: the lock has no expiry, so an orphan would stop the job.
\* The history shows a run as running only while a worker carries it.  And
\* drain() leaves nothing behind: after an orderly shutdown no row is locked
\* and no run is left for recoverInterrupted() to mark.
ClaimsOwned ==
    /\ Running =>
        /\ \A j \in locked : \E w \in Workers : Owning(w) /\ runJob[w] = j
        /\ \A w \in Workers : ledger[w] = "running" => Owning(w)
    /\ phase = "stopped" =>
        locked = {} /\ \A w \in Workers : ledger[w] # "running"

\* Hazard: a claim is three steps, its return three more, and any of them may
\* throw.  What is taken, row, run record or resource, has a worker that gives
\* it back (scheduler.ts:232, 244, 276).
NothingLeaks == NoResourceLeak /\ ClaimsOwned

\* What is begun ends: a claimed job is given back, whatever its handler and the
\* events do, and shutdown is never held up for ever by ticks that keep claiming.
LockReleased ==
    \A j \in Jobs : Running /\ j \in locked ~> j \notin locked \/ ~Running
DrainEnds == phase = "draining" ~> phase \in {"stopped", "crashed"}
WorkEnds  == LockReleased /\ DrainEnds

\* An enabled job that is due is claimed or moved to a later instant: a busy
\* tick or a snapshot taken too early does not lose the occurrence.
Waiting(j) ==
    /\ phase = "up" /\ j \in handlers \ ManualOnly
    /\ j \in Due(clock)
DueJobRuns == \A j \in Jobs : Waiting(j) ~> ~Waiting(j)

\* ExclusiveRuns, the promise the steps above implement.
work == [w \in Workers |->
            IF Owning(w)
            THEN [job |-> {runJob[w]}, busy |-> Executing(w)]
            ELSE [job |-> {}, busy |-> FALSE]]
Promise == INSTANCE ExclusiveRuns
PromiseSpec == Promise!Spec

\* docs/architecture.md says the persisted state keeps restarts from firing a
\* job twice: an occurrence enters its handler at most once.
NoDoubleFire == \A j \in Jobs : fired[j] <= 1

\* Every writer sets nextRunAt to null exactly when it writes enabled = 0, and
\* tests/jobs.test.ts expects it of a disable made while the job runs: an
\* unlocked enabled job has a next run, an unlocked disabled job has none.
NextRunMatchesEnabled ==
    \A j \in rows \ locked : j \in enabled <=> nextRun[j] # Never

==============================================================================
