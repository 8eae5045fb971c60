----------------------------- MODULE Supervisor -----------------------------
(* The plugin supervisor: apps/server/src/supervisor.ts, with the part of    *)
(* container.ts it registers providers in.                                   *)
(*                                                                           *)
(* One plugin id with one capability.  Every mount() makes a new             *)
(* RunningPlugin object, and an object that unmount() has dropped from the   *)
(* #plugins map keeps its timers, its process and its promises, so the       *)
(* objects are told apart.  An attempt is one call of #spawnAndStart with    *)
(* the process it spawns: attempt <<m, 0>> is made by mount() and <<m, k>>   *)
(* by the k-th restart timer of the object m.                                *)
(*                                                                           *)
(* Data kept abstract: back-off delays (a timer may fire at any time), the   *)
(* instants in restartTimestamps (only their number counts), the answers of  *)
(* a plugin (good or not), calls, pings and events other than by their       *)
(* effect on state.                                                          *)

EXTENDS Naturals, FiniteSets

CONSTANTS Mounts,        \* RunningPlugin objects, numbered in the order of mount()
          Callers,       \* promises of unmount / restart / stopAll calls
          MaxRestarts,   \* restartPolicy.maxRestartsInWindow
          MaxWindows,    \* bound on the windows that pass
          EarlyExits,    \* may a plugin exit before it acknowledged mount?
          Overlap,       \* may calls overlap start-ups and each other?
          None           \* no object, no process, no timer

MaxLaunches == MaxRestarts * (1 + MaxWindows)
Attempts == Mounts \X (0..MaxLaunches)
ObjectOf(a) == a[1]
IsRestart(a) == a[2] # 0
First(m) == <<m, 0>>

ASSUME MountAssumption == Mounts \subseteq Nat /\ IsFiniteSet(Mounts)
ASSUME PolicyAssumption == MaxRestarts \in Nat /\ MaxWindows \in Nat
ASSUME ChoiceAssumption == EarlyExits \in BOOLEAN /\ Overlap \in BOOLEAN
ASSUME NoneAssumption == None \notin Mounts \cup Attempts

VARIABLES
    current,      \* the object in the #plugins map
    state,        \* plugin.state
    proc,         \* plugin.proc: the attempt whose process it holds
    providers,    \* its providers in the container (unregisterFns.length)
    intentional,  \* objects with unmountedIntentionally
    timer,        \* plugin.restartTimer: the attempt that timer will make
    stamps,       \* restartTimestamps that are within the window
    launched,     \* restartCount
    crashing,     \* #handleCrash calls that await the publication
    kept,         \* object restart() puts back if this mount fails
    step,         \* where each attempt is
    peer,         \* the process its pending request was written to
    live,         \* processes that run
    doomed,       \* processes a signal was sent to
    op,           \* where each caller is
    opObject,     \* the object it unmounts, and
    remounts,     \* callers that mount again: restart()
    stopping,     \* #stopping
    windows       \* restart windows that have passed

objectVars == <<state, proc, providers, intentional, timer, stamps, launched, crashing, kept>>
attemptVars == <<step, peer>>
procVars == <<live, doomed>>
opVars == <<op, opObject, remounts>>
vars == <<current, objectVars, attemptVars, procVars, opVars, stopping, windows>>

------------------------------------------------------------------------------

States == {"unused", "starting", "healthy", "degraded", "restarting", "failed",
           "unmounted"}
Steps == {"unused", "armed", "preparing", "handshaking", "mounting", "done"}
OpPcs == {"idle", "closing", "revoked", "stopping", "remounting"}

\* Attempts with a request in plugin.pending.
Waiting(a) == step[a] \in {"handshaking", "mounting"}
InFlight(a) == step[a] \in {"preparing", "handshaking", "mounting"}
Serving(m) == state[m] \in {"healthy", "degraded"}

\* Unless Overlap, a caller waits until no start-up, crash handler or other
\* call is under way; a plugin that waits for its restart timer may be called.
Calm ==
    \/ Overlap
    \/ /\ ~stopping
       /\ \A o \in Callers : op[o] = "idle"
       /\ \A a \in Attempts : ~InFlight(a)
       /\ \A m \in Mounts : crashing[m] = 0

TypeOK ==
    /\ current \in Mounts \cup {None}
    /\ state \in [Mounts -> States]
    /\ proc \in [Mounts -> Attempts \cup {None}]
    /\ providers \in [Mounts -> Nat]
    /\ intentional \in SUBSET Mounts
    /\ timer \in [Mounts -> Attempts \cup {None}]
    /\ stamps \in [Mounts -> 0..MaxRestarts]
    /\ launched \in [Mounts -> Nat]
    /\ crashing \in [Mounts -> Nat]
    /\ kept \in [Mounts -> Mounts \cup {None}]
    /\ step \in [Attempts -> Steps]
    /\ peer \in [Attempts -> Attempts \cup {None}]
    /\ live \in SUBSET Attempts
    /\ doomed \in SUBSET Attempts
    /\ op \in [Callers -> OpPcs]
    /\ opObject \in [Callers -> Mounts \cup {None}]
    /\ remounts \in SUBSET Callers
    /\ stopping \in BOOLEAN
    /\ windows \in 0..MaxWindows

Init ==
    /\ current = None
    /\ state = [m \in Mounts |-> "unused"]
    /\ proc = [m \in Mounts |-> None]
    /\ providers = [m \in Mounts |-> 0]
    /\ intentional = {}
    /\ timer = [m \in Mounts |-> None]
    /\ stamps = [m \in Mounts |-> 0]
    /\ launched = [m \in Mounts |-> 0]
    /\ crashing = [m \in Mounts |-> 0]
    /\ kept = [m \in Mounts |-> None]
    /\ step = [a \in Attempts |-> "unused"]
    /\ peer = [a \in Attempts |-> None]
    /\ live = {} /\ doomed = {}
    /\ op = [o \in Callers |-> "idle"]
    /\ opObject = [o \in Callers |-> None]
    /\ remounts = {}
    /\ stopping = FALSE
    /\ windows = 0

------------------------------------------------------------------------------
(* Helpers *)

\* #rollback(): every provider of the object leaves the container.
Revoked(m) == [providers EXCEPT ![m] = 0]

\* clearTimeout(plugin.restartTimer): only the timer the field names.
Cancelled(m) ==
    [a \in Attempts |->
        IF a = timer[m] /\ step[a] = "armed" THEN "done" ELSE step[a]]

Signalled(p) == doomed \cup ({p} \cap live)

\* #request(): the object must hold a process whose stdin is open.
Reachable(m) == proc[m] \in live

\* A call comes to its end.
Returns(o) ==
    /\ op' = [op EXCEPT ![o] = "idle"]
    /\ opObject' = [opObject EXCEPT ![o] = None]
    /\ remounts' = remounts \ {o}

------------------------------------------------------------------------------
(* mount() *)

\* new RunningPlugin
Fresh(m) ==
    /\ state[m] = "unused"
    /\ \A n \in Mounts : n < m => state[n] # "unused"

\* The part of mount() before its first await.  back is the object restart()
\* keeps, None for other callers.
StartMount(m, back) ==
    /\ current = None
    /\ Fresh(m)
    /\ current' = m
    /\ state' = [state EXCEPT ![m] = "starting"]
    /\ kept' = [kept EXCEPT ![m] = back]
    /\ step' = [step EXCEPT ![First(m)] = "preparing"]
    /\ UNCHANGED <<proc, providers, intentional, timer, stamps, launched, crashing,
                   peer, procVars, stopping, windows>>

Mount(m) ==
    /\ Calm
    /\ StartMount(m, None)
    /\ UNCHANGED opVars

\* restart(), once its unmount() is through.
Remount(o, m) ==
    /\ op[o] = "remounting"
    /\ StartMount(m, opObject[o])
    /\ Returns(o)

\* Another caller has mounted the plugin meanwhile: "already mounted".
RemountRefused(o) ==
    /\ op[o] = "remounting"
    /\ current # None
    /\ Returns(o)
    /\ UNCHANGED <<current, objectVars, attemptVars, procVars, stopping, windows>>

\* mount() throws before it makes an object: a required capability is missing.
\* restart() puts its old object back into the map, as failed.
RemountUnresolved(o) ==
    LET m == opObject[o] IN
    /\ op[o] = "remounting"
    /\ current = None
    /\ current' = m
    /\ state' = [state EXCEPT ![m] = "failed"]
    /\ proc' = [proc EXCEPT ![m] = None]
    /\ Returns(o)
    /\ UNCHANGED <<providers, intentional, timer, stamps, launched, crashing, kept,
                   attemptVars, procVars, stopping, windows>>

\* #spawnAndStart(): prepareEntry is through; spawn, then write the handshake.
Spawn(a) ==
    /\ step[a] = "preparing"
    /\ proc' = [proc EXCEPT ![ObjectOf(a)] = a]
    /\ live' = live \cup {a}
    /\ step' = [step EXCEPT ![a] = "handshaking"]
    /\ peer' = [peer EXCEPT ![a] = a]
    /\ UNCHANGED <<current, state, providers, intentional, timer, stamps, launched,
                   crashing, kept, doomed, opVars, stopping, windows>>

\* A good handshake: the mount request goes to the process the object holds
\* by now.
Handshake(a) ==
    LET m == ObjectOf(a) IN
    /\ step[a] = "handshaking"
    /\ Reachable(m)
    /\ step' = [step EXCEPT ![a] = "mounting"]
    /\ peer' = [peer EXCEPT ![a] = proc[m]]
    /\ UNCHANGED <<current, objectVars, procVars, opVars, stopping, windows>>

\* The mount is acknowledged: healthy, and the providers are registered.
Started(a) ==
    LET m == ObjectOf(a) IN
    /\ step[a] = "mounting"
    /\ step' = [step EXCEPT ![a] = "done"]
    /\ state' = [state EXCEPT ![m] = "healthy"]
    /\ providers' = [providers EXCEPT ![m] = @ + 1]
    /\ peer' = [peer EXCEPT ![a] = None]
    /\ kept' = [kept EXCEPT ![m] = None]
    /\ UNCHANGED <<current, proc, intentional, timer, stamps, launched, crashing,
                   procVars, opVars, stopping, windows>>

\* Preparation throws, or a request is refused, answered with an error or not
\* answered in time.  mount() takes everything back, whichever object the map
\* holds by now; restart() keeps its old object as failed.
MountFails(a) ==
    LET m == ObjectOf(a) IN
    /\ InFlight(a) /\ ~IsRestart(a)
    /\ step' = [step EXCEPT ![a] = "done"]
    /\ providers' = Revoked(m)
    /\ doomed' = Signalled(proc[m])
    /\ proc' = [x \in Mounts |-> IF x \in {m, kept[m]} THEN None ELSE proc[x]]
    /\ intentional' = IF proc[m] = None THEN intentional ELSE intentional \cup {m}
    /\ current' = kept[m]
    /\ state' = [x \in Mounts |-> IF x = kept[m] THEN "failed" ELSE state[x]]
    /\ kept' = [kept EXCEPT ![m] = None]
    /\ peer' = [peer EXCEPT ![a] = None]
    /\ UNCHANGED <<timer, stamps, launched, crashing, live, opVars, stopping, windows>>

\* The restart timer's catch block: kill, then the crash policy.
RestartFails(a) ==
    LET m == ObjectOf(a) IN
    /\ InFlight(a) /\ IsRestart(a)
    /\ step' = [step EXCEPT ![a] = "done"]
    /\ state' = [state EXCEPT ![m] = "restarting"]
    /\ doomed' = Signalled(proc[m])
    /\ proc' = [proc EXCEPT ![m] = None]
    /\ crashing' = [crashing EXCEPT ![m] = @ + 1]
    /\ peer' = [peer EXCEPT ![a] = None]
    /\ UNCHANGED <<current, providers, intentional, timer, stamps, launched, kept, live,
                   opVars, stopping, windows>>

------------------------------------------------------------------------------
(* Exits and the crash policy *)

\* The exit handler leaves the crash policy alone.  Mutant: it does not test
\* that the process is still the one the object holds.
Expected_AnyProcess(a) == stopping \/ ObjectOf(a) \in intentional
Expected(a) ==
    stopping \/ ObjectOf(a) \in intentional \/ proc[ObjectOf(a)] # a

\* The requests of the object that an exit settles.  Mutant: the exit handler
\* returns for an expected exit before it settles them.
Settled_Unexpected(a) ==
    IF Expected(a) THEN {}
    ELSE {b \in Attempts : ObjectOf(b) = ObjectOf(a) /\ Waiting(b)}
Settled(a) == {b \in Attempts : ObjectOf(b) = ObjectOf(a) /\ Waiting(b)}

\* A process exits.  All pending requests of its object end "process exited",
\* and the promises waiting for them call #handleCrash on their own account:
\* mount() at once, a restart timer after killing the process it finds.
ProcessExits(a) ==
    LET m == ObjectOf(a)
        ended == Settled(a)
        found == IF Expected(a) /\ proc[m] = a THEN None ELSE proc[m]
        kills == \E b \in ended : IsRestart(b)
        policy == IF Expected(a) THEN 0 ELSE 1
    IN
    /\ a \in live
    /\ EarlyExits \/ a \in doomed \/ step[a] = "done"
    /\ live' = live \ {a}
    /\ step' = [b \in Attempts |-> IF b \in ended THEN "done" ELSE step[b]]
    /\ peer' = [b \in Attempts |-> IF b \in ended THEN None ELSE peer[b]]
    /\ proc' = [proc EXCEPT ![m] = IF kills THEN None ELSE found]
    /\ doomed' = (IF kills THEN Signalled(found) ELSE doomed) \ {a}
    /\ state' = IF ended # {} \/ ~Expected(a)
                THEN [state EXCEPT ![m] = "restarting"] ELSE state
    /\ crashing' = [crashing EXCEPT ![m] = @ + policy + Cardinality(ended)]
    /\ UNCHANGED <<current, providers, intentional, timer, stamps, launched, kept,
                   opVars, stopping, windows>>

\* The test of the restart budget.  Mutant: it counts one too far.
BudgetSpent_OffByOne(m) == stamps[m] > MaxRestarts
BudgetSpent(m) == stamps[m] >= MaxRestarts

\* Mutant of GiveUp: the handler returns and the state stays "restarting".
GiveUp_Silent(m) == UNCHANGED <<state, timer, stamps, launched, step>>
GiveUp(m) ==
    /\ state' = [state EXCEPT ![m] = "failed"]
    /\ UNCHANGED <<timer, stamps, launched, step>>

\* Otherwise a timer; the field forgets an earlier one.  Mutant of Arm: the
\* restart is not entered in restartTimestamps.
Arm_Unstamped(m) ==
    LET a == <<m, launched[m] + 1>> IN
    /\ launched' = [launched EXCEPT ![m] = @ + 1]
    /\ timer' = [timer EXCEPT ![m] = a]
    /\ step' = [step EXCEPT ![a] = "armed"]
    /\ UNCHANGED <<state, stamps>>
Arm(m) ==
    LET a == <<m, launched[m] + 1>> IN
    /\ stamps' = [stamps EXCEPT ![m] = @ + 1]
    /\ launched' = [launched EXCEPT ![m] = @ + 1]
    /\ timer' = [timer EXCEPT ![m] = a]
    /\ step' = [step EXCEPT ![a] = "armed"]
    /\ UNCHANGED state

\* #handleCrash(), its event published: revoke, then restart or give up.
CrashHandled(m) ==
    /\ crashing[m] > 0
    /\ crashing' = [crashing EXCEPT ![m] = @ - 1]
    /\ providers' = Revoked(m)
    /\ IF BudgetSpent(m) THEN GiveUp(m) ELSE Arm(m)
    /\ UNCHANGED <<current, proc, intentional, kept, peer, procVars, opVars, stopping,
                   windows>>

TimerFires(a) ==
    LET m == ObjectOf(a) IN
    /\ step[a] = "armed"
    /\ step' = [step EXCEPT ![a] = "preparing"]
    /\ timer' = [timer EXCEPT ![m] = None]
    /\ state' = [state EXCEPT ![m] = "starting"]
    /\ UNCHANGED <<current, proc, providers, intentional, stamps, launched, crashing,
                   kept, peer, procVars, opVars, stopping, windows>>

\* Restarts grow older than windowMs.
WindowPasses(m) ==
    /\ windows < MaxWindows
    /\ windows' = windows + 1
    /\ \E n \in 0..MaxRestarts :
          n < stamps[m] /\ stamps' = [stamps EXCEPT ![m] = n]
    /\ UNCHANGED <<current, state, proc, providers, intentional, timer, launched,
                   crashing, kept, attemptVars, procVars, opVars, stopping>>

\* The health loop: a ping fails or is not answered.
PingFails(m) ==
    /\ m = current /\ Serving(m)
    /\ state' = [state EXCEPT ![m] = "degraded"]
    /\ UNCHANGED <<current, proc, providers, intentional, timer, stamps, launched,
                   crashing, kept, attemptVars, procVars, opVars, stopping, windows>>

------------------------------------------------------------------------------
(* unmount(), restart(), stopAll() *)

\* stopAll() before its first await: nothing counts as a crash from here on.
StopAll(o) ==
    /\ Calm
    /\ op[o] = "idle" /\ ~stopping
    /\ stopping' = TRUE
    /\ IF current = None
       THEN UNCHANGED <<intentional, step, op>>
       ELSE /\ intentional' = intentional \cup {current}
            /\ step' = Cancelled(current)
            /\ op' = [op EXCEPT ![o] = "closing"]
    /\ UNCHANGED <<current, state, proc, providers, timer, stamps, launched, crashing,
                   kept, peer, procVars, opObject, remounts, windows>>

\* Mutant of BeginUnmount: a restart that waits for its timer is not cleared.
BeginUnmount_KeepsTimer(o, again) ==
    LET m == current IN
    /\ current # None
    /\ intentional' = intentional \cup {m}
    /\ providers' = Revoked(m)
    /\ op' = [op EXCEPT ![o] = "revoked"]
    /\ opObject' = [opObject EXCEPT ![o] = m]
    /\ remounts' = IF again THEN remounts \cup {o} ELSE remounts \ {o}
    /\ UNCHANGED <<current, state, proc, timer, stamps, launched, crashing, kept,
                   attemptVars, procVars, stopping, windows>>

\* unmount() before its first await: mark, clear the timer, revoke.
BeginUnmount(o, again) ==
    LET m == current IN
    /\ current # None
    /\ intentional' = intentional \cup {m}
    /\ step' = Cancelled(m)
    /\ providers' = Revoked(m)
    /\ op' = [op EXCEPT ![o] = "revoked"]
    /\ opObject' = [opObject EXCEPT ![o] = m]
    /\ remounts' = IF again THEN remounts \cup {o} ELSE remounts \ {o}
    /\ UNCHANGED <<current, state, proc, timer, stamps, launched, crashing, kept, peer,
                   procVars, stopping, windows>>

Unmount(o, again) ==
    /\ Calm
    /\ op[o] = "idle"
    /\ BeginUnmount(o, again)

\* stopAll() comes to this plugin; one that is gone is passed over.
Close(o) == op[o] = "closing" /\ BeginUnmount(o, FALSE)
CloseNothing(o) ==
    /\ op[o] = "closing"
    /\ current = None
    /\ op' = [op EXCEPT ![o] = "idle"]
    /\ UNCHANGED <<current, objectVars, attemptVars, procVars, opObject, remounts,
                   stopping, windows>>

\* Its jobs are removed: SIGTERM to the process the object holds.
Terminate(o) ==
    LET m == opObject[o] IN
    /\ op[o] = "revoked"
    /\ proc[m] # None
    /\ doomed' = Signalled(proc[m])
    /\ proc' = [proc EXCEPT ![m] = None]
    /\ op' = [op EXCEPT ![o] = "stopping"]
    /\ UNCHANGED <<current, state, providers, intentional, timer, stamps, launched,
                   crashing, kept, attemptVars, live, opObject, remounts, stopping,
                   windows>>

\* The process has exited or was killed after its grace, or there is none.
\* The map loses its entry, whichever object that is by now.
EndUnmount(o) ==
    LET m == opObject[o] IN
    /\ op[o] = "stopping" \/ (op[o] = "revoked" /\ proc[m] = None)
    /\ state' = [state EXCEPT ![m] = "unmounted"]
    /\ current' = None
    /\ IF o \in remounts
       THEN op' = [op EXCEPT ![o] = "remounting"] /\ UNCHANGED <<opObject, remounts>>
       ELSE Returns(o)
    /\ UNCHANGED <<proc, providers, intentional, timer, stamps, launched, crashing,
                   kept,
                   attemptVars, procVars, stopping, windows>>

------------------------------------------------------------------------------
(* Specification *)

StartStep(a) ==
    \/ Spawn(a) \/ Handshake(a) \/ Started(a) \/ MountFails(a) \/ RestartFails(a)

CallStep(o) ==
    \/ Close(o) \/ CloseNothing(o) \/ Terminate(o) \/ EndUnmount(o)
    \/ RemountRefused(o) \/ RemountUnresolved(o)
    \/ \E m \in Mounts : Remount(o, m)

Next ==
    \/ \E a \in Attempts : StartStep(a) \/ ProcessExits(a) \/ TimerFires(a)
    \/ \E m \in Mounts :
          Mount(m) \/ CrashHandled(m) \/ WindowPasses(m) \/ PingFails(m)
    \/ \E o \in Callers :
          \/ CallStep(o) \/ StopAll(o)
          \/ \E again \in BOOLEAN : Unmount(o, again)

\* Every request is answered or times out, timers fire, publications and calls
\* come to their end, and a process that got a signal exits.
Fairness ==
    /\ \A a \in Attempts :
          /\ WF_vars(StartStep(a))
          /\ WF_vars(TimerFires(a))
          /\ WF_vars(a \in doomed /\ ProcessExits(a))
    /\ \A m \in Mounts : WF_vars(CrashHandled(m))
    /\ \A o \in Callers : WF_vars(CallStep(o))

Spec == Init /\ [][Next]_vars
FairSpec == Spec /\ Fairness

------------------------------------------------------------------------------
(* Properties *)

\* The container never holds two providers for the capability, or resolve()
\* would refuse every caller with "ambiguous capability"; and while a plugin
\* serves and no exit of it is being handled, its provider is registered and
\* the process its calls are written to runs.
ProviderServes ==
    /\ \A m, n \in Mounts :
          providers[m] > 0 /\ providers[n] > 0 => m = n /\ providers[m] = 1
    /\ \A m \in Mounts :
          m = current /\ Serving(m) /\ m \notin intentional
              => providers[m] = 1 /\ proc[m] \in live

\* One restart at a time: at most one attempt of a plugin is armed or under
\* way, and no process runs beside the one of that attempt.
Active(a) == step[a] = "armed" \/ InFlight(a)
OneRestart ==
    /\ \A a, b \in Attempts : Active(a) /\ Active(b) => a = b
    /\ \A a, b \in live \ doomed : a = b

\* Hazard: exits, restart timers and mounts overlap, each of them with a process
\* and a registration of its own (supervisor.ts:276, 547).
OneServes == ProviderServes /\ OneRestart

\* Once unmount() is through the capability is gone and stays gone, whatever
\* of the object is still under way.
CapabilityGone == \A m \in Mounts : state[m] = "unmounted" => providers[m] = 0

\* Once unmount() is through, the object comes to nothing: no provider, no
\* process without a signal, no restart armed or under way.
UnmountRevokes ==
    /\ CapabilityGone
    /\ \A m \in Mounts : state[m] = "unmounted" =>
        \A a \in Attempts : ObjectOf(a) = m =>
            ~Active(a) /\ a \notin live \ doomed

\* A process-group signal at shutdown does not look like a crash: after
\* stopAll() has marked the plugins none is restarted.
ShutdownIsQuiet ==
    stopping => \A a \in Attempts : ~Active(a) /\ crashing[ObjectOf(a)] = 0

\* Hazard: a restart is armed, starting or about to be decided while its plugin
\* is unmounted, or all of them are (supervisor.ts:207, 262).
NothingComesBack == UnmountRevokes /\ ShutdownIsQuiet

\* Whatever fires twice, a window of windowMs sees no more restarts than the
\* policy allows, so the restarts of an object are bounded over its life.
RestartBudget ==
    \A m \in Mounts : launched[m] <= MaxRestarts * windows + stamps[m]

\* No start-up hangs on a process that is gone: a pending request was written
\* to a process that still runs, or has been settled by its exit.
NoRequestToTheDead ==
    \A a \in Attempts : Waiting(a) => peer[a] \in live

\* A plugin that dies, at boot as later, is restarted or marked failed: the
\* object in the map does not stay starting or restarting.
Down(m) == m = current /\ state[m] \in {"starting", "restarting"}
CrashResolved == \A m \in Mounts : Down(m) ~> ~Down(m)
==============================================================================
