-------------------------- MODULE SupervisorProofs --------------------------
(* Machine-checked theorems about Supervisor, for every number of mounts,    *)
(* callers, restarts and windows, with exits at any time and calls that      *)
(* overlap start-ups and each other or not.                                  *)
EXTENDS Supervisor, FiniteSetTheorems, TLAPS

------------------------------------------------------------------------------
(* The inductive invariant *)

\* An object never holds the process of another object.
OwnProcess == \A m \in Mounts : proc[m] # None => ObjectOf(proc[m]) = m

\* A pending request was written to a live process of the same object, so the
\* exit of that process settles it.
OwnPeer ==
    \A a \in Attempts : Waiting(a) =>
        peer[a] \in live /\ ObjectOf(peer[a]) = ObjectOf(a)

\* A caller past the start of unmount() has an object.
CallersHaveObjects ==
    \A o \in Callers : op[o] \in {"revoked", "stopping", "remounting"} =>
        opObject[o] \in Mounts

IInv == TypeOK /\ OwnProcess /\ OwnPeer /\ CallersHaveObjects /\ RestartBudget

------------------------------------------------------------------------------
(* Attempts and the restart budget *)

\* An attempt belongs to an object, and an object has a first attempt.
LEMMA AttemptFacts ==
    /\ \A a \in Attempts : ObjectOf(a) \in Mounts
    /\ \A m \in Mounts : First(m) \in Attempts /\ ObjectOf(First(m)) = m
    /\ \A m \in Mounts : m # None
    /\ \A a \in Attempts : a # None
<1>1. MaxLaunches \in Nat
  BY PolicyAssumption DEF MaxLaunches
<1> QED
  BY <1>1, NoneAssumption DEF Attempts, ObjectOf, First

\* Multiplication is monotone in the number of windows.
LEMMA MoreWindows ==
    ASSUME NEW r \in Nat, NEW w \in Nat, NEW v \in Nat, w <= v
    PROVE  r * w <= r * v /\ r * w \in Nat
<1>1. PICK d \in Nat : v = w + d
  <2>1. v - w \in Nat /\ v = w + (v - w)
    OBVIOUS
  <2> QED
    BY <2>1
<1>2. r * v = r * w + r * d
  BY <1>1
<1>3. r * d \in Nat /\ r * w \in Nat
  OBVIOUS
<1> QED
  BY <1>2, <1>3

\* Within the budget, the next restart has an attempt of its own.
LEMMA RoomToLaunch ==
    ASSUME TypeOK, RestartBudget, NEW m \in Mounts, ~BudgetSpent(m)
    PROVE  /\ <<m, launched[m] + 1>> \in Attempts
           /\ ObjectOf(<<m, launched[m] + 1>>) = m
<1>1. /\ MaxRestarts \in Nat /\ MaxWindows \in Nat
      /\ windows \in Nat /\ windows <= MaxWindows
      /\ stamps[m] \in Nat /\ stamps[m] + 1 <= MaxRestarts
      /\ launched[m] \in Nat /\ launched[m] <= MaxRestarts * windows + stamps[m]
  BY PolicyAssumption DEF TypeOK, RestartBudget, BudgetSpent
<1>2. MaxRestarts * windows <= MaxRestarts * MaxWindows /\ MaxRestarts * windows \in Nat
  BY <1>1, MoreWindows
<1>3. MaxLaunches = MaxRestarts * MaxWindows + MaxRestarts
  BY <1>1 DEF MaxLaunches
<1>4. launched[m] + 1 \in 0..MaxLaunches
  <2>1. MaxRestarts * MaxWindows \in Nat
    BY <1>1
  <2> QED
    BY <1>1, <1>2, <1>3, <2>1
<1> QED
  BY <1>4 DEF Attempts, ObjectOf

------------------------------------------------------------------------------
(* Type correctness, action by action *)

\* Starting a mount.
LEMMA MountType ==
    ASSUME TypeOK, NEW m \in Mounts, NEW back \in Mounts \cup {None},
           StartMount(m, back), op' \in [Callers -> OpPcs],
           opObject' \in [Callers -> Mounts \cup {None}],
           remounts' \in SUBSET Callers
    PROVE  TypeOK'
BY AttemptFacts, PolicyAssumption
DEF TypeOK, States, Steps, OpPcs, vars, objectVars, attemptVars, procVars, opVars,
    StartMount, Fresh

\* Spawning and shaking hands.
LEMMA SpawnType ==
    ASSUME TypeOK, NEW a \in Attempts, Spawn(a) \/ Handshake(a)
    PROVE  TypeOK'
BY AttemptFacts, PolicyAssumption
DEF TypeOK, States, Steps, OpPcs, vars, objectVars, attemptVars, procVars, opVars,
    Spawn, Handshake, Reachable

\* An acknowledged mount.
LEMMA StartedType ==
    ASSUME TypeOK, NEW a \in Attempts, Started(a)
    PROVE  TypeOK'
BY AttemptFacts, PolicyAssumption
DEF TypeOK, States, Steps, OpPcs, vars, objectVars, attemptVars, procVars, opVars,
    Started

\* A start-up that fails.
LEMMA FailType ==
    ASSUME TypeOK, NEW a \in Attempts, MountFails(a) \/ RestartFails(a)
    PROVE  TypeOK'
BY AttemptFacts, PolicyAssumption
DEF TypeOK, States, Steps, OpPcs, vars, objectVars, attemptVars, procVars, opVars,
    MountFails, RestartFails, Revoked, Signalled

\* A restart timer, a window, a ping.
LEMMA TimerType ==
    ASSUME TypeOK, \/ \E a \in Attempts : TimerFires(a)
           \/ \E m \in Mounts : WindowPasses(m) \/ PingFails(m)
    PROVE  TypeOK'
<1> USE AttemptFacts, PolicyAssumption
    DEF TypeOK, States, Steps, OpPcs, vars, objectVars, attemptVars, procVars, opVars
<1>1. CASE \E a \in Attempts : TimerFires(a)
  BY <1>1 DEF TimerFires
<1>2. CASE \E m \in Mounts : WindowPasses(m)
  BY <1>2 DEF WindowPasses
<1>3. CASE \E m \in Mounts : PingFails(m)
  BY <1>3 DEF PingFails, Serving
<1> QED
  BY <1>1, <1>2, <1>3

\* The callers, between their first and their last await.
LEMMA CallType ==
    ASSUME TypeOK, NEW o \in Callers,
           \/ StopAll(o) \/ CloseNothing(o) \/ Terminate(o)
           \/ \E again \in BOOLEAN : BeginUnmount(o, again)
    PROVE  TypeOK'
<1>1. CASE StopAll(o)
  BY <1>1 DEF TypeOK, States, Steps, OpPcs, vars, objectVars, attemptVars, procVars,
      opVars, StopAll, Cancelled
<1>2. CASE CloseNothing(o)
  BY <1>2 DEF TypeOK, States, Steps, OpPcs, vars, objectVars, attemptVars, procVars,
      opVars, CloseNothing
<1>3. CASE Terminate(o)
  BY <1>3 DEF TypeOK, States, Steps, OpPcs, vars, objectVars, attemptVars, procVars,
      opVars, Terminate, Signalled
<1>4. ASSUME NEW again \in BOOLEAN, BeginUnmount(o, again)
      PROVE  TypeOK'
  BY <1>4 DEF TypeOK, States, Steps, OpPcs, vars, objectVars, attemptVars, procVars,
      opVars, BeginUnmount, Cancelled, Revoked
<1> QED
  BY <1>1, <1>2, <1>3, <1>4

\* The callers, at their end.
LEMMA ReturnType ==
    ASSUME TypeOK, CallersHaveObjects, NEW o \in Callers,
           EndUnmount(o) \/ RemountRefused(o) \/ RemountUnresolved(o)
    PROVE  TypeOK'
BY AttemptFacts, PolicyAssumption
DEF TypeOK, States, Steps, OpPcs, vars, objectVars, attemptVars, procVars, opVars,
    EndUnmount, RemountRefused, RemountUnresolved, Returns, CallersHaveObjects

\* A process that exits: what it settles is a finite set of attempts.
LEMMA ExitType ==
    ASSUME TypeOK, NEW a \in Attempts, ProcessExits(a)
    PROVE  TypeOK'
<1>1. Cardinality(Settled(a)) \in Nat
  <2>1. MaxLaunches \in Nat
    BY PolicyAssumption DEF MaxLaunches
  <2>2. IsFiniteSet(0..MaxLaunches)
    BY <2>1, FS_Interval
  <2>3. IsFiniteSet(Attempts)
    BY <2>2, MountAssumption, FS_Product DEF Attempts
  <2> QED
    BY <2>3, FS_Subset, FS_CardinalityType DEF Settled
<1> QED
  BY <1>1, AttemptFacts
  DEF TypeOK, States, Steps, OpPcs, vars, objectVars, attemptVars, procVars, opVars,
      ProcessExits, Signalled

\* A crash within the budget arms the restart with the next number.
ArmedFor(m, a) ==
    /\ a[2] = launched[m] + 1 /\ ObjectOf(a) = m
    /\ stamps' = [stamps EXCEPT ![m] = @ + 1]
    /\ launched' = [launched EXCEPT ![m] = @ + 1]
    /\ timer' = [timer EXCEPT ![m] = a]
    /\ step' = [step EXCEPT ![a] = "armed"]
    /\ state' = state

LEMMA CrashArms ==
    ASSUME TypeOK, RestartBudget, NEW m \in Mounts, CrashHandled(m), ~BudgetSpent(m)
    PROVE  \E a \in Attempts : ArmedFor(m, a)
<1>1. Arm(m)
  BY DEF CrashHandled
<1>2. /\ <<m, launched[m] + 1>> \in Attempts
      /\ ObjectOf(<<m, launched[m] + 1>>) = m
  BY RoomToLaunch
<1>3. ArmedFor(m, <<m, launched[m] + 1>>)
  BY <1>1, <1>2 DEF ArmedFor, Arm
<1> QED
  BY <1>2, <1>3

\* A crash that is handled: the next restart has an attempt.
LEMMA CrashType ==
    ASSUME TypeOK, RestartBudget, NEW m \in Mounts, CrashHandled(m)
    PROVE  TypeOK'
<1>1. CASE BudgetSpent(m)
  BY <1>1, AttemptFacts DEF TypeOK, States, Steps, OpPcs, vars, objectVars,
      attemptVars, procVars, opVars, CrashHandled, GiveUp, Revoked
<1>2. CASE ~BudgetSpent(m)
  <2>1. PICK a \in Attempts : ArmedFor(m, a)
    BY <1>2, CrashArms
  <2>2. stamps'[m] \in 0..MaxRestarts
    BY <1>2, <2>1, PolicyAssumption DEF ArmedFor, BudgetSpent, TypeOK
  <2>3. stamps' \in [Mounts -> 0..MaxRestarts]
    BY <2>1, <2>2 DEF ArmedFor, TypeOK
  <2> QED
    BY <2>1, <2>3 DEF ArmedFor, TypeOK, Steps, States, OpPcs, CrashHandled, Revoked,
        procVars, opVars
<1> QED
  BY <1>1, <1>2

------------------------------------------------------------------------------
(* The invariant, action by action *)

\* A new mount has no process and no request.
LEMMA MountInv ==
    ASSUME IInv, NEW m \in Mounts, Mount(m)
    PROVE  (OwnProcess /\ OwnPeer /\ CallersHaveObjects /\ RestartBudget)'
BY AttemptFacts, PolicyAssumption
DEF IInv, OwnProcess, OwnPeer, CallersHaveObjects, RestartBudget, Waiting, InFlight,
    vars, objectVars, attemptVars, procVars, opVars, TypeOK, Mount, StartMount

\* So has the mount of a restart.
LEMMA RemountInv ==
    ASSUME IInv, NEW o \in Callers, NEW m \in Mounts, Remount(o, m)
    PROVE  (OwnProcess /\ OwnPeer /\ CallersHaveObjects /\ RestartBudget)'
BY AttemptFacts, PolicyAssumption
DEF IInv, OwnProcess, OwnPeer, CallersHaveObjects, RestartBudget, Waiting, InFlight,
    vars, objectVars, attemptVars, procVars, opVars, TypeOK, Remount, Returns,
    StartMount

\* A handshake goes to the new process, a mount request to one that runs.
LEMMA SpawnInv ==
    ASSUME IInv, NEW a \in Attempts, Spawn(a) \/ Handshake(a)
    PROVE  (OwnProcess /\ OwnPeer /\ CallersHaveObjects /\ RestartBudget)'
BY AttemptFacts, PolicyAssumption
DEF IInv, OwnProcess, OwnPeer, CallersHaveObjects, RestartBudget, Waiting, InFlight,
    vars, objectVars, attemptVars, procVars, opVars, TypeOK, Spawn, Handshake, Reachable

\* A start-up that ends has no request.
LEMMA StartedInv ==
    ASSUME IInv, NEW a \in Attempts, Started(a) \/ MountFails(a) \/ RestartFails(a)
    PROVE  (OwnProcess /\ OwnPeer /\ CallersHaveObjects /\ RestartBudget)'
BY AttemptFacts, PolicyAssumption
DEF IInv, OwnProcess, OwnPeer, CallersHaveObjects, RestartBudget, Waiting, InFlight,
    vars, objectVars, attemptVars, procVars, opVars, TypeOK, Started, MountFails,
    RestartFails

\* An exit settles every request written to the process.
LEMMA ExitInv ==
    ASSUME IInv, NEW a \in Attempts, ProcessExits(a)
    PROVE  (OwnProcess /\ OwnPeer /\ CallersHaveObjects /\ RestartBudget)'
BY AttemptFacts, PolicyAssumption
DEF IInv, OwnProcess, OwnPeer, CallersHaveObjects, RestartBudget, Waiting, InFlight,
    vars, objectVars, attemptVars, procVars, opVars, TypeOK, ProcessExits, Settled

\* A restart takes one from the budget.
LEMMA CrashInv ==
    ASSUME IInv, NEW m \in Mounts, CrashHandled(m)
    PROVE  (OwnProcess /\ OwnPeer /\ CallersHaveObjects /\ RestartBudget)'
<1>1. CASE BudgetSpent(m)
  BY <1>1, AttemptFacts
  DEF IInv, OwnProcess, OwnPeer, CallersHaveObjects, RestartBudget, Waiting, vars,
      attemptVars, procVars, opVars, TypeOK, CrashHandled, GiveUp
<1>2. CASE ~BudgetSpent(m)
  <2>1. PICK a \in Attempts : ArmedFor(m, a)
    BY <1>2, CrashArms DEF IInv
  <2>2. (OwnProcess /\ OwnPeer /\ CallersHaveObjects)'
    BY <2>1, AttemptFacts
    DEF ArmedFor, IInv, OwnProcess, OwnPeer, CallersHaveObjects, Waiting, TypeOK,
        CrashHandled, procVars, opVars
  <2>3. ASSUME NEW x \in Mounts
        PROVE  launched'[x] <= MaxRestarts * windows' + stamps'[x]
    <3>1. /\ launched[x] \in Nat /\ stamps[x] \in Nat /\ windows' = windows
          /\ launched[x] <= MaxRestarts * windows + stamps[x]
      BY DEF IInv, TypeOK, RestartBudget, CrashHandled
    <3>2. MaxRestarts * windows \in Nat
      BY PolicyAssumption, MoreWindows DEF IInv, TypeOK
    <3>3. \/ launched'[x] = launched[x] + 1 /\ stamps'[x] = stamps[x] + 1
          \/ launched'[x] = launched[x] /\ stamps'[x] = stamps[x]
      BY <2>1 DEF ArmedFor, IInv, TypeOK
    <3> QED
      BY <3>1, <3>2, <3>3
  <2> QED
    BY <2>2, <2>3 DEF RestartBudget
<1> QED
  BY <1>1, <1>2

\* A timer, a ping.
LEMMA TimerInv ==
    ASSUME IInv, \/ \E a \in Attempts : TimerFires(a)
           \/ \E m \in Mounts : PingFails(m)
    PROVE  (OwnProcess /\ OwnPeer /\ CallersHaveObjects /\ RestartBudget)'
BY AttemptFacts, PolicyAssumption
DEF IInv, OwnProcess, OwnPeer, CallersHaveObjects, RestartBudget, Waiting, InFlight,
    vars, objectVars, attemptVars, procVars, opVars, TypeOK, TimerFires, PingFails

\* The callers leave requests alone.
LEMMA CallInv ==
    ASSUME IInv, NEW o \in Callers,
           \/ StopAll(o) \/ CloseNothing(o) \/ Terminate(o) \/ EndUnmount(o)
           \/ RemountRefused(o) \/ RemountUnresolved(o)
    PROVE  (OwnProcess /\ OwnPeer /\ CallersHaveObjects /\ RestartBudget)'
BY AttemptFacts, PolicyAssumption
DEF IInv, OwnProcess, OwnPeer, CallersHaveObjects, RestartBudget, Waiting, InFlight,
    vars, objectVars, attemptVars, procVars, opVars, TypeOK, StopAll, CloseNothing,
    Terminate, EndUnmount, RemountRefused, RemountUnresolved, Returns, Cancelled

\* So does the start of unmount().
LEMMA BeginInv ==
    ASSUME IInv, NEW o \in Callers, NEW again \in BOOLEAN, BeginUnmount(o, again)
    PROVE  (OwnProcess /\ OwnPeer /\ CallersHaveObjects /\ RestartBudget)'
BY AttemptFacts, PolicyAssumption
DEF IInv, OwnProcess, OwnPeer, CallersHaveObjects, RestartBudget, Waiting, InFlight,
    vars, objectVars, attemptVars, procVars, opVars, TypeOK, BeginUnmount, Cancelled

\* A window that passes gives the budget back.
LEMMA WindowInv ==
    ASSUME IInv, NEW m \in Mounts, WindowPasses(m)
    PROVE  (OwnProcess /\ OwnPeer /\ CallersHaveObjects /\ RestartBudget)'
<1>1. (OwnProcess /\ OwnPeer /\ CallersHaveObjects)'
  BY DEF IInv, OwnProcess, OwnPeer, CallersHaveObjects, RestartBudget, Waiting,
      InFlight, vars, objectVars, attemptVars, procVars, opVars, TypeOK, WindowPasses
<1>2. ASSUME NEW x \in Mounts
      PROVE  launched'[x] <= MaxRestarts * windows' + stamps'[x]
  <2>1. /\ launched[x] <= MaxRestarts * windows + stamps[x]
        /\ stamps[x] \in Nat /\ stamps[x] <= MaxRestarts
        /\ launched[x] \in Nat /\ launched' = launched
        /\ windows \in Nat /\ windows' = windows + 1
        /\ MaxRestarts \in Nat
    BY PolicyAssumption DEF IInv, TypeOK, RestartBudget, WindowPasses
  <2>2. stamps'[x] \in Nat
    BY DEF IInv, TypeOK, WindowPasses
  <2>3. MaxRestarts * windows' = MaxRestarts * windows + MaxRestarts
    BY <2>1
  <2>4. MaxRestarts * windows \in Nat
    BY <2>1
  <2> QED
    BY <2>1, <2>2, <2>3, <2>4
<1> QED
  BY <1>1, <1>2 DEF RestartBudget

------------------------------------------------------------------------------
(* The invariant of the specification *)

LEMMA InitInv == Init => IInv
<1> SUFFICES ASSUME Init PROVE IInv
  OBVIOUS
<1>1. TypeOK
  <2>1. 0 \in 0..MaxRestarts /\ 0 \in 0..MaxWindows
    BY PolicyAssumption
  <2> QED
    BY <2>1 DEF Init, TypeOK, States, Steps, OpPcs
<1>2. OwnProcess /\ OwnPeer /\ CallersHaveObjects
  BY DEF Init, OwnProcess, OwnPeer, CallersHaveObjects, Waiting
<1>3. RestartBudget
  <2>1. MaxRestarts * 0 + 0 = 0
    BY PolicyAssumption
  <2> QED
    BY <2>1 DEF Init, RestartBudget
<1> QED
  BY <1>1, <1>2, <1>3 DEF IInv

LEMMA StepInv == IInv /\ [Next]_vars => IInv'
<1> SUFFICES ASSUME IInv, [Next]_vars
             PROVE  IInv'
  OBVIOUS
<1>1. ASSUME NEW a \in Attempts, StartStep(a)
      PROVE  IInv'
  BY <1>1, SpawnType, SpawnInv, StartedType, FailType, StartedInv DEF IInv, StartStep
<1>8. ASSUME NEW a \in Attempts, ProcessExits(a) \/ TimerFires(a)
      PROVE  IInv'
  BY <1>8, ExitType, ExitInv, TimerType, TimerInv DEF IInv
<1>2. ASSUME NEW m \in Mounts,
             CrashHandled(m) \/ WindowPasses(m) \/ PingFails(m)
      PROVE  IInv'
  BY <1>2, CrashType, CrashInv, TimerType, WindowInv, TimerInv DEF IInv
<1>3. ASSUME NEW m \in Mounts, Mount(m)
      PROVE  IInv'
  <2>1. TypeOK'
    BY <1>3, MountType DEF IInv, TypeOK, Mount, opVars
  <2> QED
    BY <1>3, <2>1, MountInv DEF IInv
<1>4. ASSUME NEW o \in Callers, NEW m \in Mounts, Remount(o, m)
      PROVE  IInv'
  <2>1. TypeOK'
    BY <1>4, MountType, AttemptFacts
    DEF IInv, TypeOK, Remount, Returns, CallersHaveObjects, OpPcs
  <2> QED
    BY <1>4, <2>1, RemountInv DEF IInv
<1>5. ASSUME NEW o \in Callers, NEW again \in BOOLEAN, BeginUnmount(o, again)
      PROVE  IInv'
  BY <1>5, CallType, BeginInv DEF IInv
<1>6. ASSUME NEW o \in Callers,
             \/ StopAll(o) \/ CloseNothing(o) \/ Terminate(o) \/ EndUnmount(o)
             \/ RemountRefused(o) \/ RemountUnresolved(o)
      PROVE  IInv'
  BY <1>6, CallType, ReturnType, CallInv DEF IInv
<1>7. CASE UNCHANGED vars
  BY <1>7 DEF IInv, OwnProcess, OwnPeer, CallersHaveObjects, RestartBudget, Waiting,
      InFlight, vars, objectVars, attemptVars, procVars, opVars, TypeOK, States,
      Steps, OpPcs
<1> QED
  BY <1>1, <1>2, <1>3, <1>4, <1>5, <1>6, <1>7, <1>8 DEF Next, CallStep, Close, Unmount

\* IInv holds in every reachable state.
THEOREM SupervisorInvariance == Spec => []IInv
<1>1. Init => IInv
  BY InitInv
<1>2. IInv /\ [Next]_vars => IInv'
  BY StepInv
<1> QED
  BY <1>1, <1>2, PTL DEF Spec

\* Every variable of the supervisor keeps its type.
THEOREM SupervisorTypes == Spec => []TypeOK
<1>1. IInv => TypeOK
  BY DEF IInv
<1> QED
  BY <1>1, SupervisorInvariance, PTL

\* No start-up waits for a process that is gone, whatever overlaps: mount()
\* and the restart timers never hang on a dead plugin.
THEOREM NoStartupHangs == Spec => []NoRequestToTheDead
<1>1. IInv => NoRequestToTheDead
  BY DEF IInv, OwnPeer, NoRequestToTheDead
<1> QED
  BY <1>1, SupervisorInvariance, PTL

\* The restarts of an object stay within the policy's budget even when one
\* exit is handled twice or a call overlaps the crash policy.
THEOREM RestartsAreBounded == Spec => []RestartBudget
<1>1. IInv => RestartBudget
  BY DEF IInv
<1> QED
  BY <1>1, SupervisorInvariance, PTL

------------------------------------------------------------------------------
(* One actor at a time: plugins that exit only after they have acknowledged  *)
(* mount, and calls that wait for each other.                                *)

\* What an attempt that is armed or under way presupposes: it is the only one, its
\* object is in the map and serves nobody, no crash waits and no call runs.  The
\* object holds the process of the attempt from the handshake on, before it none.
ActiveIsAlone ==
    /\ \A a, b \in Attempts : Active(a) /\ Active(b) => a = b
    /\ \A a \in Attempts : Active(a) =>
          /\ ObjectOf(a) = current /\ current \notin intentional /\ ~stopping
          /\ ~Serving(current) /\ providers[current] = 0
          /\ ~IsRestart(a) => launched[current] = 0
          /\ \A m \in Mounts : crashing[m] = 0
          /\ \A o \in Callers : op[o] = "idle"
          /\ IF Waiting(a) THEN proc[current] = a /\ a \in live
                           ELSE proc[current] \notin live

\* So does a crash that is about to be handled.
CrashIsAlone ==
    \A m \in Mounts : crashing[m] # 0 =>
        /\ m = current /\ crashing[m] = 1 /\ m \notin intentional /\ ~stopping
        /\ ~Serving(m) /\ proc[m] \notin live
        /\ \A o \in Callers : op[o] = "idle"

\* One call runs at a time, and the map does not change under it.
CallIsAlone ==
    /\ \A o, q \in Callers : op[o] # "idle" /\ op[q] # "idle" => o = q
    /\ \A o \in Callers :
          /\ op[o] \in {"revoked", "stopping"} =>
                /\ current = opObject[o] /\ current \in intentional
                /\ providers[current] = 0
                /\ stopping => o \notin remounts
          /\ op[o] = "stopping" => proc[current] = None
          /\ op[o] = "closing" => stopping
          /\ op[o] = "remounting" => current = None /\ ~stopping

\* Only the object in the map holds a process or a provider.
OneInTheMap ==
    /\ \A m \in Mounts :
          /\ proc[m] # None => m = current
          /\ proc[m] \notin doomed
          /\ providers[m] # 0 => m = current /\ providers[m] = 1
          /\ m \in intentional => state[m] # "unused"
    /\ current # None =>
          /\ state[current] \notin {"unused", "unmounted"}
          /\ stopping => current \in intentional
          /\ Serving(current) /\ current \notin intentional =>
                providers[current] = 1 /\ proc[current] \in live

\* A process that no object holds any more was sent its signal.
ProcessesHeld ==
    /\ doomed \subseteq live
    /\ \A a \in live : /\ step[a] \in {"handshaking", "mounting", "done"}
                       /\ a \notin doomed => proc[ObjectOf(a)] = a

\* An object has made as many restarts as restartCount says.
Numbered ==
    /\ \A m \in Mounts : launched[m] # 0 => state[m] # "unused"
    /\ \A a \in Attempts :
          /\ step[a] = "armed" => timer[ObjectOf(a)] = a
          /\ step[a] # "unused" =>
                a[2] <= launched[ObjectOf(a)] /\ state[ObjectOf(a)] # "unused"

SerialInv ==
    /\ ActiveIsAlone /\ CrashIsAlone /\ CallIsAlone
    /\ OneInTheMap /\ ProcessesHeld /\ Numbered

\* The two switches of the model, as the code is meant to be used.
Serial == ~EarlyExits /\ ~Overlap

\* An attempt is a pair; the first one of an object is the one of mount().
LEMMA AttemptPairs ==
    \A a \in Attempts : /\ a = <<ObjectOf(a), a[2]>> /\ a[2] \in Nat
                       /\ IsRestart(a) <=> a # First(ObjectOf(a))
BY PolicyAssumption DEF Attempts, ObjectOf, First, IsRestart, MaxLaunches

\* An exit that settles nothing and is not expected is a crash.
LEMMA UnexpectedExit ==
    ASSUME IInv, NEW a \in Attempts, ProcessExits(a), Settled(a) = {}, ~Expected(a)
    PROVE  /\ a \in live /\ live' = live \ {a} /\ doomed' = doomed \ {a}
           /\ step' = step /\ proc' = proc
           /\ state' = [state EXCEPT ![ObjectOf(a)] = "restarting"]
           /\ crashing' = [crashing EXCEPT ![ObjectOf(a)] = @ + 1]
<1>1. Cardinality({}) = 0
  BY FS_EmptySet
<1>2. crashing' = [crashing EXCEPT ![ObjectOf(a)] = @ + 1 + 0]
  BY <1>1 DEF ProcessExits
<1>3. crashing[ObjectOf(a)] \in Nat
  BY AttemptFacts DEF IInv, TypeOK
<1>4. proc' = proc
  BY DEF ProcessExits, IInv, TypeOK
<1>5. step' = step
  BY DEF ProcessExits, IInv, TypeOK
<1>6. crashing[ObjectOf(a)] + 1 + 0 = crashing[ObjectOf(a)] + 1
  BY <1>3
<1>7. crashing' = [crashing EXCEPT ![ObjectOf(a)] = @ + 1]
  BY <1>2, <1>6, Zenon
<1> QED
  BY <1>4, <1>5, <1>7 DEF ProcessExits

\* One that is expected leaves everything but the process alone.
LEMMA ExpectedExit ==
    ASSUME IInv, NEW a \in Attempts, ProcessExits(a), Settled(a) = {}, Expected(a)
    PROVE  /\ a \in live /\ live' = live \ {a} /\ doomed' = doomed \ {a}
           /\ step' = step /\ state' = state /\ crashing' = crashing
           /\ proc' = [proc EXCEPT ![ObjectOf(a)] =
                          IF proc[ObjectOf(a)] = a THEN None ELSE proc[ObjectOf(a)]]
<1>1. Cardinality({}) = 0
  BY FS_EmptySet
<1>2. crashing' = [crashing EXCEPT ![ObjectOf(a)] = @ + 0 + 0]
  BY <1>1 DEF ProcessExits
<1>3. crashing' = crashing
  BY <1>2, AttemptFacts DEF IInv, TypeOK
<1>4. step' = step
  BY DEF ProcessExits, IInv, TypeOK
<1> QED
  BY <1>3, <1>4 DEF ProcessExits

\* One that settles the request of a restart ends it, and kills its process.
LEMMA SettlingExit ==
    ASSUME IInv, NEW a \in Attempts, ProcessExits(a), Expected(a), NEW b \in Attempts,
           Settled(a) = {b}, IsRestart(b), proc[ObjectOf(a)] = b, b # a, b \in live
    PROVE  /\ a \in live /\ live' = live \ {a} /\ doomed' = (doomed \cup {b}) \ {a}
           /\ step' = [step EXCEPT ![b] = "done"]
           /\ proc' = [proc EXCEPT ![ObjectOf(a)] = None]
           /\ state' = [state EXCEPT ![ObjectOf(a)] = "restarting"]
           /\ crashing' = [crashing EXCEPT ![ObjectOf(a)] = @ + 1]
<1>1. Cardinality({b}) = 1
  BY FS_Singleton
<1>2. crashing' = [crashing EXCEPT ![ObjectOf(a)] = @ + 0 + 1]
  BY <1>1 DEF ProcessExits
<1>3. crashing[ObjectOf(a)] \in Nat
  BY AttemptFacts DEF IInv, TypeOK
<1>4. step' = [step EXCEPT ![b] = "done"]
  BY DEF ProcessExits, IInv, TypeOK
<1>5. Signalled(b) = doomed \cup {b}
  BY DEF Signalled
<1>6. doomed' = (doomed \cup {b}) \ {a} /\ proc' = [proc EXCEPT ![ObjectOf(a)] = None]
  BY <1>5 DEF ProcessExits
<1>7. crashing[ObjectOf(a)] + 0 + 1 = crashing[ObjectOf(a)] + 1
  BY <1>3
<1>8. crashing' = [crashing EXCEPT ![ObjectOf(a)] = @ + 1]
  BY <1>2, <1>7, Zenon
<1> QED
  BY <1>4, <1>6, <1>8 DEF ProcessExits

\* Two attempts of one object differ in their numbers.
LEMMA AttemptNumber == \A a \in Attempts : a[2] \in Nat
BY PolicyAssumption DEF Attempts, MaxLaunches

LEMMA SameAttempt ==
    ASSUME NEW a \in Attempts, NEW b \in Attempts, ObjectOf(a) = ObjectOf(b), a[2] = b[2]
    PROVE  a = b
BY DEF Attempts, ObjectOf

USE AttemptFacts, AttemptPairs
DEF Serial, SerialInv, ActiveIsAlone, CrashIsAlone, CallIsAlone, OneInTheMap,
    ProcessesHeld, Numbered, IInv, TypeOK, OwnProcess, CallersHaveObjects, Active,
    InFlight, Waiting, Serving, vars, objectVars, attemptVars, procVars, opVars

\* A new object, while nothing else is under way.
LEMMA SerialMount ==
    ASSUME Serial, IInv, SerialInv, NEW m \in Mounts, Mount(m)
    PROVE  SerialInv'
<1> USE DEF Mount, StartMount, Fresh, Calm, First
<1>1. ActiveIsAlone'
  <2>1. /\ current = None /\ current' = m /\ state[m] = "unused" /\ ~stopping
        /\ state' = [state EXCEPT ![m] = "starting"]
        /\ step' = [step EXCEPT ![First(m)] = "preparing"]
        /\ UNCHANGED <<proc, providers, intentional, launched, crashing, live, op,
                       stopping>>
    OBVIOUS
  <2>2. \A a \in Attempts : ~Active(a)
    BY <2>1
  <2>3. \A x \in Mounts : crashing[x] = 0
    OBVIOUS
  <2>4. \A o \in Callers : op[o] = "idle"
    OBVIOUS
  <2>5. /\ m \notin intentional /\ providers[m] = 0 /\ launched[m] = 0
        /\ proc[m] = None /\ proc[m] \notin live
    BY <2>1
  <2>6. \A a \in Attempts : Active(a)' => a = First(m) /\ step'[a] = "preparing"
    BY <2>1, <2>2
  <2>7. state'[m] = "starting"
    BY <2>1
  <2> QED
    BY <2>1, <2>3, <2>4, <2>5, <2>6, <2>7
<1>2. CrashIsAlone'
  OBVIOUS
<1>3. CallIsAlone'
  OBVIOUS
<1>4. OneInTheMap'
  OBVIOUS
<1>5. ProcessesHeld'
  OBVIOUS
<1>6. Numbered'
  OBVIOUS
<1> QED
  BY <1>1, <1>2, <1>3, <1>4, <1>5, <1>6

\* The mount of restart(), after which the caller has returned.
LEMMA SerialRemount ==
    ASSUME Serial, IInv, SerialInv, NEW o \in Callers, NEW m \in Mounts, Remount(o, m)
    PROVE  SerialInv'
<1> USE DEF Remount, Returns, StartMount, Fresh, First
<1>1. ActiveIsAlone'
  <2>1. /\ current = None /\ current' = m /\ state[m] = "unused" /\ ~stopping
        /\ state' = [state EXCEPT ![m] = "starting"]
        /\ step' = [step EXCEPT ![First(m)] = "preparing"]
        /\ op' = [op EXCEPT ![o] = "idle"]
        /\ UNCHANGED <<proc, providers, intentional, launched, crashing, live, stopping>>
    OBVIOUS
  <2>2. \A a \in Attempts : ~Active(a)
    BY <2>1
  <2>3. \A x \in Mounts : crashing[x] = 0
    BY <2>1
  <2>4. /\ m \notin intentional /\ providers[m] = 0 /\ launched[m] = 0
        /\ proc[m] = None /\ proc[m] \notin live
    BY <2>1
  <2>5. \A a \in Attempts : Active(a)' => a = First(m) /\ step'[a] = "preparing"
    BY <2>1, <2>2
  <2>6. state'[m] = "starting"
    BY <2>1
  <2>7. \A q \in Callers : op'[q] = "idle"
    BY <2>1
  <2>8. ASSUME NEW a \in Attempts, Active(a)'
        PROVE  /\ ObjectOf(a) = m /\ ~IsRestart(a) /\ ~Waiting(a)'
    BY <2>5, <2>8
  <2>9. /\ current' = m /\ m \notin intentional' /\ ~stopping'
        /\ state'[m] \notin {"healthy", "degraded"}
        /\ providers'[m] = 0 /\ launched'[m] = 0 /\ proc'[m] \notin live'
    BY ONLY <2>1, <2>4, <2>6
  <2>10. UNCHANGED crashing
    OBVIOUS
  <2> QED
    BY ONLY <2>1, <2>3, <2>5, <2>7, <2>8, <2>9, <2>10
<1>2. CrashIsAlone'
  OBVIOUS
<1>3. CallIsAlone'
  <2>1. \A p, q \in Callers : op'[p] # "idle" /\ op'[q] # "idle" => p = q
    OBVIOUS
  <2>2. ASSUME NEW q \in Callers, op'[q] # "idle"
        PROVE  /\ op'[q] \in {"revoked", "stopping"} =>
                     /\ current' = opObject'[q] /\ current' \in intentional'
                     /\ providers'[current'] = 0 /\ (stopping' => q \notin remounts')
               /\ op'[q] = "stopping" => proc'[current'] = None
               /\ op'[q] = "closing" => stopping'
               /\ op'[q] = "remounting" => current' = None /\ ~stopping'
    BY <2>2
  <2> QED BY <2>1, <2>2
<1>4. OneInTheMap'
  OBVIOUS
<1>5. ProcessesHeld'
  OBVIOUS
<1>6. Numbered'
  OBVIOUS
<1> QED
  BY <1>1, <1>2, <1>3, <1>4, <1>5, <1>6

\* The process of the attempt takes the place of none that lives.
LEMMA SerialSpawn ==
    ASSUME Serial, IInv, SerialInv, NEW a \in Attempts, Spawn(a)
    PROVE  SerialInv'
<1> USE DEF Spawn
<1>1. ActiveIsAlone'
  OBVIOUS
<1>2. CrashIsAlone'
  OBVIOUS
<1>3. CallIsAlone'
  OBVIOUS
<1>4. OneInTheMap'
  OBVIOUS
<1>5. ProcessesHeld'
  OBVIOUS
<1>6. Numbered'
  OBVIOUS
<1> QED
  BY <1>1, <1>2, <1>3, <1>4, <1>5, <1>6

\* The handshake is answered by the process of the attempt.
LEMMA SerialHandshake ==
    ASSUME Serial, IInv, SerialInv, NEW a \in Attempts, Handshake(a)
    PROVE  SerialInv'
<1> USE DEF Handshake
<1>1. ActiveIsAlone'
  OBVIOUS
<1>2. CrashIsAlone'
  OBVIOUS
<1>3. CallIsAlone'
  OBVIOUS
<1>4. OneInTheMap'
  OBVIOUS
<1>5. ProcessesHeld'
  OBVIOUS
<1>6. Numbered'
  OBVIOUS
<1> QED
  BY <1>1, <1>2, <1>3, <1>4, <1>5, <1>6

\* The first provider of the object is registered.
LEMMA SerialStarted ==
    ASSUME Serial, IInv, SerialInv, NEW a \in Attempts, Started(a)
    PROVE  SerialInv'
<1> USE DEF Started
<1>1. ActiveIsAlone'
  OBVIOUS
<1>2. CrashIsAlone'
  OBVIOUS
<1>3. CallIsAlone'
  OBVIOUS
<1>4. OneInTheMap'
  OBVIOUS
<1>5. ProcessesHeld'
  OBVIOUS
<1>6. Numbered'
  OBVIOUS
<1> QED
  BY <1>1, <1>2, <1>3, <1>4, <1>5, <1>6

\* What the mount began is taken back; the map has the kept object, or none.
LEMMA SerialMountFails ==
    ASSUME Serial, IInv, SerialInv, NEW a \in Attempts, MountFails(a)
    PROVE  SerialInv'
<1> USE DEF MountFails, Revoked, Signalled
<1>1. ActiveIsAlone'
  OBVIOUS
<1>2. CrashIsAlone'
  OBVIOUS
<1>3. CallIsAlone'
  OBVIOUS
<1>4. OneInTheMap'
  OBVIOUS
<1>5. ProcessesHeld'
  OBVIOUS
<1>6. Numbered'
  OBVIOUS
<1> QED
  BY <1>1, <1>2, <1>3, <1>4, <1>5, <1>6

\* The restart is over, and its failure the only crash to be handled.
LEMMA SerialRestartFails ==
    ASSUME Serial, IInv, SerialInv, NEW a \in Attempts, RestartFails(a)
    PROVE  SerialInv'
<1> USE DEF RestartFails, Signalled
<1>1. ActiveIsAlone'
  OBVIOUS
<1>2. CrashIsAlone'
  OBVIOUS
<1>3. CallIsAlone'
  OBVIOUS
<1>4. OneInTheMap'
  OBVIOUS
<1>5. ProcessesHeld'
  OBVIOUS
<1>6. Numbered'
  OBVIOUS
<1> QED
  BY <1>1, <1>2, <1>3, <1>4, <1>5, <1>6

\* The crash is handled: a restart is armed, the only one, or none.
LEMMA SerialCrash ==
    ASSUME Serial, IInv, SerialInv, NEW m \in Mounts, CrashHandled(m)
    PROVE  SerialInv'
<1> USE DEF CrashHandled, Revoked
<1>1. \A b \in Attempts : ~Active(b)
  OBVIOUS
<1>2. CASE BudgetSpent(m)
  BY <1>1, <1>2 DEF GiveUp
<1>3. CASE ~BudgetSpent(m)
  <2>1. PICK a \in Attempts : ArmedFor(m, a)
    BY <1>3, CrashArms
  <2>2. /\ launched' = [launched EXCEPT ![m] = @ + 1] /\ state' = state
        /\ timer' = [timer EXCEPT ![m] = a] /\ step' = [step EXCEPT ![a] = "armed"]
        /\ a[2] = launched[m] + 1 /\ ObjectOf(a) = m
    BY <2>1 DEF ArmedFor
  <2>unused. step[a] = "unused" /\ a \notin live
    BY <2>2
  <2>3. IsRestart(a)
    BY <2>2 DEF IsRestart
  <2>4. ActiveIsAlone'
    BY <1>1, <2>2, <2>3
  <2>5. CrashIsAlone' /\ CallIsAlone' /\ OneInTheMap'
    BY <2>2
  <2>6. ProcessesHeld'
    BY <2>unused, <2>2
  <2>7. launched[m] \in Nat /\ m = current /\ state[m] # "unused"
    OBVIOUS
  <2>8. \A x \in Mounts : launched'[x] # 0 => state'[x] # "unused"
    BY <2>2, <2>7
  <2>9. \A b \in Attempts : step'[b] = "armed" => timer'[ObjectOf(b)] = b
    BY <1>1, <2>2
  <2>10. ASSUME NEW b \in Attempts, step'[b] # "unused"
         PROVE  b[2] <= launched'[ObjectOf(b)] /\ state'[ObjectOf(b)] # "unused"
    <3>1. CASE b = a
      BY <2>2, <2>7, <3>1
    <3>2. CASE b # a
      <4>1. b[2] <= launched[ObjectOf(b)] /\ state[ObjectOf(b)] # "unused"
        BY <2>2, <2>10, <3>2
      <4>2. b[2] \in Nat
        BY AttemptNumber
      <4>3. launched[ObjectOf(b)] \in Nat /\ launched'[ObjectOf(b)] \in Nat
        BY <2>2
      <4>4. launched[ObjectOf(b)] <= launched'[ObjectOf(b)]
        BY <2>2, <2>7, <4>3
      <4>5. b[2] <= launched'[ObjectOf(b)]
        BY <4>1, <4>2, <4>3, <4>4
      <4> QED BY <2>2, <4>1, <4>5
    <3> QED BY <3>1, <3>2
  <2>11. Numbered'
    BY <2>8, <2>9, <2>10
  <2> QED BY <2>4, <2>5, <2>6, <2>11
<1> QED BY <1>2, <1>3

\* The armed restart begins.
LEMMA SerialTimer ==
    ASSUME Serial, IInv, SerialInv, NEW a \in Attempts, TimerFires(a)
    PROVE  SerialInv'
<1> USE DEF TimerFires
<1>1. ActiveIsAlone'
  OBVIOUS
<1>2. CrashIsAlone'
  OBVIOUS
<1>3. CallIsAlone'
  OBVIOUS
<1>4. OneInTheMap'
  OBVIOUS
<1>5. ProcessesHeld'
  OBVIOUS
<1>6. Numbered'
  OBVIOUS
<1> QED
  BY <1>1, <1>2, <1>3, <1>4, <1>5, <1>6

\* A window that passes, a ping that fails.
LEMMA SerialWindow ==
    ASSUME Serial, IInv, SerialInv, NEW m \in Mounts, WindowPasses(m) \/ PingFails(m)
    PROVE  SerialInv'
<1> USE DEF WindowPasses, PingFails
<1>1. ActiveIsAlone'
  OBVIOUS
<1>2. CrashIsAlone'
  OBVIOUS
<1>3. CallIsAlone'
  OBVIOUS
<1>4. OneInTheMap'
  OBVIOUS
<1>5. ProcessesHeld'
  OBVIOUS
<1>6. Numbered'
  OBVIOUS
<1> QED
  BY <1>1, <1>2, <1>3, <1>4, <1>5, <1>6

\* stopAll() finds an object that serves or waits for its timer, or none.
LEMMA SerialStopAll ==
    ASSUME Serial, IInv, SerialInv, NEW o \in Callers, StopAll(o)
    PROVE  SerialInv'
<1> USE DEF StopAll, Calm, Cancelled
<1>1. ActiveIsAlone'
  OBVIOUS
<1>2. CrashIsAlone'
  OBVIOUS
<1>3. CallIsAlone'
  OBVIOUS
<1>4. OneInTheMap'
  OBVIOUS
<1>5. ProcessesHeld'
  OBVIOUS
<1>6. Numbered'
  OBVIOUS
<1> QED
  BY <1>1, <1>2, <1>3, <1>4, <1>5, <1>6

\* So does unmount().
LEMMA SerialUnmount ==
    ASSUME Serial, IInv, SerialInv, NEW o \in Callers, NEW again \in BOOLEAN,
           Unmount(o, again)
    PROVE  SerialInv'
<1> USE DEF Unmount, BeginUnmount, Calm, Cancelled, Revoked
<1>1. ActiveIsAlone'
  OBVIOUS
<1>2. CrashIsAlone'
  OBVIOUS
<1>3. CallIsAlone'
  OBVIOUS
<1>4. OneInTheMap'
  OBVIOUS
<1>5. ProcessesHeld'
  OBVIOUS
<1>6. Numbered'
  OBVIOUS
<1> QED
  BY <1>1, <1>2, <1>3, <1>4, <1>5, <1>6

\* stopAll() comes to the object it has marked.
LEMMA SerialClose ==
    ASSUME Serial, IInv, SerialInv, NEW o \in Callers, Close(o) \/ CloseNothing(o)
    PROVE  SerialInv'
<1> USE DEF Close, CloseNothing, BeginUnmount, Cancelled, Revoked
<1>1. ActiveIsAlone'
  OBVIOUS
<1>2. CrashIsAlone'
  OBVIOUS
<1>3. CallIsAlone'
  <2>1. \A p, q \in Callers : op'[p] # "idle" /\ op'[q] # "idle" => p = q
    OBVIOUS
  <2>2. ASSUME NEW q \in Callers, op'[q] # "idle"
        PROVE  /\ op'[q] \in {"revoked", "stopping"} =>
                     /\ current' = opObject'[q] /\ current' \in intentional'
                     /\ providers'[current'] = 0 /\ (stopping' => q \notin remounts')
               /\ op'[q] = "stopping" => proc'[current'] = None
               /\ op'[q] = "closing" => stopping'
               /\ op'[q] = "remounting" => current' = None /\ ~stopping'
    BY <2>2
  <2> QED BY <2>1, <2>2
<1>4. OneInTheMap'
  OBVIOUS
<1>5. ProcessesHeld'
  OBVIOUS
<1>6. Numbered'
  OBVIOUS
<1> QED
  BY <1>1, <1>2, <1>3, <1>4, <1>5, <1>6

\* The process of the object is sent its signal.
LEMMA SerialTerminate ==
    ASSUME Serial, IInv, SerialInv, NEW o \in Callers, Terminate(o)
    PROVE  SerialInv'
<1> USE DEF Terminate, Signalled
<1>1. ActiveIsAlone'
  OBVIOUS
<1>2. CrashIsAlone'
  OBVIOUS
<1>3. CallIsAlone'
  OBVIOUS
<1>4. OneInTheMap'
  OBVIOUS
<1>5. ProcessesHeld'
  OBVIOUS
<1>6. Numbered'
  OBVIOUS
<1> QED
  BY <1>1, <1>2, <1>3, <1>4, <1>5, <1>6

\* The object leaves the map.
LEMMA SerialEnd ==
    ASSUME Serial, IInv, SerialInv, NEW o \in Callers, EndUnmount(o)
    PROVE  SerialInv'
<1> USE DEF EndUnmount, Returns
<1>1. ActiveIsAlone'
  OBVIOUS
<1>2. CrashIsAlone'
  OBVIOUS
<1>3. CallIsAlone'
  <2>1. \A p, q \in Callers : op'[p] # "idle" /\ op'[q] # "idle" => p = q
    OBVIOUS
  <2>2. ASSUME NEW q \in Callers, op'[q] # "idle"
        PROVE  /\ op'[q] \in {"revoked", "stopping"} =>
                     /\ current' = opObject'[q] /\ current' \in intentional'
                     /\ providers'[current'] = 0 /\ (stopping' => q \notin remounts')
               /\ op'[q] = "stopping" => proc'[current'] = None
               /\ op'[q] = "closing" => stopping'
               /\ op'[q] = "remounting" => current' = None /\ ~stopping'
    BY <2>2
  <2> QED BY <2>1, <2>2
<1>4. OneInTheMap'
  OBVIOUS
<1>5. ProcessesHeld'
  OBVIOUS
<1>6. Numbered'
  OBVIOUS
<1> QED
  BY <1>1, <1>2, <1>3, <1>4, <1>5, <1>6

\* A restart() whose mount is refused.
LEMMA SerialRefused ==
    ASSUME Serial, IInv, SerialInv, NEW o \in Callers,
           RemountRefused(o) \/ RemountUnresolved(o)
    PROVE  SerialInv'
<1> USE DEF RemountRefused, RemountUnresolved, Returns
<1>1. ActiveIsAlone'
  OBVIOUS
<1>2. CrashIsAlone'
  OBVIOUS
<1>3. CallIsAlone'
  <2>1. \A p, q \in Callers : op'[p] # "idle" /\ op'[q] # "idle" => p = q
    OBVIOUS
  <2>2. ASSUME NEW q \in Callers, op'[q] # "idle"
        PROVE  /\ op'[q] \in {"revoked", "stopping"} =>
                     /\ current' = opObject'[q] /\ current' \in intentional'
                     /\ providers'[current'] = 0 /\ (stopping' => q \notin remounts')
               /\ op'[q] = "stopping" => proc'[current'] = None
               /\ op'[q] = "closing" => stopping'
               /\ op'[q] = "remounting" => current' = None /\ ~stopping'
    BY <2>2
  <2> QED BY <2>1, <2>2
<1>4. OneInTheMap'
  OBVIOUS
<1>5. ProcessesHeld'
  OBVIOUS
<1>6. Numbered'
  OBVIOUS
<1> QED
  BY <1>1, <1>2, <1>3, <1>4, <1>5, <1>6

\* At most one request waits, and none for a process whose exit is a crash.
LEMMA ExitSettles ==
    ASSUME Serial, IInv, SerialInv, NEW a \in Attempts, ProcessExits(a)
    PROVE  \/ Settled(a) = {}
           \/ /\ Expected(a)
              /\ \E b \in Attempts :
                    Settled(a) = {b} /\ Waiting(b) /\ ObjectOf(b) = ObjectOf(a)
<1> SUFFICES ASSUME NEW b \in Attempts, b \in Settled(a)
             PROVE  /\ Expected(a) /\ Settled(a) = {b}
                    /\ Waiting(b) /\ ObjectOf(b) = ObjectOf(a)
  BY DEF Settled
<1>1. Waiting(b) /\ ObjectOf(b) = ObjectOf(a)
  BY DEF Settled
<1>2. \A c \in Attempts : Active(c) => c = b
  BY <1>1
<1>3. Settled(a) = {b}
  BY <1>1, <1>2 DEF Settled
<1>4. a \in live /\ (a \in doomed \/ step[a] = "done")
  BY DEF ProcessExits
<1>5. proc[ObjectOf(a)] = b /\ step[b] # "done" /\ b \notin doomed
  BY <1>1
<1>6. Expected(a)
  BY <1>4, <1>5 DEF Expected
<1> QED BY <1>1, <1>3, <1>6

\* An exit the supervisor expects starts nothing; another one is the only crash.
LEMMA SerialExit ==
    ASSUME Serial, IInv, SerialInv, NEW a \in Attempts, ProcessExits(a)
    PROVE  SerialInv'
<1> DEFINE m == ObjectOf(a)
<1>0. /\ UNCHANGED <<current, providers, intentional, timer, stamps, launched, kept,
                     opVars, stopping>>
      /\ a \in doomed \/ step[a] = "done"
  BY DEF ProcessExits
<1>1. CASE Settled(a) = {} /\ ~Expected(a)
  <2>1. /\ a \in live /\ live' = live \ {a} /\ doomed' = doomed \ {a}
        /\ step' = step /\ proc' = proc
        /\ state' = [state EXCEPT ![m] = "restarting"]
        /\ crashing' = [crashing EXCEPT ![m] = @ + 1]
    BY <1>1, UnexpectedExit
  <2>2. /\ proc[m] = a /\ m \notin intentional /\ ~stopping
        /\ m \in Mounts /\ m = current /\ a \notin doomed /\ step[a] = "done"
    BY <1>0, <1>1 DEF Expected
  <2>3. \A o \in Callers : op[o] = "idle"
    BY <2>2 DEF OpPcs
  <2>4. \A b \in Attempts : ~Active(b)
    BY <2>1, <2>2
  <2>5. \A x \in Mounts : crashing[x] = 0
    BY <2>1, <2>2
  <2>6. ActiveIsAlone'
    BY <2>1, <2>4
  <2>7. CrashIsAlone'
    BY <1>0, <2>1, <2>2, <2>3, <2>5
  <2>8. CallIsAlone'
    BY <1>0, <2>1
  <2>9. OneInTheMap'
    BY <1>0, <2>1, <2>2
  <2>10. ProcessesHeld'
    BY <1>0, <2>1, <2>2
  <2>11. Numbered'
    BY <1>0, <2>1, <2>2
  <2> QED BY <2>6, <2>7, <2>8, <2>9, <2>10, <2>11
<1>2. CASE Settled(a) = {} /\ Expected(a)
  <2>1. /\ a \in live /\ live' = live \ {a} /\ doomed' = doomed \ {a}
        /\ step' = step /\ state' = state /\ crashing' = crashing
        /\ proc' = [proc EXCEPT ![m] = IF proc[m] = a THEN None ELSE proc[m]]
    BY <1>2, ExpectedExit
  <2>2. /\ m \in Mounts /\ (stopping \/ m \in intentional \/ proc[m] # a)
        /\ \A b \in Attempts : ObjectOf(b) = m => ~Waiting(b)
    BY <1>2 DEF Expected, Settled
  <2>3. \A b \in Attempts : Waiting(b) => a # b
    BY <1>2 DEF Settled
  <2>4. ActiveIsAlone'
    BY <1>0, <2>1, <2>2, <2>3
  <2>5. CrashIsAlone'
    BY <1>0, <2>1, <2>2
  <2>6. CallIsAlone'
    BY <1>0, <2>1
  <2>7. OneInTheMap'
    BY <1>0, <2>1, <2>2
  <2>8. ProcessesHeld'
    BY <1>0, <2>1, <2>2
  <2>9. Numbered'
    BY <1>0, <2>1
  <2> QED BY <2>4, <2>5, <2>6, <2>7, <2>8, <2>9
<1>3. ASSUME NEW b \in Attempts, Expected(a), Settled(a) = {b}, Waiting(b),
             ObjectOf(b) = m
      PROVE  SerialInv'
  <2>1. /\ m \in Mounts /\ m = current /\ proc[m] = b /\ b \in live /\ b \notin doomed
        /\ m \notin intentional /\ ~stopping /\ \A x \in Mounts : crashing[x] = 0
        /\ \A o \in Callers : op[o] = "idle"
    BY <1>3
  <2>2. a # b /\ a \in live /\ a \in doomed
    BY <1>0, <1>3, <2>1 DEF Expected, ProcessExits
  <2>3. IsRestart(b)
    <3> SUFFICES ASSUME ~IsRestart(b) PROVE FALSE
      OBVIOUS
    <3>1. launched[m] = 0
      BY <1>3, <2>1
    <3>2. a[2] <= launched[m]
      BY <2>2
    <3>3. a[2] \in Nat
      BY AttemptNumber
    <3>4. a[2] = 0
      BY <3>1, <3>2, <3>3
    <3>5. b[2] = 0
      BY DEF IsRestart
    <3> QED BY <1>3, <2>2, <3>4, <3>5, SameAttempt
  <2>4. /\ live' = live \ {a} /\ doomed' = (doomed \cup {b}) \ {a}
        /\ step' = [step EXCEPT ![b] = "done"] /\ proc' = [proc EXCEPT ![m] = None]
        /\ state' = [state EXCEPT ![m] = "restarting"]
        /\ crashing' = [crashing EXCEPT ![m] = @ + 1]
    BY <1>3, <2>1, <2>2, <2>3, SettlingExit
  <2>5. \A c \in Attempts : Active(c) => c = b
    BY <1>3
  <2>6. ActiveIsAlone'
    BY <2>4, <2>5
  <2>7. CrashIsAlone'
    BY <1>0, <2>1, <2>4
  <2>8. CallIsAlone'
    BY <1>0, <2>1
  <2>9. OneInTheMap'
    BY <1>0, <2>1, <2>4
  <2>10. ProcessesHeld'
    BY <1>0, <1>3, <2>1, <2>2, <2>4
  <2>11. Numbered'
    BY <1>0, <1>3, <2>4
  <2> QED BY <2>6, <2>7, <2>8, <2>9, <2>10, <2>11
<1> QED BY <1>1, <1>2, <1>3, ExitSettles

LEMMA SerialInit == Serial /\ Init => SerialInv
<1> SUFFICES ASSUME Init PROVE SerialInv
  OBVIOUS
<1> QED
  BY DEF Init

LEMMA SerialStep == Serial /\ IInv /\ SerialInv /\ [Next]_vars => SerialInv'
<1> SUFFICES ASSUME Serial, IInv, SerialInv, [Next]_vars
             PROVE  SerialInv'
  OBVIOUS
<1> HIDE AttemptFacts, AttemptPairs
    DEF Serial, SerialInv, ActiveIsAlone, CrashIsAlone, CallIsAlone, OneInTheMap,
        ProcessesHeld, Numbered, IInv, TypeOK, OwnProcess, CallersHaveObjects, Active,
        InFlight, Waiting, Serving, vars, objectVars, attemptVars, procVars, opVars
<1>1. ASSUME NEW a \in Attempts, StartStep(a) \/ ProcessExits(a) \/ TimerFires(a)
      PROVE  SerialInv'
  BY <1>1, SerialSpawn, SerialHandshake, SerialStarted, SerialMountFails,
     SerialRestartFails, SerialExit, SerialTimer DEF StartStep
<1>2. ASSUME NEW m \in Mounts,
             Mount(m) \/ CrashHandled(m) \/ WindowPasses(m) \/ PingFails(m)
      PROVE  SerialInv'
  BY <1>2, SerialMount, SerialCrash, SerialWindow
<1>3. ASSUME NEW o \in Callers, CallStep(o)
      PROVE  SerialInv'
  BY <1>3, SerialClose, SerialTerminate, SerialEnd, SerialRefused, SerialRemount
  DEF CallStep
<1>4. ASSUME NEW o \in Callers, StopAll(o) \/ \E again \in BOOLEAN : Unmount(o, again)
      PROVE  SerialInv'
  BY <1>4, SerialStopAll, SerialUnmount
<1>5. CASE UNCHANGED vars
  BY <1>5
  DEF SerialInv, ActiveIsAlone, CrashIsAlone, CallIsAlone, OneInTheMap, ProcessesHeld,
      Numbered, Active, InFlight, Waiting, Serving, vars, objectVars, attemptVars,
      procVars, opVars
<1> QED
  BY <1>1, <1>2, <1>3, <1>4, <1>5 DEF Next

\* SerialInv holds in every reachable state of such a supervisor.
THEOREM SerialInvariance == Serial => (Spec => [](IInv /\ SerialInv))
<1> SUFFICES ASSUME Serial PROVE Spec => [](IInv /\ SerialInv)
  OBVIOUS
<1> HIDE DEF SerialInv, IInv, Serial, vars
<1>1. Init => IInv /\ SerialInv
  BY InitInv, SerialInit
<1>2. IInv /\ SerialInv /\ [Next]_vars => (IInv /\ SerialInv)'
  BY StepInv, SerialStep
<1> QED
  BY <1>1, <1>2, PTL DEF Spec

\* One object of the plugin serves, one restart of it is under way, and the
\* process it calls is the one that runs, for any number of mounts, restarts and
\* crashes: two providers for the capability never meet in the container.
THEOREM OnePluginServes == Serial => (Spec => []OneServes)
<1> SUFFICES ASSUME Serial PROVE Spec => []OneServes
  OBVIOUS
<1>1. IInv /\ SerialInv => OneServes
  <2> SUFFICES ASSUME IInv, SerialInv PROVE OneServes
    OBVIOUS
  <2>1. ProviderServes
    BY DEF ProviderServes
  <2>2. OneRestart
    BY DEF OneRestart
  <2> QED
    BY <2>1, <2>2 DEF OneServes
<1> HIDE DEF SerialInv, IInv, Serial
<1> QED
  BY <1>1, SerialInvariance, PTL

\* Once unmount() is through, or stopAll() has begun, nothing of the plugin comes
\* back: no provider, no process without a signal, no restart.
THEOREM UnmountedStaysGone == Serial => (Spec => []NothingComesBack)
<1> SUFFICES ASSUME Serial PROVE Spec => []NothingComesBack
  OBVIOUS
<1>1. IInv /\ SerialInv => NothingComesBack
  BY DEF NothingComesBack, UnmountRevokes, CapabilityGone, ShutdownIsQuiet
<1> HIDE DEF SerialInv, IInv, Serial
<1> QED
  BY <1>1, SerialInvariance, PTL
==============================================================================
