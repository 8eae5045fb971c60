----------------------------- MODULE PluginChannel -----------------------------
(* The two pipes between the supervisor and a plugin process: calls of its     *)
(* capabilities one way, the plugin's own requests the other way, each with a  *)
(* number by which the answer finds its request.                               *)
(* Translated from the requests and plugin messages of                         *)
(* apps/server/src/supervisor.ts and from packages/plugin-sdk/src/runtime.ts.  *)
(* One mount of one plugin, which is restarted after crashes and unmounted     *)
(* once.  Handshake and mount are one request; restarts are not bounded here   *)
(* (Supervisor).  A plugin's request is one whose answer the runtime looks at  *)
(* (storage get and delete, invoke) or one whose answer it does not (storage   *)
(* put, emit).  What is written to a process that is gone is lost.             *)
EXTENDS Naturals, Sequences, FiniteSets

CONSTANTS MaxProcs,     \* bound on the processes started for the plugin
          MaxCalls,     \* bound on the calls of its capabilities
          MaxAsks,      \* bound on the requests of one process
          MaxKeepFails, \* bound on the queries that fail
          Rooms,        \* which of these bounds are taken together
          Starting,     \* who waits for the answer to handshake and mount
          Nobody

ASSUME ChannelBounds == /\ {MaxProcs, MaxCalls, MaxAsks, MaxKeepFails} \subseteq Nat
                        /\ Rooms \subseteq [procs : 0 .. MaxProcs, calls : 0 .. MaxCalls,
                                             asks : 0 .. MaxAsks]
                        /\ {Starting, Nobody} \cap Nat = {}

VARIABLES phase,        \* the state of the plugin
          proc,         \* plugin.proc, 0 when it is null
          spawned,      \* processes started so far
          alive,        \* processes
          exits,        \* processes that ended and whose exit event is to come
          stdin,        \* [Procs -> lines written to the process and not read]
          stdout,       \* [Procs -> lines written by the process and not read]
          seq, pending, \* numbers given to requests; who waits for which
          call,         \* [Calls -> how the call stands]
          answered,     \* history: [Calls -> the call whose answer it was given, or 0]
          working,      \* [Procs -> calls the plugin's handlers are at]
          ask,          \* [Procs -> [AskIds -> the plugin's request]]
          serving,      \* requests of plugin processes the core is at
          kept,         \* puts and emits that were stored
          keepFails,
          room,         \* processes, calls and requests of a process in this behaviour
          crossed       \* history: answers that reached a process that did not ask

channelVars == <<phase, proc, spawned, alive, exits, stdin, stdout, seq, pending, call, answered,
                 working, ask, serving, kept, keepFails, room, crossed>>
processes   == <<proc, spawned, alive, exits>>
pluginVars  == <<working, ask>>
coreVars    == <<serving, kept, keepFails, room, crossed>>

Procs  == 1 .. MaxProcs
Calls  == 1 .. MaxCalls
AskIds == 1 .. MaxAsks
Ids    == 1 .. MaxProcs + MaxCalls
Kinds  == {"blind", "checked"}   \* is the answer looked at
Unsent == [kind |-> "checked", at |-> "unsent"]

ChannelTypeOK ==
    /\ phase \in {"starting", "healthy", "restarting", "unmounting"}
    /\ spawned \in 0 .. MaxProcs /\ proc \in 0 .. spawned
    /\ alive \subseteq Procs /\ exits \subseteq Procs \ alive
    /\ \A p \in Procs :
          /\ stdin[p] \in Seq([is : {"request"}, id : Ids, of : 0 .. MaxCalls]
                    \cup [is : {"answer"}, id : AskIds, of : Procs, ok : BOOLEAN])
          /\ stdout[p] \in Seq([is : {"answer"}, id : Ids, of : 0 .. MaxCalls]
                    \cup [is : {"request"}, id : AskIds, kind : Kinds])
    /\ seq \in 0 .. MaxProcs + MaxCalls /\ pending \in [Ids -> Calls \cup {Starting, Nobody}]
    /\ call \in [Calls -> {"unsent", "waiting", "answered", "failed", "void", "cut"}]
    /\ working \in [Procs -> SUBSET [id : Ids, of : Calls]]
    /\ ask \in [Procs -> [AskIds -> [kind : Kinds,
                                     at : {"unsent", "waiting", "told", "refused", "late"}]]]
    /\ serving \subseteq [of : Procs, id : AskIds, kind : Kinds]
    /\ kept \subseteq Procs \X AskIds /\ crossed \subseteq Procs \X AskIds /\ room \in Rooms

ChannelInit ==
    /\ phase = "restarting" /\ proc = 0 /\ spawned = 0 /\ alive = {} /\ exits = {}
    /\ stdin = [p \in Procs |-> <<>>] /\ stdout = stdin
    /\ seq = 0 /\ pending = [i \in Ids |-> Nobody]
    /\ call = [n \in Calls |-> "unsent"] /\ answered = [n \in Calls |-> 0]
    /\ working = [p \in Procs |-> {}] /\ ask = [p \in Procs |-> [a \in AskIds |-> Unsent]]
    /\ serving = {} /\ kept = {} /\ keepFails = 0 /\ crossed = {} /\ room \in Rooms

------------------------------------------------------------------------------
\* #request: a number that was not used before, and a line to the process.
LowestFree == CHOOSE i \in Ids : pending[i] = Nobody /\ \A j \in Ids : j < i => pending[j] # Nobody
NextId     == seq + 1
Requests(p, who, of) ==
    /\ seq' = seq + 1
    /\ pending' = [pending EXCEPT ![NextId] = who]
    /\ stdin' = [stdin EXCEPT ![p] = Append(@, [is |-> "request", id |-> NextId, of |-> of])]

\* The restart timer, or mount: a process and its first request.
Spawns ==
    /\ phase = "restarting" /\ spawned < room.procs
    /\ phase' = "starting" /\ spawned' = spawned + 1 /\ proc' = spawned'
    /\ alive' = alive \cup {spawned'}
    /\ Requests(spawned', Starting, 0)
    /\ UNCHANGED <<exits, stdout, call, answered, pluginVars, coreVars>>
\* The start takes too long: the process is killed, and ends some time later.
\* The first one is the mount's, which is over; the others are restarts.
StartTimesOut == \E i \in Ids :
    /\ phase = "starting" /\ pending[i] = Starting
    /\ pending' = [pending EXCEPT ![i] = Nobody]
    /\ phase' = (IF spawned = 1 THEN "unmounting" ELSE "restarting") /\ proc' = 0
    /\ UNCHANGED <<spawned, alive, exits, stdin, stdout, seq, call, answered, pluginVars, coreVars>>

NextCall(n) == /\ n <= room.calls /\ call[n] = "unsent"
               /\ \A m \in Calls : m < n => call[m] # "unsent"
\* A call of a capability.  The write to a process that is gone may be refused.
Invokes(n) ==
    /\ phase = "healthy" /\ NextCall(n)
    /\ call' = [call EXCEPT ![n] = "waiting"]
    /\ Requests(proc, n, n)
    /\ UNCHANGED <<phase, processes, stdout, answered, pluginVars, coreVars>>
InvokeFails(n) ==
    /\ phase = "healthy" /\ proc \in exits /\ NextCall(n)
    /\ call' = [call EXCEPT ![n] = "failed"]
    /\ UNCHANGED <<phase, processes, stdin, stdout, seq, pending, answered, pluginVars,
                   coreVars>>
CallTimesOut(n) == \E i \in Ids :
    /\ pending[i] = n /\ pending' = [pending EXCEPT ![i] = Nobody]
    /\ call' = [call EXCEPT ![n] = "failed"]
    /\ UNCHANGED <<phase, processes, stdin, stdout, seq, answered, pluginVars, coreVars>>

------------------------------------------------------------------------------
\* The core reads a line of a process.  An answer nobody waits for is dropped.
Heard(p) == stdout' = [stdout EXCEPT ![p] = Tail(@)]
HearsAnswer(p) ==
    /\ stdout[p] # <<>> /\ Head(stdout[p]).is = "answer" /\ Heard(p)
    /\ LET line == Head(stdout[p])
           who  == pending[line.id]
       IN /\ pending' = [pending EXCEPT ![line.id] = Nobody]
          /\ phase' = IF who = Starting /\ phase = "starting" THEN "healthy" ELSE phase
          /\ call' = IF who \in Calls THEN [call EXCEPT ![who] = "answered"] ELSE call
          /\ answered' = IF who \in Calls THEN [answered EXCEPT ![who] = line.of] ELSE answered
    /\ UNCHANGED <<processes, stdin, seq, pluginVars, coreVars>>
HearsRequest(p) ==
    /\ stdout[p] # <<>> /\ Head(stdout[p]).is = "request" /\ Heard(p)
    /\ LET line == Head(stdout[p]) IN
          serving' = serving \cup {[of |-> p, id |-> line.id, kind |-> line.kind]}
    /\ UNCHANGED <<phase, processes, stdin, seq, pending, call, answered, pluginVars,
                   kept, keepFails, room, crossed>>

\* The core is done with a request, or it failed: the answer goes to the process
\* the plugin has by then.
Serves(r) ==
    /\ r \in serving /\ serving' = serving \ {r}
    /\ \E ok \in IF keepFails < MaxKeepFails THEN BOOLEAN ELSE {TRUE} :
          /\ keepFails' = IF ok THEN keepFails ELSE keepFails + 1
          /\ kept' = IF ok /\ r.kind = "blind" THEN kept \cup {<<r.of, r.id>>} ELSE kept
          /\ stdin' = IF proc = 0 THEN stdin
                      ELSE [stdin EXCEPT ![proc] = Append(@, [is |-> "answer", id |-> r.id,
                                                              of |-> r.of, ok |-> ok])]
    /\ UNCHANGED <<phase, processes, stdout, seq, pending, call, answered, pluginVars,
                   room, crossed>>

------------------------------------------------------------------------------
\* The plugin process reads a line: a request is handed to its handler, an
\* answer to the request that waits under its number.
Reads(p) == /\ p \in alive /\ stdin[p] # <<>> /\ stdin' = [stdin EXCEPT ![p] = Tail(@)]
            /\ UNCHANGED <<phase, processes, seq, pending, call, answered, serving,
                           kept, keepFails, room>>
ReadsRequest(p) ==
    /\ Reads(p)
    /\ LET line == Head(stdin[p]) IN
          /\ line.is = "request"
          /\ IF line.of = 0
               THEN /\ stdout' = [stdout EXCEPT ![p] =
                                    Append(@, [is |-> "answer", id |-> line.id, of |-> 0])]
                    /\ UNCHANGED working
               ELSE /\ working' = [working EXCEPT ![p] = @ \cup {[id |-> line.id, of |-> line.of]}]
                    /\ UNCHANGED stdout
    /\ UNCHANGED <<ask, crossed>>
Answered(line, kind) == IF kind = "blind" \/ line.ok THEN "told" ELSE "refused"
ReadsAnswer(p) ==
    /\ Reads(p)
    /\ LET line == Head(stdin[p]) IN
          /\ line.is = "answer"
          /\ IF ask[p][line.id].at = "waiting"
               THEN /\ ask' = [ask EXCEPT ![p][line.id].at = Answered(line, ask[p][line.id].kind)]
                    /\ crossed' = IF line.of = p THEN crossed ELSE crossed \cup {<<p, line.id>>}
               ELSE UNCHANGED <<ask, crossed>>
    /\ UNCHANGED <<stdout, working>>

\* A handler ends, in any order, with a value or an error.
Replies(p) == \E w \in working[p] :
    /\ p \in alive /\ working' = [working EXCEPT ![p] = @ \ {w}]
    /\ stdout' = [stdout EXCEPT ![p] = Append(@, [is |-> "answer", id |-> w.id, of |-> w.of])]
    /\ UNCHANGED <<phase, processes, stdin, seq, pending, call, answered, ask, coreVars>>

\* The plugin asks the core, and gives up waiting.
AsksCore(p) == \E a \in AskIds, kind \in Kinds :
    /\ p \in alive /\ a <= room.asks /\ ask[p][a] = Unsent
    /\ \A b \in AskIds : b < a => ask[p][b] # Unsent
    /\ ask' = [ask EXCEPT ![p][a] = [kind |-> kind, at |-> "waiting"]]
    /\ stdout' = [stdout EXCEPT ![p] = Append(@, [is |-> "request", id |-> a, kind |-> kind])]
    /\ UNCHANGED <<phase, processes, stdin, seq, pending, call, answered, working, coreVars>>
AskTimesOut(p) == \E a \in AskIds :
    /\ p \in alive /\ ask[p][a].at = "waiting"
    /\ ask' = [ask EXCEPT ![p][a].at = "late"]
    /\ UNCHANGED <<phase, processes, stdin, stdout, seq, pending, call, answered,
                   working, coreVars>>

------------------------------------------------------------------------------
\* A process ends: of itself, by a kill, or because it is unmounted.
Ends(p) ==
    /\ p \in alive /\ alive' = alive \ {p} /\ exits' = exits \cup {p}
    /\ UNCHANGED <<phase, proc, spawned, stdin, stdout, seq, pending, call, answered,
                   pluginVars, coreVars>>

\* The exit handler: its lines are not read any more, all who wait go on, also
\* those who wait for another process, and the plugin is restarted if the
\* process was its process or a start went on without an answer.
Waits(who) == \E i \in Ids : pending[i] = who
HandlesExit(p) ==
    /\ p \in exits /\ exits' = exits \ {p}
    /\ stdout' = [stdout EXCEPT ![p] = <<>>]
    /\ call' = [n \in Calls |-> IF ~Waits(n) THEN call[n]
                                ELSE IF phase = "unmounting" THEN "cut" ELSE "void"]
    /\ pending' = [i \in Ids |-> Nobody]
    /\ phase' = IF phase # "unmounting" /\ (proc = p \/ Waits(Starting))
                THEN "restarting" ELSE phase
    /\ proc' = IF Waits(Starting) THEN 0 ELSE proc
    /\ UNCHANGED <<spawned, alive, stdin, seq, answered, pluginVars, coreVars>>

\* unmount: the capabilities are revoked and the process is sent SIGTERM.
Unmounts ==
    /\ phase # "unmounting" /\ phase' = "unmounting" /\ proc' = 0
    /\ UNCHANGED <<spawned, alive, exits, stdin, stdout, seq, pending, call, answered,
                   pluginVars, coreVars>>

ChannelNext ==
    \/ Spawns \/ StartTimesOut \/ Unmounts
    \/ \E n \in Calls : Invokes(n) \/ InvokeFails(n) \/ CallTimesOut(n)
    \/ \E p \in Procs : \/ HearsAnswer(p) \/ HearsRequest(p) \/ ReadsRequest(p) \/ ReadsAnswer(p)
                        \/ Replies(p) \/ AsksCore(p) \/ AskTimesOut(p) \/ Ends(p) \/ HandlesExit(p)
    \/ \E r \in serving : Serves(r)

ChannelSpec == ChannelInit /\ [][ChannelNext]_channelVars

------------------------------------------------------------------------------
\* Hazard: calls are answered out of order, after their time-out, and by a
\* process that is being replaced (supervisor.ts:303).  A call that is answered
\* is given the answer to this call.
OwnAnswers == \A n \in Calls : call[n] = "answered" => answered[n] = n

\* Hazard: a put resolves on any answer (runtime.ts:153).  As long as no query
\* failed and no answer reached another process than the one that asked, what a
\* plugin was told is kept has been stored.
ToldIsKept ==
    keepFails = 0 /\ crossed = {} =>
        \A p \in Procs, a \in AskIds :
            ask[p][a].kind = "blind" /\ ask[p][a].at = "told" => <<p, a>> \in kept

\* Both directions, over processes that overlap.
ChannelKept == ChannelTypeOK /\ OwnAnswers /\ ToldIsKept
==============================================================================
