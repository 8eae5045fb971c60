------------------------------ MODULE PluginSet ------------------------------
(* Which plugins run: at boot, and when an administrator configures the MCP   *)
(* plugin, the enabled set is converged onto, providers before consumers; and *)
(* the MCP configuration is what runs, what is desired and what is stored.    *)
(* Translated from apps/server/src/lifecycle.ts (PluginLifecycleManager) and  *)
(* from apps/server/src/kernel.ts (desiredPlugins, applyMcpDesiredConfig).    *)
(* Starting, restarting and reconfiguring one plugin is Supervisor.tla; here  *)
(* it is one step with its outcomes.  What the core itself provides is always *)
(* there and is left out of the manifests.  One request at a time: a second   *)
(* one that overlaps the first is not modelled.                               *)
EXTENDS Naturals, Sequences, FiniteSets
Sets  == INSTANCE FiniteSetsExt
Lists == INSTANCE SequencesExt

CONSTANTS PluginCount,      \* the configured plugins, in the order of the file
          Mcp,              \* the MCP plugin, one of them
          Capabilities,
          MaxPluginFaults,  \* bound on the crashes of plugins
          MaxMcpRequests,   \* bound on the configurations asked for
          MaxServerStops,   \* bound on the stops of the server
          NoConfig

Plugins == 1 .. PluginCount
ASSUME McpIsConfigured == PluginCount \in Nat /\ Mcp \in Plugins
ASSUME McpRequestBound == MaxMcpRequests \in Nat

VARIABLES manifest,   \* [Plugins -> [provides, requires]]
          filed,      \* the plugins the configuration file enables
          desired,    \* desiredPlugins: [set, config], config is that of MCP
          stored,     \* desiredConfig of the MCP row, or NoConfig
          status,     \* [Plugins -> what the supervisor knows of it]
          running,    \* the configuration the MCP process was given
          run,        \* the boot or the request under way
          asked,      \* the configurations asked for so far
          faults, serverStops,
          excused,    \* history: plugins that failed by themselves since the apply began
          apart       \* history: a request that could not be undone was reported so

plan    == <<manifest, filed, desired, stored>>
bounds  == <<asked, faults, serverStops>>
setVars == <<plan, status, running, run, bounds, excused, apart>>

Configs   == 0 .. MaxMcpRequests          \* 0 is the one of the file
Manifests == {m \in [provides : SUBSET Capabilities, requires : SUBSET Capabilities] :
                 Cardinality(m.provides) <= 1 /\ m.provides \cap m.requires = {}}
PluginStates  == {"absent", "healthy", "restarting", "failed"}

Stopped == [at |-> "stopped"]
AtRest    == [at |-> "idle"]
\* apply(target): the plugins it found and has still to look at, the next one of
\* the target to be looked at, and the plugins to be mounted.
Applying(target, config, boot) ==
    [at |-> "drop", target |-> target, next |-> 1, queue |-> <<>>,
     known |-> {p \in Plugins : status[p] # "absent"}, config |-> config, boot |-> boot]
Storing(config, had) == [at |-> "store", config |-> config, had |-> had]

Healthy == {p \in Plugins : status[p] = "healthy"}
Working == run.at \in {"drop", "load", "mount"}

PluginSetTypeOK ==
    /\ manifest \in [Plugins -> Manifests]
    /\ filed \subseteq Plugins /\ desired \in [set : SUBSET Plugins, config : Configs]
    /\ stored \in Configs \cup {NoConfig} /\ running \in Configs \cup {NoConfig}
    /\ status \in [Plugins -> PluginStates] /\ excused \subseteq Plugins /\ apart \in BOOLEAN
    /\ run.at \in {"stopped", "idle", "drop", "load", "mount", "store"}
    /\ Working => run.queue \in Seq(Plugins) /\ run.next \in 1 .. PluginCount + 1

PluginSetInit ==
    /\ manifest \in [Plugins -> Manifests]
    /\ filed \in {Plugins, Plugins \ {Mcp}}
    /\ desired = [set |-> filed, config |-> 0]
    /\ stored = NoConfig /\ running = NoConfig
    /\ status = [p \in Plugins |-> "absent"] /\ run = Stopped
    /\ asked = 0 /\ faults = 0 /\ serverStops = 0 /\ excused = {} /\ apart = FALSE

------------------------------------------------------------------------------
(* apply *)

\* The boot: the row of the MCP plugin goes before the file.
Boot ==
    /\ run.at = "stopped"
    /\ desired' = IF stored = NoConfig THEN [set |-> filed, config |-> 0]
                  ELSE [set |-> filed \cup {Mcp}, config |-> stored]
    /\ run' = Applying(desired'.set, desired'.config, TRUE)
    /\ excused' = {} /\ apart' = FALSE
    /\ UNCHANGED <<manifest, filed, stored, status, running, bounds>>

\* What is not wanted any more, or has failed, is unmounted.
Dropped(p) == status[p] # "absent" /\ (p \notin run.target \/ status[p] = "failed")
DropPlugin(p) ==
    /\ run.at = "drop" /\ p \in run.known
    /\ run' = [run EXCEPT !.known = @ \ {p}]
    /\ status' = IF Dropped(p) THEN [status EXCEPT ![p] = "absent"] ELSE status
    /\ running' = IF Dropped(p) /\ p = Mcp THEN NoConfig ELSE running
    /\ UNCHANGED <<plan, bounds, excused, apart>>
AllDropped ==
    /\ run.at = "drop" /\ run.known = {}
    /\ run' = [run EXCEPT !.at = "load"]
    /\ UNCHANGED <<plan, status, running, bounds, excused, apart>>

\* The manifest of the next plugin that is wanted and not healthy is read; one
\* that cannot be read, or is another plugin's, is left out.
LoadManifest(readable) ==
    LET p == run.next
        pending == p \in run.target /\ status[p] # "healthy"
    IN /\ run.at = "load" /\ p <= PluginCount /\ (~pending => readable)
       /\ run' = [run EXCEPT !.next = p + 1,
                             !.queue = IF pending /\ readable THEN Append(@, p) ELSE @]
       /\ excused' = IF readable THEN excused ELSE excused \cup {p}
       /\ UNCHANGED <<plan, status, running, bounds, apart>>

\* A mutant of Placeable: the order of the file is taken as it is.
AnyOrder(left, pending, ready) == DOMAIN left

\* Providers before consumers: the first plugin all of whose requirements are
\* provided by a healthy plugin, by one placed before, or by none of the
\* pending ones comes next.  A cycle keeps the order of the file.
ProvidedBy(ps) == UNION {manifest[p].provides : p \in ps}
Placeable(left, pending, ready) ==
    {i \in DOMAIN left : \A c \in manifest[left[i]].requires :
        c \in ready \/ c \notin ProvidedBy(pending)}
WithNext(s, pending) ==
    LET free == Placeable(s.left, pending, s.ready)
        i    == Sets!Min(free)
    IN IF free = {} THEN [order |-> s.order \o s.left, left |-> <<>>, ready |-> s.ready]
       ELSE [order |-> Append(s.order, s.left[i]), left |-> Lists!RemoveAt(s.left, i),
             ready |-> s.ready \cup manifest[s.left[i]].provides]
MountOrder(queue) ==
    LET sorted[k \in 0 .. Len(queue)] ==
            IF k = 0 THEN [order |-> <<>>, left |-> queue, ready |-> ProvidedBy(Healthy)]
            ELSE WithNext(sorted[k - 1], Lists!ToSet(queue))
    IN sorted[Len(queue)].order

Sorts ==
    /\ run.at = "load" /\ run.next = PluginCount + 1
    /\ run' = [run EXCEPT !.at = "mount", !.queue = MountOrder(@)]
    /\ UNCHANGED <<plan, status, running, bounds, excused, apart>>

\* mount() refuses a plugin it already knows, and one with a requirement that
\* has no provider or more than one.
Resolvable(p) ==
    \A c \in manifest[p].requires :
        Cardinality({q \in Healthy : c \in manifest[q].provides}) = 1

\* The next plugin is mounted, refused, or fails: one that exits at start is
\* unmounted again.
MountPlugin(works) ==
    LET p == Head(run.queue)
        starts == status[p] = "absent" /\ Resolvable(p)
    IN /\ run.at = "mount" /\ run.queue # <<>> /\ (works => starts)
       /\ run' = [run EXCEPT !.queue = Tail(@)]
       /\ status' = IF works THEN [status EXCEPT ![p] = "healthy"] ELSE status
       /\ running' = IF works /\ p = Mcp THEN run.config ELSE running
       /\ excused' = IF ~works /\ (starts \/ status[p] # "absent")
                     THEN excused \cup {p} ELSE excused
       /\ UNCHANGED <<plan, bounds, apart>>

\* apply() returns.  A request whose plugin is not healthy by now is refused
\* as it stands: one that was mounted and has crashed since is left behind.
Applied ==
    /\ run.at = "mount" /\ run.queue = <<>>
    /\ run' = IF run.boot \/ status[Mcp] # "healthy" THEN AtRest ELSE Storing(run.config, FALSE)
    /\ apart' = (apart \/ (~run.boot /\ status[Mcp] \in {"restarting", "failed"}))
    /\ UNCHANGED <<plan, status, running, bounds, excused>>

------------------------------------------------------------------------------
(* The MCP configuration *)

\* Supervisor.reconfigure(): the new configuration runs, or the one before is
\* put back, or the plugin is gone.
Reconfigured(config) ==
    \E now \in {config, running, NoConfig} :
        /\ now # NoConfig => Resolvable(Mcp)
        /\ running' = now
        /\ status' = [status EXCEPT ![Mcp] = IF now = NoConfig THEN "absent" ELSE "healthy"]

\* applyMcpDesiredConfig: a mounted plugin is reconfigured, or else mounted with
\* all that is desired and not healthy.
McpRequest ==
    /\ run = AtRest /\ asked < MaxMcpRequests
    /\ asked' = asked + 1
    /\ IF status[Mcp] # "absent"
       THEN /\ Reconfigured(asked')
            /\ run' = IF running' = asked' THEN Storing(asked', TRUE) ELSE AtRest
            /\ apart' = (apart /\ running' # NoConfig)
            /\ UNCHANGED excused
       ELSE /\ run' = Applying(desired.set \cup {Mcp}, asked', FALSE)
            /\ excused' = {}
            /\ UNCHANGED <<status, running, apart>>
    /\ UNCHANGED <<plan, faults, serverStops>>

\* The row is written, and what runs is what is desired from now on.
McpStored ==
    /\ run.at = "store"
    /\ stored' = run.config
    /\ desired' = [set |-> desired.set \cup {Mcp}, config |-> run.config]
    /\ run' = AtRest /\ apart' = FALSE
    /\ UNCHANGED <<manifest, filed, status, running, bounds, excused>>

\* A mutant of McpUndone: the configuration that runs is left as it is.
McpLeft ==
    /\ run.at = "store"
    /\ run' = AtRest /\ apart' = FALSE
    /\ UNCHANGED <<plan, status, running, bounds, excused>>

\* The row cannot be written: a plugin that was mounted for it is unmounted,
\* one that ran before gets its configuration back if it takes it.  The error
\* says whether that was so (rolledBack).
McpUndone ==
    /\ run.at = "store"
    /\ IF run.had THEN Reconfigured(desired.config)
       ELSE status' = [status EXCEPT ![Mcp] = "absent"] /\ running' = NoConfig
    /\ apart' = (run.had /\ running' # desired.config)
    /\ run' = AtRest
    /\ UNCHANGED <<plan, bounds, excused>>

------------------------------------------------------------------------------
(* The environment *)

\* A process dies; its capabilities are revoked until it is restarted, with the
\* configuration it had, or given up.
PluginCrashes(p) ==
    /\ status[p] = "healthy" /\ faults < MaxPluginFaults
    /\ status' = [status EXCEPT ![p] = "restarting"] /\ faults' = faults + 1
    /\ excused' = excused \cup {p}
    /\ UNCHANGED <<plan, running, run, asked, serverStops, apart>>
PluginRestarts(p) ==
    /\ status[p] = "restarting"
    /\ \E now \in {"healthy", "failed"} : status' = [status EXCEPT ![p] = now]
    /\ UNCHANGED <<plan, running, run, bounds, excused, apart>>

\* The server stops, or dies: between requests, or before the row is written.
\* A stop while plugins are mounted leaves what a stop before that leaves.
ServerStops ==
    /\ run.at \in {"idle", "store"} /\ serverStops < MaxServerStops
    /\ serverStops' = serverStops + 1 /\ run' = Stopped /\ excused' = {}
    /\ status' = [p \in Plugins |-> "absent"] /\ running' = NoConfig
    /\ UNCHANGED <<plan, asked, faults, apart>>

PluginSetNext ==
    \/ Boot \/ AllDropped \/ Sorts \/ Applied
    \/ McpRequest \/ McpStored \/ McpUndone \/ ServerStops
    \/ \E works \in BOOLEAN : LoadManifest(works) \/ MountPlugin(works)
    \/ \E p \in Plugins : DropPlugin(p) \/ PluginCrashes(p) \/ PluginRestarts(p)

PluginSetSpec == PluginSetInit /\ [][PluginSetNext]_setVars

------------------------------------------------------------------------------
(* Properties *)

\* The wanted plugins that provide the capability.
Suppliers(c) == {q \in run.target : c \in manifest[q].provides}
\* Those that failed by themselves and, one after another, those that depend on
\* one of these: the least set that has the former and grows no more.
Infects(ps) == \A p \in Plugins : (\E c \in manifest[p].requires : Suppliers(c) \cap ps # {}) => p \in ps
ShakenBy(ps) ==
    {p \in Plugins : \A all \in SUBSET Plugins : ps \subseteq all /\ Infects(all) => p \in all}
Shaken == ShakenBy(excused)

\* When apply() is through, a wanted plugin that is not up failed by itself or
\* depends on one that did, or needs a capability that not exactly one plugin
\* provides, or one whose provider is down for such a reason: the order of the
\* configuration alone keeps no plugin down (lifecycle.ts:100-102).
DownForAReason ==
    run.at = "mount" /\ run.queue = <<>> =>
        \A p \in run.target \ (Healthy \cup Shaken) : \E c \in manifest[p].requires :
            Cardinality(Suppliers(c)) # 1 \/ ~(Suppliers(c) \subseteq Healthy)

\* Between requests the MCP plugin runs the configuration that is desired, and
\* that is the stored one, whatever a request met (a plugin that refuses it, a
\* row that cannot be written), unless it was reported as not rolled back or
\* crashed before the answer (kernel.ts:507-586).
McpRunsAsStored ==
    run = AtRest =>
        /\ stored # NoConfig => desired.config = stored
        /\ running \in {desired.config, NoConfig} \/ apart
==============================================================================
