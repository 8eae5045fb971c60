----------------------------- MODULE DownloadVpn -----------------------------
(* The host's side of the VPN: which download client is bound to which       *)
(* profile, the one network namespace whose firewall lets nothing but the    *)
(* tunnel out, the launches that wait for the tunnel, and the queue of       *)
(* configure, disconnect and reconnect, which restart clients one by one.    *)
(* Translated from apps/server/src/download-vpn.ts with kernel.ts.  Commands *)
(* of the host are steps that succeed or fail; a process is "direct" or in   *)
(* the namespace.                                                            *)
EXTENDS Naturals, FiniteSets

CONSTANTS Natives,      \* the native download clients
          MaxProfiles,  \* bound on the profiles ever uploaded
          MaxChanges,   \* bound on the configuration requests
          MaxReboots    \* bound on restarts of the server

ASSUME VpnBounds == IsFiniteSet(Natives) /\ {MaxProfiles, MaxChanges, MaxReboots} \subseteq Nat

VARIABLES bound,        \* [Natives -> profile, 0 when the client goes direct]
          savedBound,   \* the same, in the durable document
          profiles,     \* profiles uploaded, numbered in order
          prepared,     \* [Natives -> profile its namespace was prepared for]
          preparing,    \* the preparation under way: [client, profile, at], or Calm
          waiters,      \* launches that wait for it: {<<client, profile>>}
          tunnel,       \* the profile wg0 carries, 0 when there is no wg0
          process,      \* [Natives -> {"none", "direct", "inside"}]
          change,       \* the configuration request in progress, or Calm
          changes, reboots

vpnVars == <<bound, savedBound, profiles, prepared, preparing, waiters, tunnel,
             process, change, changes, reboots>>

Profiles == 0 .. MaxProfiles
Calm == [at |-> "none"]
Bindings == [Natives -> Profiles]

VpnTypeOK ==
    /\ bound \in Bindings /\ savedBound \in Bindings /\ profiles \in Profiles
    /\ prepared \in Bindings /\ tunnel \in Profiles
    /\ preparing # Calm => preparing.client \in Natives /\ preparing.profile \in 1 .. profiles
    /\ waiters \subseteq Natives \X (1 .. MaxProfiles)
    /\ process \in [Natives -> {"none", "direct", "inside"}]
    /\ change # Calm => change.todo \subseteq Natives
    /\ changes \in 0 .. MaxChanges /\ reboots \in 0 .. MaxReboots

\* No binding yet, or what an older release left: a profile for each client.
VpnInit ==
    /\ \/ savedBound = [c \in Natives |-> 0] /\ profiles = 0
       \/ profiles = Cardinality(Natives) /\ MaxProfiles > profiles
          /\ savedBound \in {b \in Bindings : {b[c] : c \in Natives} = 1 .. profiles}
    /\ bound = savedBound
    /\ prepared = [c \in Natives |-> 0]
    /\ preparing = Calm /\ waiters = {} /\ tunnel = 0
    /\ process = [c \in Natives |-> "none"]
    /\ change = Calm /\ changes = 0 /\ reboots = 0

------------------------------------------------------------------------------
\* prepareEntry: how a launch gets the command it will spawn.

InUse == {bound[c] : c \in Natives} \ {0}
Launch(c) ==
    /\ process[c] = "none"
    /\ \/ /\ bound[c] = 0
          /\ process' = [process EXCEPT ![c] = "direct"]
          /\ UNCHANGED <<prepared, preparing, waiters>>
       \/ /\ bound[c] # 0 /\ Cardinality(InUse) = 1
          /\ bound[c] \in {prepared[d] : d \in Natives}
          /\ prepared' = [prepared EXCEPT ![c] = bound[c]]
          /\ process' = [process EXCEPT ![c] = "inside"]
          /\ UNCHANGED <<preparing, waiters>>
       \/ /\ bound[c] # 0 /\ Cardinality(InUse) = 1
          /\ bound[c] \notin {prepared[d] : d \in Natives}
          /\ waiters' = waiters \cup {<<c, bound[c]>>}
          /\ preparing' = IF preparing # Calm THEN preparing
                          ELSE [client |-> c, profile |-> bound[c], at |-> "clear"]
          /\ UNCHANGED <<prepared, process>>
    /\ UNCHANGED <<bound, savedBound, profiles, tunnel, change, changes, reboots>>

\* The process of a plugin ends; the supervisor launches it again.
Exits(c) ==
    /\ process[c] # "none" /\ process' = [process EXCEPT ![c] = "none"]
    /\ UNCHANGED <<bound, savedBound, profiles, prepared, preparing, waiters,
                   tunnel, change, changes, reboots>>

\* #prepare: the firewall first, then the old tunnel goes, then the new one
\* comes, shakes hands and answers a DNS question.
OldTunnelGoes ==
    /\ preparing # Calm /\ preparing.at = "clear"
    /\ tunnel' = 0 /\ preparing' = [preparing EXCEPT !.at = "raise"]
    /\ UNCHANGED <<bound, savedBound, profiles, prepared, waiters, process, change, changes, reboots>>
NewTunnelComes ==
    /\ preparing # Calm /\ preparing.at = "raise"
    /\ tunnel' = preparing.profile /\ preparing' = [preparing EXCEPT !.at = "check"]
    /\ UNCHANGED <<bound, savedBound, profiles, prepared, waiters, process, change, changes, reboots>>

\* The binding must still be the one the tunnel was raised for, here and in
\* every launch that waited for this preparation.
AnyBinding(c, p) == TRUE
StillBound(c, p) == bound[c] = p
Admitted == {w \in waiters : StillBound(w[1], w[2])}
Prepares ==
    /\ preparing # Calm /\ preparing.at = "check"
    /\ StillBound(preparing.client, preparing.profile)
    /\ prepared' = [c \in Natives |->
          IF <<c, bound[c]>> \in Admitted THEN bound[c] ELSE prepared[c]]
    /\ process' = [c \in Natives |->
          IF <<c, bound[c]>> \in Admitted THEN "inside" ELSE process[c]]
    /\ preparing' = Calm /\ waiters' = {}
    /\ UNCHANGED <<bound, savedBound, profiles, tunnel, change, changes, reboots>>

\* Any command fails, or the binding changed: whatever came up goes, and so do
\* the launches that waited.
PrepareFails ==
    /\ preparing # Calm
    /\ tunnel' = IF preparing.at = "clear" THEN tunnel ELSE 0
    /\ preparing' = Calm /\ waiters' = {}
    /\ UNCHANGED <<bound, savedBound, profiles, prepared, process, change, changes, reboots>>

------------------------------------------------------------------------------
\* The queue of changes: one at a time, each a durable write, then what memory
\* holds, then the restarts.

Requested(kind, chosen) ==
    /\ change = Calm /\ changes < MaxChanges
    /\ changes' = changes + 1
    /\ change' = [at |-> "put", kind |-> kind, chosen |-> chosen, todo |-> {}]
    /\ UNCHANGED <<bound, savedBound, profiles, prepared, preparing, waiters,
                   tunnel, process, reboots>>
Requests ==
    \/ \E chosen \in SUBSET Natives \ {{}} :
          profiles < MaxProfiles /\ Requested("configure", chosen)
    \/ \E c \in Natives :
          \/ Requested("disconnect", {c})
          \/ bound[c] # 0 /\ Requested("reconnect", {c})
GivesUp ==
    /\ change.at = "put" /\ change' = Calm
    /\ UNCHANGED <<bound, savedBound, profiles, prepared, preparing, waiters,
                   tunnel, process, changes, reboots>>

\* configure binds the chosen clients and every bound one to the new profile.
Bound == {c \in Natives : bound[c] # 0}
NextBindings ==
    CASE change.kind = "configure" -> [c \in Natives |->
            IF c \in change.chosen \cup Bound THEN profiles + 1 ELSE 0]
      [] change.kind = "disconnect" -> [c \in Natives |->
            IF c \in change.chosen THEN 0 ELSE bound[c]]
      [] OTHER -> bound
Puts ==
    /\ change.at = "put"
    /\ savedBound' = NextBindings
    /\ profiles' = IF change.kind = "configure" THEN profiles + 1 ELSE profiles
    /\ change' = [change EXCEPT !.at = "take"]
    /\ UNCHANGED <<bound, prepared, preparing, waiters, tunnel, process, changes, reboots>>

\* Memory follows the document.  Preparations are forgotten: all of them, or
\* the disconnected client's.
Adopts ==
    /\ change.at = "take"
    /\ bound' = savedBound
    /\ prepared' = [c \in Natives |->
          IF change.kind # "disconnect" \/ c \in change.chosen THEN 0 ELSE prepared[c]]
    /\ change' = [change EXCEPT !.at = "restart",
          !.todo = CASE change.kind = "configure" -> change.chosen \cup Bound
                     [] change.kind = "disconnect" -> change.chosen
                     [] OTHER -> Bound]
    /\ UNCHANGED <<savedBound, profiles, preparing, waiters, tunnel, process, changes, reboots>>

\* A restart takes the old process down before it launches the new one.  A
\* failed launch is reported; reconnect and disconnect stop at it.
Restarts(c) ==
    /\ change.at = "restart" /\ c \in change.todo
    /\ process' = [process EXCEPT ![c] = "none"]
    /\ change' = [change EXCEPT !.todo = @ \ {c}]
    /\ UNCHANGED <<bound, savedBound, profiles, prepared, preparing, waiters,
                   tunnel, changes, reboots>>
Changed ==
    /\ change.at = "restart"
    /\ change.todo = {} \/ change.kind = "reconnect"
    /\ tunnel' \in IF change.kind = "disconnect" /\ InUse = {} THEN {0, tunnel} ELSE {tunnel}
    /\ change' = Calm
    /\ UNCHANGED <<bound, savedBound, profiles, prepared, preparing, waiters,
                   process, changes, reboots>>

\* A restart of the server: the document is what remains, and the namespace
\* unless an orderly shutdown took it down.
Reboots ==
    /\ reboots < MaxReboots /\ reboots' = reboots + 1
    /\ bound' = savedBound
    /\ prepared' = [c \in Natives |-> 0]
    /\ preparing' = Calm /\ waiters' = {} /\ change' = Calm
    /\ process' = [c \in Natives |-> "none"]
    /\ tunnel' \in {tunnel, IF InUse = {} THEN tunnel ELSE 0}
    /\ UNCHANGED <<savedBound, profiles, changes>>

VpnNext ==
    \/ \E c \in Natives : Launch(c) \/ Exits(c) \/ Restarts(c)
    \/ OldTunnelGoes \/ NewTunnelComes \/ Prepares \/ PrepareFails
    \/ Requests \/ GivesUp \/ Puts \/ Adopts \/ Changed \/ Reboots

VpnSpec == VpnInit /\ [][VpnNext]_vpnVars

------------------------------------------------------------------------------
\* What #check answers a client before it moves any data.
Allowed(c) == bound[c] = 0 \/ (prepared[c] = bound[c] /\ tunnel # 0)

\* Hazard: launches wait for a preparation while the bindings change.  A bound
\* client's process is inside the namespace, or still to be restarted by the
\* change that bound it and refused by the gate; and a bound client the gate
\* lets through has its own profile's tunnel under it.
Isolated == \A c \in Natives : bound[c] # 0 =>
    /\ process[c] = "direct" => (change.at = "restart" /\ c \in change.todo /\ ~Allowed(c))
    /\ Allowed(c) => tunnel = bound[c]

==============================================================================
