--------------------------- MODULE TransferProofs ----------------------------
(* Machine-checked theorems about DownloadVpn, for any profiles and any       *)
(* number of changes, failures, restarts and reboots; and about UsenetClient, *)
(* for any releases of any length and any number of downloads, control        *)
(* operations, stops and crashes.                                             *)
EXTENDS DownloadVpn, UsenetClient, FiniteSetTheorems, SequenceTheorems, TLAPS

------------------------------------------------------------------------------
(* The clients behind the tunnel: the inductive invariant *)

\* What the requests of the queue and the preparation look like.
ChangeRequests ==
    [at : {"put", "take", "restart"}, kind : {"configure", "disconnect", "reconnect"},
     chosen : SUBSET Natives, todo : SUBSET Natives]
Preparations ==
    [client : Natives, profile : 1 .. MaxProfiles, at : {"clear", "raise", "check"}]
VpnShaped ==
    /\ VpnTypeOK
    /\ change \in {Calm} \cup ChangeRequests
    /\ preparing \in {Calm} \cup Preparations
    /\ preparing # Calm => preparing.profile <= profiles
    /\ \A c \in Natives : bound[c] <= profiles /\ savedBound[c] <= profiles

\* Memory holds what the document says, but for a change between its write and
\* its turn; that one has written what it will bind.
DocumentAhead ==
    /\ change.at # "take" => savedBound = bound
    /\ change.at = "put" /\ change.kind = "configure" => profiles < MaxProfiles
    /\ change.at = "take" =>
          savedBound = CASE change.kind = "configure" -> [c \in Natives |->
                               IF c \in change.chosen \cup Bound THEN profiles ELSE 0]
                         [] change.kind = "disconnect" -> [c \in Natives |->
                               IF c \in change.chosen THEN 0 ELSE bound[c]]
                         [] OTHER -> bound

\* Whatever was or is prepared for a client that is still bound the same way is
\* the one profile in use.
OnlyProfile(p) == \A d \in Natives : bound[d] \in {0, p}
OneProfile ==
    /\ \A c \in Natives : prepared[c] # 0 => prepared[c] = bound[c] /\ OnlyProfile(prepared[c])
    /\ \A w \in waiters : bound[w[1]] = w[2] => OnlyProfile(w[2])
    /\ preparing # Calm /\ bound[preparing.client] = preparing.profile =>
          OnlyProfile(preparing.profile)

\* Nothing counts as prepared while a preparation is under way, or while
\* another tunnel than its own is up.
TunnelFits ==
    /\ preparing # Calm => \A c \in Natives : prepared[c] = 0
    /\ preparing # Calm /\ preparing.at = "check" => tunnel \in {0, preparing.profile}
    /\ \A c \in Natives : prepared[c] # 0 => tunnel \in {0, prepared[c]}

\* A bound client still runs outside only between the request that bound it and
\* its restart.
DirectIsDoomed ==
    \A c \in Natives : bound[c] # 0 /\ process[c] = "direct" =>
        /\ change.at = "restart" /\ change.kind = "configure" /\ c \in change.todo
        /\ prepared[c] = 0

VpnInv == VpnShaped /\ DocumentAhead /\ OneProfile /\ TunnelFits /\ DirectIsDoomed

LEMMA ShapesApart ==
    /\ Calm.at = "none" /\ Calm \notin ChangeRequests /\ Calm \notin Preparations
    /\ MaxProfiles \in Nat /\ MaxChanges \in Nat /\ MaxReboots \in Nat
BY VpnBounds DEF Calm, ChangeRequests, Preparations

\* One profile in use, and it is the one of a bound client.
LEMMA SingleUse ==
    ASSUME VpnShaped, NEW c \in Natives, bound[c] # 0, Cardinality(InUse) = 1
    PROVE  InUse = {bound[c]} /\ OnlyProfile(bound[c])
<1>1. IsFiniteSet(Profiles) /\ InUse \subseteq Profiles
  <2>1. IsFiniteSet(0 .. MaxProfiles)
    BY ShapesApart, FS_Interval
  <2> QED
    BY <2>1 DEF Profiles, InUse, VpnShaped, VpnTypeOK, Bindings
<1>2. IsFiniteSet(InUse)
  BY <1>1, FS_Subset
<1>3. PICK x : InUse = {x}
  BY <1>2, FS_Singleton
<1>4. bound[c] \in InUse /\ \A d \in Natives : bound[d] # 0 => bound[d] \in InUse
  BY DEF InUse
<1> QED
  BY <1>3, <1>4 DEF OnlyProfile

\* A launch: direct, into the prepared namespace, or in wait for a preparation.
LEMMA LaunchKeeps ==
    ASSUME VpnInv, NEW c \in Natives, Launch(c)
    PROVE  VpnInv'
<1>1. UNCHANGED <<bound, savedBound, profiles, tunnel, change, changes, reboots>>
      /\ process[c] = "none"
  BY DEF Launch
<1>2. CASE bound[c] = 0 /\ process' = [process EXCEPT ![c] = "direct"]
           /\ UNCHANGED <<prepared, preparing, waiters>>
  <2>1. VpnShaped' /\ DocumentAhead'
    BY <1>1, <1>2 DEF VpnInv, VpnShaped, VpnTypeOK, DocumentAhead, Bound
  <2>2. OneProfile' /\ TunnelFits'
    BY <1>1, <1>2 DEF VpnInv, OneProfile, TunnelFits, OnlyProfile
  <2>3. DirectIsDoomed'
    BY <1>1, <1>2 DEF VpnInv, DirectIsDoomed, VpnShaped, VpnTypeOK
  <2> QED
    BY <2>1, <2>2, <2>3 DEF VpnInv
<1>3. CASE /\ bound[c] # 0 /\ Cardinality(InUse) = 1
           /\ bound[c] \in {prepared[d] : d \in Natives}
           /\ prepared' = [prepared EXCEPT ![c] = bound[c]]
           /\ process' = [process EXCEPT ![c] = "inside"]
           /\ UNCHANGED <<preparing, waiters>>
  <2>1. PICK d \in Natives : prepared[d] = bound[c]
    BY <1>3
  <2>2. OnlyProfile(bound[c]) /\ tunnel \in {0, bound[c]} /\ preparing = Calm
    BY <1>3, <2>1, SingleUse DEF VpnInv, TunnelFits
  <2>3. VpnShaped' /\ DocumentAhead'
    BY <1>1, <1>3 DEF VpnInv, VpnShaped, VpnTypeOK, DocumentAhead, Bound, Bindings
  <2>4. OneProfile' /\ TunnelFits'
    BY <1>1, <1>3, <2>2 DEF VpnInv, OneProfile, TunnelFits, OnlyProfile, VpnShaped, VpnTypeOK, Bindings
  <2>5. DirectIsDoomed'
    BY <1>1, <1>3 DEF VpnInv, DirectIsDoomed, VpnShaped, VpnTypeOK, Bindings
  <2> QED
    BY <2>3, <2>4, <2>5 DEF VpnInv
<1>4. CASE /\ bound[c] # 0 /\ Cardinality(InUse) = 1
           /\ bound[c] \notin {prepared[d] : d \in Natives}
           /\ waiters' = waiters \cup {<<c, bound[c]>>}
           /\ preparing' = IF preparing # Calm THEN preparing
                           ELSE [client |-> c, profile |-> bound[c], at |-> "clear"]
           /\ UNCHANGED <<prepared, process>>
  <2>1. OnlyProfile(bound[c]) /\ bound[c] \in 1 .. MaxProfiles /\ bound[c] <= profiles
    BY <1>4, SingleUse DEF VpnInv, VpnShaped, VpnTypeOK, Bindings, Profiles
  <2>2. \A d \in Natives : prepared[d] = 0
    BY <1>4, <2>1 DEF VpnInv, OneProfile, OnlyProfile
  <2>3. preparing' \in Preparations /\ preparing' # Calm
    BY <1>4, <2>1, ShapesApart DEF VpnInv, VpnShaped, Preparations
  <2>4. \/ preparing' = preparing /\ preparing # Calm
        \/ /\ preparing'.client = c /\ preparing'.profile = bound[c]
           /\ preparing'.at = "clear"
    BY <1>4
  <2>5. VpnShaped'
    <3>1. VpnTypeOK'
      BY <1>1, <1>4, <2>1, <2>4 DEF VpnInv, VpnShaped, VpnTypeOK, Profiles
    <3> QED
      BY <1>1, <2>1, <2>3, <2>4, <3>1 DEF VpnInv, VpnShaped
  <2>6. DocumentAhead' /\ DirectIsDoomed'
    BY <1>1, <1>4 DEF VpnInv, DocumentAhead, Bound, DirectIsDoomed
  <2>7. OneProfile'
    <3>1. \A w \in waiters' : bound'[w[1]] = w[2] => OnlyProfile(w[2])'
      BY <1>1, <1>4, <2>1 DEF VpnInv, OneProfile, OnlyProfile
    <3>2. (preparing # Calm /\ bound[preparing.client] = preparing.profile =>
              OnlyProfile(preparing.profile))'
      BY <1>1, <2>1, <2>4 DEF VpnInv, OneProfile, OnlyProfile
    <3> QED
      BY <1>1, <1>4, <2>2, <3>1, <3>2 DEF OneProfile
  <2>8. TunnelFits'
    BY <1>1, <1>4, <2>2, <2>4 DEF VpnInv, TunnelFits
  <2> QED
    BY <2>5, <2>6, <2>7, <2>8 DEF VpnInv
<1> QED
  BY <1>2, <1>3, <1>4 DEF Launch

\* A process ends.
LEMMA ExitKeeps ==
    ASSUME VpnInv, NEW c \in Natives, Exits(c)
    PROVE  VpnInv'
<1>1. VpnShaped'
  BY DEF VpnInv, Exits, VpnShaped, VpnTypeOK
<1>2. DocumentAhead' /\ OneProfile' /\ TunnelFits'
  BY DEF VpnInv, Exits, DocumentAhead, Bound, OneProfile, OnlyProfile, TunnelFits
<1>3. DirectIsDoomed'
  BY DEF VpnInv, Exits, DirectIsDoomed, VpnShaped, VpnTypeOK
<1> QED
  BY <1>1, <1>2, <1>3 DEF VpnInv

\* The preparation goes on: the old tunnel, then the new one.
LEMMA TunnelKeeps ==
    ASSUME VpnInv, OldTunnelGoes \/ NewTunnelComes
    PROVE  VpnInv'
<1> DEFINE place == IF preparing.at = "clear" THEN "raise" ELSE "check"
<1>1. /\ UNCHANGED <<bound, savedBound, profiles, prepared, waiters, process, change,
                     changes, reboots>>
      /\ preparing \in Preparations /\ preparing # Calm
      /\ preparing' = [preparing EXCEPT !.at = place]
      /\ preparing.at = "clear" => tunnel' = 0
      /\ preparing.at = "raise" => tunnel' = preparing.profile
      /\ preparing.at \in {"clear", "raise"}
  BY DEF VpnInv, VpnShaped, OldTunnelGoes, NewTunnelComes
<1>2. /\ preparing' \in Preparations /\ preparing'.client = preparing.client
      /\ preparing'.profile = preparing.profile /\ preparing'.at = place
  BY <1>1 DEF Preparations
<1>3. preparing' # Calm
  BY <1>2, ShapesApart
<1>4. preparing.profile \in 1 .. MaxProfiles
  BY <1>1 DEF Preparations
<1>5. VpnShaped'
  <2>1. tunnel' \in Profiles
    BY <1>1, <1>4, ShapesApart DEF Profiles
  <2>2. VpnTypeOK'
    BY <1>1, <1>2, <2>1 DEF VpnInv, VpnShaped, VpnTypeOK
  <2> QED
    BY <1>1, <1>2, <2>2 DEF VpnInv, VpnShaped
<1>6. DocumentAhead' /\ OneProfile' /\ DirectIsDoomed'
  BY <1>1, <1>2 DEF VpnInv, DocumentAhead, Bound, OneProfile, OnlyProfile, DirectIsDoomed
<1>7. TunnelFits'
  BY <1>1, <1>2 DEF VpnInv, TunnelFits
<1> QED
  BY <1>5, <1>6, <1>7 DEF VpnInv

\* The preparation is through: the launches that waited for it and are still
\* bound to it go inside.
LEMMA PreparesKeeps ==
    ASSUME VpnInv, Prepares
    PROVE  VpnInv'
<1> DEFINE p == preparing.profile
           In(c) == <<c, bound[c]>> \in Admitted
<1>1. /\ UNCHANGED <<bound, savedBound, profiles, tunnel, change, changes, reboots>>
      /\ prepared' = [c \in Natives |-> IF In(c) THEN bound[c] ELSE prepared[c]]
      /\ process' = [c \in Natives |-> IF In(c) THEN "inside" ELSE process[c]]
      /\ preparing' = Calm /\ waiters' = {}
      /\ preparing # Calm /\ preparing \in Preparations
  BY DEF Prepares, VpnInv, VpnShaped
<1>2. /\ OnlyProfile(p) /\ p \in 1 .. MaxProfiles /\ tunnel \in {0, p}
      /\ \A c \in Natives : prepared[c] = 0
  BY <1>1 DEF Prepares, StillBound, VpnInv, OneProfile, TunnelFits, Preparations
<1>3. \A c \in Natives : In(c) => bound[c] = p
  <2> SUFFICES ASSUME NEW c \in Natives, In(c) PROVE bound[c] = p
    OBVIOUS
  <2>1. <<c, bound[c]>> \in Natives \X (1 .. MaxProfiles)
    BY DEF Admitted, VpnInv, VpnShaped, VpnTypeOK
  <2>2. bound[c] # 0
    BY <2>1
  <2> QED
    BY <1>2, <2>2 DEF OnlyProfile
<1>4. VpnShaped'
  BY <1>1 DEF VpnInv, VpnShaped, VpnTypeOK, Bindings
<1>5. DocumentAhead'
  BY <1>1 DEF VpnInv, DocumentAhead, Bound
<1>6. OneProfile' /\ TunnelFits'
  BY <1>1, <1>2, <1>3 DEF OneProfile, OnlyProfile, TunnelFits
<1>7. DirectIsDoomed'
  BY <1>1 DEF VpnInv, DirectIsDoomed
<1> QED
  BY <1>4, <1>5, <1>6, <1>7 DEF VpnInv

\* The preparation fails.
LEMMA FailureKeeps ==
    ASSUME VpnInv, PrepareFails
    PROVE  VpnInv'
<1>1. /\ UNCHANGED <<bound, savedBound, profiles, prepared, process, change, changes, reboots>>
      /\ preparing # Calm /\ preparing' = Calm /\ waiters' = {} /\ tunnel' \in {0, tunnel}
  BY DEF PrepareFails
<1>2. VpnShaped'
  <2>1. tunnel' \in Profiles
    BY <1>1, ShapesApart DEF VpnInv, VpnShaped, VpnTypeOK, Profiles
  <2> QED
    BY <1>1, <2>1 DEF VpnInv, VpnShaped, VpnTypeOK
<1>3. DocumentAhead' /\ OneProfile' /\ DirectIsDoomed' /\ TunnelFits'
  BY <1>1 DEF VpnInv, DocumentAhead, Bound, OneProfile, OnlyProfile, DirectIsDoomed, TunnelFits
<1> QED
  BY <1>2, <1>3 DEF VpnInv


\* A request enters the queue, or gives up before it has written anything.
LEMMA QueueKeeps ==
    ASSUME VpnInv, Requests \/ GivesUp
    PROVE  VpnInv'
<1>1. /\ UNCHANGED <<bound, savedBound, profiles, prepared, preparing, waiters, tunnel,
                     process, reboots>>
      /\ change.at \in {"none", "put"} /\ changes' \in 0 .. MaxChanges
      /\ change' = Calm \/ /\ change' \in ChangeRequests /\ change'.at = "put"
                           /\ change'.kind = "configure" => profiles < MaxProfiles
  <2>1. CASE GivesUp
    BY <2>1 DEF GivesUp, VpnInv, VpnShaped, VpnTypeOK
  <2>2. CASE Requests
    <3>1. PICK kind \in {"configure", "disconnect", "reconnect"}, chosen \in SUBSET Natives :
             /\ Requested(kind, chosen)
             /\ kind = "configure" => profiles < MaxProfiles
      BY <2>2 DEF Requests
    <3>2. [at |-> "put", kind |-> kind, chosen |-> chosen, todo |-> {}] \in ChangeRequests
      BY DEF ChangeRequests
    <3>3. changes + 1 \in 0 .. MaxChanges
      BY <3>1, ShapesApart DEF Requested, VpnInv, VpnShaped, VpnTypeOK
    <3> QED
      BY <3>1, <3>2, <3>3, ShapesApart DEF Requested
  <2> QED
    BY <2>1, <2>2
<1>2. VpnShaped'
  BY <1>1 DEF VpnInv, VpnShaped, VpnTypeOK, ChangeRequests
<1>3. DocumentAhead'
  BY <1>1, ShapesApart DEF VpnInv, DocumentAhead
<1>4. OneProfile' /\ TunnelFits'
  BY <1>1 DEF VpnInv, OneProfile, OnlyProfile, TunnelFits
<1>5. DirectIsDoomed'
  BY <1>1 DEF VpnInv, DirectIsDoomed
<1> QED
  BY <1>2, <1>3, <1>4, <1>5 DEF VpnInv

\* The document is written; memory does not follow yet.
LEMMA PutKeeps ==
    ASSUME VpnInv, Puts
    PROVE  VpnInv'
<1>1. /\ UNCHANGED <<bound, prepared, preparing, waiters, tunnel, process, changes, reboots>>
      /\ change \in ChangeRequests /\ change.at = "put" /\ savedBound' = NextBindings
      /\ profiles' = IF change.kind = "configure" THEN profiles + 1 ELSE profiles
      /\ change' = [change EXCEPT !.at = "take"]
  BY ShapesApart DEF Puts, VpnInv, VpnShaped
<1>2. /\ change' \in ChangeRequests /\ change'.at = "take" /\ change'.kind = change.kind
      /\ change'.chosen = change.chosen /\ change'.todo = change.todo
  BY <1>1 DEF ChangeRequests
<1>3. /\ profiles' \in Profiles /\ profiles \in Nat /\ profiles <= profiles'
      /\ change.kind = "configure" => profiles' = profiles + 1
  BY <1>1, ShapesApart DEF VpnInv, DocumentAhead, VpnShaped, VpnTypeOK, Profiles
<1>4. /\ \A c \in Natives : bound[c] \in Nat /\ bound[c] <= profiles /\ bound[c] <= profiles'
      /\ preparing # Calm => preparing.profile \in 1 .. MaxProfiles /\ preparing.profile <= profiles'
  BY <1>3 DEF VpnInv, VpnShaped, VpnTypeOK, Profiles, Bindings, Preparations
<1>5. savedBound' \in Bindings /\ \A c \in Natives : savedBound'[c] <= profiles'
  <2>1. CASE change.kind = "configure"
    <3>1. savedBound' = [c \in Natives |->
                            IF c \in change.chosen \cup Bound THEN profiles' ELSE 0]
      BY <1>1, <1>3, <2>1 DEF NextBindings
    <3> QED
      BY <1>3, <3>1, ShapesApart DEF Bindings, Profiles
  <2>2. CASE change.kind = "disconnect"
    <3>1. savedBound' = [c \in Natives |-> IF c \in change.chosen THEN 0 ELSE bound[c]]
      BY <1>1, <2>2 DEF NextBindings
    <3>2. bound \in Bindings
      BY DEF VpnInv, VpnShaped, VpnTypeOK
    <3> QED
      BY <1>3, <1>4, <3>1, <3>2, ShapesApart DEF Bindings, Profiles
  <2>3. CASE change.kind = "reconnect"
    BY <1>1, <1>4, <2>3 DEF NextBindings, VpnInv, VpnShaped, VpnTypeOK
  <2> QED
    BY <1>1, <2>1, <2>2, <2>3 DEF ChangeRequests
<1>6. VpnShaped'
  <2>1. VpnTypeOK'
    BY <1>1, <1>2, <1>3, <1>4, <1>5 DEF VpnInv, VpnShaped, VpnTypeOK, ChangeRequests, Profiles
  <2> QED
    BY <1>1, <1>2, <1>4, <1>5, <2>1 DEF VpnInv, VpnShaped
<1>7. DocumentAhead'
  BY <1>1, <1>2, <1>3 DEF DocumentAhead, NextBindings, Bound
<1>8. OneProfile' /\ TunnelFits'
  BY <1>1 DEF VpnInv, OneProfile, OnlyProfile, TunnelFits
<1>9. DirectIsDoomed'
  BY <1>1, <1>2 DEF VpnInv, DirectIsDoomed
<1> QED
  BY <1>6, <1>7, <1>8, <1>9 DEF VpnInv

\* Memory follows: what was prepared under another binding counts no more, and a
\* client that runs direct and is bound now is among those to be restarted.
LEMMA AdoptKeeps ==
    ASSUME VpnInv, Adopts
    PROVE  VpnInv'
<1> DEFINE todo == CASE change.kind = "configure" -> change.chosen \cup Bound
                     [] change.kind = "disconnect" -> change.chosen
                     [] OTHER -> Bound
<1>1. /\ UNCHANGED <<savedBound, profiles, preparing, waiters, tunnel, process, changes, reboots>>
      /\ change \in ChangeRequests /\ change.at = "take" /\ bound' = savedBound
      /\ prepared' = [c \in Natives |->
            IF change.kind # "disconnect" \/ c \in change.chosen THEN 0 ELSE prepared[c]]
      /\ change' = [change EXCEPT !.at = "restart", !.todo = todo]
  BY ShapesApart DEF Adopts, VpnInv, VpnShaped
<1>2. todo \subseteq Natives
  BY <1>1 DEF ChangeRequests, Bound
<1>3. /\ change' \in ChangeRequests /\ change'.at = "restart" /\ change'.kind = change.kind
      /\ change'.chosen = change.chosen /\ change'.todo = todo
  BY <1>1, <1>2 DEF ChangeRequests
<1>4. /\ change.kind = "configure" => \A c \in Natives :
            bound'[c] = IF c \in change.chosen \/ bound[c] # 0 THEN profiles ELSE 0
      /\ change.kind = "disconnect" => \A c \in Natives :
            bound'[c] = IF c \in change.chosen THEN 0 ELSE bound[c]
      /\ change.kind = "reconnect" => bound' = bound
      /\ change.kind \in {"configure", "disconnect", "reconnect"}
  BY <1>1 DEF VpnInv, DocumentAhead, Bound, ChangeRequests
<1>5. VpnShaped'
  <2>1. prepared' \in Bindings /\ bound' \in Bindings
    BY <1>1, ShapesApart DEF VpnInv, VpnShaped, VpnTypeOK, Bindings, Profiles
  <2>2. VpnTypeOK'
    BY <1>1, <1>2, <1>3, <2>1 DEF VpnInv, VpnShaped, VpnTypeOK
  <2> QED
    BY <1>1, <1>3, <2>2 DEF VpnInv, VpnShaped
<1>6. DocumentAhead'
  BY <1>1, <1>3 DEF DocumentAhead
<1>7. ASSUME NEW c \in Natives, NEW p, p # 0, bound'[c] = p, bound[c] = p => OnlyProfile(p)
      PROVE  OnlyProfile(p)'
  <2>1. CASE change.kind = "configure"
    BY <1>4, <1>7, <2>1 DEF OnlyProfile
  <2>2. CASE change.kind = "disconnect"
    BY <1>4, <1>7, <2>2 DEF OnlyProfile
  <2>3. CASE change.kind = "reconnect"
    BY <1>4, <1>7, <2>3 DEF OnlyProfile
  <2> QED
    BY <1>4, <2>1, <2>2, <2>3
<1>8. OneProfile'
  <2>1. ASSUME NEW c \in Natives, prepared'[c] # 0
        PROVE  prepared'[c] = bound'[c] /\ OnlyProfile(prepared[c])'
    <3>1. change.kind = "disconnect" /\ c \notin change.chosen /\ prepared'[c] = prepared[c]
      BY <1>1, <2>1
    <3>2. prepared[c] = bound[c] /\ OnlyProfile(prepared[c]) /\ bound'[c] = bound[c]
      BY <1>4, <2>1, <3>1 DEF VpnInv, OneProfile
    <3> QED
      BY <1>7, <2>1, <3>1, <3>2
  <2>2. ASSUME NEW w \in waiters, bound'[w[1]] = w[2]
        PROVE  OnlyProfile(w[2])'
    <3>1. w[1] \in Natives /\ w[2] # 0
      BY DEF VpnInv, VpnShaped, VpnTypeOK
    <3> QED
      BY <1>7, <2>2, <3>1 DEF VpnInv, OneProfile
  <2>3. ASSUME preparing # Calm, bound'[preparing.client] = preparing.profile
        PROVE  OnlyProfile(preparing.profile)'
    <3>1. preparing.client \in Natives /\ preparing.profile # 0
      BY <2>3 DEF VpnInv, VpnShaped, Preparations
    <3>2. preparing' = preparing
      BY <1>1
    <3> QED
      BY <1>7, <2>3, <3>1, <3>2 DEF VpnInv, OneProfile, OnlyProfile
  <2> QED
    BY <1>1, <2>1, <2>2, <2>3 DEF OneProfile
<1>9. TunnelFits'
  BY <1>1 DEF VpnInv, TunnelFits
<1>10. DirectIsDoomed'
  <2> SUFFICES ASSUME NEW c \in Natives, bound'[c] # 0, process[c] = "direct"
               PROVE  change.kind = "configure" /\ c \in todo /\ prepared'[c] = 0
    BY <1>1, <1>3 DEF DirectIsDoomed
  <2>1. bound[c] = 0
    BY <1>1 DEF VpnInv, DirectIsDoomed
  <2>2. change.kind = "configure" /\ c \in change.chosen
    BY <1>4, <2>1
  <2> QED
    BY <1>1, <2>2
<1> QED
  BY <1>5, <1>6, <1>8, <1>9, <1>10 DEF VpnInv

\* The clients are restarted one by one, and the change is over.
LEMMA RestartsKeep ==
    ASSUME VpnInv, Changed \/ \E c \in Natives : Restarts(c)
    PROVE  VpnInv'
<1>1. CASE Changed
  <2>1. /\ UNCHANGED <<bound, savedBound, profiles, prepared, preparing, waiters, process,
                       changes, reboots>>
        /\ change.at = "restart" /\ (change.todo = {} \/ change.kind = "reconnect")
        /\ change' = Calm /\ tunnel' \in {0, tunnel}
    BY <1>1 DEF Changed
  <2>2. VpnShaped'
    <3>1. tunnel' \in Profiles
      BY <2>1, ShapesApart DEF VpnInv, VpnShaped, VpnTypeOK, Profiles
    <3> QED
      BY <2>1, <3>1 DEF VpnInv, VpnShaped, VpnTypeOK
  <2>3. DocumentAhead'
    BY <2>1, ShapesApart DEF VpnInv, DocumentAhead
  <2>4. OneProfile' /\ TunnelFits'
    BY <2>1 DEF VpnInv, OneProfile, OnlyProfile, TunnelFits
  <2>5. DirectIsDoomed'
    BY <2>1 DEF VpnInv, DirectIsDoomed
  <2> QED
    BY <2>2, <2>3, <2>4, <2>5 DEF VpnInv
<1>2. ASSUME NEW c \in Natives, Restarts(c)
      PROVE  VpnInv'
  <2>1. /\ UNCHANGED <<bound, savedBound, profiles, prepared, preparing, waiters, tunnel,
                       changes, reboots>>
        /\ change \in ChangeRequests /\ change.at = "restart"
        /\ process' = [process EXCEPT ![c] = "none"]
        /\ change' = [change EXCEPT !.todo = @ \ {c}]
    BY <1>2, ShapesApart DEF Restarts, VpnInv, VpnShaped
  <2>2. /\ change' \in ChangeRequests /\ change'.at = "restart" /\ change'.kind = change.kind
        /\ change'.todo = change.todo \ {c}
    BY <2>1 DEF ChangeRequests
  <2>3. VpnShaped'
    BY <2>1, <2>2 DEF VpnInv, VpnShaped, VpnTypeOK, ChangeRequests
  <2>4. DocumentAhead'
    BY <2>1, <2>2 DEF VpnInv, DocumentAhead
  <2>5. OneProfile' /\ TunnelFits'
    BY <2>1 DEF VpnInv, OneProfile, OnlyProfile, TunnelFits
  <2>6. DirectIsDoomed'
    BY <2>1, <2>2 DEF VpnInv, DirectIsDoomed, VpnShaped, VpnTypeOK
  <2> QED
    BY <2>3, <2>4, <2>5, <2>6 DEF VpnInv
<1> QED
  BY <1>1, <1>2

\* A restart of the server.
LEMMA RebootKeeps ==
    ASSUME VpnInv, Reboots
    PROVE  VpnInv'
<1>1. /\ UNCHANGED <<savedBound, profiles, changes>> /\ bound' = savedBound
      /\ prepared' = [c \in Natives |-> 0] /\ preparing' = Calm /\ waiters' = {}
      /\ change' = Calm /\ process' = [c \in Natives |-> "none"]
      /\ tunnel' \in {0, tunnel} /\ reboots' \in 0 .. MaxReboots
  BY ShapesApart DEF Reboots, VpnInv, VpnShaped, VpnTypeOK
<1>2. VpnShaped'
  BY <1>1, ShapesApart DEF VpnInv, VpnShaped, VpnTypeOK, Bindings, Profiles
<1>3. DocumentAhead'
  BY <1>1, ShapesApart DEF DocumentAhead
<1>4. OneProfile' /\ TunnelFits' /\ DirectIsDoomed'
  BY <1>1 DEF OneProfile, TunnelFits, DirectIsDoomed
<1> QED
  BY <1>2, <1>3, <1>4 DEF VpnInv

LEMMA VpnInitInv == VpnInit => VpnInv
<1> SUFFICES ASSUME VpnInit PROVE VpnInv
  OBVIOUS
<1>1. savedBound \in Bindings /\ profiles \in Profiles /\ \A c \in Natives : savedBound[c] <= profiles
  <2>1. CASE savedBound = [c \in Natives |-> 0] /\ profiles = 0
    BY <2>1, ShapesApart DEF Bindings, Profiles
  <2>2. CASE /\ profiles = Cardinality(Natives) /\ MaxProfiles > profiles
             /\ savedBound \in {b \in Bindings : {b[c] : c \in Natives} = 1 .. profiles}
    <3>1. profiles \in Nat
      BY <2>2, VpnBounds, FS_CardinalityType
    <3>2. \A c \in Natives : savedBound[c] \in 1 .. profiles
      BY <2>2
    <3> QED
      BY <2>2, <3>1, <3>2, ShapesApart DEF Profiles
  <2> QED
    BY <2>1, <2>2 DEF VpnInit
<1>2. VpnShaped
  BY <1>1, ShapesApart DEF VpnInit, VpnShaped, VpnTypeOK, Bindings, Profiles
<1>3. DocumentAhead /\ OneProfile /\ TunnelFits /\ DirectIsDoomed
  BY ShapesApart DEF VpnInit, DocumentAhead, OneProfile, TunnelFits, DirectIsDoomed
<1> QED
  BY <1>2, <1>3 DEF VpnInv

LEMMA VpnStepInv == VpnInv /\ [VpnNext]_vpnVars => VpnInv'
<1>1. VpnInv /\ UNCHANGED vpnVars => VpnInv'
  BY DEF vpnVars, VpnInv, VpnShaped, VpnTypeOK, DocumentAhead, Bound, OneProfile,
      OnlyProfile, TunnelFits, DirectIsDoomed
<1> QED
  BY <1>1, LaunchKeeps, ExitKeeps, TunnelKeeps, PreparesKeeps, FailureKeeps, QueueKeeps,
     PutKeeps, AdoptKeeps, RestartsKeep, RebootKeeps DEF VpnNext

\* Every binding, profile, preparation and process of the native clients has its
\* type, whatever the requests ask.
THEOREM VpnTypes == VpnSpec => []VpnTypeOK
<1>1. VpnInv => VpnTypeOK
  BY DEF VpnInv, VpnShaped
<1> QED
  BY <1>1, VpnInitInv, VpnStepInv, PTL DEF VpnSpec

\* A client bound to a profile moves no data outside its tunnel, however launches,
\* preparations, changes of the binding and restarts of the server interleave, for
\* any number of clients, profiles and changes.
THEOREM BoundClientsAreIsolated == VpnSpec => []Isolated
<1>1. VpnInv => Isolated
  <2> SUFFICES ASSUME VpnInv, NEW c \in Natives, bound[c] # 0
               PROVE  /\ process[c] = "direct" =>
                            (change.at = "restart" /\ c \in change.todo /\ ~Allowed(c))
                      /\ Allowed(c) => tunnel = bound[c]
    BY DEF Isolated
  <2>1. Allowed(c) => prepared[c] = bound[c] /\ prepared[c] # 0 /\ tunnel # 0
    BY DEF Allowed
  <2>2. process[c] = "direct" =>
           change.at = "restart" /\ c \in change.todo /\ prepared[c] = 0
    BY DEF VpnInv, DirectIsDoomed
  <2>3. prepared[c] # 0 => tunnel \in {0, prepared[c]}
    BY DEF VpnInv, TunnelFits
  <2> QED
    BY <2>1, <2>2, <2>3
<1> QED
  BY <1>1, VpnInitInv, VpnStepInv, PTL DEF VpnSpec

------------------------------------------------------------------------------
(* The usenet client: numbers, ranks and what a recovery leaves *)

\* A set of naturals has a least member.
Lower == {ss \in Nat \X Nat : ss[1] < ss[2]}
LEMMA LeastOf ==
    ASSUME NEW ns \in SUBSET Nat, ns # {}
    PROVE  \E least \in ns : \A n \in ns : least <= n
  <1>1. IsWellFoundedOn(Lower, Nat)
    <2>1. Lower = OpToRel(<, Nat)
      BY Zenon DEF OpToRel, Lower
    <2> QED BY <2>1, NatLessThanWellFounded, Zenon
  <1>2. \E x \in ns : \A y \in ns : ~ (<<y, x>> \in Lower)
    BY <1>1, WFMin, Zenon
  <1>3. PICK x \in ns : \A y \in ns : ~ (<<y, x>> \in Lower)
    BY <1>2
  <1>4. \A y \in ns : x <= y
    <2> SUFFICES ASSUME NEW y \in ns PROVE x <= y
      OBVIOUS
    <2>1. x \in Nat /\ y \in Nat /\ <<y, x>> \notin Lower
      BY <1>3
    <2>2. ~(y < x)
      BY <2>1 DEF Lower
    <2> QED BY <2>1, <2>2
  <1> QED BY <1>4

\* How many of the first n downloads have a job.
Listed(jobs, n) == {m \in 1 .. n : jobs[m] # Nothing}
Rank(jobs, n) == Cardinality(Listed(jobs, n))

LEMMA RankFacts ==
    ASSUME NEW jobs, NEW n \in Nat
    PROVE  /\ IsFiniteSet(Listed(jobs, n)) /\ Rank(jobs, n) \in Nat
           /\ Rank(jobs, 0) = 0
           /\ Rank(jobs, n + 1) = IF jobs[n + 1] = Nothing THEN Rank(jobs, n) ELSE Rank(jobs, n) + 1
  <1>1. \A k \in Nat : IsFiniteSet(Listed(jobs, k)) /\ Rank(jobs, k) \in Nat
    <2> SUFFICES ASSUME NEW k \in Nat PROVE IsFiniteSet(Listed(jobs, k)) /\ Rank(jobs, k) \in Nat
      OBVIOUS
    <2>1. IsFiniteSet(1 .. k)
      BY FS_Interval
    <2>2. Listed(jobs, k) \subseteq 1 .. k
      BY DEF Listed
    <2>3. IsFiniteSet(Listed(jobs, k))
      BY <2>1, <2>2, FS_Subset
    <2> QED BY <2>3, FS_CardinalityType DEF Rank
  <1>2. Rank(jobs, 0) = 0
    <2>1. Listed(jobs, 0) = {}
      BY DEF Listed
    <2> QED BY <2>1, FS_EmptySet DEF Rank
  <1>3. CASE jobs[n + 1] = Nothing
    <2>1. Listed(jobs, n + 1) = Listed(jobs, n)
      BY <1>3 DEF Listed
    <2> QED BY <1>1, <1>2, <1>3, <2>1 DEF Rank
  <1>4. CASE jobs[n + 1] # Nothing
    <2>1. Listed(jobs, n + 1) = Listed(jobs, n) \cup {n + 1} /\ n + 1 \notin Listed(jobs, n)
      BY <1>4 DEF Listed
    <2>2. Rank(jobs, n + 1) = Rank(jobs, n) + 1
      BY <1>1, <2>1, FS_AddElement DEF Rank
    <2> QED BY <1>1, <1>2, <1>4, <2>2
  <1> QED BY <1>3, <1>4

\* Fewer jobs have lower ranks, and so have earlier ones.
LEMMA RankGrows ==
    ASSUME NEW jobs, NEW more, NEW m \in Nat, NEW n \in Nat,
           \A k \in 1 .. m : jobs[k] # Nothing => k <= n /\ more[k] # Nothing
    PROVE  Rank(jobs, m) <= Rank(more, n)
  <1>1. Listed(jobs, m) \subseteq Listed(more, n)
    BY DEF Listed
  <1>2. IsFiniteSet(Listed(more, n))
    BY RankFacts
  <1> QED BY <1>1, <1>2, FS_Subset DEF Rank

\* A job after another one has the higher rank.
LEMMA RankRises ==
    ASSUME NEW jobs, NEW m \in Nat, NEW n \in Nat, m < n, jobs[n] # Nothing
    PROVE  Rank(jobs, m) < Rank(jobs, n)
  <1>1. n - 1 \in Nat /\ (n - 1) + 1 = n /\ m <= n - 1
    OBVIOUS
  <1>2. Rank(jobs, m) <= Rank(jobs, n - 1)
    BY <1>1, RankGrows
  <1>3. Rank(jobs, n) = Rank(jobs, n - 1) + 1
    BY <1>1, RankFacts
  <1> QED BY <1>1, <1>2, <1>3, RankFacts

LEMMA RecordFacts ==
    /\ \A j \in NzbJobs : j # Nothing
    /\ \A j \in EngineJobs : j # Nothing
    /\ \A j \in Fetches : j # Nothing
    /\ \A j \in Rounds : j # Nothing
    /\ \A j \in NzbRequests : j # Nothing
  BY NothingIsNone

NzbFiles == Seq(1 .. Segments)
LEMMA CutFacts ==
    ASSUME NEW file \in NzbFiles, NEW at
    PROVE  /\ at.written \in Nat /\ at.written <= Len(file) =>
                /\ CutBack(file, at) \in NzbFiles /\ Len(CutBack(file, at)) = at.written
                /\ \A i \in 1 .. at.written : CutBack(file, at)[i] = file[i]
  <1> SUFFICES ASSUME at.written \in Nat, at.written <= Len(file)
               PROVE  /\ CutBack(file, at) \in NzbFiles /\ Len(CutBack(file, at)) = at.written
                      /\ \A i \in 1 .. at.written : CutBack(file, at)[i] = file[i]
    OBVIOUS
  <1> DEFINE w == at.written
  <1>1. w \in Nat /\ \A i \in 1 .. w : file[i] \in 1 .. Segments
    <2> SUFFICES ASSUME NEW i \in 1 .. w PROVE file[i] \in 1 .. Segments
      OBVIOUS
    <2>1. i \in 1 .. Len(file) /\ file \in Seq(1 .. Segments)
      BY LenProperties DEF NzbFiles
    <2> HIDE DEF w
    <2> QED BY <2>1, ElementOfSeq
  <1> HIDE DEF w
  <1>2. /\ SubSeq(file, 1, w) \in NzbFiles /\ Len(SubSeq(file, 1, w)) = w
        /\ \A i \in 1 .. w : SubSeq(file, 1, w)[i] = file[i]
    BY <1>1, SubSeqProperties DEF NzbFiles
  <1> QED BY <1>2 DEF CutBack, w

BackJob(n) == Job(n, nzbDoc.jobs[n].at, IF nzbDoc.jobs[n].paused THEN "paused" ELSE "queued")

\* After n downloads of a recovery: nothing but engine ids has changed in the
\* jobs, and every engine job is that of a download before.
BackSoFar(s, n) ==
    /\ s = [jobs |-> s.jobs, nntp |-> s.nntp, handed |-> s.handed, files |-> s.files]
    /\ s.jobs \in [Nzbs -> NzbJobs \cup {Nothing}]
    /\ s.nntp \in [EngineIds -> EngineJobs \cup {Nothing}]
    /\ s.handed \in 0 .. n /\ s.files \in [Nzbs -> NzbFiles]
    /\ \A e \in EngineIds : s.nntp[e] # Nothing =>
          e <= s.handed /\ \E m \in 1 .. n : nzbDoc.jobs[m] # Nothing /\ s.nntp[e] = BackJob(m)
    /\ \A m \in Nzbs :
          /\ m > n => s.jobs[m] = nzbDoc.jobs[m]
          /\ m > n \/ nzbDoc.jobs[m] = Nothing => s.files[m] = files[m]
          /\ nzbDoc.jobs[m] = Nothing <=> s.jobs[m] = Nothing
          /\ nzbDoc.jobs[m] # Nothing => \E e \in EngineIds : s.jobs[m] = Remapped(nzbDoc.jobs[m], e)

\* If nothing is left out each job has its rank for an id, and its file is cut.
WholeSoFar(s, n) ==
    /\ s.handed = Rank(nzbDoc.jobs, n)
    /\ \A m \in 1 .. n : nzbDoc.jobs[m] # Nothing =>
          /\ s.jobs[m].eid = Rank(nzbDoc.jobs, m)
          /\ s.nntp[Rank(nzbDoc.jobs, m)] = BackJob(m)
          /\ s.files[m] = CutBack(files[m], nzbDoc.jobs[m].at)
    /\ \A e \in EngineIds : s.nntp[e] # Nothing =>
          \E m \in 1 .. n : nzbDoc.jobs[m] # Nothing /\ e = Rank(nzbDoc.jobs, m)

NoneLeftOut(gone) == \A n \in Nzbs : nzbDoc.jobs[n] # Nothing =>
    /\ n \notin gone \cup Unfit /\ nzbDoc.jobs[n].eid >= Rank(nzbDoc.jobs, n)

LEMMA RemapFacts ==
    ASSUME NEW job \in NzbJobs, NEW e
    PROVE  /\ Remapped(job, e) = [item |-> job.item, eid |-> e, at |-> job.at, paused |-> job.paused]
           /\ e \in EngineIds => Remapped(job, e) \in NzbJobs
  BY DEF Remapped, NzbJobs

LEMMA PutsBackOne ==
    ASSUME UsenetTypeOK, NEW n \in Nzbs, NEW gone \in SUBSET Nzbs, NEW s, BackSoFar(s, n - 1)
    PROVE  /\ BackSoFar(PutBackOne(s, n, gone), n)
           /\ NoneLeftOut(gone) /\ WholeSoFar(s, n - 1) => WholeSoFar(PutBackOne(s, n, gone), n)
  <1> DEFINE job == nzbDoc.jobs[n]
             e   == s.handed + 1
             t   == PutBackOne(s, n, gone)
  <1>1. /\ n \in Nat /\ n - 1 \in Nat /\ (n - 1) + 1 = n /\ n <= MaxNzbs
        /\ MaxNzbs \in Nat /\ MaxEngineIds \in Nat /\ MaxNzbs <= MaxEngineIds
    BY UsenetBounds DEF Nzbs
  <1>2. /\ s = [jobs |-> s.jobs, nntp |-> s.nntp, handed |-> s.handed, files |-> s.files]
        /\ s.jobs \in [Nzbs -> NzbJobs \cup {Nothing}]
        /\ s.nntp \in [EngineIds -> EngineJobs \cup {Nothing}]
        /\ s.handed \in 0 .. n - 1 /\ s.files \in [Nzbs -> NzbFiles]
    BY DEF BackSoFar
  <1>3. /\ \A f \in EngineIds : s.nntp[f] # Nothing =>
              f <= s.handed /\ \E m \in 1 .. n - 1 : nzbDoc.jobs[m] # Nothing /\ s.nntp[f] = BackJob(m)
        /\ \A m \in Nzbs :
              /\ m > n - 1 => s.jobs[m] = nzbDoc.jobs[m]
              /\ m > n - 1 \/ nzbDoc.jobs[m] = Nothing => s.files[m] = files[m]
              /\ nzbDoc.jobs[m] = Nothing <=> s.jobs[m] = Nothing
              /\ nzbDoc.jobs[m] # Nothing =>
                    \E f \in EngineIds : s.jobs[m] = Remapped(nzbDoc.jobs[m], f)
    BY DEF BackSoFar
  <1>4. s.jobs[n] = job /\ s.files[n] = files[n] /\ job \in NzbJobs \cup {Nothing} /\ files[n] \in NzbFiles
    BY <1>1, <1>3 DEF UsenetTypeOK, NzbFiles
  <1>5. e \in EngineIds /\ e \in 1 .. n
    BY <1>1, <1>2 DEF EngineIds
  <1>6. CASE job = Nothing \/ n \in gone \/ s.nntp[job.eid] # Nothing
    <2>1. t = s
      BY <1>4, <1>6 DEF PutBackOne
    <2>2. BackSoFar(s, n)
      <3>1. s.handed \in 0 .. n
        BY <1>1, <1>2
      <3>2. \A m \in 1 .. n - 1 : m \in 1 .. n
        BY <1>1
      <3>3. \A m \in Nzbs : m > n => m > n - 1
        BY <1>1 DEF Nzbs
      <3> QED BY <1>2, <1>3, <3>1, <3>2, <3>3 DEF BackSoFar
    <2>3. ASSUME NoneLeftOut(gone), WholeSoFar(s, n - 1) PROVE WholeSoFar(s, n)
      <3>1. job = Nothing
        <4> SUFFICES ASSUME job # Nothing PROVE FALSE
          OBVIOUS
        <4>1. job.eid >= Rank(nzbDoc.jobs, n) /\ n \notin gone
          BY <2>3 DEF NoneLeftOut
        <4>2. Rank(nzbDoc.jobs, n) = s.handed + 1
          BY <1>1, <2>3, RankFacts DEF WholeSoFar
        <4>3. job.eid \in EngineIds /\ s.nntp[job.eid] # Nothing
          BY <1>4, <1>6, <4>1 DEF NzbJobs
        <4>4. job.eid <= s.handed
          BY <1>3, <4>3
        <4> QED BY <1>1, <1>2, <4>1, <4>2, <4>3, <4>4 DEF EngineIds
      <3>2. Rank(nzbDoc.jobs, n) = Rank(nzbDoc.jobs, n - 1)
        BY <1>1, <3>1, RankFacts
      <3>3. \A m \in 1 .. n : m = n \/ m \in 1 .. n - 1
        BY <1>1
      <3>4. \A m \in 1 .. n - 1 : m \in 1 .. n
        BY <1>1
      <3> QED BY <2>3, <3>1, <3>2, <3>3, <3>4 DEF WholeSoFar
    <2> QED BY <2>1, <2>2, <2>3
  <1>7. CASE ~(job = Nothing \/ n \in gone \/ s.nntp[job.eid] # Nothing) /\ n \in Unfit
    <2>1. t = [s EXCEPT !.handed = e]
      BY <1>4, <1>7 DEF PutBackOne
    <2>2. /\ t = [jobs |-> s.jobs, nntp |-> s.nntp, handed |-> e, files |-> s.files]
      BY <1>2, <2>1
    <2>3. BackSoFar(t, n)
      <3>1. t.handed = e /\ t.jobs = s.jobs /\ t.nntp = s.nntp /\ t.files = s.files
        BY <2>2
      <3>2. \A f \in EngineIds : f <= s.handed => f <= e
        BY <1>1, <1>2 DEF EngineIds
      <3>3. \A m \in 1 .. n - 1 : m \in 1 .. n
        BY <1>1
      <3>4. \A m \in Nzbs : m > n => m > n - 1
        BY <1>1 DEF Nzbs
      <3>5. e \in 0 .. n
        BY <1>5
      <3> HIDE DEF t, e, job
      <3> QED BY <1>2, <1>3, <2>2, <3>1, <3>2, <3>3, <3>4, <3>5 DEF BackSoFar
    <2> QED BY <1>7, <2>3 DEF NoneLeftOut
  <1>8. CASE ~(job = Nothing \/ n \in gone \/ s.nntp[job.eid] # Nothing) /\ n \notin Unfit
    <2> DEFINE back == BackJob(n)
               file == CutBack(files[n], job.at)
    <2>1. t = [jobs |-> [s.jobs EXCEPT ![n] = Remapped(job, e)], nntp |-> [s.nntp EXCEPT ![e] = back],
               handed |-> e, files |-> [s.files EXCEPT ![n] = file]]
      BY <1>4, <1>8 DEF PutBackOne, BackJob
    <2>2. /\ t.jobs = [s.jobs EXCEPT ![n] = Remapped(job, e)] /\ t.nntp = [s.nntp EXCEPT ![e] = back]
          /\ t.handed = e /\ t.files = [s.files EXCEPT ![n] = file]
          /\ t = [jobs |-> t.jobs, nntp |-> t.nntp, handed |-> t.handed, files |-> t.files]
      BY <2>1
    <2>3. job \in NzbJobs /\ job # Nothing /\ job.at \in Checkpoints
      BY <1>4, <1>8 DEF NzbJobs
    <2>4. Remapped(job, e) \in NzbJobs /\ back \in EngineJobs
      <3>1. back \in EngineJobs
        BY <2>3 DEF BackJob, Job, EngineJobs, NzbJobs
      <3> QED BY <1>5, <2>3, <3>1, RemapFacts
    <2>5. file \in NzbFiles
      <3>1. Fits(n, job)
        BY <1>8, <2>3 DEF Unfit
      <3>2. job.at.written \in Nat /\ job.at.written <= Len(files[n])
        BY <2>3, <3>1, UsenetBounds DEF Fits, Checkpoints
      <3> QED BY <1>4, <3>2, CutFacts
    <2> HIDE DEF t, back, file
    <2>6. /\ t.jobs[n] = Remapped(job, e) /\ t.nntp[e] = back /\ t.files[n] = file
          /\ \A m \in Nzbs : m # n => t.jobs[m] = s.jobs[m] /\ t.files[m] = s.files[m]
          /\ \A f \in EngineIds : f # e => t.nntp[f] = s.nntp[f]
      BY <1>2, <1>5, <2>2
    <2>7. BackSoFar(t, n)
      <3>1. /\ t.jobs \in [Nzbs -> NzbJobs \cup {Nothing}]
            /\ t.nntp \in [EngineIds -> EngineJobs \cup {Nothing}]
            /\ t.handed \in 0 .. n /\ t.files \in [Nzbs -> NzbFiles]
        BY <1>2, <1>5, <2>2, <2>4, <2>5
      <3>2. ASSUME NEW f \in EngineIds, t.nntp[f] # Nothing
            PROVE  /\ f <= t.handed
                   /\ \E m \in 1 .. n : nzbDoc.jobs[m] # Nothing /\ t.nntp[f] = BackJob(m)
        <4>1. CASE f = e
          BY <1>1, <1>5, <2>2, <2>3, <2>6, <4>1 DEF back
        <4>2. CASE f # e
          <5>1. f <= s.handed /\ \E m \in 1 .. n - 1 : nzbDoc.jobs[m] # Nothing /\ t.nntp[f] = BackJob(m)
            BY <1>3, <2>6, <3>2, <4>2
          <5>2. f <= e
            BY <1>1, <1>2, <5>1 DEF EngineIds
          <5>3. \A m \in 1 .. n - 1 : m \in 1 .. n
            BY <1>1
          <5> QED BY <2>2, <5>1, <5>2, <5>3
        <4> QED BY <4>1, <4>2
      <3>3. ASSUME NEW m \in Nzbs
            PROVE  /\ m > n => t.jobs[m] = nzbDoc.jobs[m]
                   /\ m > n \/ nzbDoc.jobs[m] = Nothing => t.files[m] = files[m]
                   /\ nzbDoc.jobs[m] = Nothing <=> t.jobs[m] = Nothing
                   /\ nzbDoc.jobs[m] # Nothing =>
                         \E f \in EngineIds : t.jobs[m] = Remapped(nzbDoc.jobs[m], f)
        <4>1. CASE m = n
          <5>1. t.jobs[n] # Nothing /\ ~(m > n)
            BY <1>1, <2>4, <2>6, <4>1, RecordFacts
          <5> QED BY <1>5, <2>3, <2>6, <4>1, <5>1
        <4>2. CASE m # n
          <5>1. m > n => m > n - 1
            BY <1>1 DEF Nzbs
          <5> QED BY <1>3, <2>6, <4>2, <5>1
        <4> QED BY <4>1, <4>2
      <3> QED BY <2>2, <3>1, <3>2, <3>3 DEF BackSoFar
    <2>8. ASSUME NoneLeftOut(gone), WholeSoFar(s, n - 1) PROVE WholeSoFar(t, n)
      <3>1. e = Rank(nzbDoc.jobs, n) /\ s.handed = Rank(nzbDoc.jobs, n - 1)
        BY <1>1, <2>3, <2>8, RankFacts DEF WholeSoFar
      <3>2. \A m \in 1 .. n : m = n \/ m \in 1 .. n - 1
        BY <1>1
      <3>3. ASSUME NEW m \in 1 .. n, nzbDoc.jobs[m] # Nothing
            PROVE  /\ t.jobs[m].eid = Rank(nzbDoc.jobs, m)
                   /\ t.nntp[Rank(nzbDoc.jobs, m)] = BackJob(m)
                   /\ t.files[m] = CutBack(files[m], nzbDoc.jobs[m].at)
        <4>1. CASE m = n
          <5>1. t.jobs[n].eid = e
            BY <2>3, <2>6, RemapFacts
          <5> QED BY <2>6, <3>1, <4>1, <5>1 DEF back, file
        <4>2. CASE m # n
          <5>1. m \in 1 .. n - 1 /\ m \in Nzbs /\ m < n
            BY <1>1, <4>2 DEF Nzbs
          <5>2. /\ s.jobs[m].eid = Rank(nzbDoc.jobs, m)
                /\ s.nntp[Rank(nzbDoc.jobs, m)] = BackJob(m)
                /\ s.files[m] = CutBack(files[m], nzbDoc.jobs[m].at)
            BY <2>8, <3>3, <5>1 DEF WholeSoFar
          <5>3. s.jobs[m] \in NzbJobs
            BY <1>2, <1>3, <3>3, <5>1
          <5>4. Rank(nzbDoc.jobs, m) \in EngineIds
            BY <5>2, <5>3 DEF NzbJobs
          <5>5. Rank(nzbDoc.jobs, m) # e
            BY <1>1, <2>3, <3>1, <5>1, <5>4, RankRises DEF EngineIds
          <5> QED BY <2>6, <4>2, <5>1, <5>2, <5>4, <5>5
        <4> QED BY <4>1, <4>2
      <3>4. ASSUME NEW f \in EngineIds, t.nntp[f] # Nothing
            PROVE  \E m \in 1 .. n : nzbDoc.jobs[m] # Nothing /\ f = Rank(nzbDoc.jobs, m)
        <4>1. CASE f = e
          BY <1>1, <2>3, <3>1, <4>1
        <4>2. CASE f # e
          <5>1. \E m \in 1 .. n - 1 : nzbDoc.jobs[m] # Nothing /\ f = Rank(nzbDoc.jobs, m)
            BY <2>6, <2>8, <3>4, <4>2 DEF WholeSoFar
          <5>2. \A m \in 1 .. n - 1 : m \in 1 .. n
            BY <1>1
          <5> QED BY <5>1, <5>2
        <4> QED BY <4>1, <4>2
      <3> QED BY <2>2, <3>1, <3>3, <3>4 DEF WholeSoFar
    <2> QED BY <2>7, <2>8 DEF t
  <1> QED BY <1>6, <1>7, <1>8

\* The recovery after its first n downloads, as a function: what PutBack defines.
BackStart == [jobs |-> nzbDoc.jobs, nntp |-> [e \in EngineIds |-> Nothing],
              handed |-> 0, files |-> files]
Backs(f, gone, n) ==
    f = [k \in 0 .. n |-> IF k = 0 THEN BackStart ELSE PutBackOne(f[k - 1], k, gone)]

\* There is such a function: no number is the least that has none.
LEMMA BacksExist ==
    ASSUME NEW gone, NEW n \in Nat
    PROVE  \E f : Backs(f, gone, n)
  <1> DEFINE start == BackStart
             next(s, k) == PutBackOne(s, k, gone)
             lacking == {m \in Nat : ~\E f : Backs(f, gone, m)}
  <1>1. \A f, m : Backs(f, gone, m) <=> f = [k \in 0 .. m |-> IF k = 0 THEN start ELSE next(f[k - 1], k)]
    BY DEF Backs
  <1> HIDE DEF start, next
  <1>2. lacking = {}
    <2> SUFFICES ASSUME lacking # {} PROVE FALSE
      OBVIOUS
    <2>1. PICK least \in lacking : \A m \in lacking : least <= m
      BY LeastOf
    <2>2. least \in Nat /\ ~\E f : Backs(f, gone, least)
      BY <2>1
    <2>3. CASE least = 0
      <3> DEFINE f == [k \in 0 .. 0 |-> start]
      <3>1. f = [k \in 0 .. 0 |-> IF k = 0 THEN start ELSE next(f[k - 1], k)]
        <4> HIDE DEF f
        <4>1. \A k \in 0 .. 0 : k = 0
          OBVIOUS
        <4> QED BY <4>1 DEF f
      <3> QED BY <1>1, <2>2, <2>3, <3>1
    <2>4. CASE least # 0
      <3>1. least - 1 \in Nat /\ least - 1 \notin lacking
        BY <2>1, <2>2, <2>4
      <3>2. PICK g : Backs(g, gone, least - 1)
        BY <3>1
      <3>3. g = [k \in 0 .. least - 1 |-> IF k = 0 THEN start ELSE next(g[k - 1], k)]
        BY <1>1, <3>2
      <3> DEFINE f == [k \in 0 .. least |-> IF k = 0 THEN start ELSE next(g[k - 1], k)]
      <3>4. \A k \in 0 .. least - 1 : g[k] = f[k]
        BY <2>2, <3>3
      <3>5. \A k \in 0 .. least : k # 0 => k - 1 \in 0 .. least - 1
        BY <2>2
      <3>6. f = [k \in 0 .. least |-> IF k = 0 THEN start ELSE next(f[k - 1], k)]
        <4> HIDE DEF f
        <4> QED BY <3>4, <3>5 DEF f
      <3> HIDE DEF f
      <3> QED BY <1>1, <2>2, <3>6
    <2> QED BY <2>3, <2>4
  <1> QED BY <1>2

LEMMA PutBackFacts ==
    ASSUME UsenetTypeOK, NEW gone \in SUBSET Nzbs
    PROVE  /\ BackSoFar(PutBack(gone), MaxNzbs)
           /\ NoneLeftOut(gone) => WholeSoFar(PutBack(gone), MaxNzbs)
  <1> DEFINE back == CHOOSE f : Backs(f, gone, MaxNzbs)
             Right(s, n) == /\ BackSoFar(s, n)
                            /\ NoneLeftOut(gone) => WholeSoFar(s, n)
  <1>0. MaxNzbs \in Nat /\ MaxEngineIds \in Nat
    BY UsenetBounds
  <1>1. PutBack(gone) = back[MaxNzbs]
    BY DEF PutBack, Backs, BackStart
  <1>2. Backs(back, gone, MaxNzbs)
    BY <1>0, BacksExist
  <1> HIDE DEF back
  <1>3. /\ back[0] = BackStart
        /\ \A k \in 1 .. MaxNzbs : back[k] = PutBackOne(back[k - 1], k, gone)
    BY <1>0, <1>2 DEF Backs
  <1>4. Right(BackStart, 0)
    <2> DEFINE none == [e \in EngineIds |-> Nothing]
    <2>1. /\ BackStart.jobs = nzbDoc.jobs /\ BackStart.nntp = none
          /\ BackStart.handed = 0 /\ BackStart.files = files
          /\ BackStart = [jobs |-> BackStart.jobs, nntp |-> BackStart.nntp,
                           handed |-> BackStart.handed, files |-> BackStart.files]
      BY DEF BackStart
    <2>2. /\ nzbDoc.jobs \in [Nzbs -> NzbJobs \cup {Nothing}]
          /\ none \in [EngineIds -> EngineJobs \cup {Nothing}]
          /\ files \in [Nzbs -> NzbFiles] /\ \A e \in EngineIds : none[e] = Nothing
      BY DEF UsenetTypeOK, NzbFiles
    <2>3. \A m \in Nzbs : nzbDoc.jobs[m] # Nothing =>
              \E e \in EngineIds : nzbDoc.jobs[m] = Remapped(nzbDoc.jobs[m], e)
      <3> SUFFICES ASSUME NEW m \in Nzbs, nzbDoc.jobs[m] # Nothing
                   PROVE  /\ nzbDoc.jobs[m].eid \in EngineIds
                          /\ nzbDoc.jobs[m] = Remapped(nzbDoc.jobs[m], nzbDoc.jobs[m].eid)
        OBVIOUS
      <3>1. nzbDoc.jobs[m] \in NzbJobs
        BY <2>2
      <3> QED BY <3>1, RemapFacts DEF NzbJobs
    <2>4. Rank(nzbDoc.jobs, 0) = 0
      BY RankFacts
    <2> HIDE DEF none
    <2>5. BackSoFar(BackStart, 0)
      BY ONLY <2>1, <2>2, <2>3, <1>0 DEF BackSoFar, Nzbs
    <2>6. WholeSoFar(BackStart, 0)
      BY ONLY <2>1, <2>2, <2>4 DEF WholeSoFar
    <2> QED BY <2>5, <2>6
  <1> DEFINE amiss == {k \in 0 .. MaxNzbs : ~Right(back[k], k)}
  <1>5. amiss = {}
    <2> SUFFICES ASSUME amiss # {} PROVE FALSE
      OBVIOUS
    <2>1. amiss \in SUBSET Nat
      BY <1>0
    <2>2. PICK least \in amiss : \A m \in amiss : least <= m
      BY <2>1, LeastOf
    <2> HIDE DEF Right
    <2>3. least # 0
      BY <1>3, <1>4, <2>2
    <2>4. least \in 1 .. MaxNzbs /\ least - 1 \in 0 .. MaxNzbs /\ least - 1 \notin amiss
      BY <1>0, <2>2, <2>3
    <2>5. Right(back[least - 1], least - 1) /\ least \in Nzbs
      BY <2>4 DEF Nzbs
    <2>6. Right(PutBackOne(back[least - 1], least, gone), least)
      BY <2>5, PutsBackOne DEF Right
    <2> QED BY <1>3, <2>2, <2>4, <2>6
  <1>6. Right(back[MaxNzbs], MaxNzbs)
    <2> HIDE DEF Right
    <2> QED BY <1>0, <1>5
  <1> QED BY <1>1, <1>6

------------------------------------------------------------------------------
(* The usenet client: what its state looks like *)

JobOps == {"pause", "resume", "move", "remove", "delete", "retry"}
AskingJob == control # Nothing /\ control.op \in JobOps
\* The engine holds the document's jobs, but for a recovery that is due.
InStep == served /\ (control # Nothing => control.at # "recover")
Orderly(at) == at.written <= at.passed

DocShape ==
    /\ nzbDoc \in [jobs : [Nzbs -> NzbJobs \cup {Nothing}], seq : 0 .. MaxNzbs]
    /\ files \in [Nzbs -> NzbFiles]
    /\ \A n \in Nzbs : n > nzbDoc.seq => nzbDoc.jobs[n] = Nothing /\ files[n] = <<>>
    /\ \A n \in Nzbs : nzbDoc.jobs[n] # Nothing => Orderly(nzbDoc.jobs[n].at)
EngineShape ==
    /\ nntp \in [EngineIds -> EngineJobs \cup {Nothing}] /\ handed \in 0 .. MaxEngineIds
    /\ \A e \in EngineIds : nntp[e] # Nothing =>
          e <= handed /\ nntp[e].dl <= nzbDoc.seq /\ Orderly(nntp[e].at)
    /\ InStep \/ \A e \in EngineIds : nntp[e] = Nothing
WorkerShape ==
    /\ fetching \in Fetches \cup {Nothing} /\ worker \in Rounds \cup {Nothing}
    /\ fetching # Nothing =>
          worker # Nothing /\ fetching.step \in worker.todo /\ nntp[fetching.step[2]] # Nothing
    /\ worker # Nothing => worker.todo \subseteq worker.seen
ControlShape ==
    /\ control \in NzbRequests \cup {Nothing} /\ served \in BOOLEAN
    /\ served \/ (control = Nothing /\ worker = Nothing)
    /\ AskingJob => /\ nzbDoc.jobs[control.number] # Nothing
                 /\ nzbDoc.jobs[control.number].item = control.job.item
                 /\ Orderly(control.job.at)
Counted ==
    /\ working \in BOOLEAN /\ skipped \in BOOLEAN
    /\ halts \in 0 .. MaxHalts /\ controls \in 0 .. MaxControls
UsenetShape == DocShape /\ EngineShape /\ WorkerShape /\ ControlShape /\ Counted

\* The records, and what an update of one field makes of them.
LEMMA EngineJobFacts ==
    ASSUME NEW job \in EngineJobs
    PROVE  /\ job # Nothing /\ job.dl \in Nzbs /\ job.at \in Checkpoints
           /\ job = Job(job.dl, job.at, job.state)
           /\ \A s : [job EXCEPT !.state = s] = Job(job.dl, job.at, s)
           /\ \A a : [job EXCEPT !.at = a] = Job(job.dl, a, job.state)
           /\ job.state \in {"queued", "downloading", "paused", "completed", "failed"}
  BY NothingIsNone DEF EngineJobs, Job

LEMMA JobFacts ==
    /\ \A n \in Nzbs, a \in Checkpoints :
          \A s \in {"queued", "downloading", "paused", "completed", "failed"} :
             Job(n, a, s) \in EngineJobs /\ Job(n, a, s) # Nothing
    /\ \A n, a, s : Job(n, a, s).dl = n /\ Job(n, a, s).at = a /\ Job(n, a, s).state = s
  BY NothingIsNone DEF EngineJobs, Job

LEMMA CheckpointFacts ==
    ASSUME NEW at \in Checkpoints
    PROVE  /\ at.dl \in Nzbs /\ at.passed \in 0 .. Segments /\ at.written \in 0 .. Segments
           /\ at.broken \in BOOLEAN
           /\ Orderly(at) /\ at.passed < Segments =>
                 /\ Appended(at) \in Checkpoints /\ Orderly(Appended(at))
                 /\ Missed(at) \in Checkpoints /\ Orderly(Missed(at))
           /\ at.passed = Segments => Repaired(at) \in Checkpoints /\ Orderly(Repaired(at))
  <1>1. /\ at.dl \in Nzbs /\ at.passed \in 0 .. Segments /\ at.written \in 0 .. Segments
        /\ at.broken \in BOOLEAN
    BY DEF Checkpoints
  <1>2. Segments \in Nat
    BY UsenetBounds
  <1> QED BY <1>1, <1>2 DEF Checkpoints, Appended, Missed, Repaired, Passed, Orderly

LEMMA StartFacts == \A n \in Nzbs : Start(n) \in Checkpoints /\ Orderly(Start(n))
  BY UsenetBounds DEF Start, Checkpoints, Orderly

LEMMA NzbJobFacts ==
    ASSUME NEW job \in NzbJobs
    PROVE  /\ job # Nothing /\ job.item \in Releases /\ job.eid \in EngineIds
           /\ job.at \in Checkpoints /\ job.paused \in BOOLEAN
           /\ \A table : table[job.eid] \in EngineJobs =>
                 /\ Snapshot(job, table) \in NzbJobs
                 /\ Snapshot(job, table).item = job.item /\ Snapshot(job, table).eid = job.eid
                 /\ Snapshot(job, table).at = table[job.eid].at
  <1>1. job # Nothing
    BY NothingIsNone
  <1> QED BY <1>1 DEF NzbJobs, Snapshot, EngineJobs

LEMMA RequestFacts ==
    ASSUME NEW c \in NzbRequests
    PROVE  /\ c # Nothing
           /\ c.op \in JobOps \cup {"add", "configure"}
           /\ c.op \in JobOps =>
                 /\ c = Asked(c.op, c.at, c.number, c.job)
                 /\ c.number \in Nzbs /\ c.job \in NzbJobs /\ c.at \in {"engine", "take", "write"}
           /\ c.op = "add" => c.at = "insert" /\ c.item \in Releases
           /\ c.op = "configure" =>
                 c = [op |-> "configure", at |-> c.at] /\ c.at \in {"close", "swap", "recover"}
  BY NothingIsNone DEF NzbRequests, JobOps, Asked

LEMMA AskedFacts ==
    /\ \A op \in JobOps, at \in {"engine", "take", "write"} : \A n \in Nzbs, job \in NzbJobs :
          Asked(op, at, n, job) \in NzbRequests /\ Asked(op, at, n, job) # Nothing
    /\ \A op, at, n, job : /\ Asked(op, at, n, job).op = op /\ Asked(op, at, n, job).at = at
                           /\ Asked(op, at, n, job).number = n /\ Asked(op, at, n, job).job = job
    /\ \A i \in Releases : [op |-> "add", at |-> "insert", item |-> i] \in NzbRequests
    /\ \A at \in {"close", "swap", "recover"} : [op |-> "configure", at |-> at] \in NzbRequests
  BY NothingIsNone DEF NzbRequests, JobOps, Asked

LEMMA FetchFacts ==
    ASSUME UsenetShape, fetching # Nothing
    PROVE  /\ fetching \in Fetches /\ fetching.step \in Pairs /\ fetching.step[2] \in EngineIds
           /\ fetching = [step |-> fetching.step, aborted |-> fetching.aborted]
           /\ worker \in Rounds /\ worker # Nothing /\ fetching.step \in worker.todo
           /\ Running \in EngineJobs /\ Running # Nothing /\ Running.dl \in Nzbs
           /\ Running.dl <= nzbDoc.seq /\ Orderly(Running.at) /\ InStep /\ served
  <1>1. fetching \in Fetches /\ worker \in Rounds /\ worker # Nothing /\ fetching.step \in worker.todo
    BY DEF UsenetShape, WorkerShape
  <1>2. /\ fetching.step \in Pairs /\ fetching.step[2] \in EngineIds
        /\ fetching = [step |-> fetching.step, aborted |-> fetching.aborted]
    BY <1>1 DEF Fetches, Pairs
  <1>3. Running # Nothing /\ Running \in EngineJobs
    BY <1>2 DEF UsenetShape, WorkerShape, EngineShape, Running
  <1>4. Running.dl <= nzbDoc.seq /\ Orderly(Running.at) /\ InStep
    BY <1>2, <1>3 DEF UsenetShape, EngineShape, Running
  <1> QED BY <1>1, <1>2, <1>3, <1>4, EngineJobFacts DEF InStep

\* What keeps a part of the shape.
LEMMA EngineMoves ==
    ASSUME UsenetShape, NEW e \in EngineIds, nntp[e] # Nothing, NEW job \in EngineJobs,
           job.dl = nntp[e].dl, Orderly(job.at), nntp' = [nntp EXCEPT ![e] = job],
           UNCHANGED <<nzbDoc, handed>>, InStep'
    PROVE  EngineShape' /\ \A x \in EngineIds : nntp'[x] = Nothing <=> nntp[x] = Nothing
  <1>1. job # Nothing
    BY EngineJobFacts
  <1>2. /\ nntp' \in [EngineIds -> EngineJobs \cup {Nothing}]
        /\ \A x \in EngineIds : nntp'[x] = IF x = e THEN job ELSE nntp[x]
    BY DEF UsenetShape, EngineShape
  <1> QED BY <1>1, <1>2 DEF UsenetShape, EngineShape

LEMMA WorkerKept ==
    ASSUME UsenetShape, worker' = worker,
           fetching' = fetching \/ (fetching # Nothing /\ fetching' = [fetching EXCEPT !.aborted = TRUE]),
           \A e \in EngineIds : nntp[e] # Nothing => nntp'[e] # Nothing \/ Quiet(e)
    PROVE  WorkerShape'
  <1>1. CASE fetching = Nothing /\ fetching' = fetching
    BY <1>1 DEF UsenetShape, WorkerShape
  <1>2. CASE fetching # Nothing
    <2>1. /\ fetching' \in Fetches /\ fetching'.step = fetching.step
      BY <1>2, FetchFacts DEF Fetches
    <2>2. nntp'[fetching.step[2]] # Nothing
      BY <1>2, FetchFacts DEF Quiet, Running
    <2> QED BY <1>2, <2>1, <2>2, FetchFacts DEF UsenetShape, WorkerShape
  <1> QED BY <1>1, <1>2

LEMMA StepEndsKeeps ==
    ASSUME UsenetShape, fetching # Nothing, StepEnds
    PROVE  WorkerShape' /\ worker' # Nothing
  <1>1. worker \in Rounds /\ worker # Nothing
    BY FetchFacts
  <1>2. worker' \in Rounds /\ worker'.todo \subseteq worker.todo /\ worker'.seen = worker.seen
    BY <1>1 DEF StepEnds, Rounds
  <1> QED BY <1>1, <1>2, RecordFacts DEF StepEnds, UsenetShape, WorkerShape

LEMMA ControlKept ==
    ASSUME UsenetShape, UNCHANGED <<nzbDoc, control, served>>, served \/ worker' = worker
    PROVE  ControlShape' /\ (InStep' <=> InStep)
  <1>1. AskingJob' <=> AskingJob
    BY DEF AskingJob
  <1> QED BY <1>1 DEF UsenetShape, ControlShape, InStep

LEMMA RequestAsked ==
    ASSUME UsenetShape, NEW c \in NzbRequests, Ask(c), UNCHANGED <<nzbDoc, served>>,
           c.op \in JobOps => /\ nzbDoc.jobs[c.number] # Nothing
                              /\ nzbDoc.jobs[c.number].item = c.job.item /\ Orderly(c.job.at),
           c.at # "recover"
    PROVE  ControlShape' /\ InStep' /\ InStep /\ controls' \in 0 .. MaxControls
  <1>1. control' = c /\ c # Nothing /\ served /\ control = Nothing
    BY RequestFacts DEF Ask
  <1>2. controls' \in 0 .. MaxControls
    BY UsenetBounds DEF Ask, UsenetShape, Counted
  <1>3. AskingJob' <=> c.op \in JobOps
    BY <1>1 DEF AskingJob
  <1> QED BY <1>1, <1>2, <1>3 DEF UsenetShape, ControlShape, InStep

LEMMA DocKept == ASSUME UsenetShape, UNCHANGED <<nzbDoc, files>> PROVE DocShape'
  BY DEF UsenetShape, DocShape

LEMMA EngineKept ==
    ASSUME UsenetShape, UNCHANGED <<nzbDoc, nntp, handed>>, InStep => InStep'
    PROVE  EngineShape'
  BY DEF UsenetShape, EngineShape

\* A file changes that has a number issued already.
LEMMA FileMoves ==
    ASSUME UsenetShape, nzbDoc' = nzbDoc, NEW n \in Nzbs, n <= nzbDoc.seq, NEW file \in NzbFiles,
           files' = [files EXCEPT ![n] = file]
    PROVE  DocShape'
  <1>1. /\ files' \in [Nzbs -> NzbFiles]
        /\ \A m \in Nzbs : m # n => files'[m] = files[m]
    BY DEF UsenetShape, DocShape
  <1>2. nzbDoc.seq \in Nat /\ Nzbs \subseteq Nat
    BY UsenetBounds DEF UsenetShape, DocShape, Nzbs
  <1> QED BY <1>1, <1>2 DEF UsenetShape, DocShape

LEMMA WholeFacts ==
    /\ Whole \in NzbFiles /\ Len(Whole) = Segments
    /\ \A i \in 1 .. Segments : Whole[i] = i
  BY UsenetBounds DEF Whole, NzbFiles

LEMMA AppendFacts ==
    ASSUME NEW file \in NzbFiles, NEW s \in 1 .. Segments
    PROVE  /\ Append(file, s) \in NzbFiles /\ Len(Append(file, s)) = Len(file) + 1
           /\ \A i \in 1 .. Len(file) : Append(file, s)[i] = file[i]
           /\ Append(file, s)[Len(file) + 1] = s
  BY AppendProperties DEF NzbFiles

------------------------------------------------------------------------------
(* The usenet client: every step keeps the shape *)

LEMMA InitShape == UsenetInit => UsenetShape
  <1>1. <<>> \in NzbFiles
    BY DEF NzbFiles
  <1> SUFFICES ASSUME UsenetInit PROVE UsenetShape
    OBVIOUS
  <1>2. nzbDoc.jobs = [n \in Nzbs |-> Nothing] /\ nzbDoc.seq = 0
        /\ nzbDoc \in [jobs : [Nzbs -> NzbJobs \cup {Nothing}], seq : 0 .. MaxNzbs]
    BY UsenetBounds DEF UsenetInit
  <1>3. DocShape
    BY <1>1, <1>2 DEF UsenetInit, DocShape
  <1>4. EngineShape /\ WorkerShape
    BY UsenetBounds DEF UsenetInit, EngineShape, WorkerShape
  <1>5. ControlShape
    BY DEF UsenetInit, ControlShape, AskingJob
  <1>6. Counted
    <2>1. halts \in 0 .. MaxHalts /\ controls \in 0 .. MaxControls
      BY UsenetBounds DEF UsenetInit
    <2>2. working \in BOOLEAN /\ skipped \in BOOLEAN
      BY DEF UsenetInit
    <2> QED BY <2>1, <2>2 DEF Counted
  <1> QED BY <1>3, <1>4, <1>5, <1>6 DEF UsenetShape

LEMMA StepAbortedShape == ASSUME UsenetShape, StepAborted PROVE UsenetShape'
  <1>1. fetching # Nothing /\ StepEnds
    BY DEF StepAborted
  <1>2. WorkerShape' /\ ControlShape' /\ EngineShape'
    BY <1>1, StepEndsKeeps, FetchFacts, ControlKept, EngineKept DEF StepAborted
  <1>3. DocShape'
    BY <1>1, FetchFacts, FileMoves, DocKept, WholeFacts DEF StepAborted
  <1> QED BY <1>2, <1>3 DEF StepAborted, UsenetShape, Counted

\* The job of the running step becomes another one.
LEMMA BecomesShape ==
    ASSUME UsenetShape, fetching # Nothing, NEW job \in EngineJobs, BecomesOf(job),
           job.dl = Running.dl, Orderly(job.at), UNCHANGED <<nzbDoc, handed, control, served>>
    PROVE  EngineShape' /\ \A x \in EngineIds : nntp'[x] = Nothing <=> nntp[x] = Nothing
  <1>1. InStep'
    BY FetchFacts DEF InStep
  <1> QED BY <1>1, FetchFacts, EngineMoves DEF BecomesOf, Running

LEMMA ArticleShape == ASSUME UsenetShape, ArticleComes PROVE UsenetShape'
  <1>1. fetching # Nothing /\ Running.at.passed < Segments
    BY DEF ArticleComes
  <1>2. /\ Running \in EngineJobs /\ Running.at \in Checkpoints /\ Running.dl \in Nzbs
        /\ Running.dl <= nzbDoc.seq /\ Orderly(Running.at)
    BY <1>1, FetchFacts, EngineJobFacts
  <1>3. /\ Appended(Running.at) \in Checkpoints /\ Orderly(Appended(Running.at))
        /\ Missed(Running.at) \in Checkpoints /\ Orderly(Missed(Running.at))
    BY <1>1, <1>2, CheckpointFacts
  <1>4. EngineShape' /\ \A x \in EngineIds : nntp'[x] = Nothing <=> nntp[x] = Nothing
    <2>1. CASE BecomesOf([Running EXCEPT !.at = Appended(Running.at)])
      <3> DEFINE job == Job(Running.dl, Appended(Running.at), Running.state)
      <3>1. BecomesOf(job)
        BY <1>2, <2>1, EngineJobFacts
      <3>2. job \in EngineJobs /\ job.dl = Running.dl /\ Orderly(job.at)
        BY <1>2, <1>3, EngineJobFacts, JobFacts
      <3> HIDE DEF job
      <3> QED BY <1>1, <3>1, <3>2, BecomesShape DEF ArticleComes
    <2>2. CASE BecomesOf([Running EXCEPT !.at = Missed(Running.at)])
      <3> DEFINE job == Job(Running.dl, Missed(Running.at), Running.state)
      <3>1. BecomesOf(job)
        BY <1>2, <2>2, EngineJobFacts
      <3>2. job \in EngineJobs /\ job.dl = Running.dl /\ Orderly(job.at)
        BY <1>2, <1>3, EngineJobFacts, JobFacts
      <3> HIDE DEF job
      <3> QED BY <1>1, <3>1, <3>2, BecomesShape DEF ArticleComes
    <2>3. CASE BecomesOf([Running EXCEPT !.state = "failed"])
      <3> DEFINE job == Job(Running.dl, Running.at, "failed")
      <3>1. BecomesOf(job)
        BY <1>2, <2>3, EngineJobFacts
      <3>2. job \in EngineJobs /\ job.dl = Running.dl /\ Orderly(job.at)
        BY <1>2, EngineJobFacts, JobFacts
      <3> HIDE DEF job
      <3> QED BY <1>1, <3>1, <3>2, BecomesShape DEF ArticleComes
    <2> QED BY <2>1, <2>2, <2>3 DEF ArticleComes
  <1>5. DocShape'
    <2>1. CASE UNCHANGED files
      BY <2>1, DocKept DEF ArticleComes
    <2>2. CASE files' = [files EXCEPT ![Running.dl] = Append(@, Running.at.passed + 1)]
      <3>1. Running.at.passed + 1 \in 1 .. Segments /\ files[Running.dl] \in NzbFiles
        BY <1>1, <1>2, CheckpointFacts, UsenetBounds DEF UsenetShape, DocShape
      <3> QED BY <1>2, <2>2, <3>1, AppendFacts, FileMoves DEF ArticleComes
    <2> QED BY <2>1, <2>2 DEF ArticleComes
  <1>6. WorkerShape'
    <2>1. CASE StepEnds
      BY <1>1, <2>1, StepEndsKeeps
    <2>2. CASE UNCHANGED <<fetching, worker>>
      <3>1. \A e \in EngineIds : nntp[e] # Nothing => nntp'[e] # Nothing
        BY <1>4
      <3> QED BY <2>2, <3>1, WorkerKept
    <2> QED BY <2>1, <2>2 DEF ArticleComes
  <1>7. ControlShape'
    BY <1>1, FetchFacts, ControlKept DEF ArticleComes
  <1> QED BY <1>4, <1>5, <1>6, <1>7 DEF ArticleComes, UsenetShape, Counted

LEMMA FinalizeShape == ASSUME UsenetShape, Finalize PROVE UsenetShape'
  <1>1. fetching # Nothing /\ Running.at.passed = Segments /\ StepEnds
    BY DEF Finalize
  <1>2. /\ Running \in EngineJobs /\ Running.at \in Checkpoints /\ Running.dl \in Nzbs
        /\ Running.dl <= nzbDoc.seq /\ Orderly(Running.at)
    BY <1>1, FetchFacts, EngineJobFacts
  <1>3. Repaired(Running.at) \in Checkpoints /\ Orderly(Repaired(Running.at))
    BY <1>1, <1>2, CheckpointFacts
  <1>4. EngineShape'
    <2>1. CASE BecomesOf([Running EXCEPT !.state = "completed"])
      <3> DEFINE job == Job(Running.dl, Running.at, "completed")
      <3>1. BecomesOf(job)
        BY <1>2, <2>1, EngineJobFacts
      <3>2. job \in EngineJobs /\ job.dl = Running.dl /\ Orderly(job.at)
        BY <1>2, EngineJobFacts, JobFacts
      <3> HIDE DEF job
      <3> QED BY <1>1, <3>1, <3>2, BecomesShape DEF Finalize
    <2>2. CASE BecomesOf([Running EXCEPT !.state = "failed"])
      <3> DEFINE job == Job(Running.dl, Running.at, "failed")
      <3>1. BecomesOf(job)
        BY <1>2, <2>2, EngineJobFacts
      <3>2. job \in EngineJobs /\ job.dl = Running.dl /\ Orderly(job.at)
        BY <1>2, EngineJobFacts, JobFacts
      <3> HIDE DEF job
      <3> QED BY <1>1, <3>1, <3>2, BecomesShape DEF Finalize
    <2>3. CASE BecomesOf(Job(Running.dl, Repaired(Running.at), "completed"))
      <3> DEFINE job == Job(Running.dl, Repaired(Running.at), "completed")
      <3>1. BecomesOf(job)
        BY <2>3
      <3>2. job \in EngineJobs /\ job.dl = Running.dl /\ Orderly(job.at)
        BY <1>2, <1>3, EngineJobFacts, JobFacts
      <3> HIDE DEF job
      <3> QED BY <1>1, <3>1, <3>2, BecomesShape DEF Finalize
    <2> QED BY <2>1, <2>2, <2>3 DEF Finalize
  <1>5. DocShape'
    BY <1>2, DocKept, FileMoves, WholeFacts DEF Finalize
  <1>6. WorkerShape' /\ ControlShape'
    BY <1>1, FetchFacts, StepEndsKeeps, ControlKept DEF Finalize
  <1> QED BY <1>4, <1>5, <1>6 DEF Finalize, UsenetShape, Counted

LEMMA WorkerStartsShape == ASSUME UsenetShape, WorkerStarts PROVE UsenetShape'
  <1> DEFINE moving == {<<n, nzbDoc.jobs[n].eid>> : n \in
                          {m \in Nzbs : nzbDoc.jobs[m] # Nothing
                              /\ nntp[nzbDoc.jobs[m].eid] # Nothing
                              /\ nntp[nzbDoc.jobs[m].eid].state \in {"queued", "downloading"}}}
  <1>1. served /\ worker' = [todo |-> moving, seen |-> moving] /\ worker = Nothing
    BY DEF WorkerStarts
  <1>2. moving \subseteq Pairs
    BY NzbJobFacts DEF UsenetShape, DocShape, Pairs
  <1> HIDE DEF moving
  <1>3. worker' \in Rounds /\ worker'.todo \subseteq worker'.seen
    BY <1>1, <1>2 DEF Rounds
  <1>4. fetching = Nothing /\ fetching' = Nothing
    BY <1>1, FetchFacts DEF WorkerStarts
  <1>5. WorkerShape'
    BY <1>3, <1>4 DEF WorkerShape
  <1>6. ControlShape' /\ DocShape' /\ EngineShape'
    BY <1>1, ControlKept, DocKept, EngineKept DEF WorkerStarts
  <1> QED BY <1>5, <1>6 DEF WorkerStarts, UsenetShape, Counted

LEMMA WorkerStepsShape == ASSUME UsenetShape, NEW step \in Pairs, WorkerSteps(step) PROVE UsenetShape'
  <1>1. worker \in Rounds /\ worker # Nothing /\ step \in worker.todo /\ step[2] \in EngineIds
        /\ served /\ fetching = Nothing
    BY DEF WorkerSteps, UsenetShape, WorkerShape, ControlShape, Pairs
  <1>2. CASE nntp[step[2]] # Nothing /\ nntp[step[2]].state \in {"queued", "downloading"}
    <2> DEFINE job == Job(nntp[step[2]].dl, nntp[step[2]].at, "downloading")
    <2>1. /\ fetching' = [step |-> step, aborted |-> FALSE] /\ worker' = worker
          /\ nntp' = [nntp EXCEPT ![step[2]] = job]
      BY <1>2 DEF WorkerSteps, Turned
    <2>2. nntp[step[2]] \in EngineJobs /\ Orderly(nntp[step[2]].at) /\ InStep
      BY <1>1, <1>2 DEF UsenetShape, EngineShape
    <2>3. job \in EngineJobs /\ job.dl = nntp[step[2]].dl /\ Orderly(job.at) /\ job # Nothing
      BY <2>2, EngineJobFacts, JobFacts
    <2>4. ControlShape' /\ InStep'
      BY <2>1, <2>2, ControlKept DEF WorkerSteps
    <2> HIDE DEF job
    <2>5. EngineShape' /\ \A x \in EngineIds : nntp'[x] = Nothing <=> nntp[x] = Nothing
      BY <1>1, <1>2, <2>1, <2>3, <2>4, EngineMoves DEF WorkerSteps
    <2>6. fetching' \in Fetches /\ fetching'.step = step
      BY <2>1 DEF Fetches
    <2>7. WorkerShape'
      BY <1>1, <1>2, <2>1, <2>5, <2>6 DEF UsenetShape, WorkerShape
    <2> QED BY <2>4, <2>5, <2>7, DocKept DEF WorkerSteps, UsenetShape, Counted
  <1>3. CASE ~(nntp[step[2]] # Nothing /\ nntp[step[2]].state \in {"queued", "downloading"})
    <2>1. worker' = [worker EXCEPT !.todo = @ \ {step}] /\ UNCHANGED <<fetching, nntp>>
      BY <1>3 DEF WorkerSteps
    <2>2. worker' \in Rounds /\ worker'.todo \subseteq worker.todo /\ worker'.seen = worker.seen
      BY <1>1, <2>1 DEF Rounds
    <2>3. WorkerShape'
      BY <1>1, <2>1, <2>2, RecordFacts DEF UsenetShape, WorkerShape
    <2>4. ControlShape' /\ EngineShape' /\ DocShape'
      BY <1>1, <2>1, ControlKept, EngineKept, DocKept DEF WorkerSteps
    <2> QED BY <2>3, <2>4 DEF WorkerSteps, UsenetShape, Counted
  <1> QED BY <1>2, <1>3

\* The worker's merge takes over a checkpoint, and nothing else.
LEMMA MergedFacts ==
    ASSUME UsenetShape, NEW n \in Nzbs, nzbDoc.jobs[n] # Nothing
    PROVE  /\ Merged(nzbDoc.jobs)[n] \in NzbJobs
           /\ Merged(nzbDoc.jobs)[n].item = nzbDoc.jobs[n].item
           /\ Merged(nzbDoc.jobs)[n].eid = nzbDoc.jobs[n].eid
           /\ \/ Merged(nzbDoc.jobs)[n] = nzbDoc.jobs[n]
              \/ /\ nntp[nzbDoc.jobs[n].eid] # Nothing
                 /\ <<n, nzbDoc.jobs[n].eid>> \in worker.seen
                 /\ Merged(nzbDoc.jobs)[n].at = nntp[nzbDoc.jobs[n].eid].at
  <1>1. nzbDoc.jobs[n] \in NzbJobs
    BY DEF UsenetShape, DocShape
  <1>2. nzbDoc.jobs[n].eid \in EngineIds
    BY <1>1, NzbJobFacts
  <1>3. nntp[nzbDoc.jobs[n].eid] # Nothing => nntp[nzbDoc.jobs[n].eid] \in EngineJobs
    BY <1>2 DEF UsenetShape, EngineShape
  <1> QED BY <1>1, <1>3, NzbJobFacts DEF Merged

LEMMA WorkerMergesShape == ASSUME UsenetShape, WorkerMerges PROVE UsenetShape'
  <1> DEFINE jobs == Merged(nzbDoc.jobs)
  <1>1. /\ nzbDoc' = [jobs |-> jobs, seq |-> nzbDoc.seq] /\ worker' = Nothing /\ fetching' = fetching
        /\ worker # Nothing /\ worker.todo = {}
    BY DEF WorkerMerges, UsenetShape, DocShape
  <1>2. nzbDoc'.jobs = jobs /\ nzbDoc'.seq = nzbDoc.seq
    BY <1>1
  <1>3. \A n \in Nzbs : nzbDoc.jobs[n] = Nothing => jobs[n] = Nothing
    BY DEF Merged
  <1>4. jobs \in [Nzbs -> NzbJobs \cup {Nothing}]
    <2>1. \A n \in Nzbs : jobs[n] \in NzbJobs \cup {Nothing}
      BY <1>3, MergedFacts
    <2>2. jobs = [n \in Nzbs |-> jobs[n]]
      BY DEF Merged
    <2> HIDE DEF jobs
    <2> QED BY <2>1, <2>2
  <1>5. \A n \in Nzbs : jobs[n] # Nothing => Orderly(jobs[n].at)
    <2> SUFFICES ASSUME NEW n \in Nzbs, jobs[n] # Nothing PROVE Orderly(jobs[n].at)
      OBVIOUS
    <2>1. nzbDoc.jobs[n] # Nothing /\ nzbDoc.jobs[n].eid \in EngineIds /\ Orderly(nzbDoc.jobs[n].at)
      BY <1>3, NzbJobFacts DEF UsenetShape, DocShape
    <2>2. \/ jobs[n] = nzbDoc.jobs[n]
          \/ /\ nntp[nzbDoc.jobs[n].eid] # Nothing
             /\ jobs[n].at = nntp[nzbDoc.jobs[n].eid].at
      BY <2>1, MergedFacts
    <2> HIDE DEF jobs
    <2> QED BY <2>1, <2>2 DEF UsenetShape, EngineShape
  <1>6. DocShape'
    <2> HIDE DEF jobs
    <2>1. nzbDoc' \in [jobs : [Nzbs -> NzbJobs \cup {Nothing}], seq : 0 .. MaxNzbs]
      BY <1>1, <1>4 DEF UsenetShape, DocShape
    <2> QED BY <1>2, <1>3, <1>5, <2>1 DEF WorkerMerges, UsenetShape, DocShape
  <1>7. ControlShape'
    <2>1. served \in BOOLEAN /\ (served \/ control = Nothing)
      BY DEF UsenetShape, ControlShape
    <2>2. AskingJob => jobs[control.number] # Nothing /\ jobs[control.number].item = control.job.item
      <3> SUFFICES ASSUME AskingJob PROVE jobs[control.number] # Nothing /\ jobs[control.number].item = control.job.item
        OBVIOUS
      <3>1. control.number \in Nzbs /\ nzbDoc.jobs[control.number] # Nothing
            /\ nzbDoc.jobs[control.number].item = control.job.item
        BY RequestFacts DEF UsenetShape, ControlShape, AskingJob
      <3>2. jobs[control.number] \in NzbJobs /\ jobs[control.number].item = nzbDoc.jobs[control.number].item
        BY <3>1, MergedFacts
      <3> QED BY <3>1, <3>2, RecordFacts
    <2> HIDE DEF jobs
    <2> QED BY <1>1, <1>2, <2>1, <2>2 DEF WorkerMerges, UsenetShape, ControlShape, AskingJob
  <1>8. WorkerShape'
    BY <1>1, FetchFacts DEF UsenetShape, WorkerShape
  <1>9. EngineShape'
    BY <1>2 DEF WorkerMerges, UsenetShape, EngineShape, InStep
  <1> QED BY <1>6, <1>7, <1>8, <1>9 DEF WorkerMerges, UsenetShape, Counted

\* A control operation in progress, and the download it is about.
LEMMA AskingFacts ==
    ASSUME UsenetShape, AskingJob
    PROVE  /\ control = Asked(control.op, control.at, control.number, control.job)
           /\ control.op \in JobOps /\ control.at \in {"engine", "take", "write"}
           /\ control.number \in Nzbs /\ control.number <= nzbDoc.seq
           /\ control.job \in NzbJobs /\ control.job.eid \in EngineIds
           /\ control.job.at \in Checkpoints /\ Orderly(control.job.at)
           /\ nzbDoc.jobs[control.number] \in NzbJobs /\ nzbDoc.jobs[control.number] # Nothing
           /\ nzbDoc.jobs[control.number].item = control.job.item
           /\ served /\ InStep
  <1>1. control \in NzbRequests /\ served
    BY DEF UsenetShape, ControlShape, AskingJob
  <1>2. /\ control = Asked(control.op, control.at, control.number, control.job)
        /\ control.op \in JobOps /\ control.at \in {"engine", "take", "write"}
        /\ control.number \in Nzbs /\ control.job \in NzbJobs
    BY <1>1, RequestFacts DEF AskingJob
  <1>3. /\ nzbDoc.jobs[control.number] \in NzbJobs /\ nzbDoc.jobs[control.number] # Nothing
        /\ nzbDoc.jobs[control.number].item = control.job.item /\ Orderly(control.job.at)
    BY <1>2 DEF UsenetShape, DocShape, ControlShape
  <1>4. control.number <= nzbDoc.seq
    BY <1>2, <1>3, UsenetBounds DEF UsenetShape, DocShape, Nzbs
  <1> QED BY <1>1, <1>2, <1>3, <1>4, NzbJobFacts DEF InStep

LEMMA AtFacts ==
    ASSUME UsenetShape, control # Nothing
    PROVE  /\ control.at \in {"engine", "take", "write"} <=> AskingJob
           /\ control.at = "insert" => ~AskingJob /\ control.item \in Releases /\ InStep
           /\ control.at \in {"close", "swap", "recover"} => ~AskingJob
           /\ served
  <1>1. control \in NzbRequests /\ served
    BY DEF UsenetShape, ControlShape
  <1> QED BY <1>1, RequestFacts DEF AskingJob, JobOps, InStep

LEMMA DocMoves ==
    ASSUME UsenetShape, NEW n \in Nzbs, n <= nzbDoc.seq, NEW job \in NzbJobs \cup {Nothing},
           job # Nothing => Orderly(job.at), files' = files,
           nzbDoc' = [nzbDoc EXCEPT !.jobs = [nzbDoc.jobs EXCEPT ![n] = job]]
    PROVE  /\ DocShape' /\ nzbDoc'.seq = nzbDoc.seq
           /\ nzbDoc'.jobs = [nzbDoc.jobs EXCEPT ![n] = job]
           /\ \A m \in Nzbs : nzbDoc'.jobs[m] = IF m = n THEN job ELSE nzbDoc.jobs[m]
  <1> DEFINE jobs == [nzbDoc.jobs EXCEPT ![n] = job]
  <1>1. /\ nzbDoc.jobs \in [Nzbs -> NzbJobs \cup {Nothing}] /\ nzbDoc.seq \in 0 .. MaxNzbs
        /\ nzbDoc = [jobs |-> nzbDoc.jobs, seq |-> nzbDoc.seq]
    BY DEF UsenetShape, DocShape
  <1>2. /\ jobs \in [Nzbs -> NzbJobs \cup {Nothing}]
        /\ \A m \in Nzbs : jobs[m] = IF m = n THEN job ELSE nzbDoc.jobs[m]
    BY <1>1
  <1>3. nzbDoc' = [jobs |-> jobs, seq |-> nzbDoc.seq]
    BY <1>1
  <1> HIDE DEF jobs
  <1>4. nzbDoc'.jobs = jobs /\ nzbDoc'.seq = nzbDoc.seq
        /\ nzbDoc' \in [jobs : [Nzbs -> NzbJobs \cup {Nothing}], seq : 0 .. MaxNzbs]
    BY <1>1, <1>2, <1>3
  <1>5. \A m \in Nzbs : m > nzbDoc.seq => m # n
    BY <1>1, UsenetBounds DEF Nzbs
  <1>6. DocShape'
    BY <1>2, <1>4, <1>5 DEF UsenetShape, DocShape
  <1> QED BY <1>2, <1>4, <1>6 DEF jobs

\* A job of the engine is taken away that no step is running.
LEMMA EngineDrops ==
    ASSUME UsenetShape, NEW e \in EngineIds, Quiet(e)
    PROVE  /\ WithoutJob(e) \in [EngineIds -> EngineJobs \cup {Nothing}]
           /\ \A x \in EngineIds : WithoutJob(e)[x] = IF x = e THEN Nothing ELSE nntp[x]
           /\ \A x \in EngineIds : nntp[x] # Nothing => WithoutJob(e)[x] # Nothing \/ Quiet(x)
  BY DEF UsenetShape, EngineShape, WithoutJob

LEMMA HaltShape == ASSUME UsenetShape, HaltUsenet PROVE UsenetShape'
  <1>1. halts' \in 0 .. MaxHalts
    BY UsenetBounds DEF HaltUsenet, UsenetShape, Counted
  <1>2. DocShape'
    BY DocKept DEF HaltUsenet
  <1>3. EngineShape' /\ WorkerShape'
    BY UsenetBounds DEF HaltUsenet, EngineShape, WorkerShape
  <1>4. ControlShape'
    BY DEF HaltUsenet, ControlShape, AskingJob
  <1>5. Counted'
    <2>1. working' \in BOOLEAN /\ skipped' \in BOOLEAN /\ controls' \in 0 .. MaxControls
      BY DEF HaltUsenet, UsenetShape, Counted
    <2> QED BY <1>1, <2>1 DEF Counted
  <1> QED BY <1>2, <1>3, <1>4, <1>5 DEF UsenetShape

LEMMA AddNzbAsksShape == ASSUME UsenetShape, NEW i \in Releases, AddNzbAsks(i) PROVE UsenetShape'
  <1> DEFINE c == [op |-> "add", at |-> "insert", item |-> i]
  <1>1. c \in NzbRequests /\ c.op = "add" /\ c.at = "insert" /\ Ask(c)
    BY AskedFacts DEF AddNzbAsks
  <1> HIDE DEF c
  <1>2. ControlShape' /\ InStep' /\ controls' \in 0 .. MaxControls
    BY <1>1, RequestAsked DEF AddNzbAsks, JobOps
  <1>3. DocShape' /\ EngineShape' /\ WorkerShape'
    BY <1>2, DocKept, EngineKept, WorkerKept DEF AddNzbAsks, usenetEngine
  <1> QED BY <1>2, <1>3 DEF AddNzbAsks, UsenetShape, Counted

\* What an insertion adds.
LEMMA InsertedFacts ==
    ASSUME UsenetShape, AddNzb
    PROVE  LET n == nzbDoc.seq + 1
               e == handed + 1
           IN  /\ n \in Nzbs /\ e \in EngineIds /\ handed' = e /\ nzbDoc'.seq = n
               /\ nzbDoc.jobs[n] = Nothing /\ files[n] = <<>> /\ nntp[e] = Nothing
               /\ nntp' = [nntp EXCEPT ![e] = Job(n, Start(n), "queued")]
               /\ Job(n, Start(n), "queued") \in EngineJobs /\ Job(n, Start(n), "queued") # Nothing
               /\ nzbDoc'.jobs = [nzbDoc.jobs EXCEPT ![n] =
                     [item |-> control.item, eid |-> e, at |-> Start(n), paused |-> FALSE]]
               /\ [item |-> control.item, eid |-> e, at |-> Start(n), paused |-> FALSE] \in NzbJobs
               /\ control.item \in Releases /\ InStep /\ served /\ ~AskingJob
  <1> DEFINE n == nzbDoc.seq + 1
             e == handed + 1
  <1>1. /\ nzbDoc.seq \in 0 .. MaxNzbs /\ handed \in 0 .. MaxEngineIds
        /\ nzbDoc.seq < MaxNzbs /\ handed < MaxEngineIds
    BY DEF UsenetShape, DocShape, EngineShape, AddNzb
  <1>2. n \in Nzbs /\ e \in EngineIds /\ n > nzbDoc.seq /\ ~(e <= handed)
    BY <1>1, UsenetBounds DEF Nzbs, EngineIds
  <1>3. nzbDoc.jobs[n] = Nothing /\ files[n] = <<>> /\ nntp[e] = Nothing
    BY <1>2 DEF UsenetShape, DocShape, EngineShape
  <1>4. control.item \in Releases /\ InStep /\ served /\ ~AskingJob
    BY AtFacts DEF AddNzb
  <1>5. Job(n, Start(n), "queued") \in EngineJobs /\ Job(n, Start(n), "queued") # Nothing
    BY <1>2, StartFacts, JobFacts
  <1>6. [item |-> control.item, eid |-> e, at |-> Start(n), paused |-> FALSE] \in NzbJobs
    BY <1>2, <1>4, StartFacts DEF NzbJobs
  <1>7. /\ nzbDoc'.seq = n
        /\ nzbDoc'.jobs = [nzbDoc.jobs EXCEPT ![n] =
                     [item |-> control.item, eid |-> e, at |-> Start(n), paused |-> FALSE]]
    BY DEF AddNzb, Inserted
  <1>8. handed' = e /\ nntp' = [nntp EXCEPT ![e] = Job(n, Start(n), "queued")]
    BY DEF AddNzb
  <1> HIDE DEF n, e
  <1>9. QED BY <1>2, <1>3, <1>4, <1>5, <1>6, <1>7, <1>8 DEF n, e

LEMMA AddNzbShape == ASSUME UsenetShape, AddNzb PROVE UsenetShape'
  <1> DEFINE n == nzbDoc.seq + 1
             e == handed + 1
             engineJob == Job(n, Start(n), "queued")
             job == [item |-> control.item, eid |-> e, at |-> Start(n), paused |-> FALSE]
  <1>1. /\ n \in Nzbs /\ e \in EngineIds /\ handed' = e /\ nzbDoc'.seq = n
        /\ nzbDoc.jobs[n] = Nothing /\ files[n] = <<>> /\ nntp[e] = Nothing
        /\ nntp' = [nntp EXCEPT ![e] = engineJob]
        /\ engineJob \in EngineJobs /\ engineJob # Nothing
        /\ nzbDoc'.jobs = [nzbDoc.jobs EXCEPT ![n] = job] /\ job \in NzbJobs
        /\ InStep /\ served /\ ~AskingJob
    BY InsertedFacts
  <1>2. engineJob.dl = n /\ engineJob.at = Start(n) /\ job.at = Start(n) /\ Orderly(Start(n))
    BY <1>1, JobFacts, StartFacts
  <1>3. nzbDoc.seq \in Nat /\ handed \in Nat /\ Nzbs \subseteq Nat /\ EngineIds \subseteq Nat
    BY UsenetBounds DEF UsenetShape, DocShape, EngineShape, Nzbs, EngineIds
  <1>4. nzbDoc' = [seq |-> nzbDoc'.seq, jobs |-> nzbDoc'.jobs]
    BY DEF AddNzb, Inserted
  <1> HIDE DEF engineJob, job
  <1>5. DocShape'
    <2>1. /\ nzbDoc'.jobs \in [Nzbs -> NzbJobs \cup {Nothing}]
          /\ \A m \in Nzbs : nzbDoc'.jobs[m] = IF m = n THEN job ELSE nzbDoc.jobs[m]
      BY <1>1 DEF UsenetShape, DocShape
    <2>2. nzbDoc'.seq \in 0 .. MaxNzbs
      BY <1>1, UsenetBounds DEF Nzbs
    <2>3. nzbDoc' \in [jobs : [Nzbs -> NzbJobs \cup {Nothing}], seq : 0 .. MaxNzbs]
      BY <1>4, <2>1, <2>2
    <2>4. \A m \in Nzbs : m > nzbDoc'.seq => m > nzbDoc.seq /\ m # n
      BY <1>1, <1>3
    <2> QED BY <1>2, <2>1, <2>3, <2>4 DEF AddNzb, UsenetShape, DocShape
  <1>6. InStep' /\ ControlShape'
    BY <1>1 DEF AddNzb, InStep, ControlShape, UsenetShape, AskingJob
  <1>7. EngineShape'
    <2>1. /\ nntp' \in [EngineIds -> EngineJobs \cup {Nothing}]
          /\ \A x \in EngineIds : nntp'[x] = IF x = e THEN engineJob ELSE nntp[x]
      BY <1>1 DEF UsenetShape, EngineShape
    <2>2. handed' \in 0 .. MaxEngineIds
      BY <1>1, UsenetBounds DEF EngineIds
    <2>3. ASSUME NEW x \in EngineIds, nntp'[x] # Nothing
          PROVE  x <= handed' /\ nntp'[x].dl <= nzbDoc'.seq /\ Orderly(nntp'[x].at)
      <3>1. CASE x = e
        BY <1>1, <1>2, <1>3, <2>1, <3>1
      <3>2. CASE x # e
        <4>1. nntp'[x] = nntp[x] /\ nntp[x] \in EngineJobs
              /\ x <= handed /\ nntp[x].dl <= nzbDoc.seq /\ Orderly(nntp[x].at)
          BY <2>1, <2>3, <3>2 DEF UsenetShape, EngineShape
        <4>2. nntp[x].dl \in Nat
          BY <1>3, <4>1, EngineJobFacts
        <4> QED BY <1>1, <1>3, <4>1, <4>2
      <3> QED BY <3>1, <3>2
    <2> QED BY <1>6, <2>1, <2>2, <2>3 DEF EngineShape
  <1>8. WorkerShape'
    <2>1. \A x \in EngineIds : nntp[x] # Nothing => nntp'[x] # Nothing
      BY <1>1 DEF UsenetShape, EngineShape
    <2> QED BY <2>1, WorkerKept DEF AddNzb
  <1> QED BY <1>5, <1>6, <1>7, <1>8 DEF AddNzb, UsenetShape, Counted

LEMMA EngineFacts ==
    ASSUME UsenetShape, NEW n \in Nzbs, Engine(n)
    PROVE  /\ nzbDoc.jobs[n] \in NzbJobs /\ nzbDoc.jobs[n] # Nothing
           /\ nzbDoc.jobs[n].eid \in EngineIds /\ n <= nzbDoc.seq
           /\ nntp[nzbDoc.jobs[n].eid] # Nothing /\ nntp[nzbDoc.jobs[n].eid] \in EngineJobs
           /\ Orderly(nntp[nzbDoc.jobs[n].eid].at) /\ Orderly(nzbDoc.jobs[n].at)
  <1>1. /\ nzbDoc.jobs[n] \in NzbJobs /\ nzbDoc.jobs[n] # Nothing /\ Orderly(nzbDoc.jobs[n].at)
        /\ n <= nzbDoc.seq
    BY UsenetBounds DEF Engine, UsenetShape, DocShape, Nzbs
  <1>2. nzbDoc.jobs[n].eid \in EngineIds
    BY <1>1, NzbJobFacts
  <1> QED BY <1>1, <1>2 DEF Engine, UsenetShape, EngineShape

LEMMA AbortsFacts ==
    ASSUME UsenetShape, NEW e, Aborts(e)
    PROVE  fetching' = fetching \/ (fetching # Nothing /\ fetching' = [fetching EXCEPT !.aborted = TRUE])
  BY DEF Aborts

LEMMA PauseShape == ASSUME UsenetShape, NEW n \in Nzbs, PauseNzb(n) PROVE UsenetShape'
  <1> DEFINE e == nzbDoc.jobs[n].eid
             job == Snapshot(nzbDoc.jobs[n], nntp')
             c == Asked("pause", "write", n, job)
  <1>1. /\ nzbDoc.jobs[n] \in NzbJobs /\ nzbDoc.jobs[n] # Nothing /\ e \in EngineIds
        /\ nntp[e] # Nothing /\ nntp[e] \in EngineJobs /\ Orderly(nntp[e].at)
    BY EngineFacts DEF PauseNzb
  <1>2. Ask(c) /\ UNCHANGED <<nzbDoc, served>>
    BY DEF PauseNzb
  <1>3. \/ UNCHANGED <<nntp, fetching>>
        \/ nntp' = Turned(e, "paused") /\ Aborts(e)
    BY DEF PauseNzb
  <1>4. nntp'[e] \in EngineJobs /\ nntp'[e].at = nntp[e].at
        /\ \A x \in EngineIds : nntp'[x] = Nothing <=> nntp[x] = Nothing
    BY <1>1, <1>3, EngineJobFacts, JobFacts DEF Turned, UsenetShape, EngineShape
  <1>5. job \in NzbJobs /\ job.item = nzbDoc.jobs[n].item /\ job.at = nntp[e].at
    BY <1>1, <1>4, NzbJobFacts
  <1> HIDE DEF job, e
  <1>6. c \in NzbRequests /\ c.op = "pause" /\ c.at = "write" /\ c.number = n /\ c.job = job
    BY <1>5, AskedFacts DEF JobOps
  <1> HIDE DEF c
  <1>7. ControlShape' /\ InStep' /\ controls' \in 0 .. MaxControls
    BY <1>1, <1>2, <1>5, <1>6, RequestAsked
  <1>8. EngineShape'
    <2>1. CASE UNCHANGED nntp
      BY <1>7, <2>1, EngineKept DEF PauseNzb
    <2>2. CASE nntp' = Turned(e, "paused")
      <3> DEFINE turned == Job(nntp[e].dl, nntp[e].at, "paused")
      <3>1. turned \in EngineJobs /\ turned.dl = nntp[e].dl /\ Orderly(turned.at)
        BY <1>1, EngineJobFacts, JobFacts
      <3>2. nntp' = [nntp EXCEPT ![e] = turned]
        BY <2>2 DEF Turned
      <3> HIDE DEF turned
      <3> QED BY <1>1, <1>7, <3>1, <3>2, EngineMoves DEF PauseNzb
    <2> QED BY <1>3, <2>1, <2>2
  <1>9. WorkerShape'
    BY <1>3, <1>4, AbortsFacts, WorkerKept DEF PauseNzb
  <1> QED BY <1>7, <1>8, <1>9, DocKept DEF PauseNzb, UsenetShape, Counted

LEMMA ReadsShape ==
    ASSUME UsenetShape, NEW n \in Nzbs, nzbDoc.jobs[n] # Nothing,
           NEW op \in JobOps, NEW at \in {"engine", "take", "write"},
           Ask(Asked(op, at, n, nzbDoc.jobs[n])),
           fetching' = fetching \/ (fetching # Nothing /\ fetching' = [fetching EXCEPT !.aborted = TRUE]),
           UNCHANGED <<nzbDoc, files, nntp, handed, worker, working, served, skipped, halts>>
    PROVE  UsenetShape'
  <1> DEFINE c == Asked(op, at, n, nzbDoc.jobs[n])
  <1>1. nzbDoc.jobs[n] \in NzbJobs /\ Orderly(nzbDoc.jobs[n].at)
    BY DEF UsenetShape, DocShape
  <1>2. c \in NzbRequests /\ c.op = op /\ c.at = at /\ c.number = n /\ c.job = nzbDoc.jobs[n] /\ Ask(c)
    BY <1>1, AskedFacts
  <1> HIDE DEF c
  <1>3. ControlShape' /\ InStep' /\ controls' \in 0 .. MaxControls
    BY <1>1, <1>2, RequestAsked
  <1>4. DocShape' /\ EngineShape' /\ WorkerShape'
    BY <1>3, DocKept, EngineKept, WorkerKept
  <1> QED BY <1>3, <1>4 DEF UsenetShape, Counted

LEMMA ResumeAsksShape == ASSUME UsenetShape, NEW n \in Nzbs, ResumeNzbAsks(n) PROVE UsenetShape'
  BY ReadsShape DEF ResumeNzbAsks, JobOps, usenetEngine

LEMMA MoveShape == ASSUME UsenetShape, NEW n \in Nzbs, MoveNzb(n) PROVE UsenetShape'
  BY ReadsShape DEF MoveNzb, JobOps, usenetEngine

LEMMA TakeAsksShape ==
    ASSUME UsenetShape, NEW n \in Nzbs, NEW op \in {"remove", "delete", "retry"}, TakeAsks(n, op)
    PROVE  UsenetShape'
  <1>1. nzbDoc.jobs[n] # Nothing
    BY DEF TakeAsks, Engine
  <1>2. fetching' = fetching \/ (fetching # Nothing /\ fetching' = [fetching EXCEPT !.aborted = TRUE])
    BY AbortsFacts DEF TakeAsks
  <1> QED BY <1>1, <1>2, ReadsShape DEF TakeAsks, JobOps

\* The operation goes on with the job it will write.
LEMMA GoesOn ==
    ASSUME UsenetShape, AskingJob, NEW job \in NzbJobs, control' = ToWrite(job),
           job.item = control.job.item, Orderly(job.at), UNCHANGED <<nzbDoc, served, worker>>
    PROVE  /\ ControlShape' /\ InStep' /\ control'.op = control.op /\ control'.at = "write"
           /\ control'.number = control.number /\ control'.job = job /\ control' # Nothing
  <1>1. /\ control' \in NzbRequests /\ control'.op = control.op /\ control'.at = "write"
        /\ control'.number = control.number /\ control'.job = job /\ control' # Nothing
    BY AskingFacts, AskedFacts DEF ToWrite
  <1>2. /\ nzbDoc.jobs[control.number] # Nothing /\ served
        /\ nzbDoc.jobs[control.number].item = control.job.item
    BY AskingFacts
  <1> QED BY <1>1, <1>2 DEF ControlShape, InStep, UsenetShape

\* The operation is over.
LEMMA GoesOff ==
    ASSUME UsenetShape, control # Nothing, control' = Nothing, served' = served
    PROVE  ControlShape' /\ InStep'
  BY AtFacts DEF ControlShape, InStep, AskingJob

LEMMA ResumeShape == ASSUME UsenetShape, ResumeNzb PROVE UsenetShape'
  <1> DEFINE e == control.job.eid
             state == IF nntp[e].state = "paused" THEN "queued" ELSE nntp[e].state
  <1>1. AskingJob /\ control # Nothing /\ e \in EngineIds /\ control.job \in NzbJobs
    BY AtFacts, AskingFacts DEF ResumeNzb
  <1>2. CASE nntp[e] = Nothing
    <2>1. control' = Nothing /\ UNCHANGED nntp
      BY <1>2 DEF ResumeNzb
    <2>2. ControlShape' /\ InStep'
      BY <1>1, <2>1, GoesOff DEF ResumeNzb
    <2>3. DocShape' /\ EngineShape' /\ WorkerShape'
      BY <2>1, <2>2, DocKept, EngineKept, WorkerKept DEF ResumeNzb
    <2> QED BY <2>2, <2>3 DEF ResumeNzb, UsenetShape, Counted
  <1>3. CASE nntp[e] # Nothing
    <2> DEFINE job == Snapshot(control.job, nntp')
               turned == Job(nntp[e].dl, nntp[e].at, state)
    <2>1. nntp' = [nntp EXCEPT ![e] = turned] /\ control' = ToWrite(job)
      BY <1>3 DEF ResumeNzb, Turned
    <2>2. nntp[e] \in EngineJobs /\ Orderly(nntp[e].at)
      BY <1>1, <1>3 DEF UsenetShape, EngineShape
    <2>3. turned \in EngineJobs /\ turned.at = nntp[e].at /\ turned.dl = nntp[e].dl
      BY <2>2, EngineJobFacts, JobFacts
    <2>4. nntp'[e] = turned
      BY <1>1, <2>1 DEF UsenetShape, EngineShape
    <2>5. job \in NzbJobs /\ job.item = control.job.item /\ job.at = nntp[e].at
      BY <1>1, <2>3, <2>4, NzbJobFacts
    <2> HIDE DEF job, turned, e
    <2>6. ControlShape' /\ InStep'
      BY <1>1, <2>1, <2>2, <2>5, GoesOn DEF ResumeNzb
    <2>7. EngineShape' /\ \A x \in EngineIds : nntp'[x] = Nothing <=> nntp[x] = Nothing
      BY <1>1, <1>3, <2>1, <2>2, <2>3, <2>6, EngineMoves DEF ResumeNzb
    <2>8. WorkerShape'
      BY <2>7, WorkerKept DEF ResumeNzb
    <2> QED BY <2>6, <2>7, <2>8, DocKept DEF ResumeNzb, UsenetShape, Counted
  <1> QED BY <1>2, <1>3

LEMMA RemoveShape == ASSUME UsenetShape, RemoveNzb PROVE UsenetShape'
  <1> DEFINE e == control.job.eid
  <1>1. AskingJob /\ e \in EngineIds /\ control.job \in NzbJobs /\ Orderly(control.job.at) /\ Quiet(e)
    BY AtFacts, AskingFacts DEF RemoveNzb
  <1>2. nntp' = WithoutJob(e)
    BY DEF RemoveNzb
  <1>3. /\ nntp' \in [EngineIds -> EngineJobs \cup {Nothing}]
        /\ \A x \in EngineIds : nntp'[x] = IF x = e THEN Nothing ELSE nntp[x]
        /\ \A x \in EngineIds : nntp[x] # Nothing => nntp'[x] # Nothing \/ Quiet(x)
    BY <1>1, <1>2, EngineDrops
  <1>4. ControlShape' /\ InStep'
    BY <1>1, GoesOn DEF RemoveNzb
  <1>5. EngineShape'
    BY <1>3, <1>4 DEF RemoveNzb, UsenetShape, EngineShape
  <1>6. WorkerShape'
    BY <1>3, WorkerKept DEF RemoveNzb
  <1>7. DocShape'
    <2>1. CASE files' = files
      BY <2>1, DocKept DEF RemoveNzb
    <2>2. CASE nntp[e] # Nothing /\ files' = [files EXCEPT ![nntp[e].dl] = <<>>]
      <3>1. nntp[e] \in EngineJobs /\ nntp[e].dl <= nzbDoc.seq
        BY <1>1, <2>2 DEF UsenetShape, EngineShape
      <3>2. nntp[e].dl \in Nzbs /\ <<>> \in NzbFiles
        BY <3>1, EngineJobFacts DEF NzbFiles
      <3> QED BY <2>2, <3>1, <3>2, FileMoves DEF RemoveNzb
    <2> QED BY <2>1, <2>2 DEF RemoveNzb
  <1> QED BY <1>4, <1>5, <1>6, <1>7 DEF RemoveNzb, UsenetShape, Counted

LEMMA RetryShape == ASSUME UsenetShape, RetryNzb PROVE UsenetShape'
  <1> DEFINE old == control.job.eid
             n   == control.number
             e   == handed + 1
  <1>1. /\ AskingJob /\ control # Nothing /\ old \in EngineIds /\ Quiet(old)
        /\ control.job \in NzbJobs /\ Orderly(control.job.at) /\ control.job.at \in Checkpoints
        /\ n \in Nzbs /\ n <= nzbDoc.seq /\ control.job.item \in Releases
    BY AtFacts, AskingFacts, NzbJobFacts DEF RetryNzb
  <1>2. /\ WithoutJob(old) \in [EngineIds -> EngineJobs \cup {Nothing}]
        /\ \A x \in EngineIds : WithoutJob(old)[x] = IF x = old THEN Nothing ELSE nntp[x]
        /\ \A x \in EngineIds : nntp[x] # Nothing => WithoutJob(old)[x] # Nothing \/ Quiet(x)
    BY <1>1, EngineDrops
  <1>3. /\ e \in EngineIds /\ handed' = e /\ handed' \in 0 .. MaxEngineIds
        /\ \A x \in EngineIds : x <= handed => x <= e
    BY UsenetBounds DEF RetryNzb, UsenetShape, EngineShape, EngineIds
  <1> HIDE DEF e, old, n
  <1>4. CASE Fits(n, control.job)
    <2> DEFINE back == Job(n, control.job.at, "queued")
               job == [item |-> control.job.item, eid |-> e, at |-> control.job.at, paused |-> FALSE]
    <2>1. /\ nntp' = [WithoutJob(old) EXCEPT ![e] = back]
          /\ files' = [files EXCEPT ![n] = CutBack(@, control.job.at)]
          /\ control' = ToWrite(job)
      BY <1>4 DEF RetryNzb, old, n, e
    <2>2. back \in EngineJobs /\ back # Nothing /\ back.dl = n /\ back.at = control.job.at
      BY <1>1, JobFacts
    <2>3. job \in NzbJobs /\ job.item = control.job.item /\ Orderly(job.at)
      BY <1>1, <1>3 DEF NzbJobs
    <2> HIDE DEF back, job
    <2>4. ControlShape' /\ InStep'
      BY <1>1, <2>1, <2>3, GoesOn DEF RetryNzb
    <2>5. /\ nntp' \in [EngineIds -> EngineJobs \cup {Nothing}]
          /\ \A x \in EngineIds : nntp'[x] = IF x = e THEN back ELSE WithoutJob(old)[x]
      BY <1>2, <1>3, <2>1, <2>2
    <2>6. EngineShape'
      <3>1. ASSUME NEW x \in EngineIds, nntp'[x] # Nothing
            PROVE  x <= handed' /\ nntp'[x].dl <= nzbDoc'.seq /\ Orderly(nntp'[x].at)
        <4>1. CASE x = e
          BY <1>1, <1>3, <2>2, <2>5, <4>1 DEF RetryNzb, EngineIds
        <4>2. CASE x # e
          <5>1. nntp'[x] = nntp[x]
            BY <1>2, <2>5, <3>1, <4>2
          <5> QED BY <1>3, <3>1, <5>1 DEF RetryNzb, UsenetShape, EngineShape
        <4> QED BY <4>1, <4>2
      <3> QED BY <1>3, <2>4, <2>5, <3>1 DEF EngineShape
    <2>7. WorkerShape'
      <3>1. \A x \in EngineIds : nntp[x] # Nothing => nntp'[x] # Nothing \/ Quiet(x)
        BY <1>2, <2>2, <2>5
      <3> QED BY <3>1, WorkerKept DEF RetryNzb
    <2>8. DocShape'
      <3>1. files[n] \in NzbFiles /\ control.job.at.written \in Nat /\ control.job.at.written <= Len(files[n])
        BY <1>1, <1>4, UsenetBounds, CheckpointFacts DEF UsenetShape, DocShape, Fits
      <3>2. CutBack(files[n], control.job.at) \in NzbFiles
        BY <3>1, CutFacts
      <3> QED BY <1>1, <2>1, <3>2, FileMoves DEF RetryNzb
    <2> QED BY <2>4, <2>6, <2>7, <2>8 DEF RetryNzb, UsenetShape, Counted
  <1>5. CASE ~Fits(n, control.job)
    <2>1. nntp' = WithoutJob(old) /\ control' = Nothing /\ UNCHANGED files
      BY <1>5 DEF RetryNzb, old, n
    <2>2. ControlShape' /\ InStep'
      BY <1>1, <2>1, GoesOff DEF RetryNzb
    <2>3. EngineShape'
      BY <1>2, <1>3, <2>1, <2>2 DEF RetryNzb, UsenetShape, EngineShape
    <2>4. DocShape' /\ WorkerShape'
      BY <1>2, <2>1, DocKept, WorkerKept DEF RetryNzb
    <2> QED BY <2>2, <2>3, <2>4 DEF RetryNzb, UsenetShape, Counted
  <1> QED BY <1>4, <1>5

\* What is written is the job, or that it is gone.
LEMMA WriteFacts ==
    ASSUME UsenetShape, WriteNzb
    PROVE  LET left == IF control.op \in {"remove", "delete"} THEN Nothing ELSE control.job
           IN  /\ AskingJob /\ left \in NzbJobs \cup {Nothing} /\ DocShape' /\ nzbDoc'.seq = nzbDoc.seq
               /\ nzbDoc'.jobs = [nzbDoc.jobs EXCEPT ![control.number] = left]
               /\ \A m \in Nzbs : nzbDoc'.jobs[m] = IF m = control.number THEN left ELSE nzbDoc.jobs[m]
  <1> DEFINE left == IF control.op \in {"remove", "delete"} THEN Nothing ELSE control.job
  <1>1. /\ AskingJob /\ control.number \in Nzbs /\ control.number <= nzbDoc.seq
        /\ control.job \in NzbJobs /\ Orderly(control.job.at)
    BY AtFacts, AskingFacts DEF WriteNzb
  <1>2. left \in NzbJobs \cup {Nothing} /\ (left # Nothing => Orderly(left.at))
    BY <1>1
  <1>3. files' = files /\ nzbDoc' = [nzbDoc EXCEPT !.jobs = [nzbDoc.jobs EXCEPT ![control.number] = left]]
    BY DEF WriteNzb
  <1> HIDE DEF left
  <1>4. /\ DocShape' /\ nzbDoc'.seq = nzbDoc.seq
        /\ nzbDoc'.jobs = [nzbDoc.jobs EXCEPT ![control.number] = left]
        /\ \A m \in Nzbs : nzbDoc'.jobs[m] = IF m = control.number THEN left ELSE nzbDoc.jobs[m]
    BY <1>1, <1>2, <1>3, DocMoves
  <1> QED BY <1>1, <1>2, <1>4 DEF left

LEMMA WriteShape == ASSUME UsenetShape, WriteNzb PROVE UsenetShape'
  <1>1. DocShape' /\ nzbDoc'.seq = nzbDoc.seq
    BY WriteFacts
  <1>2. ControlShape' /\ InStep'
    BY GoesOff DEF WriteNzb
  <1>3. WorkerShape'
    BY WorkerKept DEF WriteNzb, usenetEngine
  <1>4. EngineShape'
    BY <1>1, <1>2 DEF WriteNzb, usenetEngine, UsenetShape, EngineShape
  <1> QED BY <1>1, <1>2, <1>3, <1>4 DEF WriteNzb, UsenetShape, Counted

LEMMA SwapAsksShape == ASSUME UsenetShape, SwapAsks PROVE UsenetShape'
  <1> DEFINE c == [op |-> "configure", at |-> "close"]
  <1>1. c \in NzbRequests /\ c.op = "configure" /\ c.at = "close" /\ Ask(c)
    BY AskedFacts DEF SwapAsks
  <1> HIDE DEF c
  <1>2. ControlShape' /\ InStep' /\ controls' \in 0 .. MaxControls
    BY <1>1, RequestAsked DEF SwapAsks, JobOps
  <1>3. DocShape' /\ EngineShape' /\ WorkerShape'
    BY <1>2, DocKept, EngineKept, WorkerKept DEF SwapAsks, usenetEngine
  <1> QED BY <1>2, <1>3 DEF SwapAsks, UsenetShape, Counted

\* A step of configure leads to the next one.
LEMMA SwapGoesOn ==
    ASSUME UsenetShape, control # Nothing, control.at \in {"close", "swap"},
           NEW at \in {"swap", "recover"}, control' = [control EXCEPT !.at = at],
           UNCHANGED <<nzbDoc, served, worker>>
    PROVE  ControlShape' /\ (at = "swap" => InStep')
  <1>1. control \in NzbRequests /\ served
    BY AtFacts DEF UsenetShape, ControlShape
  <1>2. control = [op |-> "configure", at |-> control.at]
    BY <1>1, RequestFacts
  <1>3. control' = [op |-> "configure", at |-> at]
    BY <1>2
  <1>4. control' \in NzbRequests
    BY <1>3, AskedFacts
  <1>5. control'.op = "configure" /\ control'.at = at
    BY <1>3
  <1>6. ~AskingJob'
    BY <1>5 DEF AskingJob, JobOps
  <1> QED BY <1>1, <1>4, <1>5, <1>6 DEF ControlShape, InStep, UsenetShape

LEMMA SwapClosesShape == ASSUME UsenetShape, SwapCloses PROVE UsenetShape'
  <1>1. ControlShape' /\ InStep'
    BY SwapGoesOn DEF SwapCloses
  <1>2. WorkerShape'
    BY WorkerKept DEF SwapCloses
  <1> QED BY <1>1, <1>2, DocKept, EngineKept DEF SwapCloses, UsenetShape, Counted

LEMMA SwapShape == ASSUME UsenetShape, Swap PROVE UsenetShape'
  <1>1. ControlShape'
    BY SwapGoesOn DEF Swap
  <1>2. WorkerShape' /\ EngineShape'
    BY UsenetBounds DEF Swap, UsenetShape, WorkerShape, EngineShape
  <1> QED BY <1>1, <1>2, DocKept DEF Swap, UsenetShape, Counted

\* A recovery leaves every download its item and its checkpoint.
LEMMA RecoveredShape ==
    ASSUME UsenetShape, UsenetTypeOK, Recovered, ~InStep, served', control' = Nothing,
           UNCHANGED <<fetching, worker>>
    PROVE  /\ DocShape' /\ EngineShape' /\ WorkerShape' /\ ControlShape' /\ skipped' \in BOOLEAN
           /\ nzbDoc'.seq = nzbDoc.seq /\ nzbDoc'.jobs \in [Nzbs -> NzbJobs \cup {Nothing}]
           /\ \A n \in Nzbs :
                 /\ nzbDoc.jobs[n] = Nothing <=> nzbDoc'.jobs[n] = Nothing
                 /\ nzbDoc.jobs[n] # Nothing => /\ nzbDoc'.jobs[n].item = nzbDoc.jobs[n].item
                                                /\ nzbDoc'.jobs[n].at = nzbDoc.jobs[n].at
  <1>1. PICK gone \in SUBSET Nzbs :
           /\ nzbDoc' = [nzbDoc EXCEPT !.jobs = PutBack(gone).jobs]
           /\ nntp' = PutBack(gone).nntp /\ handed' = PutBack(gone).handed
           /\ files' = PutBack(gone).files
           /\ skipped' = (skipped \/ \E n \in Unfit \cup gone : nzbDoc.jobs[n] # Nothing)
    BY DEF Recovered
  <1> DEFINE r == PutBack(gone)
  <1>2. BackSoFar(r, MaxNzbs)
    BY PutBackFacts
  <1>3. nzbDoc' = [nzbDoc EXCEPT !.jobs = r.jobs] /\ nntp' = r.nntp /\ handed' = r.handed /\ files' = r.files
    BY <1>1
  <1> HIDE DEF r
  <1>4. nzbDoc' = [jobs |-> r.jobs, seq |-> nzbDoc.seq]
    BY <1>3 DEF UsenetShape, DocShape
  <1>5. /\ nzbDoc'.jobs \in [Nzbs -> NzbJobs \cup {Nothing}] /\ nzbDoc'.seq = nzbDoc.seq
        /\ nzbDoc' \in [jobs : [Nzbs -> NzbJobs \cup {Nothing}], seq : 0 .. MaxNzbs]
        /\ files' \in [Nzbs -> NzbFiles]
    BY <1>2, <1>3, <1>4 DEF BackSoFar, UsenetShape, DocShape
  <1>6. ASSUME NEW n \in Nzbs
        PROVE  /\ nzbDoc.jobs[n] = Nothing <=> nzbDoc'.jobs[n] = Nothing
               /\ nzbDoc.jobs[n] = Nothing => files'[n] = files[n]
               /\ nzbDoc.jobs[n] # Nothing =>
                    \E e \in EngineIds : nzbDoc'.jobs[n] = Remapped(nzbDoc.jobs[n], e)
    BY <1>2, <1>3, <1>4 DEF BackSoFar
  <1>7. ASSUME NEW n \in Nzbs, nzbDoc.jobs[n] # Nothing
        PROVE  /\ nzbDoc'.jobs[n].item = nzbDoc.jobs[n].item
               /\ nzbDoc'.jobs[n].at = nzbDoc.jobs[n].at
    <2>1. PICK e \in EngineIds : nzbDoc'.jobs[n] = Remapped(nzbDoc.jobs[n], e)
      BY <1>6, <1>7
    <2>2. nzbDoc.jobs[n] \in NzbJobs
      BY <1>7 DEF UsenetShape, DocShape
    <2> QED BY <2>1, <2>2, RemapFacts
  <1>8. DocShape'
    BY <1>5, <1>6, <1>7 DEF UsenetShape, DocShape
  <1>9. InStep' /\ ControlShape'
    BY DEF InStep, ControlShape, AskingJob
  <1>10. EngineShape'
    <2>1. nntp' \in [EngineIds -> EngineJobs \cup {Nothing}] /\ handed' \in 0 .. MaxEngineIds
      BY <1>2, <1>3, UsenetBounds DEF BackSoFar
    <2>2. ASSUME NEW e \in EngineIds, nntp'[e] # Nothing
          PROVE  e <= handed' /\ nntp'[e].dl <= nzbDoc'.seq /\ Orderly(nntp'[e].at)
      <3>1. PICK m \in 1 .. MaxNzbs : nzbDoc.jobs[m] # Nothing /\ nntp'[e] = BackJob(m)
        BY <1>2, <1>3, <2>2 DEF BackSoFar
      <3>2. e <= handed'
        BY <1>2, <1>3, <2>2 DEF BackSoFar
      <3>3. m <= nzbDoc.seq /\ Orderly(nzbDoc.jobs[m].at)
        BY <3>1, UsenetBounds DEF UsenetShape, DocShape, Nzbs
      <3>4. nntp'[e].dl = m /\ nntp'[e].at = nzbDoc.jobs[m].at
        BY <3>1, JobFacts DEF BackJob
      <3> QED BY <1>5, <3>2, <3>3, <3>4
    <2> QED BY <1>9, <2>1, <2>2 DEF EngineShape
  <1>11. WorkerShape'
    <2>1. fetching = Nothing
      BY FetchFacts
    <2> QED BY <2>1 DEF UsenetShape, WorkerShape
  <1>12. skipped' \in BOOLEAN
    BY <1>1 DEF UsenetShape, Counted
  <1> QED BY <1>5, <1>6, <1>7, <1>8, <1>9, <1>10, <1>11, <1>12

LEMMA ShapeIsTyped == UsenetShape => UsenetTypeOK
  BY DEF UsenetShape, DocShape, EngineShape, WorkerShape, ControlShape, Counted, UsenetTypeOK, NzbFiles

LEMMA MountShape == ASSUME UsenetShape, MountUsenet PROVE UsenetShape'
  <1>1. ~InStep /\ control = Nothing
    BY DEF MountUsenet, InStep, UsenetShape, ControlShape
  <1> QED BY <1>1, ShapeIsTyped, RecoveredShape DEF MountUsenet, UsenetShape, Counted

LEMMA SwapRecoversShape == ASSUME UsenetShape, SwapRecovers PROVE UsenetShape'
  <1>1. ~InStep /\ served
    BY AtFacts DEF SwapRecovers, InStep
  <1> QED BY <1>1, ShapeIsTyped, RecoveredShape DEF SwapRecovers, UsenetShape, Counted

LEMMA UsenetStepShape == UsenetShape /\ [UsenetNext]_usenetVars => UsenetShape'
  <1> SUFFICES ASSUME UsenetShape, [UsenetNext]_usenetVars PROVE UsenetShape'
    OBVIOUS
  <1>1. CASE UNCHANGED usenetVars
    BY <1>1 DEF usenetVars, UsenetShape, DocShape, EngineShape, WorkerShape, ControlShape, Counted,
                AskingJob, InStep
  <1>2. CASE HaltUsenet \/ StepAborted \/ ArticleComes \/ Finalize
    BY <1>2, HaltShape, StepAbortedShape, ArticleShape, FinalizeShape
  <1>3. CASE WorkerStarts \/ WorkerMerges \/ \E s \in Pairs : WorkerSteps(s)
    BY <1>3, WorkerStartsShape, WorkerMergesShape, WorkerStepsShape
  <1>4. CASE AddNzb \/ \E i \in Releases : AddNzbAsks(i)
    BY <1>4, AddNzbShape, AddNzbAsksShape
  <1>5. CASE ResumeNzb \/ RemoveNzb \/ RetryNzb \/ WriteNzb
    BY <1>5, ResumeShape, RemoveShape, RetryShape, WriteShape
  <1>6. CASE \E n \in Nzbs : PauseNzb(n) \/ ResumeNzbAsks(n) \/ MoveNzb(n)
    BY <1>6, PauseShape, ResumeAsksShape, MoveShape
  <1>7. CASE \E n \in Nzbs : \E op \in {"remove", "delete", "retry"} : TakeAsks(n, op)
    BY <1>7, TakeAsksShape
  <1>8. CASE MountUsenet \/ SwapAsks \/ SwapCloses \/ Swap \/ SwapRecovers
    BY <1>8, MountShape, SwapAsksShape, SwapClosesShape, SwapShape, SwapRecoversShape
  <1> QED BY <1>1, <1>2, <1>3, <1>4, <1>5, <1>6, <1>7, <1>8 DEF UsenetNext, Pairs

------------------------------------------------------------------------------
(* The usenet client implements the job ledger *)

Leaving == IF control # Nothing /\ control.op \in {"remove", "delete"} THEN {control.number} ELSE {}
ItemOf(n) == IF nzbDoc.jobs[n] = Nothing THEN Nothing ELSE nzbDoc.jobs[n].item

\* A step that leaves every download its item may only ask for removals.
LEMMA NzbAskStep ==
    ASSUME UsenetShape', nzbDoc'.seq = nzbDoc.seq, \A n \in Nzbs : ItemOf(n)' = ItemOf(n)
    PROVE  NzbLedger!Ask
  <1>1. Leaving' \subseteq Nzbs
    BY RequestFacts DEF Leaving, UsenetShape, ControlShape, JobOps
  <1>2. [n \in Nzbs |-> ItemOf(n)]' = [n \in Nzbs |-> ItemOf(n)]
    OBVIOUS
  <1> QED BY <1>1, <1>2 DEF NzbLedger!Ask, Leaving, ItemOf

\* Every step leaves the document alone, or is one of these.
LEMMA NzbKinds ==
    ASSUME [UsenetNext]_usenetVars
    PROVE  nzbDoc' = nzbDoc \/ WorkerMerges \/ AddNzb \/ WriteNzb \/ MountUsenet \/ SwapRecovers
  <1>1. CASE UNCHANGED usenetVars
    BY <1>1 DEF usenetVars
  <1>2. CASE HaltUsenet \/ StepAborted \/ ArticleComes \/ Finalize \/ WorkerStarts
             \/ ResumeNzb \/ RemoveNzb \/ RetryNzb \/ SwapAsks \/ SwapCloses \/ Swap
    BY <1>2 DEF HaltUsenet, StepAborted, ArticleComes, Finalize, WorkerStarts,
                ResumeNzb, RemoveNzb, RetryNzb, SwapAsks, SwapCloses, Swap
  <1>3. CASE \/ \E s \in Nzbs \X EngineIds : WorkerSteps(s)
             \/ \E i \in Releases : AddNzbAsks(i)
             \/ \E n \in Nzbs : PauseNzb(n) \/ ResumeNzbAsks(n) \/ MoveNzb(n)
             \/ \E n \in Nzbs : \E op \in {"remove", "delete", "retry"} : TakeAsks(n, op)
    BY <1>3 DEF WorkerSteps, AddNzbAsks, PauseNzb, ResumeNzbAsks, MoveNzb, TakeAsks
  <1> QED BY <1>1, <1>2, <1>3 DEF UsenetNext

LEMMA NzbLedgerStep ==
    UsenetShape /\ UsenetShape' /\ [UsenetNext]_usenetVars => [NzbLedger!Next]_(NzbLedger!vars)
  <1> SUFFICES ASSUME UsenetShape, UsenetShape', [UsenetNext]_usenetVars PROVE NzbLedger!Next
    OBVIOUS
  <1>1. CASE nzbDoc' = nzbDoc
    BY <1>1, NzbAskStep DEF NzbLedger!Next, ItemOf
  <1>2. CASE WorkerMerges
    <2>1. nzbDoc'.jobs = Merged(nzbDoc.jobs) /\ nzbDoc'.seq = nzbDoc.seq
      BY <1>2 DEF WorkerMerges, UsenetShape, DocShape
    <2>2. ASSUME NEW n \in Nzbs PROVE ItemOf(n)' = ItemOf(n)
      <3>1. CASE nzbDoc.jobs[n] = Nothing
        BY <2>1, <3>1 DEF Merged, ItemOf
      <3>2. CASE nzbDoc.jobs[n] # Nothing
        <4>1. Merged(nzbDoc.jobs)[n] \in NzbJobs
              /\ Merged(nzbDoc.jobs)[n].item = nzbDoc.jobs[n].item
          BY <3>2, MergedFacts
        <4> QED BY <2>1, <3>2, <4>1, RecordFacts DEF ItemOf
      <3> QED BY <3>1, <3>2
    <2> QED BY <2>1, <2>2, NzbAskStep DEF NzbLedger!Next
  <1>3. CASE MountUsenet \/ SwapRecovers
    <2>1. ~InStep
      <3>1. CASE MountUsenet
        BY <3>1 DEF MountUsenet, InStep
      <3>2. CASE SwapRecovers
        BY <3>2, AtFacts DEF SwapRecovers, InStep
      <3> QED BY <1>3, <3>1, <3>2
    <2>2. Recovered /\ served' /\ control' = Nothing /\ UNCHANGED <<fetching, worker>>
      <3>1. CASE MountUsenet
        BY <3>1 DEF MountUsenet, UsenetShape, ControlShape
      <3>2. CASE SwapRecovers
        BY <3>2, AtFacts DEF SwapRecovers
      <3> QED BY <1>3, <3>1, <3>2
    <2>3. /\ nzbDoc'.seq = nzbDoc.seq
          /\ \A n \in Nzbs :
                /\ nzbDoc.jobs[n] = Nothing <=> nzbDoc'.jobs[n] = Nothing
                /\ nzbDoc.jobs[n] # Nothing => nzbDoc'.jobs[n].item = nzbDoc.jobs[n].item
      BY <2>1, <2>2, ShapeIsTyped, RecoveredShape
    <2> QED BY <2>3, NzbAskStep DEF NzbLedger!Next, ItemOf
  <1>4. CASE AddNzb
    <2> DEFINE n == nzbDoc.seq + 1
               job == [item |-> control.item, eid |-> handed + 1, at |-> Start(n), paused |-> FALSE]
    <2>1. /\ n \in Nzbs /\ nzbDoc'.seq = n /\ job \in NzbJobs
          /\ nzbDoc'.jobs = [nzbDoc.jobs EXCEPT ![n] = job]
          /\ control.item \in Releases /\ ~AskingJob
      BY <1>4, InsertedFacts
    <2>2. Leaving = {} /\ Leaving' = {}
      BY <1>4, <2>1 DEF AddNzb, Leaving, AskingJob, JobOps
    <2>3. job.item = control.item /\ job # Nothing
      BY <2>1, RecordFacts
    <2> HIDE DEF job
    <2>4. \A m \in Nzbs : ItemOf(m)' = IF m = n THEN control.item ELSE ItemOf(m)
      BY <2>1, <2>3 DEF ItemOf, UsenetShape, DocShape
    <2>5. [m \in Nzbs |-> ItemOf(m)]' = [[m \in Nzbs |-> ItemOf(m)] EXCEPT ![n] = control.item]
      <3> HIDE DEF n
      <3> QED BY <2>1, <2>4
    <2>6. PICK i \in Releases : i = control.item
      BY <2>1
    <2>7. NzbLedger!Accept(i)
      BY <2>1, <2>2, <2>5, <2>6 DEF NzbLedger!Accept, Leaving, ItemOf
    <2>8. n \in Nzbs
      BY <2>1
    <2> QED BY <2>7, <2>8 DEF NzbLedger!Next
  <1>5. CASE WriteNzb
    <2> DEFINE n == control.number
               left == IF control.op \in {"remove", "delete"} THEN Nothing ELSE control.job
    <2>1. /\ AskingJob /\ nzbDoc'.seq = nzbDoc.seq
          /\ \A m \in Nzbs : nzbDoc'.jobs[m] = IF m = n THEN left ELSE nzbDoc.jobs[m]
      BY <1>5, WriteFacts
    <2>2. /\ n \in Nzbs /\ nzbDoc.jobs[n] # Nothing /\ control.job \in NzbJobs
          /\ nzbDoc.jobs[n].item = control.job.item
      BY <2>1, AskingFacts
    <2>3. CASE control.op \in {"remove", "delete"}
      <3>1. Leaving = {n} /\ Leaving' = {}
        BY <1>5, <2>3 DEF WriteNzb, Leaving
      <3>2. \A m \in Nzbs : ItemOf(m)' = IF m = n THEN Nothing ELSE ItemOf(m)
        BY <2>1, <2>3 DEF ItemOf
      <3> HIDE DEF n, left
      <3>0. PICK g \in Nzbs : g = n
        BY <2>2
      <3>3. [m \in Nzbs |-> ItemOf(m)]' = [[m \in Nzbs |-> ItemOf(m)] EXCEPT ![n] = Nothing]
        BY <2>2, <3>2
      <3>4. NzbLedger!Remove(g)
        BY <2>1, <3>0, <3>1, <3>3 DEF NzbLedger!Remove, Leaving, ItemOf
      <3> QED BY <3>0, <3>4 DEF NzbLedger!Next
    <2>4. CASE control.op \notin {"remove", "delete"}
      <3>1. \A m \in Nzbs : ItemOf(m)' = ItemOf(m)
        BY <2>1, <2>2, <2>4, RecordFacts DEF ItemOf
      <3> QED BY <2>1, <3>1, NzbAskStep DEF NzbLedger!Next
    <2> QED BY <2>3, <2>4
  <1> QED BY <1>1, <1>2, <1>3, <1>4, <1>5, NzbKinds

LEMMA NzbLedgerInit == UsenetInit => NzbLedger!Init
  BY UsenetBounds DEF UsenetInit, NzbLedger!Init

\* Whatever the worker, the control operations, recoveries and stops do, the
\* state of the client keeps its shape.
THEOREM UsenetIsTyped == UsenetSpec => []UsenetTypeOK
  BY InitShape, UsenetStepShape, ShapeIsTyped, PTL DEF UsenetSpec

\* The usenet client implements the job ledger, whatever the worker, the control
\* operations, recoveries and stops do in between: a number is issued once and
\* in order, keeps its item, and is freed only by a removal that was asked for.
\* No merge, checkpoint or remapping of ids loses a job or brings one back.
THEOREM UsenetKeepsLedger == UsenetSpec => UsenetLedger
  <1>1. UsenetSpec => []UsenetShape
    BY InitShape, UsenetStepShape, PTL DEF UsenetSpec
  <1> QED BY <1>1, NzbLedgerInit, NzbLedgerStep, PTL DEF UsenetSpec, UsenetLedger, NzbLedger!Spec

------------------------------------------------------------------------------
(* The usenet client: checkpoints, files and what appending and cutting do *)

\* The file starts as the checkpoint says, as far as it goes; it goes as far;
\* it is just that.  PAR2 repairs whatever a broken one describes.
Starts(file, at) == ~at.broken =>
    at.passed = at.written /\ \A i \in 1 .. at.written : i <= Len(file) => file[i] = i
Covers(file, at) == ~at.broken => at.written <= Len(file)
Exactly(file, at) == ~at.broken =>
    /\ at.passed = at.written /\ Len(file) = at.written
    /\ \A i \in 1 .. at.written : file[i] = i

LEMMA ExactFacts ==
    ASSUME NEW file \in NzbFiles, NEW at \in Checkpoints, Exactly(file, at)
    PROVE  /\ Starts(file, at) /\ Covers(file, at)
           /\ ~at.broken /\ at.passed = Segments => file = Whole
  <1>1. at.written \in Nat /\ Segments \in Nat
    BY CheckpointFacts, UsenetBounds
  <1>2. Starts(file, at) /\ Covers(file, at)
    BY <1>1 DEF Exactly, Starts, Covers
  <1>3. ASSUME ~at.broken, at.passed = Segments PROVE file = Whole
    <2>1. Len(file) = Segments /\ \A i \in 1 .. Segments : file[i] = i
      BY <1>3 DEF Exactly
    <2>2. file = [i \in 1 .. Len(file) |-> file[i]]
      BY DEF NzbFiles
    <2> QED BY <2>1, <2>2 DEF Whole
  <1> QED BY <1>2, <1>3

LEMMA GrownFacts ==
    ASSUME NEW file \in NzbFiles, NEW at \in Checkpoints, NEW s \in 1 .. Segments,
           Starts(file, at), Covers(file, at)
    PROVE  Starts(Append(file, s), at) /\ Covers(Append(file, s), at)
  <1>1. at.written \in Nat /\ Len(file) \in Nat
    BY CheckpointFacts, UsenetBounds DEF NzbFiles
  <1> QED BY <1>1, AppendFacts DEF Starts, Covers

LEMMA NextFacts ==
    ASSUME NEW file \in NzbFiles, NEW at \in Checkpoints, at.passed < Segments, Exactly(file, at)
    PROVE  Exactly(Append(file, at.passed + 1), Appended(at))
  <1>1. /\ at.passed \in Nat /\ at.written \in Nat /\ at.passed + 1 \in 1 .. Segments
    BY CheckpointFacts, UsenetBounds
  <1>2. /\ Appended(at).broken = at.broken /\ Appended(at).passed = at.passed + 1
        /\ Appended(at).written = at.written + 1
    BY DEF Appended, Passed
  <1> QED BY <1>1, <1>2, AppendFacts DEF Exactly

LEMMA MendedFacts ==
    ASSUME NEW file, NEW at \in Checkpoints
    PROVE  /\ Starts(file, at) => Starts(Whole, at)
           /\ Starts(file, at) => Starts(<<>>, at)
           /\ Covers(Whole, at) /\ Exactly(file, Missed(at))
           /\ at.passed = Segments => Exactly(Whole, Repaired(at))
           /\ \A n : Exactly(<<>>, Start(n)) /\ Starts(<<>>, Start(n))
  <1>1. at.written \in 0 .. Segments /\ Segments \in Nat
    BY CheckpointFacts, UsenetBounds
  <1>2. Len(<<>>) = 0
    OBVIOUS
  <1>3. Missed(at).broken
    BY DEF Missed, Passed
  <1>4. Repaired(at).passed = at.passed /\ Repaired(at).written = Segments
    BY DEF Repaired
  <1>5. \A n : Start(n).passed = 0 /\ Start(n).written = 0
    BY DEF Start
  <1> QED BY <1>1, <1>2, <1>3, <1>4, <1>5, WholeFacts DEF Starts, Covers, Exactly

LEMMA CutBackFacts ==
    ASSUME NEW file \in NzbFiles, NEW to \in Checkpoints, to.written <= Len(file)
    PROVE  /\ CutBack(file, to) \in NzbFiles
           /\ Starts(file, to) => Exactly(CutBack(file, to), to)
           /\ \A at \in Checkpoints : Starts(file, at) => Starts(CutBack(file, to), at)
           /\ Covers(CutBack(file, to), to)
  <1>1. to.written \in Nat /\ Len(file) \in Nat
    BY CheckpointFacts, UsenetBounds DEF NzbFiles
  <1>2. /\ CutBack(file, to) \in NzbFiles /\ Len(CutBack(file, to)) = to.written
        /\ \A i \in 1 .. to.written : CutBack(file, to)[i] = file[i]
    BY <1>1, CutFacts
  <1>3. ASSUME NEW at \in Checkpoints, Starts(file, at) PROVE Starts(CutBack(file, to), at)
    <2>1. at.written \in Nat
      BY CheckpointFacts, UsenetBounds
    <2> QED BY <1>1, <1>2, <1>3, <2>1 DEF Starts
  <1>4. Starts(file, to) => Exactly(CutBack(file, to), to)
    BY <1>1, <1>2 DEF Starts, Exactly
  <1>5. Covers(CutBack(file, to), to)
    BY <1>1, <1>2 DEF Covers
  <1> QED BY <1>2, <1>3, <1>4, <1>5

------------------------------------------------------------------------------
(* The usenet client: the inductive invariant of whole files *)

\* An engine job has a download to itself, whose file is what its checkpoint
\* says, and is completed only with every segment passed.
EngineSound == \A e \in EngineIds : nntp[e] # Nothing =>
    /\ Exactly(files[nntp[e].dl], nntp[e].at)
    /\ nntp[e].state = "completed" => ~nntp[e].at.broken /\ nntp[e].at.passed = Segments
    /\ \A f \in EngineIds : nntp[f] # Nothing /\ nntp[f].dl = nntp[e].dl => e = f

\* The document never has a download's checkpoint wrong; the id it has for it
\* is no earlier than its rank, so that no recovery finds it taken, and is that
\* of its own engine job or of none.
DocSound == \A n \in Nzbs : nzbDoc.jobs[n] # Nothing =>
    /\ Starts(files[n], nzbDoc.jobs[n].at)
    /\ Rank(nzbDoc.jobs, n) <= nzbDoc.jobs[n].eid
    /\ InStep => nzbDoc.jobs[n].eid <= handed
    /\ nntp[nzbDoc.jobs[n].eid] # Nothing => nntp[nzbDoc.jobs[n].eid].dl = n
RankSound == InStep => Rank(nzbDoc.jobs, MaxNzbs) <= handed

\* While the engine has the download its file reaches the document's checkpoint,
\* but for a retry that has cut the file and has still to write; the worker does
\* not know the id of that retry yet.
Held(n) == \E e \in EngineIds : nntp[e] # Nothing /\ nntp[e].dl = n
Unseen(e) == worker # Nothing => \A p \in worker.seen : p[2] # e
Window(n) == /\ control # Nothing /\ control.op = "retry" /\ control.at = "write"
             /\ control.number = n /\ Unseen(control.job.eid)
AheadSound == \A n \in Nzbs :
    nzbDoc.jobs[n] # Nothing /\ Held(n) => Covers(files[n], nzbDoc.jobs[n].at) \/ Window(n)

\* What an operation will write is as true as what it has read, and has the id
\* of the document; but for a retry, whose id is later than any other.
Fresh == worker # Nothing => \A p \in worker.seen : p[2] <= handed
Retried == control.op = "retry" /\ control.at = "write"
ControlSound == AskingJob =>
    LET n == control.number
        j == control.job
    IN  /\ control.op \notin {"remove", "delete"} =>
              Starts(files[n], j.at) /\ (Held(n) => Covers(files[n], j.at))
        /\ Retried => /\ nntp[j.eid] # Nothing /\ nntp[j.eid].dl = n /\ j.eid <= handed
                      /\ nntp[nzbDoc.jobs[n].eid] = Nothing
                      /\ \A m \in Nzbs : nzbDoc.jobs[m] # Nothing => nzbDoc.jobs[m].eid < j.eid
        /\ ~Retried => j.eid = nzbDoc.jobs[n].eid
        /\ control.at = "engine" => control.op = "resume"
        /\ control.at = "take" => /\ nntp[j.eid] # Nothing
                                  /\ j.at = nzbDoc.jobs[n].at \/ Fresh
Sound == EngineSound /\ DocSound /\ RankSound /\ AheadSound /\ ControlSound

\* Steps after which the engine has the same jobs at the same checkpoints.
SameEngine == \A e \in EngineIds :
    /\ nntp'[e] = Nothing <=> nntp[e] = Nothing
    /\ nntp[e] # Nothing =>
          /\ nntp'[e].dl = nntp[e].dl /\ nntp'[e].at = nntp[e].at
          /\ nntp'[e].state = "completed" => nntp[e].state = "completed"

LEMMA DocFacts ==
    ASSUME UsenetShape, NEW n \in Nzbs, nzbDoc.jobs[n] # Nothing
    PROVE  /\ nzbDoc.jobs[n] \in NzbJobs /\ nzbDoc.jobs[n].eid \in EngineIds
           /\ nzbDoc.jobs[n].at \in Checkpoints /\ files[n] \in NzbFiles
  <1>1. nzbDoc.jobs[n] \in NzbJobs /\ files[n] \in NzbFiles
    BY DEF UsenetShape, DocShape
  <1> QED BY <1>1, NzbJobFacts

LEMMA HeldFacts ==
    ASSUME UsenetShape, NEW e \in EngineIds, nntp[e] # Nothing
    PROVE  /\ nntp[e] \in EngineJobs /\ nntp[e].dl \in Nzbs /\ nntp[e].at \in Checkpoints
           /\ files[nntp[e].dl] \in NzbFiles /\ Held(nntp[e].dl)
  <1>1. nntp[e] \in EngineJobs
    BY DEF UsenetShape, EngineShape
  <1>2. nntp[e].dl \in Nzbs /\ nntp[e].at \in Checkpoints
    BY <1>1, EngineJobFacts
  <1> QED BY <1>1, <1>2 DEF UsenetShape, DocShape, Held

LEMMA EngineFrame ==
    ASSUME UsenetShape, SameEngine, files' = files
    PROVE  /\ EngineSound => EngineSound'
           /\ \A n : Held(n)' <=> Held(n)
  BY DEF SameEngine, EngineSound, Held

LEMMA DocFrame ==
    ASSUME UsenetShape, SameEngine, UNCHANGED <<nzbDoc, files, handed>>, InStep' => InStep,
           DocSound, RankSound
    PROVE  DocSound' /\ RankSound'
  <1>1. ASSUME NEW n \in Nzbs, nzbDoc.jobs[n] # Nothing
        PROVE  nntp'[nzbDoc.jobs[n].eid] # Nothing => nntp'[nzbDoc.jobs[n].eid].dl = n
    BY <1>1, DocFacts DEF SameEngine, DocSound
  <1> QED BY <1>1 DEF DocSound, RankSound

LEMMA AheadFrame ==
    ASSUME UsenetShape, SameEngine, UNCHANGED <<nzbDoc, files>>,
           \A n \in Nzbs : Window(n) => Window(n)', AheadSound
    PROVE  AheadSound'
  BY EngineFrame DEF AheadSound

LEMMA ControlFrame ==
    ASSUME UsenetShape, SameEngine, UNCHANGED <<nzbDoc, files, handed, control>>,
           Fresh => Fresh', ControlSound
    PROVE  ControlSound'
  <1> SUFFICES ASSUME AskingJob PROVE ControlSound'
    BY DEF ControlSound, AskingJob
  <1>1. /\ control.job.eid \in EngineIds /\ control.number \in Nzbs
        /\ nzbDoc.jobs[control.number] # Nothing
    BY AskingFacts
  <1>2. nzbDoc.jobs[control.number].eid \in EngineIds
    BY <1>1, DocFacts
  <1>3. Held(control.number)' <=> Held(control.number)
    BY EngineFrame
  <1> QED BY <1>1, <1>2, <1>3 DEF ControlSound, SameEngine, Retried, AskingJob, Held

\* The worker's list is the same one.
SameList == worker' # Nothing => worker # Nothing /\ worker'.seen = worker.seen

\* A step that leaves everything but the worker and the states of jobs alone.
LEMMA QuietSound ==
    ASSUME UsenetShape, Sound, SameEngine, SameList,
           UNCHANGED <<nzbDoc, files, handed, control, served>>
    PROVE  Sound'
  <1>1. InStep' <=> InStep
    BY DEF InStep
  <1>2. Fresh => Fresh'
    BY DEF SameList, Fresh
  <1>3. \A n \in Nzbs : Window(n) => Window(n)'
    BY DEF SameList, Window, Unseen
  <1> QED BY <1>1, <1>2, <1>3, EngineFrame, DocFrame, AheadFrame, ControlFrame DEF Sound

\* A control operation begins.
LEMMA AsksSound ==
    ASSUME UsenetShape, Sound, SameEngine, UNCHANGED <<nzbDoc, files, handed, served, worker>>,
           \A n \in Nzbs : ~Window(n), InStep,
           AskingJob' => LET n == control'.number
                          j == control'.job
                      IN  /\ n \in Nzbs /\ nzbDoc.jobs[n] # Nothing /\ ~Retried'
                          /\ j.eid = nzbDoc.jobs[n].eid
                          /\ control'.at = "engine" => control'.op = "resume"
                          /\ control'.op \notin {"remove", "delete"} =>
                                Starts(files[n], j.at) /\ (Held(n) => Covers(files[n], j.at))
                          /\ control'.at = "take" => nntp[j.eid] # Nothing /\ j.at = nzbDoc.jobs[n].at
    PROVE  Sound'
  <1>1. EngineSound' /\ DocSound' /\ RankSound'
    BY EngineFrame, DocFrame DEF Sound
  <1>2. AheadSound'
    BY AheadFrame DEF Sound
  <1>3. ControlSound'
    <2> SUFFICES ASSUME AskingJob' PROVE ControlSound'
      BY DEF ControlSound
    <2> DEFINE n == control'.number
               j == control'.job
    <2>1. /\ n \in Nzbs /\ nzbDoc.jobs[n] # Nothing /\ ~Retried'
          /\ j.eid = nzbDoc.jobs[n].eid
          /\ control'.at = "engine" => control'.op = "resume"
          /\ control'.op \notin {"remove", "delete"} =>
                Starts(files[n], j.at) /\ (Held(n) => Covers(files[n], j.at))
          /\ control'.at = "take" => nntp[j.eid] # Nothing /\ j.at = nzbDoc.jobs[n].at
      OBVIOUS
    <2>2. j.eid \in EngineIds
      BY <2>1, DocFacts
    <2>3. nntp[j.eid] # Nothing => nntp'[j.eid] # Nothing
      BY <2>2 DEF SameEngine
    <2>4. (\E e \in EngineIds : nntp'[e] # Nothing /\ nntp'[e].dl = n) => Held(n)
      BY DEF SameEngine, Held
    <2>5. /\ control'.op \notin {"remove", "delete"} =>
                Starts(files'[n], j.at) /\ (Held(n) => Covers(files'[n], j.at))
          /\ j.eid = nzbDoc'.jobs[n].eid /\ ~Retried'
          /\ control'.at = "engine" => control'.op = "resume"
          /\ control'.at = "take" => nntp'[j.eid] # Nothing /\ j.at = nzbDoc'.jobs[n].at
      BY <2>1, <2>3
    <2> QED BY <2>4, <2>5 DEF ControlSound, Held
  <1> QED BY <1>1, <1>2, <1>3 DEF Sound

\* A download the engine is working on is not in the window of a retry.
LEMMA RunningCovered ==
    ASSUME UsenetShape, Sound, fetching # Nothing
    PROVE  ~Window(Running.dl)
  <1> SUFFICES ASSUME Window(Running.dl) PROVE FALSE
    OBVIOUS
  <1>1. AskingJob /\ Retried /\ control.number = Running.dl /\ Unseen(control.job.eid)
    BY DEF Window, AskingJob, Retried, JobOps
  <1>2. /\ control.job.eid \in EngineIds /\ nntp[control.job.eid] # Nothing
        /\ nntp[control.job.eid].dl = Running.dl
    BY <1>1, AskingFacts DEF Sound, ControlSound
  <1>3. /\ fetching.step[2] \in EngineIds /\ nntp[fetching.step[2]] # Nothing
        /\ worker # Nothing /\ fetching.step \in worker.seen
    BY FetchFacts DEF Running, UsenetShape, WorkerShape
  <1>4. control.job.eid = fetching.step[2]
    BY <1>2, <1>3 DEF Running, Sound, EngineSound
  <1> QED BY <1>1, <1>3, <1>4 DEF Unseen

\* The running step changes its own job and its own file.
LEMMA StepSound ==
    ASSUME UsenetShape, Sound, fetching # Nothing, NEW job \in EngineJobs, NEW file \in NzbFiles,
           job.dl = Running.dl, nntp' = [nntp EXCEPT ![fetching.step[2]] = job],
           files' = [files EXCEPT ![Running.dl] = file], Exactly(file, job.at),
           job.state = "completed" => ~job.at.broken /\ job.at.passed = Segments,
           \A at \in Checkpoints :
              Starts(files[Running.dl], at) /\ Covers(files[Running.dl], at)
                 => Starts(file, at) /\ Covers(file, at),
           SameList, UNCHANGED <<nzbDoc, handed, control, served>>
    PROVE  Sound'
  <1> DEFINE e == fetching.step[2]
             n == Running.dl
  <1>1. /\ e \in EngineIds /\ n \in Nzbs /\ nntp[e] # Nothing /\ nntp[e].dl = n /\ job # Nothing
    BY FetchFacts, EngineJobFacts DEF Running
  <1>2. /\ \A x \in EngineIds : nntp'[x] = IF x = e THEN job ELSE nntp[x]
        /\ \A m \in Nzbs : files'[m] = IF m = n THEN file ELSE files[m]
    BY DEF UsenetShape, EngineShape, DocShape
  <1>3. /\ \A x \in EngineIds : nntp'[x] = Nothing <=> nntp[x] = Nothing
        /\ \A x \in EngineIds : nntp[x] # Nothing => nntp'[x].dl = nntp[x].dl
    BY <1>1, <1>2
  <1>4. \A x \in EngineIds : nntp[x] # Nothing /\ nntp[x].dl = n => x = e
    BY <1>1 DEF Sound, EngineSound
  <1>5. \A m : Held(m)' <=> Held(m)
    BY <1>3 DEF Held
  <1>6. Held(n) /\ ~Window(n)
    BY <1>1, RunningCovered DEF Held
  <1> HIDE DEF e, n
  <1>8. EngineSound'
    <2> SUFFICES ASSUME NEW x \in EngineIds, nntp'[x] # Nothing
                 PROVE  /\ Exactly(files'[nntp'[x].dl], nntp'[x].at)
                        /\ nntp'[x].state = "completed" => ~nntp'[x].at.broken /\ nntp'[x].at.passed = Segments
                        /\ \A f \in EngineIds : nntp'[f] # Nothing /\ nntp'[f].dl = nntp'[x].dl => x = f
      BY DEF EngineSound
    <2>1. \A f \in EngineIds : nntp'[f] # Nothing /\ nntp'[f].dl = nntp'[x].dl => x = f
      BY <1>3 DEF Sound, EngineSound
    <2>2. CASE x = e
      BY <1>1, <1>2, <2>1, <2>2 DEF n
    <2>3. CASE x # e
      <3>1. nntp'[x] = nntp[x] /\ nntp[x] # Nothing /\ nntp[x].dl # n
        BY <1>2, <1>4, <2>3
      <3>2. nntp[x].dl \in Nzbs
        BY <3>1, HeldFacts
      <3>3. files'[nntp[x].dl] = files[nntp[x].dl]
        BY <1>2, <3>1, <3>2
      <3> QED BY <2>1, <3>1, <3>3 DEF Sound, EngineSound
    <2> QED BY <2>2, <2>3
  <1>9. DocSound' /\ RankSound' /\ AheadSound'
    <2>1. InStep' <=> InStep
      BY DEF InStep
    <2>2. ASSUME NEW m \in Nzbs, nzbDoc.jobs[m] # Nothing
          PROVE  /\ Starts(files'[m], nzbDoc.jobs[m].at)
                 /\ nntp'[nzbDoc.jobs[m].eid] # Nothing => nntp'[nzbDoc.jobs[m].eid].dl = m
                 /\ Held(m) => Covers(files'[m], nzbDoc.jobs[m].at) \/ Window(m)
      <3>1. nzbDoc.jobs[m].eid \in EngineIds /\ nzbDoc.jobs[m].at \in Checkpoints
        BY <2>2, DocFacts
      <3>2. /\ Starts(files[m], nzbDoc.jobs[m].at)
            /\ nntp[nzbDoc.jobs[m].eid] # Nothing => nntp[nzbDoc.jobs[m].eid].dl = m
            /\ Held(m) => Covers(files[m], nzbDoc.jobs[m].at) \/ Window(m)
        BY <2>2 DEF Sound, DocSound, AheadSound
      <3>3. nntp'[nzbDoc.jobs[m].eid] # Nothing => nntp'[nzbDoc.jobs[m].eid].dl = m
        BY <1>3, <3>1, <3>2
      <3>4. CASE m = n
        BY <1>2, <1>6, <3>1, <3>2, <3>3, <3>4 DEF n
      <3>5. CASE m # n
        BY <1>2, <3>2, <3>3, <3>5
      <3> QED BY <3>4, <3>5
    <2>3. \A m \in Nzbs : Window(m) => Window(m)'
      BY DEF SameList, Window, Unseen
    <2>4. DocSound' /\ RankSound'
      BY <2>1, <2>2 DEF Sound, DocSound, RankSound
    <2>5. AheadSound'
      BY <1>5, <2>2, <2>3 DEF AheadSound
    <2> QED BY <2>4, <2>5
  <1>10. ControlSound'
    <2> SUFFICES ASSUME AskingJob PROVE ControlSound'
      BY DEF ControlSound, AskingJob
    <2> DEFINE m == control.number
               j == control.job
    <2>1. j.eid \in EngineIds /\ m \in Nzbs /\ nzbDoc.jobs[m] # Nothing /\ j.at \in Checkpoints
      BY AskingFacts
    <2>2. nzbDoc.jobs[m].eid \in EngineIds
      BY <2>1, DocFacts
    <2>3. Fresh => Fresh'
      BY DEF SameList, Fresh
    <2>4. ASSUME control.op \notin {"remove", "delete"}
          PROVE  Starts(files'[m], j.at) /\ (Held(m) => Covers(files'[m], j.at))
      <3>1. Starts(files[m], j.at) /\ (Held(m) => Covers(files[m], j.at))
        BY <2>4 DEF Sound, ControlSound
      <3>2. CASE m = n
        BY <1>2, <1>6, <2>1, <3>1, <3>2 DEF n
      <3>3. CASE m # n
        BY <1>2, <2>1, <3>1, <3>3
      <3> QED BY <3>2, <3>3
    <2> QED BY <1>3, <1>5, <2>1, <2>2, <2>3, <2>4 DEF Sound, ControlSound, Retried, AskingJob
  <1> QED BY <1>8, <1>9, <1>10 DEF Sound

------------------------------------------------------------------------------
(* The usenet client: every step keeps the files whole *)

LEMMA RankSame ==
    ASSUME NEW jobs, NEW more, NEW n \in Nat,
           \A k \in 1 .. n : jobs[k] = Nothing <=> more[k] = Nothing
    PROVE  Rank(jobs, n) = Rank(more, n)
  <1>1. Listed(jobs, n) = Listed(more, n)
    BY DEF Listed
  <1> QED BY <1>1 DEF Rank

LEMMA StepEndsList == ASSUME UsenetShape, fetching # Nothing, StepEnds PROVE SameList
  <1>1. worker \in Rounds /\ worker # Nothing
    BY FetchFacts
  <1>2. worker'.seen = worker.seen
    BY <1>1 DEF StepEnds, Rounds
  <1> QED BY <1>1, <1>2 DEF SameList

LEMMA SameFile ==
    ASSUME UsenetShape, files' = files, NEW n \in Nzbs
    PROVE  files' = [files EXCEPT ![n] = files[n]] /\ files[n] \in NzbFiles
  BY DEF UsenetShape, DocShape

\* The engine job of the running step, and its file.
LEMMA RunningSound ==
    ASSUME UsenetShape, Sound, fetching # Nothing
    PROVE  /\ Running \in EngineJobs /\ Running.dl \in Nzbs /\ Running.at \in Checkpoints
           /\ files[Running.dl] \in NzbFiles /\ fetching.step[2] \in EngineIds
           /\ Exactly(files[Running.dl], Running.at)
           /\ Running.state = "completed" => ~Running.at.broken /\ Running.at.passed = Segments
           /\ nntp = [nntp EXCEPT ![fetching.step[2]] = Running]
  <1>1. fetching.step[2] \in EngineIds /\ Running \in EngineJobs /\ Running # Nothing
    BY FetchFacts
  <1> QED BY <1>1, HeldFacts DEF Running, Sound, EngineSound, UsenetShape, EngineShape

LEMMA StepAbortedSound == ASSUME UsenetShape, Sound, StepAborted PROVE Sound'
  <1>1. fetching # Nothing /\ SameList /\ UNCHANGED <<nzbDoc, nntp, handed, control, served>>
    BY StepEndsList DEF StepAborted
  <1>2. CASE UNCHANGED files
    BY <1>1, <1>2, QuietSound DEF SameEngine
  <1>3. CASE Running.at.broken /\ files' = [files EXCEPT ![Running.dl] = Whole]
    <2>1. /\ Running \in EngineJobs /\ Running.at \in Checkpoints
          /\ Running.state = "completed" => ~Running.at.broken /\ Running.at.passed = Segments
          /\ nntp = [nntp EXCEPT ![fetching.step[2]] = Running]
      BY <1>1, RunningSound
    <2>2. Whole \in NzbFiles /\ Exactly(Whole, Running.at)
      BY <1>3, WholeFacts DEF Exactly
    <2>3. \A at \in Checkpoints : Starts(files[Running.dl], at) => Starts(Whole, at) /\ Covers(Whole, at)
      BY MendedFacts
    <2> QED BY <1>1, <1>3, <2>1, <2>2, <2>3, StepSound
  <1> QED BY <1>2, <1>3 DEF StepAborted

LEMMA ArticleSound == ASSUME UsenetShape, Sound, ArticleComes PROVE Sound'
  <1>1. /\ fetching # Nothing /\ Running.at.passed < Segments
        /\ UNCHANGED <<nzbDoc, handed, control, served>>
    BY DEF ArticleComes
  <1>2. SameList
    BY <1>1, StepEndsList DEF ArticleComes, SameList
  <1>3. /\ Running \in EngineJobs /\ Running.dl \in Nzbs /\ Running.at \in Checkpoints
        /\ files[Running.dl] \in NzbFiles
        /\ Exactly(files[Running.dl], Running.at) /\ Running.state # "completed"
    BY <1>1, RunningSound, CheckpointFacts, UsenetBounds
  <1>4. /\ Appended(Running.at) \in Checkpoints /\ Missed(Running.at) \in Checkpoints
        /\ Running.at.passed + 1 \in 1 .. Segments
    BY <1>1, <1>3, CheckpointFacts, FetchFacts, UsenetBounds
  <1>5. CASE /\ files' = [files EXCEPT ![Running.dl] = Append(@, Running.at.passed + 1)]
             /\ BecomesOf([Running EXCEPT !.at = Appended(Running.at)])
    <2> DEFINE job == Job(Running.dl, Appended(Running.at), Running.state)
               file == Append(files[Running.dl], Running.at.passed + 1)
    <2>1. nntp' = [nntp EXCEPT ![fetching.step[2]] = job]
      BY <1>3, <1>5, EngineJobFacts DEF BecomesOf
    <2>2. job \in EngineJobs /\ job.dl = Running.dl /\ job.at = Appended(Running.at)
          /\ job.state # "completed"
      BY <1>3, <1>4, EngineJobFacts, JobFacts
    <2>3. files' = [files EXCEPT ![Running.dl] = file]
      BY <1>5
    <2>4. file \in NzbFiles
      BY <1>3, <1>4, AppendFacts
    <2>5. Exactly(file, Appended(Running.at))
      BY <1>1, <1>3, NextFacts
    <2>6. \A at \in Checkpoints : Starts(files[Running.dl], at) /\ Covers(files[Running.dl], at)
             => Starts(file, at) /\ Covers(file, at)
      BY <1>3, <1>4, GrownFacts
    <2> HIDE DEF job, file
    <2> QED BY <1>1, <1>2, <2>1, <2>2, <2>3, <2>4, <2>5, <2>6, StepSound
  <1>6. CASE BecomesOf([Running EXCEPT !.at = Missed(Running.at)]) /\ UNCHANGED files
    <2> DEFINE job == Job(Running.dl, Missed(Running.at), Running.state)
    <2>1. nntp' = [nntp EXCEPT ![fetching.step[2]] = job]
      BY <1>3, <1>6, EngineJobFacts DEF BecomesOf
    <2>2. job \in EngineJobs /\ job.dl = Running.dl /\ job.at = Missed(Running.at)
          /\ job.state # "completed"
      BY <1>3, <1>4, EngineJobFacts, JobFacts
    <2>3. files' = [files EXCEPT ![Running.dl] = files[Running.dl]]
      BY <1>3, <1>6, SameFile
    <2>4. Exactly(files[Running.dl], Missed(Running.at))
      BY <1>3, MendedFacts
    <2> HIDE DEF job
    <2> QED BY <1>1, <1>2, <1>3, <2>1, <2>2, <2>3, <2>4, StepSound
  <1>7. CASE BecomesOf([Running EXCEPT !.state = "failed"]) /\ UNCHANGED files
    <2> DEFINE job == Job(Running.dl, Running.at, "failed")
    <2>1. nntp' = [nntp EXCEPT ![fetching.step[2]] = job]
      BY <1>3, <1>7, EngineJobFacts DEF BecomesOf
    <2>2. job \in EngineJobs /\ job.dl = Running.dl /\ job.at = Running.at
          /\ job.state # "completed"
      BY <1>3, EngineJobFacts, JobFacts
    <2>3. files' = [files EXCEPT ![Running.dl] = files[Running.dl]]
      BY <1>3, <1>7, SameFile
    <2> HIDE DEF job
    <2> QED BY <1>1, <1>2, <1>3, <2>1, <2>2, <2>3, StepSound
  <1> QED BY <1>5, <1>6, <1>7 DEF ArticleComes

LEMMA FinalizeSound == ASSUME UsenetShape, Sound, Finalize PROVE Sound'
  <1>1. /\ fetching # Nothing /\ Running.at.passed = Segments /\ SameList
        /\ UNCHANGED <<nzbDoc, handed, control, served>>
    BY StepEndsList DEF Finalize
  <1>2. /\ Running \in EngineJobs /\ Running.dl \in Nzbs /\ Running.at \in Checkpoints
        /\ files[Running.dl] \in NzbFiles /\ Exactly(files[Running.dl], Running.at)
    BY <1>1, RunningSound
  <1>3. ASSUME NEW state \in {"completed", "failed"}, UNCHANGED files,
               BecomesOf([Running EXCEPT !.state = state]),
               state = "completed" => ~Running.at.broken
        PROVE  Sound'
    <2> DEFINE job == Job(Running.dl, Running.at, state)
    <2>1. nntp' = [nntp EXCEPT ![fetching.step[2]] = job]
      BY <1>2, <1>3, EngineJobFacts DEF BecomesOf
    <2>2. job \in EngineJobs /\ job.dl = Running.dl /\ job.at = Running.at /\ job.state = state
      BY <1>2, EngineJobFacts, JobFacts
    <2>3. files' = [files EXCEPT ![Running.dl] = files[Running.dl]]
      BY <1>2, <1>3, SameFile
    <2> HIDE DEF job
    <2> QED BY <1>1, <1>2, <1>3, <2>1, <2>2, <2>3, StepSound
  <1>4. CASE /\ files' = [files EXCEPT ![Running.dl] = Whole]
             /\ BecomesOf(Job(Running.dl, Repaired(Running.at), "completed"))
    <2> DEFINE job == Job(Running.dl, Repaired(Running.at), "completed")
    <2>1. nntp' = [nntp EXCEPT ![fetching.step[2]] = job]
      BY <1>4 DEF BecomesOf
    <2>2. job \in EngineJobs /\ job.dl = Running.dl /\ job.at = Repaired(Running.at)
      BY <1>1, <1>2, CheckpointFacts, JobFacts
    <2>3. ~Repaired(Running.at).broken /\ Repaired(Running.at).passed = Segments
      BY <1>1 DEF Repaired
    <2>4. Whole \in NzbFiles /\ Exactly(Whole, Repaired(Running.at))
      BY <1>1, <1>2, WholeFacts, MendedFacts
    <2>5. \A at \in Checkpoints : Starts(files[Running.dl], at) => Starts(Whole, at) /\ Covers(Whole, at)
      BY MendedFacts
    <2> HIDE DEF job
    <2> QED BY <1>1, <1>4, <2>1, <2>2, <2>3, <2>4, <2>5, StepSound
  <1> QED BY <1>3, <1>4 DEF Finalize

LEMMA WorkerStartsSound == ASSUME UsenetShape, Sound, WorkerStarts PROVE Sound'
  <1> DEFINE moving == {<<n, nzbDoc.jobs[n].eid>> : n \in
                          {m \in Nzbs : nzbDoc.jobs[m] # Nothing
                              /\ nntp[nzbDoc.jobs[m].eid] # Nothing
                              /\ nntp[nzbDoc.jobs[m].eid].state \in {"queued", "downloading"}}}
  <1>1. /\ worker' = [todo |-> moving, seen |-> moving]
        /\ UNCHANGED <<nzbDoc, files, nntp, handed, control, served>>
    BY DEF WorkerStarts
  <1>2. \A p \in moving : \E n \in Nzbs :
            nzbDoc.jobs[n] # Nothing /\ nntp[nzbDoc.jobs[n].eid] # Nothing /\ p[2] = nzbDoc.jobs[n].eid
    OBVIOUS
  <1> HIDE DEF moving
  <1>3. worker'.seen = moving /\ SameEngine /\ (InStep' <=> InStep)
    BY <1>1 DEF SameEngine, InStep
  <1>4. Fresh'
    <2> SUFFICES ASSUME NEW p \in moving PROVE p[2] <= handed
      BY <1>1, <1>3 DEF Fresh
    <2>1. PICK n \in Nzbs : nzbDoc.jobs[n] # Nothing /\ nntp[nzbDoc.jobs[n].eid] # Nothing
                            /\ p[2] = nzbDoc.jobs[n].eid
      BY <1>2
    <2>2. nzbDoc.jobs[n].eid \in EngineIds
      BY <2>1, DocFacts
    <2> QED BY <2>1, <2>2 DEF UsenetShape, EngineShape
  <1>5. ASSUME NEW n \in Nzbs, Window(n) PROVE Window(n)'
    <2>1. AskingJob /\ Retried
      BY <1>5 DEF Window, AskingJob, Retried, JobOps
    <2>2. \A m \in Nzbs : nzbDoc.jobs[m] # Nothing => nzbDoc.jobs[m].eid < control.job.eid
      BY <2>1 DEF Sound, ControlSound
    <2>3. ASSUME NEW p \in moving PROVE p[2] # control.job.eid
      <3>1. PICK m \in Nzbs : nzbDoc.jobs[m] # Nothing /\ p[2] = nzbDoc.jobs[m].eid
        BY <1>2
      <3>2. nzbDoc.jobs[m].eid \in Nat
        BY <3>1, DocFacts DEF EngineIds
      <3> QED BY <2>2, <3>1, <3>2
    <2> QED BY <1>1, <1>3, <1>5, <2>3 DEF Window, Unseen
  <1> QED BY <1>1, <1>3, <1>4, <1>5, EngineFrame, DocFrame, AheadFrame, ControlFrame DEF Sound

LEMMA WorkerStepsSound == ASSUME UsenetShape, Sound, NEW step \in Pairs, WorkerSteps(step) PROVE Sound'
  <1>1. /\ worker \in Rounds /\ worker # Nothing /\ step[2] \in EngineIds
        /\ UNCHANGED <<nzbDoc, files, handed, control, served>>
    BY DEF WorkerSteps, UsenetShape, WorkerShape, Pairs
  <1>2. SameList
    <2>1. worker' = worker \/ worker' = [worker EXCEPT !.todo = @ \ {step}]
      BY DEF WorkerSteps
    <2> QED BY <1>1, <2>1 DEF SameList, Rounds
  <1>3. SameEngine
    <2>1. CASE UNCHANGED nntp
      BY <2>1 DEF SameEngine
    <2>2. CASE nntp[step[2]] # Nothing /\ nntp' = Turned(step[2], "downloading")
      <3>1. nntp[step[2]] \in EngineJobs
        BY <1>1, <2>2, HeldFacts
      <3>2. \A e \in EngineIds : nntp'[e] =
               IF e = step[2] THEN Job(nntp[e].dl, nntp[e].at, "downloading") ELSE nntp[e]
        BY <2>2 DEF Turned, UsenetShape, EngineShape
      <3> QED BY <2>2, <3>1, <3>2, EngineJobFacts, JobFacts DEF SameEngine
    <2> QED BY <2>1, <2>2 DEF WorkerSteps
  <1> QED BY <1>1, <1>2, <1>3, QuietSound

LEMMA WorkerMergesSound == ASSUME UsenetShape, Sound, WorkerMerges PROVE Sound'
  <1> DEFINE jobs == Merged(nzbDoc.jobs)
  <1>1. /\ nzbDoc'.jobs = jobs /\ worker' = Nothing
        /\ UNCHANGED <<files, nntp, handed, control, served>>
    BY DEF WorkerMerges, UsenetShape, DocShape
  <1>2. ASSUME NEW n \in Nzbs
        PROVE  /\ nzbDoc.jobs[n] = Nothing <=> jobs[n] = Nothing
               /\ nzbDoc.jobs[n] # Nothing =>
                    /\ jobs[n].eid = nzbDoc.jobs[n].eid
                    /\ Starts(files[n], jobs[n].at)
                    /\ jobs[n].at = nzbDoc.jobs[n].at \/ Covers(files[n], jobs[n].at)
    <2>1. CASE nzbDoc.jobs[n] = Nothing
      BY <2>1 DEF Merged
    <2>2. CASE nzbDoc.jobs[n] # Nothing
      <3>1. /\ jobs[n] \in NzbJobs /\ jobs[n].eid = nzbDoc.jobs[n].eid
            /\ \/ jobs[n] = nzbDoc.jobs[n]
               \/ /\ nntp[nzbDoc.jobs[n].eid] # Nothing
                  /\ jobs[n].at = nntp[nzbDoc.jobs[n].eid].at
        BY <2>2, MergedFacts
      <3> HIDE DEF jobs
      <3>2. jobs[n] # Nothing
        BY <3>1, RecordFacts
      <3>3. CASE jobs[n] = nzbDoc.jobs[n]
        BY <2>2, <3>1, <3>2, <3>3 DEF Sound, DocSound
      <3>4. CASE /\ nntp[nzbDoc.jobs[n].eid] # Nothing
                 /\ jobs[n].at = nntp[nzbDoc.jobs[n].eid].at
        <4>1. nzbDoc.jobs[n].eid \in EngineIds /\ nntp[nzbDoc.jobs[n].eid].dl = n
          BY <2>2, <3>4, DocFacts DEF Sound, DocSound
        <4>2. Exactly(files[n], jobs[n].at) /\ jobs[n].at \in Checkpoints /\ files[n] \in NzbFiles
          BY <3>4, <4>1, HeldFacts DEF Sound, EngineSound
        <4> QED BY <2>2, <3>1, <3>2, <4>2, ExactFacts
      <3> QED BY <3>1, <3>3, <3>4
    <2> QED BY <2>1, <2>2
  <1> HIDE DEF jobs
  <1>3. \A n \in 0 .. MaxNzbs : Rank(jobs, n) = Rank(nzbDoc.jobs, n)
    <2> SUFFICES ASSUME NEW n \in 0 .. MaxNzbs PROVE Rank(jobs, n) = Rank(nzbDoc.jobs, n)
      OBVIOUS
    <2>1. n \in Nat /\ \A k \in 1 .. n : k \in Nzbs
      BY UsenetBounds DEF Nzbs
    <2>2. \A k \in 1 .. n : jobs[k] = Nothing <=> nzbDoc.jobs[k] = Nothing
      BY <1>2, <2>1
    <2> QED BY <2>1, <2>2, RankSame
  <1>4. InStep' <=> InStep
    BY <1>1 DEF InStep
  <1>5. EngineSound' /\ \A n : Held(n)' <=> Held(n)
    BY <1>1, EngineFrame DEF SameEngine, Sound
  <1>6. DocSound' /\ RankSound'
    <2>1. \A n \in Nzbs : n \in 0 .. MaxNzbs
      BY UsenetBounds DEF Nzbs
    <2>2. MaxNzbs \in 0 .. MaxNzbs
      BY UsenetBounds
    <2> QED BY <1>1, <1>2, <1>3, <1>4, <2>1, <2>2 DEF Sound, DocSound, RankSound
  <1>7. AheadSound'
    <2>1. \A n \in Nzbs : Window(n) => Window(n)'
      BY <1>1 DEF Window, Unseen
    <2> QED BY <1>1, <1>2, <1>5, <2>1 DEF Sound, AheadSound
  <1>8. ControlSound'
    <2> SUFFICES ASSUME AskingJob PROVE ControlSound'
      BY <1>1 DEF ControlSound, AskingJob
    <2>1. control.number \in Nzbs /\ nzbDoc.jobs[control.number] # Nothing
      BY AskingFacts
    <2>2. Fresh'
      BY <1>1 DEF Fresh
    <2> QED BY <1>1, <1>2, <1>5, <2>1, <2>2 DEF Sound, ControlSound, AskingJob, Retried
  <1> QED BY <1>5, <1>6, <1>7, <1>8 DEF Sound

LEMMA AddNzbSound == ASSUME UsenetShape, Sound, AddNzb PROVE Sound'
  <1> DEFINE n == nzbDoc.seq + 1
             e == handed + 1
             engineJob == Job(n, Start(n), "queued")
             job == [item |-> control.item, eid |-> e, at |-> Start(n), paused |-> FALSE]
  <1>1. /\ n \in Nzbs /\ e \in EngineIds /\ handed' = e
        /\ nzbDoc.jobs[n] = Nothing /\ files[n] = <<>> /\ nntp[e] = Nothing
        /\ nntp' = [nntp EXCEPT ![e] = engineJob] /\ engineJob # Nothing
        /\ nzbDoc'.jobs = [nzbDoc.jobs EXCEPT ![n] = job] /\ job \in NzbJobs
        /\ InStep /\ served /\ ~AskingJob
    BY InsertedFacts
  <1>2. files' = files /\ control' = Nothing /\ served' = served
    BY DEF AddNzb
  <1>3. /\ engineJob.dl = n /\ engineJob.at = Start(n) /\ engineJob.state = "queued"
        /\ job.at = Start(n) /\ job.eid = e /\ job # Nothing
    <2>1. job.at = Start(n) /\ job.eid = e
      OBVIOUS
    <2>2. engineJob.dl = n /\ engineJob.at = Start(n) /\ engineJob.state = "queued"
      BY JobFacts
    <2> HIDE DEF job, engineJob
    <2>3. job # Nothing
      BY <1>1, RecordFacts
    <2> QED BY <2>1, <2>2, <2>3
  <1>4. /\ Exactly(<<>>, Start(n)) /\ Starts(<<>>, Start(n)) /\ Covers(<<>>, Start(n))
    <2>1. <<>> \in NzbFiles /\ Start(n) \in Checkpoints /\ Exactly(<<>>, Start(n))
      BY <1>1, StartFacts, MendedFacts DEF NzbFiles
    <2> QED BY <2>1, ExactFacts
  <1>5. /\ nzbDoc.seq \in Nat /\ handed \in Nat /\ MaxNzbs \in Nat
        /\ \A m \in Nzbs : m \in Nat /\ m <= MaxNzbs /\ (nzbDoc.jobs[m] # Nothing => m <= nzbDoc.seq)
        /\ \A x \in EngineIds : x \in Nat /\ (nntp[x] # Nothing => x <= handed /\ nntp[x].dl <= nzbDoc.seq)
    BY UsenetBounds DEF UsenetShape, DocShape, EngineShape, Nzbs, EngineIds
  <1>6. /\ \A m \in Nzbs : nzbDoc'.jobs[m] = IF m = n THEN job ELSE nzbDoc.jobs[m]
        /\ \A x \in EngineIds : nntp'[x] = IF x = e THEN engineJob ELSE nntp[x]
    BY <1>1 DEF UsenetShape, DocShape, EngineShape
  <1>7. \A x \in EngineIds : nntp[x] # Nothing => x # e /\ nntp[x].dl # n /\ nntp[x].dl \in Nzbs
    BY <1>1, <1>5, HeldFacts
  <1> HIDE DEF engineJob, job
  <1>8. EngineSound'
    <2> HIDE DEF e, n
    <2>1. ASSUME NEW x \in EngineIds, nntp'[x] # Nothing
          PROVE  /\ Exactly(files[nntp'[x].dl], nntp'[x].at)
                 /\ nntp'[x].state = "completed" => ~nntp'[x].at.broken /\ nntp'[x].at.passed = Segments
                 /\ \A f \in EngineIds : nntp'[f] # Nothing /\ nntp'[f].dl = nntp'[x].dl => x = f
      <3>1. CASE x = e
        BY <1>1, <1>3, <1>4, <1>6, <1>7, <3>1
      <3>2. CASE x # e
        BY <1>3, <1>6, <1>7, <2>1, <3>2 DEF Sound, EngineSound
      <3> QED BY <3>1, <3>2
    <2> QED BY <1>2, <2>1 DEF EngineSound
  <1>9. ASSUME NEW m \in Nzbs, m <= nzbDoc.seq
        PROVE  Rank(nzbDoc'.jobs, m) <= Rank(nzbDoc.jobs, m)
    <2>1. m \in Nat /\ \A k \in 1 .. m : k \in Nzbs /\ k # n
      BY <1>5, <1>9 DEF Nzbs
    <2>2. \A k \in 1 .. m : nzbDoc'.jobs[k] # Nothing => k <= m /\ nzbDoc.jobs[k] # Nothing
      BY <1>6, <2>1
    <2> HIDE DEF n
    <2> QED BY <2>1, <2>2, RankGrows
  <1>10. Rank(nzbDoc'.jobs, n) <= e
    <2>1. Rank(nzbDoc'.jobs, n) = Rank(nzbDoc'.jobs, nzbDoc.seq) + 1
      BY <1>1, <1>3, <1>5, <1>6, RankFacts
    <2>2. \A k \in 1 .. nzbDoc.seq : k \in Nzbs /\ k # n /\ k <= MaxNzbs
      BY <1>1, <1>5 DEF Nzbs
    <2>3. \A k \in 1 .. nzbDoc.seq : nzbDoc'.jobs[k] # Nothing => k <= MaxNzbs /\ nzbDoc.jobs[k] # Nothing
      BY <1>6, <2>2
    <2>4. Rank(nzbDoc'.jobs, nzbDoc.seq) <= Rank(nzbDoc.jobs, MaxNzbs)
      BY <1>5, <2>3, RankGrows
    <2>5. Rank(nzbDoc.jobs, MaxNzbs) <= handed
      BY <1>1 DEF Sound, RankSound
    <2> QED BY <1>5, <2>1, <2>4, <2>5, RankFacts
  <1>11. Rank(nzbDoc'.jobs, MaxNzbs) <= e
    <2>1. \A k \in 1 .. MaxNzbs : nzbDoc'.jobs[k] # Nothing => k <= n /\ nzbDoc'.jobs[k] # Nothing
      BY <1>5, <1>6 DEF Nzbs
    <2>2. Rank(nzbDoc'.jobs, MaxNzbs) <= Rank(nzbDoc'.jobs, n)
      BY <1>5, <2>1, RankGrows
    <2> QED BY <1>5, <1>10, <2>2, RankFacts
  <1>12. DocSound'
    <2>1. ASSUME NEW m \in Nzbs, nzbDoc'.jobs[m] # Nothing
          PROVE  /\ Starts(files[m], nzbDoc'.jobs[m].at)
                 /\ Rank(nzbDoc'.jobs, m) <= nzbDoc'.jobs[m].eid
                 /\ nzbDoc'.jobs[m].eid <= handed'
                 /\ nntp'[nzbDoc'.jobs[m].eid] # Nothing => nntp'[nzbDoc'.jobs[m].eid].dl = m
      <3>1. CASE m = n
        BY <1>1, <1>3, <1>4, <1>5, <1>6, <1>10, <3>1
      <3>2. CASE m # n
        <4>1. nzbDoc'.jobs[m] = nzbDoc.jobs[m] /\ nzbDoc.jobs[m] # Nothing
          BY <1>6, <2>1, <3>2
        <4>2. /\ Starts(files[m], nzbDoc.jobs[m].at) /\ Rank(nzbDoc.jobs, m) <= nzbDoc.jobs[m].eid
              /\ nzbDoc.jobs[m].eid <= handed
              /\ nntp[nzbDoc.jobs[m].eid] # Nothing => nntp[nzbDoc.jobs[m].eid].dl = m
          BY <1>1, <4>1 DEF Sound, DocSound
        <4>3. nzbDoc.jobs[m].eid \in EngineIds
          BY <4>1, DocFacts
        <4>4. Rank(nzbDoc'.jobs, m) <= nzbDoc.jobs[m].eid
          BY <1>5, <1>9, <4>1, <4>2, <4>3, RankFacts
        <4>5. nzbDoc.jobs[m].eid # e /\ nzbDoc.jobs[m].eid <= handed'
          BY <1>1, <1>5, <4>2, <4>3
        <4> HIDE DEF e
        <4> QED BY <1>6, <4>1, <4>2, <4>3, <4>4, <4>5
      <3> QED BY <3>1, <3>2
    <2> QED BY <1>2, <2>1 DEF DocSound
  <1>13. RankSound'
    BY <1>1, <1>11 DEF RankSound
  <1>14. AheadSound'
    <2> SUFFICES ASSUME NEW m \in Nzbs, nzbDoc'.jobs[m] # Nothing, Held(m)'
                 PROVE  Covers(files'[m], nzbDoc'.jobs[m].at)
      BY DEF AheadSound
    <2> HIDE DEF e, n
    <2>1. CASE m = n
      BY <1>1, <1>2, <1>3, <1>4, <1>6, <2>1
    <2>2. CASE m # n
      <3>1. Held(m)
        BY <1>3, <1>6, <2>2 DEF Held
      <3>2. ~Window(m)
        BY <1>1 DEF Window, AskingJob, JobOps
      <3> QED BY <1>2, <1>6, <2>2, <3>1, <3>2 DEF Sound, AheadSound
    <2> QED BY <2>1, <2>2
  <1>15. ControlSound'
    BY <1>2 DEF ControlSound, AskingJob
  <1> QED BY <1>8, <1>12, <1>13, <1>14, <1>15 DEF Sound

LEMMA WriteSound == ASSUME UsenetShape, Sound, WriteNzb PROVE Sound'
  <1> DEFINE n == control.number
             left == IF control.op \in {"remove", "delete"} THEN Nothing ELSE control.job
  <1>1. /\ AskingJob /\ \A m \in Nzbs : nzbDoc'.jobs[m] = IF m = n THEN left ELSE nzbDoc.jobs[m]
    BY WriteFacts
  <1>2. /\ UNCHANGED <<files, nntp, handed, fetching, worker, served>> /\ control' = Nothing
        /\ control.at = "write"
    BY DEF WriteNzb, usenetEngine
  <1>3. /\ n \in Nzbs /\ nzbDoc.jobs[n] # Nothing /\ InStep /\ control.job.eid \in EngineIds
        /\ nzbDoc.jobs[n].eid \in EngineIds
    BY <1>1, AskingFacts, NzbJobFacts
  <1>4. EngineSound' /\ \A m : Held(m)' <=> Held(m)
    BY <1>2, EngineFrame DEF SameEngine, Sound
  <1>5. \A m \in 0 .. MaxNzbs : Rank(nzbDoc'.jobs, m) <= Rank(nzbDoc.jobs, m)
    <2> SUFFICES ASSUME NEW m \in 0 .. MaxNzbs PROVE Rank(nzbDoc'.jobs, m) <= Rank(nzbDoc.jobs, m)
      OBVIOUS
    <2>1. m \in Nat /\ \A k \in 1 .. m : k \in Nzbs /\ k <= m
      BY UsenetBounds DEF Nzbs
    <2> HIDE DEF n, left
    <2>2. \A k \in 1 .. m : nzbDoc'.jobs[k] # Nothing => k <= m /\ nzbDoc.jobs[k] # Nothing
      BY <1>1, <1>3, <2>1
    <2> QED BY <2>1, <2>2, RankGrows
  <1>6. /\ MaxNzbs \in 0 .. MaxNzbs /\ \A m \in Nzbs : m \in 0 .. MaxNzbs
        /\ \A m \in 0 .. MaxNzbs : m \in Nat /\ Rank(nzbDoc.jobs, m) \in Nat /\ Rank(nzbDoc'.jobs, m) \in Nat
        /\ handed \in Nat /\ \A x \in EngineIds : x \in Nat
    BY UsenetBounds, RankFacts DEF Nzbs, EngineIds, UsenetShape, EngineShape
  <1>7. ASSUME control.op \notin {"remove", "delete"}
        PROVE  /\ Starts(files[n], control.job.at) /\ (Held(n) => Covers(files[n], control.job.at))
               /\ nzbDoc.jobs[n].eid <= control.job.eid /\ control.job.eid <= handed
               /\ nntp[control.job.eid] # Nothing => nntp[control.job.eid].dl = n
    <2>1. Starts(files[n], control.job.at) /\ (Held(n) => Covers(files[n], control.job.at))
      BY <1>1, <1>7 DEF Sound, ControlSound
    <2>2. CASE Retried
      BY <1>1, <1>3, <1>6, <2>1, <2>2 DEF Sound, ControlSound
    <2>3. CASE ~Retried
      <3>1. control.job.eid = nzbDoc.jobs[n].eid
        BY <1>1, <2>3 DEF Sound, ControlSound
      <3> HIDE DEF n
      <3> QED BY <1>3, <1>6, <2>1, <3>1 DEF Sound, DocSound
    <2> QED BY <2>2, <2>3
  <1>8. ASSUME NEW m \in Nzbs, nzbDoc.jobs[m] # Nothing
        PROVE  /\ Starts(files[m], nzbDoc.jobs[m].at) /\ nzbDoc.jobs[m].eid \in Nat
               /\ Rank(nzbDoc'.jobs, m) <= nzbDoc.jobs[m].eid
               /\ nzbDoc.jobs[m].eid <= handed
               /\ nntp[nzbDoc.jobs[m].eid] # Nothing => nntp[nzbDoc.jobs[m].eid].dl = m
    <2>1. nzbDoc.jobs[m].eid \in Nat
      BY <1>6, <1>8, DocFacts
    <2>2. Rank(nzbDoc.jobs, m) <= nzbDoc.jobs[m].eid /\ Rank(nzbDoc'.jobs, m) <= Rank(nzbDoc.jobs, m)
      BY <1>5, <1>6, <1>8 DEF Sound, DocSound
    <2>3. Rank(nzbDoc'.jobs, m) <= nzbDoc.jobs[m].eid
      BY <1>6, <2>1, <2>2
    <2> QED BY <1>3, <1>8, <2>1, <2>3 DEF Sound, DocSound
  <1>9. DocSound'
    <2> SUFFICES ASSUME NEW m \in Nzbs, nzbDoc'.jobs[m] # Nothing
                 PROVE  /\ Starts(files[m], nzbDoc'.jobs[m].at)
                        /\ Rank(nzbDoc'.jobs, m) <= nzbDoc'.jobs[m].eid
                        /\ nzbDoc'.jobs[m].eid <= handed
                        /\ nntp[nzbDoc'.jobs[m].eid] # Nothing => nntp[nzbDoc'.jobs[m].eid].dl = m
      BY <1>2 DEF DocSound
    <2>1. CASE m = n
      <3>1. control.op \notin {"remove", "delete"} /\ nzbDoc'.jobs[m] = control.job
        BY <1>1, <2>1
      <3>2. /\ Starts(files[n], control.job.at)
            /\ nzbDoc.jobs[n].eid <= control.job.eid /\ control.job.eid <= handed
            /\ nntp[control.job.eid] # Nothing => nntp[control.job.eid].dl = n
        BY <1>7, <3>1
      <3>3. Rank(nzbDoc'.jobs, n) <= nzbDoc.jobs[n].eid /\ nzbDoc.jobs[n].eid \in Nat
        BY <1>3, <1>8
      <3>4. Rank(nzbDoc'.jobs, n) <= control.job.eid
        BY <1>3, <1>6, <3>2, <3>3
      <3> QED BY <2>1, <3>1, <3>2, <3>4
    <2>2. CASE m # n
      BY <1>1, <1>8, <2>2
    <2> QED BY <2>1, <2>2
  <1>10. RankSound'
    BY <1>2, <1>3, <1>5, <1>6 DEF Sound, RankSound
  <1>11. AheadSound'
    <2> SUFFICES ASSUME NEW m \in Nzbs, nzbDoc'.jobs[m] # Nothing, Held(m)
                 PROVE  Covers(files[m], nzbDoc'.jobs[m].at)
      BY <1>2, <1>4 DEF AheadSound
    <2>1. CASE m = n
      BY <1>1, <1>7, <2>1
    <2>2. CASE m # n
      BY <1>1, <2>2 DEF Sound, AheadSound, Window
    <2> QED BY <2>1, <2>2
  <1>12. ControlSound'
    BY <1>2 DEF ControlSound, AskingJob
  <1> QED BY <1>4, <1>9, <1>10, <1>11, <1>12 DEF Sound

\* Operations that read the document, or the engine, and go on.
LEMMA NoWindow ==
    ASSUME control = Nothing \/ control.at # "write"
    PROVE  \A n \in Nzbs : ~Window(n)
  BY DEF Window

LEMMA ReadSound ==
    ASSUME UsenetShape, Sound, NEW n \in Nzbs, nzbDoc.jobs[n] # Nothing, \A m \in Nzbs : ~Window(m)
    PROVE  /\ Starts(files[n], nzbDoc.jobs[n].at)
           /\ Held(n) => Covers(files[n], nzbDoc.jobs[n].at)
  BY DEF Sound, DocSound, AheadSound

\* What a snapshot of an engine job says of its file.
LEMMA SnapshotSound ==
    ASSUME UsenetShape, Sound, NEW n \in Nzbs, NEW e \in EngineIds, nntp[e] # Nothing, nntp[e].dl = n
    PROVE  Starts(files[n], nntp[e].at) /\ Covers(files[n], nntp[e].at)
  <1>1. Exactly(files[n], nntp[e].at) /\ files[n] \in NzbFiles /\ nntp[e].at \in Checkpoints
    BY HeldFacts DEF Sound, EngineSound
  <1> QED BY <1>1, ExactFacts

LEMMA TurnedSame ==
    ASSUME UsenetShape, NEW e \in EngineIds, nntp[e] # Nothing, NEW state \in {"queued", "downloading", "paused", "completed", "failed"},
           nntp' = Turned(e, state),
           state = "completed" => nntp[e].state = "completed"
    PROVE  SameEngine /\ nntp'[e] = Job(nntp[e].dl, nntp[e].at, state)
  <1>1. \A x \in EngineIds : nntp'[x] = IF x = e THEN Job(nntp[e].dl, nntp[e].at, state) ELSE nntp[x]
    BY DEF Turned, UsenetShape, EngineShape
  <1>2. Job(nntp[e].dl, nntp[e].at, state) # Nothing
    BY HeldFacts, JobFacts
  <1> QED BY <1>1, <1>2, JobFacts DEF SameEngine

LEMMA PauseSound == ASSUME UsenetShape, Sound, NEW n \in Nzbs, PauseNzb(n) PROVE Sound'
  <1> DEFINE e == nzbDoc.jobs[n].eid
             job == Snapshot(nzbDoc.jobs[n], nntp')
  <1>1. /\ nzbDoc.jobs[n] \in NzbJobs /\ nzbDoc.jobs[n] # Nothing /\ e \in EngineIds
        /\ nntp[e] # Nothing /\ nntp[e] \in EngineJobs /\ nntp[e].dl = n
    BY EngineFacts DEF PauseNzb, Sound, DocSound
  <1>2. /\ Ask(Asked("pause", "write", n, job))
        /\ UNCHANGED <<nzbDoc, files, handed, served, worker>>
    BY DEF PauseNzb
  <1>3. SameEngine /\ nntp'[e].at = nntp[e].at /\ nntp'[e] \in EngineJobs
    <2>1. CASE UNCHANGED nntp
      BY <1>1, <2>1 DEF SameEngine
    <2>2. CASE nntp' = Turned(e, "paused")
      BY <1>1, <2>2, TurnedSame, EngineJobFacts, JobFacts
    <2> QED BY <2>1, <2>2 DEF PauseNzb
  <1>4. job.eid = e /\ job.at = nntp[e].at
    BY <1>1, <1>3, NzbJobFacts
  <1> HIDE DEF job
  <1>5. /\ control' = Asked("pause", "write", n, job) /\ control = Nothing /\ served
    BY <1>2 DEF Ask
  <1>6. control'.op = "pause" /\ control'.at = "write" /\ control'.number = n /\ control'.job = job
    BY <1>5, AskedFacts
  <1>7. Starts(files[n], job.at) /\ Covers(files[n], job.at)
    BY <1>1, <1>4, SnapshotSound
  <1>8. InStep /\ \A m \in Nzbs : ~Window(m)
    BY <1>5, NoWindow DEF InStep
  <1>9. ~Retried'
    BY <1>6 DEF Retried
  <1> QED BY <1>1, <1>2, <1>3, <1>4, <1>6, <1>7, <1>8, <1>9, AsksSound

LEMMA ReadsSound ==
    ASSUME UsenetShape, Sound, NEW n \in Nzbs, nzbDoc.jobs[n] # Nothing,
           NEW op \in JobOps, NEW at \in {"engine", "take", "write"},
           Ask(Asked(op, at, n, nzbDoc.jobs[n])), at = "engine" => op = "resume",
           ~(op = "retry" /\ at = "write"), at = "take" => nntp[nzbDoc.jobs[n].eid] # Nothing,
           UNCHANGED <<nzbDoc, files, nntp, handed, worker, served>>
    PROVE  Sound'
  <1>1. control' = Asked(op, at, n, nzbDoc.jobs[n]) /\ control = Nothing /\ served
    BY DEF Ask
  <1>2. control'.op = op /\ control'.at = at /\ control'.number = n /\ control'.job = nzbDoc.jobs[n]
    BY <1>1, AskedFacts
  <1>3. InStep /\ \A m \in Nzbs : ~Window(m)
    BY <1>1, NoWindow DEF InStep
  <1>4. Starts(files[n], nzbDoc.jobs[n].at) /\ (Held(n) => Covers(files[n], nzbDoc.jobs[n].at))
    BY <1>3, ReadSound
  <1>5. SameEngine
    BY DEF SameEngine
  <1>6. ~Retried'
    BY <1>2 DEF Retried
  <1> QED BY <1>2, <1>3, <1>4, <1>5, <1>6, AsksSound

LEMMA ResumeAsksSound == ASSUME UsenetShape, Sound, NEW n \in Nzbs, ResumeNzbAsks(n) PROVE Sound'
  BY ReadsSound DEF ResumeNzbAsks, JobOps, usenetEngine

LEMMA MoveSound == ASSUME UsenetShape, Sound, NEW n \in Nzbs, MoveNzb(n) PROVE Sound'
  BY ReadsSound DEF MoveNzb, JobOps, usenetEngine

LEMMA TakeAsksSound ==
    ASSUME UsenetShape, Sound, NEW n \in Nzbs, NEW op \in {"remove", "delete", "retry"}, TakeAsks(n, op)
    PROVE  Sound'
  BY ReadsSound DEF TakeAsks, Engine, JobOps

\* Steps of an operation that is not about a download.
LEMMA OtherSound ==
    ASSUME UsenetShape, Sound, SameEngine, UNCHANGED <<nzbDoc, files, handed, worker, served>>,
           \A n \in Nzbs : ~Window(n), InStep, ~AskingJob'
    PROVE  Sound'
  BY AsksSound

LEMMA AddAsksSound == ASSUME UsenetShape, Sound, NEW i \in Releases, AddNzbAsks(i) PROVE Sound'
  <1>1. /\ control = Nothing /\ served /\ control' = [op |-> "add", at |-> "insert", item |-> i]
        /\ UNCHANGED <<nzbDoc, files, nntp, handed, worker, served>>
    BY DEF AddNzbAsks, Ask, usenetEngine
  <1>2. SameEngine /\ InStep /\ ~AskingJob' /\ \A n \in Nzbs : ~Window(n)
    BY <1>1, NoWindow DEF SameEngine, InStep, AskingJob, JobOps
  <1> QED BY <1>1, <1>2, OtherSound

LEMMA SwapAsksSound == ASSUME UsenetShape, Sound, SwapAsks PROVE Sound'
  <1>1. /\ control = Nothing /\ served /\ control' = [op |-> "configure", at |-> "close"]
        /\ UNCHANGED <<nzbDoc, files, nntp, handed, worker, served>>
    BY DEF SwapAsks, Ask, usenetEngine
  <1>2. SameEngine /\ InStep /\ ~AskingJob' /\ \A n \in Nzbs : ~Window(n)
    BY <1>1, NoWindow DEF SameEngine, InStep, AskingJob, JobOps
  <1> QED BY <1>1, <1>2, OtherSound

\* A reconfiguration stays one.
LEMMA SwapOps ==
    ASSUME UsenetShape, control # Nothing, control.at \in {"close", "swap"}, NEW at,
           control' = [control EXCEPT !.at = at]
    PROVE  control'.op = "configure" /\ control'.at = at /\ ~AskingJob'
  <1>1. control \in NzbRequests
    BY DEF UsenetShape, ControlShape
  <1>2. control = [op |-> "configure", at |-> control.at]
    BY <1>1, RequestFacts
  <1>3. control' = [op |-> "configure", at |-> at]
    BY <1>2
  <1> QED BY <1>3 DEF AskingJob, JobOps

LEMMA SwapClosesSound == ASSUME UsenetShape, Sound, SwapCloses PROVE Sound'
  <1>1. ~AskingJob'
    BY SwapOps DEF SwapCloses
  <1>2. SameEngine /\ InStep /\ \A n \in Nzbs : ~Window(n)
    BY AtFacts, NoWindow DEF SwapCloses, SameEngine, InStep
  <1> QED BY <1>1, <1>2, OtherSound DEF SwapCloses

LEMMA ResumeSound == ASSUME UsenetShape, Sound, ResumeNzb PROVE Sound'
  <1> DEFINE n == control.number
             e == control.job.eid
             state == IF nntp[e].state = "paused" THEN "queued" ELSE nntp[e].state
  <1>1. /\ AskingJob /\ control.at = "engine" /\ control.op = "resume" /\ ~Retried
        /\ UNCHANGED <<nzbDoc, files, handed, worker, served>> /\ \A m \in Nzbs : ~Window(m)
    BY AtFacts, NoWindow DEF ResumeNzb, Sound, ControlSound, Retried
  <1>2. /\ n \in Nzbs /\ nzbDoc.jobs[n] # Nothing /\ control.job \in NzbJobs
        /\ e \in EngineIds /\ InStep /\ e = nzbDoc.jobs[n].eid
    BY <1>1, AskingFacts DEF Sound, ControlSound
  <1>3. CASE nntp[e] = Nothing
    <2>1. control' = Nothing /\ UNCHANGED nntp
      BY <1>3 DEF ResumeNzb
    <2>2. SameEngine /\ ~AskingJob'
      BY <2>1 DEF SameEngine, AskingJob
    <2> QED BY <1>1, <1>2, <2>2, OtherSound
  <1>4. CASE nntp[e] # Nothing
    <2> DEFINE job == Snapshot(control.job, nntp')
    <2>1. nntp' = Turned(e, state) /\ control' = ToWrite(job)
      BY <1>4 DEF ResumeNzb
    <2>2. nntp[e] \in EngineJobs /\ nntp[e].dl = n
      BY <1>2, <1>4, HeldFacts DEF Sound, DocSound
    <2>3. /\ state \in {"queued", "downloading", "paused", "completed", "failed"}
          /\ state = "completed" => nntp[e].state = "completed"
      BY <2>2, EngineJobFacts
    <2> HIDE DEF state
    <2>4. SameEngine /\ nntp'[e].at = nntp[e].at /\ nntp'[e] \in EngineJobs
      BY <1>2, <1>4, <2>1, <2>2, <2>3, TurnedSame, EngineJobFacts, JobFacts
    <2>5. job.eid = e /\ job.at = nntp[e].at
      BY <1>2, <2>4, NzbJobFacts
    <2> HIDE DEF job
    <2>6. control'.op = "resume" /\ control'.at = "write" /\ control'.number = n /\ control'.job = job
      BY <1>1, <2>1, AskedFacts DEF ToWrite
    <2>7. Starts(files[n], job.at) /\ Covers(files[n], job.at)
      BY <1>2, <1>4, <2>2, <2>5, SnapshotSound
    <2>8. ~Retried'
      BY <2>6 DEF Retried
    <2> HIDE DEF e, n
    <2> QED BY <1>1, <1>2, <2>4, <2>5, <2>6, <2>7, <2>8, AsksSound
  <1> QED BY <1>3, <1>4

\* What an operation takes away is the one engine job of its download.
LEMMA TakenFacts ==
    ASSUME UsenetShape, Sound, control # Nothing, control.at = "take"
    PROVE  /\ AskingJob /\ control.number \in Nzbs /\ control.job.eid \in EngineIds
           /\ nzbDoc.jobs[control.number] # Nothing
           /\ nzbDoc.jobs[control.number].eid = control.job.eid
           /\ nntp[control.job.eid] # Nothing /\ nntp[control.job.eid].dl = control.number
           /\ \A x \in EngineIds : nntp[x] # Nothing /\ nntp[x].dl = control.number
                                       => x = control.job.eid
           /\ \A m \in Nzbs : ~Window(m)
           /\ InStep
  <1>1. AskingJob /\ ~Retried /\ \A m \in Nzbs : ~Window(m)
    BY AtFacts, NoWindow DEF Retried
  <1>2. /\ control.number \in Nzbs /\ control.job.eid \in EngineIds
        /\ nzbDoc.jobs[control.number] # Nothing /\ InStep
    BY <1>1, AskingFacts
  <1>3. /\ nzbDoc.jobs[control.number].eid = control.job.eid /\ nntp[control.job.eid] # Nothing
    BY <1>1 DEF Sound, ControlSound
  <1>4. nntp[control.job.eid].dl = control.number
    BY <1>2, <1>3 DEF Sound, DocSound
  <1> QED BY <1>1, <1>2, <1>3, <1>4 DEF Sound, EngineSound

\* The engine job of a download goes, and its file may.
LEMMA TakesSound ==
    ASSUME UsenetShape, Sound, control # Nothing, control.at = "take", nzbDoc' = nzbDoc,
           nntp' = WithoutJob(control.job.eid), handed' \in Nat, handed <= handed', served' = served,
           files' = files \/ files' = [files EXCEPT ![control.number] = <<>>]
    PROVE  EngineSound' /\ DocSound' /\ RankSound' /\ AheadSound'
  <1> DEFINE n == control.number
             e == control.job.eid
  <1>1. /\ n \in Nzbs /\ e \in EngineIds /\ InStep /\ nzbDoc.jobs[n] # Nothing
        /\ \A x \in EngineIds : nntp[x] # Nothing /\ nntp[x].dl = n => x = e
        /\ \A m \in Nzbs : ~Window(m)
    BY TakenFacts
  <1>2. /\ \A x \in EngineIds : nntp'[x] = IF x = e THEN Nothing ELSE nntp[x]
        /\ \A m \in Nzbs : m # n => files'[m] = files[m]
        /\ files'[n] = files[n] \/ files'[n] = <<>>
    BY <1>1 DEF UsenetShape, EngineShape, DocShape, WithoutJob
  <1>3. handed \in Nat /\ MaxNzbs \in Nat
    BY UsenetBounds DEF UsenetShape, EngineShape
  <1> HIDE DEF n, e
  <1>4. EngineSound'
    <2>1. \A x \in EngineIds : nntp'[x] # Nothing =>
             nntp'[x] = nntp[x] /\ nntp[x] # Nothing /\ files'[nntp[x].dl] = files[nntp[x].dl]
      BY <1>1, <1>2, HeldFacts
    <2> QED BY <2>1 DEF Sound, EngineSound
  <1>5. DocSound' /\ RankSound'
    <2>1. ASSUME NEW m \in Nzbs, nzbDoc.jobs[m] # Nothing
          PROVE  /\ Starts(files'[m], nzbDoc.jobs[m].at)
                 /\ Rank(nzbDoc.jobs, m) <= nzbDoc.jobs[m].eid /\ nzbDoc.jobs[m].eid <= handed'
                 /\ nntp'[nzbDoc.jobs[m].eid] # Nothing => nntp'[nzbDoc.jobs[m].eid].dl = m
      <3>1. nzbDoc.jobs[m].eid \in EngineIds /\ nzbDoc.jobs[m].eid \in Nat /\ nzbDoc.jobs[m].at \in Checkpoints
        BY <2>1, DocFacts DEF EngineIds
      <3>2. /\ Starts(files[m], nzbDoc.jobs[m].at)
            /\ Rank(nzbDoc.jobs, m) <= nzbDoc.jobs[m].eid /\ nzbDoc.jobs[m].eid <= handed
            /\ nntp[nzbDoc.jobs[m].eid] # Nothing => nntp[nzbDoc.jobs[m].eid].dl = m
        BY <1>1, <2>1 DEF Sound, DocSound
      <3>3. Starts(files'[m], nzbDoc.jobs[m].at)
        BY <1>2, <3>1, <3>2, MendedFacts
      <3> QED BY <1>2, <1>3, <3>1, <3>2, <3>3
    <2>2. Rank(nzbDoc.jobs, MaxNzbs) <= handed /\ Rank(nzbDoc.jobs, MaxNzbs) \in Nat
      BY <1>1, <1>3, RankFacts DEF Sound, RankSound
    <2> QED BY <1>3, <2>1, <2>2 DEF DocSound, RankSound
  <1>6. AheadSound'
    <2> SUFFICES ASSUME NEW m \in Nzbs, nzbDoc.jobs[m] # Nothing, Held(m)'
                 PROVE  Covers(files'[m], nzbDoc.jobs[m].at)
      BY DEF AheadSound
    <2>1. m # n /\ Held(m)
      BY <1>1, <1>2 DEF Held
    <2> QED BY <1>1, <1>2, <2>1 DEF Sound, AheadSound
  <1> QED BY <1>4, <1>5, <1>6

LEMMA RemoveSound == ASSUME UsenetShape, Sound, RemoveNzb PROVE Sound'
  <1>1. /\ control # Nothing /\ control.at = "take" /\ control.op \in {"remove", "delete"}
        /\ UNCHANGED <<nzbDoc, handed, worker, served>> /\ nntp' = WithoutJob(control.job.eid)
        /\ control' = ToWrite(control.job)
    BY DEF RemoveNzb
  <1>2. /\ AskingJob /\ nzbDoc.jobs[control.number].eid = control.job.eid
        /\ nntp[control.job.eid].dl = control.number
    BY <1>1, TakenFacts
  <1>3. handed \in Nat
    BY UsenetBounds DEF UsenetShape, EngineShape
  <1>4. files' = files \/ files' = [files EXCEPT ![control.number] = <<>>]
    BY <1>2 DEF RemoveNzb
  <1>5. EngineSound' /\ DocSound' /\ RankSound' /\ AheadSound'
    BY <1>1, <1>3, <1>4, TakesSound
  <1>6. /\ control'.op = control.op /\ control'.at = "write" /\ control'.number = control.number
        /\ control'.job = control.job
    BY <1>1, AskedFacts DEF ToWrite
  <1>7. ControlSound'
    BY <1>1, <1>2, <1>6 DEF ControlSound, Retried
  <1> QED BY <1>5, <1>7 DEF Sound

LEMMA RetrySound == ASSUME UsenetShape, Sound, RetryNzb PROVE Sound'
  <1> DEFINE n   == control.number
             old == control.job.eid
             at  == control.job.at
             e   == handed + 1
  <1>1. /\ control # Nothing /\ control.at = "take" /\ control.op = "retry"
        /\ UNCHANGED <<nzbDoc, worker, served>> /\ handed' = e
    BY DEF RetryNzb
  <1>2. /\ AskingJob /\ n \in Nzbs /\ old \in EngineIds /\ InStep /\ nzbDoc.jobs[n] # Nothing
        /\ nzbDoc.jobs[n].eid = old /\ nntp[old] # Nothing /\ nntp[old].dl = n
        /\ \A x \in EngineIds : nntp[x] # Nothing /\ nntp[x].dl = n => x = old
        /\ \A m \in Nzbs : ~Window(m)
    BY <1>1, TakenFacts
  <1>3. /\ handed \in Nat /\ e \in Nat /\ handed <= e /\ e \in EngineIds /\ MaxNzbs \in Nat
        /\ \A x \in EngineIds : x \in Nat /\ (nntp[x] # Nothing => x <= handed)
    BY UsenetBounds DEF RetryNzb, UsenetShape, EngineShape, EngineIds
  <1>4. CASE ~Fits(n, control.job)
    <2>1. nntp' = WithoutJob(old) /\ control' = Nothing /\ files' = files
      BY <1>4 DEF RetryNzb
    <2>2. EngineSound' /\ DocSound' /\ RankSound' /\ AheadSound'
      BY <1>1, <1>3, <2>1, TakesSound
    <2>3. ControlSound'
      BY <2>1 DEF ControlSound, AskingJob
    <2> QED BY <2>2, <2>3 DEF Sound
  <1>5. CASE Fits(n, control.job)
    <2> DEFINE back == Job(n, at, "queued")
               file == CutBack(files[n], at)
               job  == [item |-> control.job.item, eid |-> e, at |-> at, paused |-> FALSE]
    <2>1. /\ nntp' = [WithoutJob(old) EXCEPT ![e] = back]
          /\ files' = [files EXCEPT ![n] = file] /\ control' = ToWrite(job)
      BY <1>5 DEF RetryNzb
    <2>2. back.dl = n /\ back.at = at /\ back.state = "queued" /\ back # Nothing
      BY <1>2, AskingFacts, JobFacts
    <2>3. /\ control'.op = "retry" /\ control'.at = "write" /\ control'.number = n
          /\ control'.job.eid = e /\ control'.job.at = at /\ control' # Nothing
      <3>1. control' = Asked("retry", "write", n, job)
        BY <1>1, <2>1 DEF ToWrite
      <3>2. control'.op = "retry" /\ control'.at = "write" /\ control'.number = n /\ control'.job = job
        BY <3>1, AskedFacts
      <3>3. job \in NzbJobs
        BY <1>2, <1>3, AskingFacts, NzbJobFacts DEF NzbJobs
      <3>4. control' # Nothing
        BY <1>2, <3>1, <3>3, AskedFacts DEF JobOps
      <3> QED BY <3>2, <3>4
    <2>4. /\ files[n] \in NzbFiles /\ at \in Checkpoints /\ at.written <= Len(files[n])
          /\ Starts(files[n], at)
      BY <1>1, <1>2, <1>5, AskingFacts DEF Fits, UsenetShape, DocShape, Sound, ControlSound
    <2>5. /\ Exactly(file, at) /\ Covers(file, at) /\ Starts(file, at)
          /\ \A a \in Checkpoints : Starts(files[n], a) => Starts(file, a)
      BY <2>4, CutBackFacts
    <2>6. /\ \A x \in EngineIds : nntp'[x] = IF x = e THEN back ELSE IF x = old THEN Nothing ELSE nntp[x]
          /\ \A m \in Nzbs : files'[m] = IF m = n THEN file ELSE files[m]
      BY <1>2, <1>3, <2>1 DEF WithoutJob, UsenetShape, EngineShape, DocShape
    <2>7. InStep' /\ (AskingJob' <=> TRUE) /\ Retried'
      BY <1>1, <1>2, <2>3 DEF InStep, AskingJob, JobOps, Retried
    <2>8. \A x \in EngineIds : nntp[x] # Nothing => x # e
      BY <1>3
    <2> HIDE DEF back, file, job, e, n, old, at
    <2>9. EngineSound'
      <3>1. ASSUME NEW x \in EngineIds, nntp'[x] # Nothing
            PROVE  /\ Exactly(files'[nntp'[x].dl], nntp'[x].at)
                   /\ nntp'[x].state = "completed" => ~nntp'[x].at.broken /\ nntp'[x].at.passed = Segments
                   /\ \A f \in EngineIds : nntp'[f] # Nothing /\ nntp'[f].dl = nntp'[x].dl => x = f
        <4>1. CASE x = e
          <5>1. nntp'[x] = back /\ files'[n] = file
            BY <1>2, <2>6, <4>1
          <5>2. \A f \in EngineIds : nntp'[f] # Nothing /\ nntp'[f].dl = n => f = e
            BY <1>2, <2>6
          <5> QED BY <2>2, <2>5, <4>1, <5>1, <5>2
        <4>2. CASE x # e
          <5>1. nntp'[x] = nntp[x] /\ nntp[x] # Nothing /\ x # old /\ nntp[x].dl # n /\ nntp[x].dl \in Nzbs
            BY <1>2, <2>6, <3>1, <4>2, HeldFacts
          <5>2. files'[nntp[x].dl] = files[nntp[x].dl]
            BY <2>6, <5>1
          <5>3. \A f \in EngineIds : nntp'[f] # Nothing /\ nntp'[f].dl = nntp[x].dl => x = f
            BY <2>2, <2>6, <5>1 DEF Sound, EngineSound
          <5> QED BY <5>1, <5>2, <5>3 DEF Sound, EngineSound
        <4> QED BY <4>1, <4>2
      <3> QED BY <3>1 DEF EngineSound
    <2>10. ASSUME NEW m \in Nzbs, nzbDoc.jobs[m] # Nothing
           PROVE  /\ Starts(files'[m], nzbDoc.jobs[m].at)
                  /\ nzbDoc.jobs[m].eid \in Nat /\ nzbDoc.jobs[m].eid < e
                  /\ Rank(nzbDoc.jobs, m) <= nzbDoc.jobs[m].eid
                  /\ nntp'[nzbDoc.jobs[m].eid] # Nothing => nntp'[nzbDoc.jobs[m].eid].dl = m
      <3>1. nzbDoc.jobs[m].eid \in EngineIds /\ nzbDoc.jobs[m].at \in Checkpoints
        BY <2>10, DocFacts
      <3>2. /\ Starts(files[m], nzbDoc.jobs[m].at) /\ nzbDoc.jobs[m].eid <= handed
            /\ Rank(nzbDoc.jobs, m) <= nzbDoc.jobs[m].eid
            /\ nntp[nzbDoc.jobs[m].eid] # Nothing => nntp[nzbDoc.jobs[m].eid].dl = m
        BY <1>2, <2>10 DEF Sound, DocSound
      <3>3. nzbDoc.jobs[m].eid \in Nat /\ nzbDoc.jobs[m].eid < e
        BY <1>3, <3>1, <3>2 DEF e
      <3>4. nzbDoc.jobs[m].eid # e
        BY <1>3, <3>3
      <3> QED BY <2>5, <2>6, <3>1, <3>2, <3>3, <3>4
    <2>11. DocSound' /\ RankSound'
      <3>1. Rank(nzbDoc.jobs, MaxNzbs) <= handed /\ Rank(nzbDoc.jobs, MaxNzbs) \in Nat
        BY <1>2, <1>3, RankFacts DEF Sound, RankSound
      <3>2. Rank(nzbDoc.jobs, MaxNzbs) <= e
        BY <1>3, <3>1
      <3>3. \A m \in Nzbs : nzbDoc.jobs[m] # Nothing => nzbDoc.jobs[m].eid <= e
        BY <1>3, <2>10
      <3> QED BY <1>1, <2>10, <3>2, <3>3 DEF DocSound, RankSound
    <2>12. ASSUME Fresh PROVE worker' # Nothing => \A p \in worker'.seen : p[2] # e
      <3>1. worker' = worker
        BY <1>1 DEF RetryNzb
      <3>2. worker # Nothing => \A p \in worker.seen : p[2] \in EngineIds
        BY <1>1 DEF UsenetShape, WorkerShape, Rounds, Pairs
      <3> QED BY <1>3, <2>12, <3>1, <3>2 DEF Fresh, e
    <2>13. AheadSound'
      <3> SUFFICES ASSUME NEW m \in Nzbs, nzbDoc.jobs[m] # Nothing, Held(m)'
                   PROVE  Covers(files'[m], nzbDoc.jobs[m].at) \/ Window(m)'
        BY <1>1 DEF AheadSound
      <3>1. CASE m = n
        <4>1. nzbDoc.jobs[n].at = at \/ Fresh
          BY <1>1, <1>2 DEF Sound, ControlSound, at, n
        <4>2. CASE nzbDoc.jobs[n].at = at
          BY <1>2, <2>5, <2>6, <3>1, <4>2
        <4>3. CASE Fresh
          <5>1. worker' # Nothing => \A p \in worker'.seen : p[2] # control'.job.eid
            BY <2>3, <2>12, <4>3
          <5>2. control' # Nothing /\ control'.op = "retry" /\ control'.at = "write" /\ control'.number = m
            BY <2>3, <3>1
          <5> QED BY <5>1, <5>2 DEF Window, Unseen
        <4> QED BY <4>1, <4>2, <4>3
      <3>2. CASE m # n
        <4>1. Held(m)
          BY <2>2, <2>6, <3>2 DEF Held
        <4> QED BY <1>2, <2>6, <3>2, <4>1 DEF Sound, AheadSound
      <3> QED BY <3>1, <3>2
    <2>14. ControlSound'
      <3>1. nntp'[e] = back /\ nntp'[old] = Nothing /\ files'[n] = file
        BY <1>2, <1>3, <2>6, <2>8
      <3>2. \A m \in Nzbs : nzbDoc.jobs[m] # Nothing => nzbDoc.jobs[m].eid < e
        BY <2>10
      <3> QED BY <1>1, <1>2, <1>3, <2>2, <2>3, <2>5, <2>7, <3>1, <3>2 DEF ControlSound
    <2> QED BY <2>9, <2>11, <2>13, <2>14 DEF Sound
  <1> QED BY <1>4, <1>5

\* The engine is gone, and the document and the files stay.
LEMMA EmptySound ==
    ASSUME UsenetShape, Sound, \A e \in EngineIds : nntp'[e] = Nothing,
           UNCHANGED <<nzbDoc, files>>, ~InStep', ~AskingJob'
    PROVE  Sound'
  <1>1. EngineSound' /\ RankSound' /\ ControlSound'
    BY DEF EngineSound, RankSound, ControlSound
  <1>2. DocSound'
    BY DocFacts DEF Sound, DocSound
  <1>3. AheadSound'
    BY DEF AheadSound, Held
  <1> QED BY <1>1, <1>2, <1>3 DEF Sound

LEMMA HaltSound == ASSUME UsenetShape, Sound, HaltUsenet PROVE Sound'
  BY EmptySound DEF HaltUsenet, InStep, AskingJob

LEMMA SwapSound == ASSUME UsenetShape, Sound, Swap PROVE Sound'
  <1>1. control'.at = "recover" /\ ~AskingJob' /\ served
    BY SwapOps, AtFacts DEF Swap
  <1>2. control' # Nothing
    <2>1. control' = [op |-> "configure", at |-> "recover"]
      <3>1. control \in NzbRequests
        BY DEF Swap, UsenetShape, ControlShape
      <3>2. control = [op |-> "configure", at |-> control.at]
        BY <3>1, RequestFacts DEF Swap
      <3> QED BY <3>2 DEF Swap
    <2> QED BY <2>1, AskedFacts, RecordFacts
  <1>3. ~InStep'
    BY <1>1, <1>2 DEF InStep
  <1>4. \A e \in EngineIds : nntp'[e] = Nothing
    BY DEF Swap
  <1> QED BY <1>1, <1>3, <1>4, EmptySound DEF Swap

\* A recovery that leaves nothing out brings every download back as the
\* document has it, under its rank.
LEMMA RecoveredSound ==
    ASSUME UsenetShape, Sound, Recovered, ~InStep, served', control' = Nothing,
           UNCHANGED <<fetching, worker>>, ~skipped'
    PROVE  Sound'
  <1>1. PICK gone \in SUBSET Nzbs :
           /\ nzbDoc' = [nzbDoc EXCEPT !.jobs = PutBack(gone).jobs]
           /\ nntp' = PutBack(gone).nntp /\ handed' = PutBack(gone).handed
           /\ files' = PutBack(gone).files
           /\ skipped' = (skipped \/ \E n \in Unfit \cup gone : nzbDoc.jobs[n] # Nothing)
    BY DEF Recovered
  <1> DEFINE r == PutBack(gone)
  <1>2. NoneLeftOut(gone)
    BY <1>1 DEF NoneLeftOut, Sound, DocSound
  <1>3. WholeSoFar(r, MaxNzbs)
    BY <1>2, ShapeIsTyped, PutBackFacts
  <1>4. nzbDoc'.jobs = r.jobs /\ nntp' = r.nntp /\ handed' = r.handed /\ files' = r.files
    BY <1>1 DEF UsenetShape, DocShape
  <1>5. \A n \in Nzbs : /\ nzbDoc.jobs[n] = Nothing <=> nzbDoc'.jobs[n] = Nothing
                        /\ nzbDoc.jobs[n] # Nothing => nzbDoc'.jobs[n].at = nzbDoc.jobs[n].at
    BY ShapeIsTyped, RecoveredShape
  <1> HIDE DEF r
  <1>6. MaxNzbs \in Nat /\ Nzbs = 1 .. MaxNzbs
    BY UsenetBounds DEF Nzbs
  <1>7. /\ handed' = Rank(nzbDoc.jobs, MaxNzbs)
        /\ \A m \in Nzbs : nzbDoc.jobs[m] # Nothing =>
              /\ nzbDoc'.jobs[m].eid = Rank(nzbDoc.jobs, m)
              /\ nntp'[Rank(nzbDoc.jobs, m)] = BackJob(m)
              /\ files'[m] = CutBack(files[m], nzbDoc.jobs[m].at)
        /\ \A e \in EngineIds : nntp'[e] # Nothing =>
              \E m \in Nzbs : nzbDoc.jobs[m] # Nothing /\ e = Rank(nzbDoc.jobs, m)
    BY <1>3, <1>4, <1>6 DEF WholeSoFar
  <1>8. ASSUME NEW m \in Nzbs, nzbDoc.jobs[m] # Nothing
        PROVE  /\ Exactly(files'[m], nzbDoc.jobs[m].at) /\ Covers(files'[m], nzbDoc.jobs[m].at)
               /\ Starts(files'[m], nzbDoc.jobs[m].at)
               /\ BackJob(m).dl = m /\ BackJob(m).at = nzbDoc.jobs[m].at
               /\ BackJob(m).state # "completed"
    <2>1. files[m] \in NzbFiles /\ nzbDoc.jobs[m].at \in Checkpoints /\ Starts(files[m], nzbDoc.jobs[m].at)
      BY <1>8, DocFacts DEF Sound, DocSound
    <2>2. nzbDoc.jobs[m].at.written <= Len(files[m])
      BY <1>2, <1>8 DEF NoneLeftOut, Unfit, Fits
    <2>3. /\ Exactly(files'[m], nzbDoc.jobs[m].at) /\ Starts(files'[m], nzbDoc.jobs[m].at)
          /\ Covers(files'[m], nzbDoc.jobs[m].at)
      BY <1>7, <1>8, <2>1, <2>2, CutBackFacts
    <2>4. BackJob(m).dl = m /\ BackJob(m).at = nzbDoc.jobs[m].at /\ BackJob(m).state # "completed"
      BY JobFacts DEF BackJob
    <2> QED BY <2>3, <2>4
  <1>9. EngineSound'
    <2> SUFFICES ASSUME NEW e \in EngineIds, nntp'[e] # Nothing
                 PROVE  /\ Exactly(files'[nntp'[e].dl], nntp'[e].at) /\ nntp'[e].state # "completed"
                        /\ \A f \in EngineIds : nntp'[f] # Nothing /\ nntp'[f].dl = nntp'[e].dl => e = f
      BY DEF EngineSound
    <2>1. PICK m \in Nzbs : nzbDoc.jobs[m] # Nothing /\ e = Rank(nzbDoc.jobs, m)
      BY <1>7
    <2>2. nntp'[e] = BackJob(m)
      BY <1>7, <2>1
    <2>3. ASSUME NEW f \in EngineIds, nntp'[f] # Nothing, nntp'[f].dl = m PROVE e = f
      <3>1. PICK k \in Nzbs : nzbDoc.jobs[k] # Nothing /\ f = Rank(nzbDoc.jobs, k)
        BY <1>7, <2>3
      <3>2. nntp'[f] = BackJob(k) /\ BackJob(k).dl = k
        BY <1>7, <1>8, <3>1
      <3> QED BY <2>1, <2>3, <3>1, <3>2
    <2> QED BY <1>8, <2>1, <2>2, <2>3
  <1>10. \A n \in 0 .. MaxNzbs : n \in Nat /\ Rank(nzbDoc'.jobs, n) = Rank(nzbDoc.jobs, n)
    <2> SUFFICES ASSUME NEW n \in 0 .. MaxNzbs PROVE n \in Nat /\ Rank(nzbDoc'.jobs, n) = Rank(nzbDoc.jobs, n)
      OBVIOUS
    <2>1. n \in Nat /\ \A k \in 1 .. n : k \in Nzbs
      BY <1>6
    <2>2. \A k \in 1 .. n : nzbDoc'.jobs[k] = Nothing <=> nzbDoc.jobs[k] = Nothing
      BY <1>5, <2>1
    <2> QED BY <2>1, <2>2, RankSame
  <1>11. DocSound' /\ RankSound'
    <2>1. ASSUME NEW m \in Nzbs, nzbDoc'.jobs[m] # Nothing
          PROVE  /\ Starts(files'[m], nzbDoc'.jobs[m].at)
                 /\ Rank(nzbDoc'.jobs, m) <= nzbDoc'.jobs[m].eid /\ nzbDoc'.jobs[m].eid <= handed'
                 /\ nntp'[nzbDoc'.jobs[m].eid] # Nothing => nntp'[nzbDoc'.jobs[m].eid].dl = m
      <3>1. nzbDoc.jobs[m] # Nothing /\ nzbDoc'.jobs[m].at = nzbDoc.jobs[m].at
            /\ nzbDoc'.jobs[m].eid = Rank(nzbDoc.jobs, m)
        BY <1>5, <1>7, <2>1
      <3>2. m \in Nat /\ m <= MaxNzbs /\ m \in 0 .. MaxNzbs
        BY <1>6
      <3>3. Rank(nzbDoc.jobs, m) <= Rank(nzbDoc.jobs, MaxNzbs)
        <4>1. ASSUME NEW k \in 1 .. m, nzbDoc.jobs[k] # Nothing PROVE k <= MaxNzbs /\ nzbDoc.jobs[k] # Nothing
          BY <1>6, <3>2, <4>1
        <4> QED BY <1>6, <3>2, <4>1, RankGrows
      <3>4. Rank(nzbDoc.jobs, m) \in Nat
        BY <3>2, RankFacts
      <3> QED BY <1>7, <1>8, <1>10, <3>1, <3>2, <3>3, <3>4
    <2>2. Rank(nzbDoc'.jobs, MaxNzbs) <= handed'
      <3>1. MaxNzbs \in 0 .. MaxNzbs /\ Rank(nzbDoc.jobs, MaxNzbs) \in Nat
        BY <1>6, RankFacts
      <3> QED BY <1>7, <1>10, <3>1
    <2> QED BY <2>1, <2>2 DEF DocSound, RankSound
  <1>12. AheadSound'
    BY <1>5, <1>8 DEF AheadSound
  <1>13. ControlSound'
    BY DEF ControlSound, AskingJob
  <1> QED BY <1>9, <1>11, <1>12, <1>13 DEF Sound

LEMMA MountSound == ASSUME UsenetShape, Sound, MountUsenet, ~skipped' PROVE Sound'
  <1>1. ~InStep /\ control' = Nothing
    BY DEF MountUsenet, InStep, UsenetShape, ControlShape
  <1> QED BY <1>1, RecoveredSound DEF MountUsenet

LEMMA SwapRecoversSound == ASSUME UsenetShape, Sound, SwapRecovers, ~skipped' PROVE Sound'
  <1>1. ~InStep /\ served
    BY AtFacts DEF SwapRecovers, InStep
  <1> QED BY <1>1, RecoveredSound DEF SwapRecovers

LEMMA InitSound == UsenetInit => Sound
  <1> SUFFICES ASSUME UsenetInit PROVE Sound
    OBVIOUS
  <1>1. /\ \A n \in Nzbs : nzbDoc.jobs[n] = Nothing
        /\ \A e \in EngineIds : nntp[e] = Nothing
        /\ control = Nothing /\ ~served
    BY DEF UsenetInit
  <1>2. ~InStep /\ ~AskingJob
    BY <1>1 DEF InStep, AskingJob
  <1>3. EngineSound /\ DocSound /\ RankSound /\ AheadSound
    <2>1. EngineSound /\ AheadSound
      BY <1>1 DEF EngineSound, AheadSound
    <2>2. DocSound
      BY <1>1 DEF DocSound
    <2>3. RankSound
      BY <1>2 DEF RankSound
    <2> QED BY <2>1, <2>2, <2>3
  <1>4. ControlSound
    BY <1>2 DEF ControlSound
  <1> QED BY <1>3, <1>4 DEF Sound

\* Nothing is left out of a recovery once it was.
LEMMA SkippedStays == ASSUME [UsenetNext]_usenetVars, skipped PROVE skipped'
  <1>1. CASE UNCHANGED usenetVars
    BY <1>1 DEF usenetVars
  <1>2. CASE MountUsenet \/ SwapRecovers
    BY <1>2 DEF MountUsenet, SwapRecovers, Recovered
  <1>3. CASE HaltUsenet \/ StepAborted \/ ArticleComes \/ Finalize \/ WorkerStarts \/ WorkerMerges
             \/ AddNzb \/ ResumeNzb \/ RemoveNzb \/ RetryNzb \/ WriteNzb \/ SwapAsks \/ SwapCloses \/ Swap
    BY <1>3 DEF HaltUsenet, StepAborted, ArticleComes, Finalize, WorkerStarts, WorkerMerges,
                AddNzb, ResumeNzb, RemoveNzb, RetryNzb, WriteNzb, SwapAsks, SwapCloses, Swap
  <1>4. CASE \/ \E s \in Nzbs \X EngineIds : WorkerSteps(s)
             \/ \E i \in Releases : AddNzbAsks(i)
             \/ \E n \in Nzbs : PauseNzb(n) \/ ResumeNzbAsks(n) \/ MoveNzb(n)
             \/ \E n \in Nzbs : \E op \in {"remove", "delete", "retry"} : TakeAsks(n, op)
    BY <1>4 DEF WorkerSteps, AddNzbAsks, PauseNzb, ResumeNzbAsks, MoveNzb, TakeAsks
  <1> QED BY <1>1, <1>2, <1>3, <1>4 DEF UsenetNext

LEMMA UsenetStepSound ==
    UsenetShape /\ (~skipped => Sound) /\ [UsenetNext]_usenetVars => (~skipped' => Sound')
  <1> SUFFICES ASSUME UsenetShape, Sound, [UsenetNext]_usenetVars, ~skipped' PROVE Sound'
    BY SkippedStays
  <1>1. CASE UNCHANGED usenetVars
    <2>1. SameEngine /\ SameList
      BY <1>1 DEF usenetVars, SameEngine, SameList
    <2> QED BY <1>1, <2>1, QuietSound DEF usenetVars
  <1>2. CASE HaltUsenet \/ StepAborted \/ ArticleComes \/ Finalize
    BY <1>2, HaltSound, StepAbortedSound, ArticleSound, FinalizeSound
  <1>3. CASE WorkerStarts \/ WorkerMerges \/ \E s \in Pairs : WorkerSteps(s)
    BY <1>3, WorkerStartsSound, WorkerMergesSound, WorkerStepsSound
  <1>4. CASE AddNzb \/ \E i \in Releases : AddNzbAsks(i)
    BY <1>4, AddNzbSound, AddAsksSound
  <1>5. CASE ResumeNzb \/ RemoveNzb \/ RetryNzb \/ WriteNzb
    BY <1>5, ResumeSound, RemoveSound, RetrySound, WriteSound
  <1>6. CASE \E n \in Nzbs : PauseNzb(n) \/ ResumeNzbAsks(n) \/ MoveNzb(n)
    BY <1>6, PauseSound, ResumeAsksSound, MoveSound
  <1>7. CASE \E n \in Nzbs : \E op \in {"remove", "delete", "retry"} : TakeAsks(n, op)
    BY <1>7, TakeAsksSound
  <1>8. CASE MountUsenet \/ SwapAsks \/ SwapCloses \/ Swap \/ SwapRecovers
    BY <1>8, MountSound, SwapAsksSound, SwapClosesSound, SwapSound, SwapRecoversSound
  <1> QED BY <1>1, <1>2, <1>3, <1>4, <1>5, <1>6, <1>7, <1>8 DEF UsenetNext, Pairs

LEMMA SoundIsWhole == UsenetShape /\ (~skipped => Sound) => UsenetWhole
  <1> SUFFICES ASSUME UsenetShape, Sound PROVE UsenetWhole
    BY DEF UsenetWhole
  <1>1. OwnEngineJob
    BY DEF OwnEngineJob, Engine, Sound, DocSound
  <1>2. ASSUME NEW e \in EngineIds, nntp[e] # Nothing, nntp[e].state = "completed"
        PROVE  files[nntp[e].dl] = Whole
    BY <1>2, HeldFacts, ExactFacts DEF Sound, EngineSound
  <1> QED BY <1>1, <1>2 DEF UsenetWhole

\* As long as no recovery left a download out, a job the engine has as completed
\* has every segment once and in order in its file, and the id a download is
\* known by is that of its own engine job, whatever was cut, appended, retried,
\* paused, reconfigured or crashed before.
THEOREM UsenetStaysWhole == UsenetSpec => []UsenetWhole
  <1> DEFINE IInv == UsenetShape /\ (~skipped => Sound)
  <1>1. UsenetInit => IInv
    BY InitShape, InitSound
  <1>2. IInv /\ [UsenetNext]_usenetVars => IInv'
    BY UsenetStepShape, UsenetStepSound
  <1>3. IInv => UsenetWhole
    BY SoundIsWhole
  <1> HIDE DEF IInv
  <1> QED BY <1>1, <1>2, <1>3, PTL DEF UsenetSpec

==============================================================================
