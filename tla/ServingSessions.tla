---------------------------- MODULE ServingSessions ----------------------------
(* Playback sessions and the encoder processes behind them: the cap, the     *)
(* watchdog, the records of encoder processes that outlive a killed server,  *)
(* and the clean-up of orphans at the next mount.                            *)
(* Translated from plugins/serving/src/plugin.ts and the start route of      *)
(* apps/server/src/serving.ts.  Who may watch what, tracks and subtitles are *)
(* left out; time is a session being quiet for longer than its timeout.      *)
EXTENDS Naturals, FiniteSets, Sequences

CONSTANTS MaxSessions,  \* bound on the sessions ever opened
          Caps,         \* configured numbers of encoders
          MaxTouches,   \* bound on the requests that keep a session alive
          MaxOnTheWay,  \* bound on snapshots on the way when a policy is set
          MaxKills      \* bound on crashes of the server or the plugin

\* Settings below one are refused.
ASSUME CapsArePositive ==
    MaxSessions \in Nat /\ MaxTouches \in Nat /\ MaxKills \in Nat /\ Caps \subseteq Nat \ {0}

VARIABLES session,      \* [1..MaxSessions -> {"none", "direct", "hls", "closed"}]
          encoders,     \* sessions in the workers table
          encoding,     \* sessions whose encoder process is there
          doomed,       \* those of them that were sent SIGKILL
          recorded,     \* the encoder records in memory
          recordings,   \* snapshots of them on the way to the store
          saved,        \* the records in the store
          quiet,        \* sessions without a sign of life for a timeout
          cap,          \* config.maxWorkers
          serving,      \* "down", "starting", "up" or "closing"
          touches, kills,
          lost          \* history: processes a crash left with no record saved

servingVars == <<session, encoders, encoding, doomed, recorded, recordings, saved,
                 quiet, cap, serving, touches, kills, lost>>

Sessions == 1 .. MaxSessions
Open == {s \in Sessions : session[s] \in {"direct", "hls"}}

ServingTypeOK ==
    /\ session \in [Sessions -> {"none", "direct", "hls", "closed"}]
    /\ encoders \subseteq Open /\ doomed \subseteq encoding /\ encoding \subseteq Sessions
    /\ recorded \subseteq Sessions /\ saved \subseteq Sessions /\ quiet \subseteq Sessions
    /\ recordings \in Seq(SUBSET Sessions) /\ lost \subseteq Sessions
    /\ cap \in Caps /\ serving \in {"down", "starting", "up", "closing"}
    /\ touches \in 0 .. MaxTouches /\ kills \in 0 .. MaxKills

ServingInit ==
    /\ session = [s \in Sessions |-> "none"]
    /\ encoders = {} /\ encoding = {} /\ doomed = {} /\ lost = {}
    /\ recorded = {} /\ recordings = <<>> /\ saved = {} /\ quiet = {}
    /\ cap \in Caps
    /\ serving = "down" /\ touches = 0 /\ kills = 0

------------------------------------------------------------------------------
\* Every change of the records sends the whole snapshot to the store; nobody
\* waits for it.

Records(rs) == recorded' = rs /\ recordings' = Append(recordings, rs)
RecordLands ==
    /\ recordings # <<>>
    /\ saved' = Head(recordings) /\ recordings' = Tail(recordings)
    /\ UNCHANGED <<session, encoders, encoding, doomed, recorded, quiet, cap,
                   serving, touches, kills, lost>>

OpenSession(mode) ==
    /\ serving = "up"
    /\ \E s \in Sessions :
          /\ session[s] = "none" /\ \A r \in 1 .. s - 1 : session[r] # "none"
          /\ session' = [session EXCEPT ![s] = mode]
    /\ UNCHANGED <<encoders, encoding, doomed, recorded, recordings, saved, quiet,
                   cap, serving, touches, kills, lost>>

\* start-worker: the first encoder always starts, a further one only while the
\* open sessions, its own among them, are fewer than the cap.
CountsEncoders(s) == Cardinality(encoders) > cap
Saturated(s) ==
    \/ encoders # {} /\ Cardinality(Open) >= cap
    \/ Cardinality(encoders) >= cap
StartWorker(s) ==
    /\ serving = "up" /\ s \in Open \ encoders /\ ~Saturated(s)
    /\ encoders' = encoders \cup {s}
    /\ encoding' \in {encoding, encoding \cup {s}}     \* the spawn may fail later
    /\ Records(recorded \cup {s})
    /\ UNCHANGED <<session, doomed, saved, quiet, cap, serving, touches, kills, lost>>

\* closeSession, from its client, the start route's deadline, the error of a
\* spawn, the watchdog or the unmount.
CloseSession(s) ==
    /\ session' = [session EXCEPT ![s] = "closed"]
    /\ encoders' = encoders \ {s}
    /\ doomed' = doomed \cup ({s} \cap encoders \cap encoding)
    /\ IF s \in recorded THEN Records(recorded \ {s})
                         ELSE UNCHANGED <<recorded, recordings>>
    /\ UNCHANGED <<encoding, saved, quiet, cap, serving, touches, kills, lost>>
CloseAsked(s) == serving = "up" /\ s \in Open /\ CloseSession(s)
Reap(s) == serving \in {"up", "closing"} /\ s \in Open \cap quiet /\ CloseSession(s)
UnmountCloses(s) == serving = "closing" /\ s \in Open /\ CloseSession(s)

\* An encoder reaches the end of the file, or dies of its signal.
EncoderEnds(s) ==
    /\ s \in encoding
    /\ encoding' = encoding \ {s} /\ doomed' = doomed \ {s}
    /\ UNCHANGED <<session, encoders, recorded, recordings, saved, quiet, cap,
                   serving, touches, kills, lost>>
Dies(s) == s \in doomed /\ EncoderEnds(s)

Touch(s) ==
    /\ serving = "up" /\ s \in Open /\ touches < MaxTouches
    /\ quiet' = quiet \ {s} /\ touches' = touches + 1
    /\ UNCHANGED <<session, encoders, encoding, doomed, recorded, recordings, saved,
                   cap, serving, kills, lost>>
TimePasses(s) ==
    /\ s \in Open \ quiet /\ quiet' = quiet \cup {s}
    /\ UNCHANGED <<session, encoders, encoding, doomed, recorded, recordings, saved,
                   cap, serving, touches, kills, lost>>

\* The saved policy sends a snapshot too, "configure" does not.
SetPlaybackPolicy(n) ==
    /\ serving = "up" /\ n # cap /\ cap' = n
    /\ \/ Len(recordings) < MaxOnTheWay /\ Records(recorded)
       \/ UNCHANGED <<recorded, recordings>>
    /\ UNCHANGED <<session, encoders, encoding, doomed, saved, quiet, serving,
                   touches, kills, lost>>

------------------------------------------------------------------------------
\* The life of the plugin.

\* The policy is the one that was saved, or the default.
MountServing ==
    /\ serving = "down" /\ recordings = <<>>
    /\ serving' = "starting" /\ recorded' = recorded \cup saved
    /\ cap' \in Caps
    /\ UNCHANGED <<session, encoders, encoding, doomed, recordings, saved, quiet,
                   touches, kills, lost>>

\* cleanupOrphans kills the recorded processes of an earlier life; the store
\* keeps the records until the next snapshot.
OwnOnly == encoders
Orphans == encoders \cup recorded
CleanupOrphans ==
    /\ serving = "starting" /\ serving' = "up"
    /\ doomed' = doomed \cup (encoding \cap Orphans)
    /\ recorded' = {} /\ encoders' = {}
    /\ UNCHANGED <<session, encoding, recordings, saved, quiet, cap, touches, kills, lost>>

Unmount ==
    /\ serving = "up" /\ serving' = "closing"
    /\ UNCHANGED <<session, encoders, encoding, doomed, recorded, recordings, saved,
                   quiet, cap, touches, kills, lost>>
Unmounted ==
    /\ serving = "closing" /\ Open = {}
    /\ serving' = "down" /\ recorded' = {}
    /\ recordings' = Append(recordings, recorded)
    /\ UNCHANGED <<session, encoders, encoding, doomed, saved, quiet, cap, touches,
                   kills, lost>>

\* The server or the plugin is killed: encoders run on, what was on its way to
\* the store is lost.
Kill ==
    /\ serving # "down" /\ kills < MaxKills
    /\ kills' = kills + 1 /\ serving' = "down"
    /\ session' = [s \in Sessions |-> IF s \in Open THEN "closed" ELSE session[s]]
    /\ encoders' = {} /\ recorded' = {} /\ recordings' = <<>>
    /\ lost' = lost \cup (encoding \ (doomed \cup saved))
    /\ UNCHANGED <<encoding, doomed, saved, quiet, cap, touches>>

ServingNext ==
    \/ RecordLands \/ MountServing \/ CleanupOrphans \/ Unmount \/ Unmounted \/ Kill
    \/ \E mode \in {"direct", "hls"} : OpenSession(mode)
    \/ \E n \in Caps : SetPlaybackPolicy(n)
    \/ \E s \in Sessions :
          \/ StartWorker(s) \/ CloseAsked(s) \/ Reap(s) \/ UnmountCloses(s)
          \/ EncoderEnds(s) \/ Touch(s) \/ TimePasses(s)

ServingSpec == ServingInit /\ [][ServingNext]_servingVars

------------------------------------------------------------------------------
\* Hazard: encoders of earlier lives, of ending sessions and of new ones at the
\* same time.  One starts only while those nobody has killed yet stay within
\* the cap; a process no record names is out of the plugin's reach.
StartsWithinCap ==
    encoding' \ encoding # {} => Cardinality(encoding' \ (doomed' \cup lost')) <= cap
WithinCap == [][StartsWithinCap]_servingVars

\* Hazard: a viewer leaves, a server is killed.  Once the last sign of life has
\* come, every encoder ends, but for those whose record a crash overtook.
NothingKeepsEncoding == <>[](encoding \subseteq lost)

==============================================================================
