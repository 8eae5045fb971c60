------------------------- MODULE ConfigurationProofs -------------------------
(* Machine-checked theorems about ConfigRestore, Onboarding and PluginSet, for *)
(* every number of writes, backups, restores, tabs, requests, plugins, crashes *)
(* and stops, and for all steps, choices and manifests.                        *)
EXTENDS Onboarding, ConfigRestore, PluginSet, FiniteSetTheorems, SequenceTheorems, TLAPS

------------------------------------------------------------------------------
(* Backups and restores: the inductive invariant *)

\* A copy of a configuration always has a database.
Copy == [database : 1 .. Foreign, credentials : 0 .. Foreign, runtime : 0 .. Foreign]
Original == [files : Copy, import : Copy]
Keeping   == {"keep", "keep runtime", "keep database"}
\* The steps of the start, the first of them left out one by one.
AtSessions == {"sessions", "finish"}
AtDatabase == {"database"} \cup AtSessions
AtRuntime  == {"runtime", "log"} \cup AtDatabase
Restoring  == {"credentials"} \cup AtRuntime

FilesInv ==
    /\ main \in 1 .. Foreign /\ wal \in 0 .. Foreign
    /\ credentials \in 0 .. Foreign /\ runtime \in 0 .. Foreign
    /\ signedIn \in BOOLEAN
    /\ pending \in Copy \cup {NoFile} /\ before \in Trio
    /\ backups \in Seq(Copy) /\ manual \subseteq Copy
    /\ snapshot \in [copy : Copy \cup {NoFile}, import : Copy \cup {NoFile}]
    /\ original \in Original \cup {NoFile}
    /\ writes \in 0 .. MaxWrites /\ crashes \in 0 .. MaxCrashes

\* A running server has no import half applied, and an import is staged only
\* after the copies of an earlier restore are gone.
RunningInv ==
    /\ server \in {"off", "booting", "up"}
    /\ server = "up" =>
          /\ original = NoFile
          /\ step \in {"stage copy", "clear"} => pending = NoFile
          /\ step = "save write" => snapshot.copy # NoFile
    /\ pending # NoFile /\ original = NoFile => before = NoCopies

\* What the first attempt found is either still there or kept as a whole.
Untouched == before.database = 0 /\ LiveFiles = original.files
Kept == before = original.files
Restored == LiveFiles = original.import /\ ~signedIn

AppliedInv ==
    original # NoFile =>
        /\ IF pending = NoFile THEN Restored /\ Kept
           ELSE pending = original.import /\ (Untouched \/ Kept)
        /\ server = "booting" =>
              /\ step \in Keeping => Untouched
              /\ step \in {"keep runtime", "keep database"} => before.credentials = credentials
              /\ step = "keep database" => before.runtime = runtime
              /\ step \in Restoring => Kept
              /\ step \in AtRuntime => credentials = original.import.credentials
              /\ step \in {"log"} \cup AtDatabase => runtime = original.import.runtime
              /\ step \in AtDatabase => wal = 0
              /\ step \in AtSessions => main = original.import.database
              /\ step = "finish" => ~signedIn

\* The start is at a step of an import that is there, or about to open.
StartInv ==
    server = "booting" =>
        /\ step \in Keeping \cup Restoring \cup {"open"}
        /\ IF step = "open" THEN pending = NoFile ELSE pending # NoFile /\ original # NoFile

RestoreInv == FilesInv /\ RunningInv /\ AppliedInv /\ StartInv

------------------------------------------------------------------------------
(* Facts about copies *)

\* The imported content is a number of its own.
LEMMA NumberFacts ==
    /\ Foreign \in 1 .. Foreign /\ {0, 1, MaxWrites, Foreign} \subseteq 0 .. Foreign
    /\ 1 \in 1 .. Foreign /\ 1 .. Foreign \subseteq 0 .. Foreign
BY RestoreBounds DEF Foreign

\* A copy is three numbers, never NoFile and never the empty copies.
LEMMA CopyFacts ==
    /\ Foreign \in Nat \ {0, 1} /\ MaxWrites \in 1 .. Foreign
    /\ NoCopies \in Trio /\ NoFile \notin Copy /\ NoFile \notin Original
    /\ \A c \in Copy : c \in Trio /\ c.database # 0
<1>1. Foreign \in Nat \ {0, 1} /\ MaxWrites \in 1 .. Foreign
  BY RestoreBounds DEF Foreign
<1>2. Copy \subseteq Trio
  BY <1>1 DEF Copy, Trio
<1>3. Original \subseteq [files : Trio, import : Trio]
  BY <1>2 DEF Original
<1>4. NoFile \notin Copy /\ NoFile \notin Original
  BY <1>2, <1>3, NoFileIsNone
<1>5. NoCopies \in Trio
  BY <1>1 DEF NoCopies, Trio
<1>6. \A c \in Copy : c.database # 0
  BY DEF Copy
<1> QED
  BY <1>1, <1>2, <1>4, <1>5, <1>6

\* The files of a server always hold a database.
LEMMA LiveFilesFacts ==
    ASSUME FilesInv
    PROVE  /\ Database \in 1 .. Foreign /\ LiveFiles \in Copy
           /\ LiveFiles.database = Database
           /\ LiveFiles.credentials = credentials /\ LiveFiles.runtime = runtime
<1>1. Database \in 1 .. Foreign
  BY CopyFacts DEF FilesInv, Database
<1> QED
  BY <1>1 DEF FilesInv, LiveFiles, Copy

\* What is not kept yet has no database among the pre-restore copies.
LEMMA UntouchedOrKept ==
    ASSUME FilesInv, original # NoFile
    PROVE  /\ Kept => before.database # 0
           /\ original \in Original /\ original.files \in Copy /\ original.import \in Copy
<1>1. original \in Original
  BY DEF FilesInv
<1>2. original.files \in Copy /\ original.import \in Copy
  BY <1>1 DEF Original
<1> QED
  BY <1>1, <1>2, CopyFacts DEF Kept

\* Pruning keeps a part of what there was.
LEMMA PrunedFacts ==
    ASSUME NEW all \in Seq(Copy), NEW retention \in 0 .. MaxRetention
    PROVE  Pruned(all, retention) \in Seq(Copy)
<1>0. retention \in Nat
  BY RestoreBounds
<1>1. Len(all) \in Nat
  BY LenProperties
<1>2. CASE retention = 0 \/ Len(all) <= retention
  BY <1>2 DEF Pruned
<1>3. CASE ~(retention = 0 \/ Len(all) <= retention)
  <2> DEFINE first == Len(all) - retention + 1
  <2>1. first \in Int /\ first >= 1
    BY <1>0, <1>1, <1>3
  <2>2. \A i \in first .. Len(all) : all[i] \in Copy
    <3> TAKE i \in first .. Len(all)
    <3>1. i \in 1 .. Len(all)
      BY <1>1, <2>1
    <3> QED
      BY <3>1, ElementOfSeq
  <2>3. SubSeq(all, first, Len(all)) \in Seq(Copy)
    <3> HIDE DEF first
    <3> QED
      BY <1>1, <2>1, <2>2, SubSeqProperties
  <2> QED
    BY <1>3, <2>3 DEF Pruned
<1> QED
  BY <1>2, <1>3

------------------------------------------------------------------------------
(* The invariant *)

LEMMA RestoreInitInv == RestoreInit => RestoreInv
<1> SUFFICES ASSUME RestoreInit PROVE RestoreInv
  OBVIOUS
<1>1. FilesInv
  <2>1. Empty \in [copy : Copy \cup {NoFile}, import : Copy \cup {NoFile}]
    BY DEF Empty
  <2>2. backups \in Seq(Copy)
    BY EmptySeq DEF RestoreInit
  <2>3. main \in 1 .. Foreign /\ {wal, credentials, runtime} \subseteq 0 .. Foreign
    BY CopyFacts DEF RestoreInit
  <2>4. writes \in 0 .. MaxWrites /\ crashes \in 0 .. MaxCrashes
    BY RestoreBounds DEF RestoreInit
  <2>5. signedIn \in BOOLEAN
    BY DEF RestoreInit
  <2>6. before \in Trio
    BY CopyFacts DEF RestoreInit
  <2> QED
    BY <2>1, <2>2, <2>3, <2>4, <2>5, <2>6 DEF RestoreInit, FilesInv
<1>2. RunningInv /\ AppliedInv /\ StartInv
  BY DEF RestoreInit, RunningInv, AppliedInv, StartInv
<1> QED
  BY <1>1, <1>2 DEF RestoreInv

\* A running server writes its files: no import is half applied.
LEMMA ChangesInv ==
    ASSUME RestoreInv, Changes \/ EmptiesLog
    PROVE  RestoreInv'
<1> USE DEF Changes, Updates, EmptiesLog, liveVars, savedVars, boundVars
<1>1. FilesInv'
  <2>1. main' \in 1 .. Foreign
    <3>1. CASE Changes
      BY <3>1 DEF RestoreInv, FilesInv
    <3>2. CASE EmptiesLog
      BY <3>2, NumberFacts DEF RestoreInv, FilesInv
    <3> QED
      BY <3>1, <3>2
  <2>2. CASE Changes
    <3>1. writes' \in 0 .. MaxWrites /\ writes' \in 0 .. Foreign
      BY <2>2, CopyFacts, RestoreBounds DEF RestoreInv, FilesInv
    <3>2. {wal', credentials'} \subseteq 0 .. Foreign
      BY <2>2, <3>1 DEF RestoreInv, FilesInv
    <3>3. signedIn' \in BOOLEAN
      BY <2>2 DEF RestoreInv, FilesInv
    <3> QED
      BY <2>1, <2>2, <3>1, <3>2, <3>3 DEF RestoreInv, FilesInv
  <2>3. CASE EmptiesLog
    BY <2>1, <2>3, CopyFacts DEF RestoreInv, FilesInv
  <2> QED
    BY <2>2, <2>3
<1>2. RunningInv'
  BY CopyFacts DEF RestoreInv, FilesInv, RunningInv
<1>3. AppliedInv' /\ StartInv'
  BY DEF RestoreInv, RunningInv, AppliedInv, StartInv
<1> QED
  BY <1>1, <1>2, <1>3 DEF RestoreInv

\* An operation starts; only an import looks at what is pending.
LEMMA StartsInv ==
    ASSUME RestoreInv, SaveStarts \/ (\E file \in Importable : StageStarts(file))
    PROVE  RestoreInv'
<1> USE DEF SaveStarts, StageStarts, Works, Step, Idle, liveVars, savedVars, boundVars
<1>0. Importable \subseteq Copy
  <2>1. /\ [database |-> Foreign, credentials |-> Foreign, runtime |-> Foreign] \in Copy
        /\ [database |-> Foreign, credentials |-> credentials, runtime |-> runtime] \in Copy
    BY NumberFacts DEF RestoreInv, FilesInv, Copy
  <2>2. \A n \in DOMAIN backups : backups[n] \in Copy
    <3>1. backups \in Seq(Copy)
      BY DEF RestoreInv, FilesInv
    <3>2. DOMAIN backups = 1 .. Len(backups)
      BY <3>1, LenProperties
    <3> QED
      BY <3>1, <3>2, ElementOfSeq, Zenon
  <2> QED
    BY <2>1, <2>2 DEF Importable, RestoreInv, FilesInv
<1>1. FilesInv'
  BY <1>0 DEF RestoreInv, FilesInv
<1>2. RunningInv'
  BY CopyFacts DEF RestoreInv, FilesInv, RunningInv
<1>3. AppliedInv' /\ StartInv'
  BY DEF RestoreInv, RunningInv, AppliedInv, StartInv
<1> QED
  BY <1>1, <1>2, <1>3 DEF RestoreInv

\* The copy an operation takes has the database of that moment.
LEMMA CopiesInv ==
    ASSUME RestoreInv, Copies
    PROVE  RestoreInv'
<1> USE DEF Copies, Works, Step, Idle, liveVars, savedVars, boundVars
<1>0. [database |-> Database, credentials |-> 0, runtime |-> runtime] \in Copy
  <2>1. Database \in 1 .. Foreign /\ runtime \in 0 .. Foreign
    BY LiveFilesFacts DEF RestoreInv, FilesInv
  <2> QED
    BY <2>1, NumberFacts DEF Copy
<1>1. FilesInv'
  BY <1>0 DEF RestoreInv, FilesInv
<1>2. RunningInv'
  <2>1. snapshot'.copy # NoFile
    BY <1>0, CopyFacts DEF RestoreInv, FilesInv
  <2> QED
    BY <2>1 DEF RestoreInv, RunningInv
<1>3. AppliedInv' /\ StartInv'
  BY DEF RestoreInv, RunningInv, AppliedInv, StartInv
<1> QED
  BY <1>1, <1>2, <1>3 DEF RestoreInv

\* A saved backup is a copy, and the list loses its oldest.
LEMMA SavesInv ==
    ASSUME RestoreInv, Saves
    PROVE  RestoreInv'
<1> USE DEF Saves, Works, Step, Idle, liveVars, savedVars, boundVars
<1>0. Empty \in [copy : Copy \cup {NoFile}, import : Copy \cup {NoFile}]
  BY DEF Empty
<1>1. FilesInv'
  <2> DEFINE made == [snapshot.copy EXCEPT !.credentials = credentials]
             all  == Append(backups, made)
  <2>1. made \in Copy
    <3>1. snapshot.copy \in Copy
      BY DEF RestoreInv, FilesInv, RunningInv
    <3> QED
      BY <3>1 DEF RestoreInv, FilesInv, Copy
  <2>2. manual' \subseteq Copy
    BY <2>1 DEF RestoreInv, FilesInv
  <2>3. \A retention \in 0 .. MaxRetention : Pruned(all, retention) \in Seq(Copy)
    <3>1. backups \in Seq(Copy)
      BY DEF RestoreInv, FilesInv
    <3> HIDE DEF made
    <3>2. all \in Seq(Copy)
      BY <2>1, <3>1, AppendProperties
    <3> HIDE DEF all
    <3> QED
      BY <3>2, PrunedFacts, Zenon
  <2>4. backups' \in Seq(Copy)
    BY <2>3 DEF RestoreInv, FilesInv
  <2> QED
    BY <1>0, <2>2, <2>4 DEF RestoreInv, FilesInv
<1>2. RunningInv'
  BY CopyFacts DEF RestoreInv, FilesInv, RunningInv
<1>3. AppliedInv' /\ StartInv'
  BY DEF RestoreInv, RunningInv, AppliedInv, StartInv
<1> QED
  BY <1>1, <1>2, <1>3 DEF RestoreInv

\* Staging removes the copies of an earlier restore, then lands the import.
LEMMA ClearsInv ==
    ASSUME RestoreInv, Clears \/ StageLands
    PROVE  RestoreInv'
<1> USE DEF Clears, StageLands, Cleared, Works, Step, Idle, liveVars, savedVars, boundVars
<1>0. Empty \in [copy : Copy \cup {NoFile}, import : Copy \cup {NoFile}]
  BY DEF Empty
<1>1. FilesInv'
  <2>1. before' \in Trio
    <3>1. CASE Clears
      BY <3>1, NumberFacts DEF RestoreInv, FilesInv, Trio
    <3>2. CASE StageLands
      BY <3>2 DEF RestoreInv, FilesInv
    <3> QED
      BY <3>1, <3>2
  <2>2. pending' \in Copy \cup {NoFile}
    BY DEF RestoreInv, FilesInv
  <2> QED
    BY <1>0, <2>1, <2>2 DEF RestoreInv, FilesInv
<1>2. RunningInv'
  BY CopyFacts DEF RestoreInv, FilesInv, RunningInv
<1>3. AppliedInv' /\ StartInv'
  BY DEF RestoreInv, RunningInv, AppliedInv, StartInv
<1> QED
  BY <1>1, <1>2, <1>3 DEF RestoreInv

\* An import is cancelled, an operation fails.
LEMMA EndsInv ==
    ASSUME RestoreInv, Cancels \/ OperationFails
    PROVE  RestoreInv'
<1> USE DEF Cancels, OperationFails, Works, Step, Idle, liveVars, savedVars, boundVars
<1>0. Empty \in [copy : Copy \cup {NoFile}, import : Copy \cup {NoFile}]
  BY DEF Empty
<1>1. FilesInv'
  BY <1>0 DEF RestoreInv, FilesInv
<1>2. RunningInv'
  BY CopyFacts DEF RestoreInv, FilesInv, RunningInv
<1>3. AppliedInv' /\ StartInv'
  BY DEF RestoreInv, RunningInv, AppliedInv, StartInv
<1> QED
  BY <1>1, <1>2, <1>3 DEF RestoreInv

\* A stop closes the database, a crash changes no file.
LEMMA StopsInv ==
    ASSUME RestoreInv, Stops \/ Crashes
    PROVE  RestoreInv'
<1> USE DEF Stops, Crashes, Idle, liveVars, savedVars, boundVars
<1>0. Empty \in [copy : Copy \cup {NoFile}, import : Copy \cup {NoFile}]
  BY DEF Empty
<1>1. FilesInv'
  <2>1. main' \in 1 .. Foreign /\ wal' \in 0 .. Foreign
    BY LiveFilesFacts, NumberFacts DEF RestoreInv, FilesInv
  <2>2. crashes' \in 0 .. MaxCrashes
    BY RestoreBounds DEF RestoreInv, FilesInv
  <2> QED
    BY <1>0, <2>1, <2>2 DEF RestoreInv, FilesInv
<1>2. RunningInv' /\ StartInv'
  BY DEF RestoreInv, RunningInv, StartInv
<1>3. AppliedInv'
  <2>1. CASE Stops
    BY <2>1 DEF RestoreInv, RunningInv, AppliedInv
  <2>2. CASE Crashes
    <3>1. (Untouched' <=> Untouched) /\ (Kept' <=> Kept) /\ (Restored' <=> Restored)
      BY <2>2 DEF Untouched, Kept, Restored, LiveFiles, Database
    <3> QED
      BY <2>2, <3>1 DEF RestoreInv, AppliedInv
  <2> QED
    BY <2>1, <2>2
<1> QED
  BY <1>1, <1>2, <1>3 DEF RestoreInv

\* The first attempt notes what it finds; a later one knows by the database
\* copy whether the files it finds are still those.
LEMMA BootsInv ==
    ASSUME RestoreInv, Boots
    PROVE  RestoreInv'
<1> USE DEF Boots, liveVars, savedVars, boundVars
<1>0. LiveFiles' = LiveFiles
  BY DEF LiveFiles, Database
<1>1. CASE pending = NoFile
  <2>1. original' = original /\ step' = "open"
    BY <1>1
  <2>2. FilesInv'
    BY <2>1 DEF RestoreInv, FilesInv
  <2>3. RunningInv' /\ StartInv'
    BY <1>1, <2>1 DEF RestoreInv, RunningInv, StartInv
  <2>4. AppliedInv'
    BY <1>0, <1>1, <2>1 DEF RestoreInv, AppliedInv, Restored, Kept, Keeping, Restoring,
                            AtRuntime, AtDatabase, AtSessions
  <2> QED
    BY <2>2, <2>3, <2>4 DEF RestoreInv
<1>2. CASE pending # NoFile /\ original = NoFile
  <2>1. pending \in Copy /\ LiveFiles \in Copy /\ before = NoCopies
    BY <1>2, LiveFilesFacts DEF RestoreInv, FilesInv, RunningInv
  <2>2. step' = "keep"
    BY <1>2, <2>1 DEF Keeps, NoCopies
  <2>3. original' = [files |-> LiveFiles, import |-> pending] /\ original' \in Original
    BY <1>2, <2>1 DEF Original
  <2>4. original' # NoFile
    BY <2>3, CopyFacts
  <2>5. FilesInv'
    BY <2>3 DEF RestoreInv, FilesInv
  <2>6. RunningInv' /\ StartInv'
    BY <1>2, <2>2, <2>4 DEF RestoreInv, RunningInv, StartInv, Keeping
  <2>7. Untouched'
    BY <1>0, <2>1, <2>3 DEF Untouched, NoCopies
  <2>8. AppliedInv'
    BY <1>2, <2>2, <2>3, <2>7 DEF AppliedInv, Keeping, Restoring, AtRuntime, AtDatabase,
                                  AtSessions
  <2> QED
    BY <2>5, <2>6, <2>8 DEF RestoreInv
<1>3. CASE pending # NoFile /\ original # NoFile
  <2>1. original' = original /\ pending = original.import /\ (Untouched \/ Kept)
    BY <1>3 DEF RestoreInv, AppliedInv
  <2>2. (Untouched' <=> Untouched) /\ (Kept' <=> Kept)
    BY <1>0, <2>1 DEF Untouched, Kept
  <2>3. FilesInv'
    BY <2>1 DEF RestoreInv, FilesInv
  <2>4. step' \in {"keep", "credentials"}
    BY <1>3
  <2>5. RunningInv' /\ StartInv'
    BY <1>3, <2>1, <2>4 DEF RestoreInv, RunningInv, StartInv, Keeping, Restoring
  <2>6. (step' = "keep" => Untouched) /\ (step' = "credentials" => Kept)
    <3>1. step' = "keep" <=> before.database = 0
      BY <1>3 DEF Keeps
    <3> QED
      BY <1>3, <2>1, <2>4, <3>1, UntouchedOrKept DEF RestoreInv, Untouched
  <2>7. AppliedInv'
    BY <1>3, <2>1, <2>2, <2>4, <2>6 DEF AppliedInv, Keeping, Restoring, AtRuntime,
                                        AtDatabase, AtSessions
  <2> QED
    BY <2>3, <2>5, <2>7 DEF RestoreInv
<1> QED
  BY <1>1, <1>2, <1>3

\* A start past its first look works on an import that is there.
LEMMA AppliesFacts ==
    ASSUME RestoreInv, server = "booting", step # "open"
    PROVE  /\ pending # NoFile /\ original # NoFile /\ pending = original.import
           /\ pending \in Copy /\ original \in Original /\ (Untouched \/ Kept)
BY DEF RestoreInv, FilesInv, AppliedInv, StartInv

\* The copies are taken with the database last, so that a crash before it
\* takes them again and one after it does not.
LEMMA KeepsInv ==
    ASSUME RestoreInv, KeepsCredentials \/ KeepsRuntime \/ KeepsDatabase
    PROVE  RestoreInv'
<1> USE DEF KeepsCredentials, KeepsRuntime, KeepsDatabase, Applies, liveVars, savedVars, boundVars
<1>0. /\ pending # NoFile /\ original # NoFile /\ pending = original.import
      /\ Untouched /\ LiveFiles' = LiveFiles /\ LiveFiles \in Copy
  <2>1. step # "open" /\ step \in Keeping
    BY DEF Keeping
  <2>2. Untouched
    BY <2>1, AppliesFacts DEF RestoreInv, AppliedInv
  <2>3. LiveFiles' = LiveFiles
    BY DEF LiveFiles, Database
  <2> QED
    BY <2>1, <2>2, <2>3, AppliesFacts, LiveFilesFacts DEF RestoreInv
<1>1. FilesInv'
  <2>1. before' \in Trio
    BY LiveFilesFacts, NumberFacts DEF RestoreInv, FilesInv, Trio
  <2> QED
    BY <2>1 DEF RestoreInv, FilesInv
<1>2. RunningInv' /\ StartInv'
  BY <1>0 DEF RestoreInv, RunningInv, StartInv, Keeping, Restoring
<1>3. AppliedInv'
  <2>0. before \in Trio
    BY DEF RestoreInv, FilesInv
  <2>1. CASE KeepsCredentials
    <3>1. before'.database = 0 /\ before'.credentials = credentials
      BY <1>0, <2>0, <2>1 DEF Untouched, Trio
    <3>2. Untouched'
      BY <1>0, <2>1, <3>1 DEF Untouched
    <3> QED
      BY <1>0, <2>1, <3>1, <3>2 DEF AppliedInv, Keeping, Restoring, AtRuntime, AtDatabase,
                                    AtSessions
  <2>2. CASE KeepsRuntime
    <3>1. before.credentials = credentials
      BY <1>0, <2>2 DEF RestoreInv, AppliedInv
    <3>2. /\ before'.database = 0 /\ before'.credentials = credentials
          /\ before'.runtime = runtime
      BY <1>0, <2>0, <2>2, <3>1 DEF Untouched, Trio
    <3>3. Untouched'
      BY <1>0, <2>2, <3>2 DEF Untouched
    <3> QED
      BY <1>0, <2>2, <3>2, <3>3 DEF AppliedInv, Keeping, Restoring, AtRuntime, AtDatabase,
                                    AtSessions
  <2>3. CASE KeepsDatabase
    <3>1. before.credentials = credentials /\ before.runtime = runtime
      BY <1>0, <2>3 DEF RestoreInv, AppliedInv
    <3>2. before' = LiveFiles
      BY <2>0, <2>3, <3>1 DEF LiveFiles, Trio
    <3>3. Kept'
      BY <1>0, <2>3, <3>2 DEF Untouched, Kept
    <3> QED
      BY <1>0, <2>3, <3>3 DEF AppliedInv, Keeping, Restoring, AtRuntime, AtDatabase,
                              AtSessions
  <2> QED
    BY <2>1, <2>2, <2>3
<1> QED
  BY <1>1, <1>2, <1>3 DEF RestoreInv

\* The import replaces one file after another, and what was kept stays.
LEMMA WritesInv ==
    ASSUME RestoreInv,
           \/ WritesCredentials \/ WritesRuntime \/ RemovesLog \/ WritesDatabase
           \/ DeletesSessions
    PROVE  RestoreInv'
<1> USE DEF WritesCredentials, WritesRuntime, RemovesLog, WritesDatabase, DeletesSessions,
            Applies, savedVars, boundVars
<1>0. /\ pending # NoFile /\ original # NoFile /\ pending = original.import
      /\ pending \in Copy /\ Kept /\ Kept'
      /\ step \in Restoring /\ step' \in Restoring
  <2>1. server = "booting" /\ step # "open" /\ step \in Restoring /\ step' \in Restoring
    BY DEF Restoring, AtRuntime, AtDatabase, AtSessions
  <2>2. /\ pending # NoFile /\ original # NoFile /\ pending = original.import
        /\ pending \in Copy
    BY <2>1, AppliesFacts, Zenon
  <2>3. Kept
    BY <2>1, <2>2 DEF RestoreInv, AppliedInv
  <2>4. Kept'
    BY <2>3 DEF Kept
  <2> QED
    BY <2>1, <2>2, <2>3, <2>4, Zenon
<1>1. FilesInv'
  <2>1. /\ pending.database \in 1 .. Foreign /\ pending.credentials \in 0 .. Foreign
        /\ pending.runtime \in 0 .. Foreign
    BY <1>0 DEF Copy
  <2>2. main' \in 1 .. Foreign /\ {wal', credentials', runtime'} \subseteq 0 .. Foreign
    BY <2>1, NumberFacts DEF RestoreInv, FilesInv
  <2>3. signedIn' \in BOOLEAN
    BY DEF RestoreInv, FilesInv
  <2> QED
    BY <2>2, <2>3 DEF RestoreInv, FilesInv
<1>2. RunningInv' /\ StartInv'
  BY <1>0 DEF RestoreInv, RunningInv, StartInv, Restoring, AtRuntime, AtDatabase, AtSessions
<1>3. AppliedInv'
  <2>1. pending' # NoFile /\ pending' = original'.import /\ step' \notin Keeping
    BY <1>0 DEF Keeping, Restoring, AtRuntime, AtDatabase, AtSessions
  <2>2. step' \in AtRuntime => credentials' = original'.import.credentials
    BY <1>0 DEF RestoreInv, AppliedInv, AtRuntime, AtDatabase, AtSessions
  <2>3. step' \in {"log"} \cup AtDatabase => runtime' = original'.import.runtime
    BY <1>0 DEF RestoreInv, AppliedInv, AtRuntime, AtDatabase, AtSessions
  <2>4. step' \in AtDatabase => wal' = 0
    BY <1>0 DEF RestoreInv, AppliedInv, AtDatabase, AtSessions
  <2>5. step' \in AtSessions => main' = original'.import.database
    BY <1>0 DEF RestoreInv, AppliedInv, AtSessions
  <2>6. step' = "finish" => ~signedIn'
    OBVIOUS
  <2>7. ~(step' \in {"keep runtime", "keep database"})
    BY <2>1 DEF Keeping
  <2> QED
    BY <1>0, <2>1, <2>2, <2>3, <2>4, <2>5, <2>6, <2>7 DEF AppliedInv
<1> QED
  BY <1>1, <1>2, <1>3 DEF RestoreInv

\* The pending file goes last, when every file is the import's.
LEMMA FinishesInv ==
    ASSUME RestoreInv, Finishes
    PROVE  RestoreInv'
<1> USE DEF Finishes, Applies, liveVars, savedVars, boundVars
<1>0. step # "open" /\ step \in Restoring /\ step \in AtRuntime /\ step \in AtDatabase
      /\ step \in AtSessions
  BY DEF Restoring, AtRuntime, AtDatabase, AtSessions
<1>1. original # NoFile /\ original.import \in Copy /\ Kept
  BY <1>0, AppliesFacts, UntouchedOrKept DEF RestoreInv, AppliedInv
<1>2. /\ LiveFiles.credentials = original.import.credentials
      /\ LiveFiles.runtime = original.import.runtime
      /\ LiveFiles.database = original.import.database /\ ~signedIn
  <2>1. /\ credentials = original.import.credentials
        /\ runtime = original.import.runtime
        /\ wal = 0 /\ main = original.import.database /\ ~signedIn
    BY <1>0, <1>1 DEF RestoreInv, AppliedInv
  <2> QED
    BY <2>1, LiveFilesFacts DEF RestoreInv, Database
<1>3. Restored
  <2>1. LiveFiles \in Copy
    BY LiveFilesFacts DEF RestoreInv
  <2>2. LiveFiles = original.import
    BY <1>1, <1>2, <2>1 DEF Copy
  <2> QED
    BY <1>2, <2>2 DEF Restored
<1>4. Restored' /\ Kept'
  BY <1>1, <1>3 DEF Restored, Kept, LiveFiles, Database
<1>5. FilesInv' /\ RunningInv' /\ StartInv'
  BY DEF RestoreInv, FilesInv, RunningInv, StartInv
<1>6. AppliedInv'
  BY <1>4 DEF AppliedInv, Keeping, Restoring, AtRuntime, AtDatabase, AtSessions
<1> QED
  BY <1>5, <1>6 DEF RestoreInv

\* The server is up with nothing half applied.
LEMMA OpensInv ==
    ASSUME RestoreInv, Opens
    PROVE  RestoreInv'
<1> USE DEF Opens, liveVars, savedVars, boundVars
<1>1. pending = NoFile
  BY DEF RestoreInv, StartInv
<1>2. FilesInv' /\ StartInv' /\ AppliedInv'
  BY DEF RestoreInv, FilesInv, StartInv, AppliedInv
<1>3. RunningInv'
  BY <1>1 DEF RestoreInv, RunningInv
<1> QED
  BY <1>2, <1>3 DEF RestoreInv

\* A step that changes nothing.
LEMMA RestoreStutters ==
    ASSUME RestoreInv, UNCHANGED restoreVars
    PROVE  RestoreInv'
<1> USE DEF restoreVars
<1>1. FilesInv' /\ RunningInv' /\ StartInv'
  BY DEF RestoreInv, FilesInv, RunningInv, StartInv
<1>2. (Untouched' <=> Untouched) /\ (Kept' <=> Kept) /\ (Restored' <=> Restored)
  BY DEF Untouched, Kept, Restored, LiveFiles, Database
<1>3. AppliedInv'
  BY <1>2 DEF RestoreInv, AppliedInv
<1> QED
  BY <1>1, <1>3 DEF RestoreInv

\* Every step of the server, its operations and its start preserves it.
LEMMA RestoreStepInv == RestoreInv /\ [RestoreNext]_restoreVars => RestoreInv'
BY ChangesInv, StartsInv, CopiesInv, SavesInv, ClearsInv, EndsInv, StopsInv, BootsInv,
   KeepsInv, WritesInv, FinishesInv, OpensInv, RestoreStutters DEF RestoreNext

------------------------------------------------------------------------------
(* The theorems *)

\* At every moment, crashes and failed operations included, the files on disk
\* are those of the server, of an import, or on the way to it with the pending
\* file and the pre-restore copies there to finish it (backups.ts:80-117).
THEOREM RestoreInvariance == RestoreSpec => []RestoreInv
<1>1. RestoreInit => RestoreInv
  BY RestoreInitInv
<1>2. RestoreInv /\ [RestoreNext]_restoreVars => RestoreInv'
  BY RestoreStepInv
<1> QED
  BY <1>1, <1>2, PTL DEF RestoreSpec

\* Every file, copy and count has its type, in every state of a restore.
THEOREM RestoreTypes == RestoreSpec => []RestoreTypeOK
<1>1. ASSUME RestoreInv PROVE RestoreTypeOK
  <2>1. Copy \subseteq Trio
    BY CopyFacts
  <2>2. backups \in Seq(Trio)
    BY <1>1, <2>1 DEF RestoreInv, FilesInv
  <2>3. snapshot \in [copy : Trio \cup {NoFile}, import : Trio \cup {NoFile}]
    BY <1>1, <2>1 DEF RestoreInv, FilesInv
  <2>4. {main, wal, credentials, runtime} \subseteq 0 .. Foreign
    BY <1>1, NumberFacts DEF RestoreInv, FilesInv
  <2>5. pending \in Trio \cup {NoFile} /\ manual \subseteq Trio
    BY <1>1, <2>1 DEF RestoreInv, FilesInv
  <2> QED
    BY <1>1, <2>2, <2>3, <2>4, <2>5 DEF RestoreInv, FilesInv, RunningInv, RestoreTypeOK
<1> QED
  BY <1>1, RestoreInvariance, PTL

\* Only Opens brings a server up, and it finds the import done.
LEMMA OpensWhole ==
    ASSUME RestoreInv, [RestoreNext]_restoreVars
    PROVE  server = "booting" /\ server' = "up" /\ original # NoFile =>
              /\ LiveFiles = original.import /\ ~signedIn
              /\ before = original.files
<1> SUFFICES ASSUME server = "booting", server' = "up", original # NoFile
             PROVE  /\ LiveFiles = original.import /\ ~signedIn
                    /\ before = original.files
  OBVIOUS
<1>1. Opens
  BY DEF RestoreNext, restoreVars, Changes, Updates, EmptiesLog, SaveStarts, StageStarts, Copies, Saves,
         Clears, StageLands, Cancels, OperationFails, Stops, Crashes, Boots, KeepsCredentials,
         KeepsRuntime, KeepsDatabase, WritesCredentials, WritesRuntime, RemovesLog,
         WritesDatabase, DeletesSessions, Finishes, Works, Step, Idle, Applies, liveVars,
         savedVars, boundVars
<1>2. pending = NoFile
  BY <1>1 DEF Opens, RestoreInv, StartInv
<1> QED
  BY <1>2 DEF RestoreInv, AppliedInv, Restored, Kept

\* A restore is all or nothing, for any number of writes, imports and crashes:
\* a server that comes up after one has the three files of the import, none of
\* its sessions, and the copies of what was there (backups.ts:80, 89-90).
THEOREM RestoreWhole == RestoreSpec => RestoreIsWhole
<1>1. RestoreInv /\ [RestoreNext]_restoreVars =>
        [server = "booting" /\ server' = "up" /\ original # NoFile =>
              /\ LiveFiles = original.import /\ ~signedIn
              /\ before = original.files]_restoreVars
  BY OpensWhole
<1> QED
  BY <1>1, RestoreInvariance, PTL DEF RestoreSpec, RestoreIsWhole

------------------------------------------------------------------------------
(* Guided setup: the inductive invariant *)

PatchBody == [fields : SUBSET DOMAIN NoChoices, values : Choices]
SetupRequests == [at : {"check", "read", "write"}, body : PatchBody, step : SetupSteps \cup {"none"},
             result : Statuses \cup {"none"}, choices : Choices, doc : Setups,
             left : 1 .. Attempts]

\* A request that acts on a step sets no choice, its result is one its check
\* may have, and it writes only what it read under the choices of the check.
ActsAsChecked(r) ==
    r.step # "none" =>
       /\ r.body = NoBody
       /\ r.at # "check" => r.result \in Statuses
       /\ r.step = "playback" /\ r.result = "done" => r.choices.media
       /\ r.at = "write" => r.doc.choices = r.choices

SetupRequestInv(r) ==
    \/ r = NoRequest
    \/ r \in SetupRequests /\ ActsAsChecked(r)

SetupStored ==
    /\ setup \in Setups /\ chosen \in Choices /\ shown \in [Resting -> Choices]
    /\ requests \in 0 .. MaxRequests

SetupInv ==
    /\ SetupStored
    /\ DOMAIN request = Tabs /\ request = [t \in Tabs |-> request[t]]
    /\ \A t \in Tabs : SetupRequestInv(request[t])
    /\ NothingReplaced /\ DoneAsChosen

------------------------------------------------------------------------------
(* The operators *)

\* A step given a status has it, the others keep theirs, and nothing else of
\* the document changes.
LEMMA WithFacts ==
    ASSUME NEW doc \in Setups, NEW steps, NEW stat \in Statuses
    PROVE  /\ With(doc, steps, stat) \in Setups
           /\ With(doc, steps, stat).choices = doc.choices
           /\ With(doc, steps, stat).complete = doc.complete
           /\ \A s \in SetupSteps : With(doc, steps, stat).steps[s] =
                                       IF s \in steps THEN stat ELSE doc.steps[s]
  BY DEF With, Setups

\* The choices of a body are set, the others stay.
LEMMA SetFacts ==
    ASSUME NEW choices \in Choices, NEW body \in PatchBody
    PROVE  /\ Set(choices, body) \in Choices
           /\ body = NoBody => Set(choices, body) = choices
  <1>1. Set(choices, body) \in Choices
    BY DEF Set, PatchBody, Choices, NoChoices
  <1>2. ASSUME body = NoBody PROVE Set(choices, body) = choices
    BY <1>2 DEF Set, NoBody, Choices
  <1> QED BY <1>1, <1>2

\* A preference changes the choices as asked, completes nothing, and leaves a
\* step done only if the choice it rests on is the same as before.
LEMMA PreferredFacts ==
    ASSUME NEW doc \in Setups, NEW body \in PatchBody
    PROVE  LET new == Preferred(doc, body)
               same(f) == new.choices[f] = doc.choices[f]
               done(s) == new.steps[s] = "done"
           IN  /\ new \in Setups
               /\ new.choices = Set(doc.choices, body)
               /\ new.complete = doc.complete
               /\ done("acquisition") => doc.steps["acquisition"] = "done" /\ same("mode")
               /\ done("first-title") => doc.steps["first-title"] = "done" /\ same("title")
               /\ done("playback") /\ ~new.complete =>
                     doc.steps["playback"] = "done" /\ new.choices.media = doc.choices.media
               /\ done("playback") /\ ~new.complete /\ doc.choices.media => same("title")
  <1> DEFINE set == [doc EXCEPT !.choices = Set(@, body)]
             old == doc.choices
             now == set.choices
             Changed(f) == now[f] # old[f]
             reopened == {s \in Resting :
                            \/ s = "acquisition" /\ Changed("mode")
                            \/ s = "first-title" /\ Changed("title")
                            \/ s = "playback" /\ now.media /\ ( \/ Changed("title")
                                                                \/ Changed("media") /\ ~set.complete )}
             closed == IF Changed("media") /\ ~now.media /\ ~set.complete THEN {"playback"} ELSE {}
             open == With(set, reopened, "pending")
  <1>1. /\ set \in Setups /\ now = Set(old, body) /\ now \in Choices /\ old \in Choices
        /\ set.steps = doc.steps /\ set.complete = doc.complete
    BY SetFacts DEF Setups
  <1>2. Preferred(doc, body) = With(open, closed, "skipped")
    BY DEF Preferred, Reset
  <1>3. "pending" \in Statuses /\ "skipped" \in Statuses
    BY DEF Statuses
  <1> HIDE DEF set, reopened, closed
  <1>4. /\ open \in Setups /\ open.choices = now /\ open.complete = doc.complete
        /\ \A s \in SetupSteps : open.steps[s] = IF s \in reopened THEN "pending" ELSE doc.steps[s]
    BY <1>1, <1>3, WithFacts
  <1> HIDE DEF open, now
  <1>5. /\ Preferred(doc, body) \in Setups
        /\ Preferred(doc, body).choices = now
        /\ Preferred(doc, body).complete = doc.complete
        /\ \A s \in SetupSteps : Preferred(doc, body).steps[s] =
              IF s \in closed THEN "skipped"
              ELSE IF s \in reopened THEN "pending" ELSE doc.steps[s]
    BY <1>2, <1>3, <1>4, WithFacts
  <1>6. Resting \subseteq SetupSteps
    BY DEF SetupSteps
  <1>7. now.media \in BOOLEAN /\ old.media \in BOOLEAN
    BY <1>1 DEF Choices
  <1>8. /\ "acquisition" \in Resting /\ "first-title" \in Resting /\ "playback" \in Resting
    BY DEF Resting
  <1>9. /\ Preferred(doc, body).steps["acquisition"] = "done" =>
              doc.steps["acquisition"] = "done" /\ now.mode = old.mode
        /\ Preferred(doc, body).steps["first-title"] = "done" =>
              doc.steps["first-title"] = "done" /\ now.title = old.title
    BY <1>5, <1>6, <1>8 DEF reopened, closed
  <1>10. ASSUME Preferred(doc, body).steps["playback"] = "done", ~doc.complete
         PROVE  /\ doc.steps["playback"] = "done" /\ now.media = old.media
                /\ old.media => now.title = old.title
    BY <1>1, <1>5, <1>6, <1>7, <1>8, <1>10 DEF reopened, closed
  <1> QED BY <1>1, <1>5, <1>9, <1>10 DEF now

\* Recording a result gives the step that result, and completes the setup only
\* with the last step.
LEMMA RecordedFacts ==
    ASSUME NEW doc \in Setups, NEW r \in SetupRequests, r.result \in Statuses
    PROVE  LET new == Recorded(doc, r) IN
           /\ new \in Setups /\ new.choices = doc.choices
           /\ \A s \in Resting : new.steps[s] = "done" =>
                 \/ s = r.step /\ r.result = "done"
                 \/ s # r.step /\ doc.steps[s] = "done"
           /\ ~new.complete => ~doc.complete
  <1> DEFINE closed == IF r.step = "experience" /\ ~doc.choices.media THEN {"playback"} ELSE {}
             first   == With(doc, {r.step}, r.result)
             both   == With(first, closed, "skipped")
  <1>1. "skipped" \in Statuses
    BY DEF Statuses
  <1>2. /\ first \in Setups /\ first.choices = doc.choices /\ first.complete = doc.complete
        /\ \A s \in SetupSteps : first.steps[s] = IF s \in {r.step} THEN r.result ELSE doc.steps[s]
    BY WithFacts
  <1> HIDE DEF first, closed
  <1>3. /\ both \in Setups /\ both.choices = doc.choices /\ both.complete = doc.complete
        /\ \A s \in SetupSteps : both.steps[s] = IF s \in closed THEN "skipped" ELSE first.steps[s]
    BY <1>1, <1>2, WithFacts
  <1> HIDE DEF both
  <1>4. Recorded(doc, r) = [both EXCEPT !.complete = @ \/ r.step = "final-health"]
    BY DEF Recorded, both, first, closed
  <1>5. /\ Recorded(doc, r) \in Setups
        /\ Recorded(doc, r).choices = doc.choices /\ Recorded(doc, r).steps = both.steps
        /\ Recorded(doc, r).complete = (doc.complete \/ r.step = "final-health")
    BY <1>3, <1>4 DEF Setups
  <1>6. Resting \subseteq SetupSteps
    BY DEF SetupSteps
  <1> QED BY <1>2, <1>3, <1>5, <1>6

\* What is left for later, or needs the other choice first, is not done.
LEMMA OutcomesFacts ==
    ASSUME NEW taken \in SetupSteps, NEW choices \in Choices, NEW found \in Outcomes(taken, choices)
    PROVE  found \in Statuses /\ (taken = "playback" /\ found = "done" => choices.media)
  BY DEF Outcomes, Statuses, Choices

------------------------------------------------------------------------------
(* The initial states *)

LEMMA ChoicesFacts == NoChoices \in Choices /\ Legacy.choices \in Choices /\ Choosing.choices \in Choices
  <1>1. NoChoices \in Choices
    BY DEF NoChoices, Choices
  <1>2. Legacy.choices \in Choices
    BY DEF NoChoices, Choices, Legacy
  <1>3. (CHOOSE m \in Modes : TRUE) \in Modes /\ (CHOOSE file \in Titles : TRUE) \in Titles
    BY SomethingToChoose
  <1>4. With(With(NewSetup, SetupSteps, "done"), Resting \cup {"final-health"}, "pending") \in Setups
    BY <1>1, WithFacts DEF NewSetup, Setups, Statuses
  <1>5. Choosing.choices = [media |-> TRUE, mode |-> CHOOSE m \in Modes : TRUE,
                            title |-> CHOOSE file \in Titles : TRUE, query |-> Unset]
    BY <1>4 DEF Choosing, Setups
  <1> QED BY <1>1, <1>2, <1>3, <1>5 DEF Choices

LEMMA SetupInitInv == SetupInit => SetupInv
  <1> SUFFICES ASSUME SetupInit PROVE SetupInv
    OBVIOUS
  <1> USE DEF SetupInit
  <1>1. NewSetup \in Setups
    BY ChoicesFacts DEF NewSetup, Setups, Statuses
  <1>2. {"pending", "skipped", "done", "configured"} \subseteq Statuses
    BY DEF Statuses
  <1>3. /\ Postponed \in Setups
        /\ \A s \in Resting : Postponed.steps[s] # "done"
    <2> DEFINE skipped == With(NewSetup, SetupSteps, "skipped")
               done    == With(skipped, Required, "done")
    <2>1. /\ skipped \in Setups
          /\ \A s \in SetupSteps : skipped.steps[s] = "skipped"
      BY <1>1, <1>2, WithFacts
    <2> HIDE DEF skipped
    <2>2. /\ done \in Setups
          /\ \A s \in SetupSteps : s \notin Required => done.steps[s] = "skipped"
      BY <1>2, <2>1, WithFacts
    <2> HIDE DEF done
    <2>3. Postponed = With(done, {"final-health"}, "pending")
      BY DEF Postponed, done, skipped
    <2>4. \A s \in Resting : s \in SetupSteps /\ s \notin Required /\ s \notin {"final-health"}
      BY DEF Resting, Required, SetupSteps
    <2> QED BY <1>2, <2>2, <2>3, <2>4, WithFacts
  <1>4. /\ Choosing \in Setups
        /\ \A s \in Resting : Choosing.steps[s] # "done"
    <2> DEFINE done == With(NewSetup, SetupSteps, "done")
               open == With(done, Resting \cup {"final-health"}, "pending")
    <2>1. done \in Setups
      BY <1>1, <1>2, WithFacts
    <2> HIDE DEF done
    <2>2. /\ open \in Setups
          /\ \A s \in SetupSteps : s \in Resting => open.steps[s] = "pending"
      BY <1>2, <2>1, WithFacts
    <2> HIDE DEF open
    <2>3. Choosing = [open EXCEPT !.choices = Choosing.choices]
      BY <2>2 DEF Choosing, open, done, Setups
    <2>4. \A s \in Resting : s \in SetupSteps
      BY DEF SetupSteps
    <2> QED BY <2>2, <2>3, <2>4, ChoicesFacts DEF Setups
  <1>5. /\ Legacy \in Setups
        /\ \A s \in Resting : Legacy.steps[s] # "done"
    BY ChoicesFacts DEF Legacy, Setups, Statuses, Resting, Required, SetupSteps
  <1>6. NewSetup.steps["acquisition"] # "done" /\ NewSetup.steps["first-title"] # "done"
        /\ NewSetup.steps["playback"] # "done"
    BY DEF NewSetup, SetupSteps, Resting
  <1>7. setup \in Setups /\ setup.choices \in Choices
    BY <1>1, <1>3, <1>4, <1>5 DEF Setups
  <1>8. SetupStored
    BY <1>7, SetupBounds DEF SetupStored
  <1>9. DoneAsChosen
    BY <1>3, <1>4, <1>5, <1>6 DEF DoneAsChosen, Resting
  <1> QED BY <1>8, <1>9 DEF SetupInv, SetupRequestInv, NothingReplaced

------------------------------------------------------------------------------
(* The actions *)

\* What a step that moves one request and leaves the row alone has to show.
LEMMA MovesInv ==
    ASSUME SetupInv, NEW t \in Tabs, NEW r, SetupRequestInv(r), request' = [request EXCEPT ![t] = r],
           UNCHANGED <<setup, chosen, shown>>, requests' \in 0 .. MaxRequests
    PROVE  SetupInv'
  BY DEF SetupInv, SetupStored, SetupRequestInv, NothingReplaced, DoneAsChosen

LEMMA AsksInv ==
    ASSUME SetupInv, NEW t \in Tabs, Prefers(t) \/ Completes(t) \/ Skips(t)
    PROVE  SetupInv'
  <1>1. SetupBounds /\ setup.choices \in Choices /\ NoChoices \in Choices /\ NewSetup \in Setups
    BY ChoicesFacts, SetupBounds DEF SetupInv, SetupStored, Setups, NewSetup, Statuses
  <1>2. NoBody \in PatchBody
    BY <1>1 DEF NoBody, PatchBody
  <1>3. ASSUME NEW r, r \in SetupRequests, ActsAsChecked(r), Asks(t, r)
        PROVE  SetupInv'
    <2>1. Cardinality(r.body.fields) \in Nat
      <3>1. IsFiniteSet(DOMAIN NoChoices)
        <4>1. DOMAIN NoChoices = {"media", "mode", "title", "query"}
          BY DEF NoChoices
        <4>2. IsFiniteSet({"media"})
          BY FS_Singleton
        <4>3. IsFiniteSet({"media"} \cup {"mode"})
          BY <4>2, FS_AddElement
        <4>4. IsFiniteSet({"media"} \cup {"mode"} \cup {"title"})
          BY <4>3, FS_AddElement
        <4>5. IsFiniteSet({"media"} \cup {"mode"} \cup {"title"} \cup {"query"})
          BY <4>4, FS_AddElement
        <4>6. DOMAIN NoChoices = {"media"} \cup {"mode"} \cup {"title"} \cup {"query"}
          BY <4>1
        <4> QED BY <4>5, <4>6
      <3>2. r.body.fields \subseteq DOMAIN NoChoices
        BY <1>3 DEF SetupRequests, PatchBody
      <3> QED BY <3>1, <3>2, FS_Subset, FS_CardinalityType
    <2>2. requests' \in 0 .. MaxRequests
      BY <1>3, <2>1, SetupBounds DEF Asks, SetupInv, SetupStored
    <2> QED BY <1>3, <2>2, MovesInv DEF Asks, SetupRequestInv
  <1>4. CASE Prefers(t)
    <2>1. PICK body \in Bodies : Asks(t, Request("read", body, "none", "none"))
      BY <1>4 DEF Prefers
    <2>2. body \in PatchBody
      BY DEF Bodies, PatchBody
    <2> DEFINE r == Request("read", body, "none", "none")
    <2>3. r \in SetupRequests /\ ActsAsChecked(r)
      BY <1>1, <2>2, SetupBounds DEF Request, SetupRequests, ActsAsChecked
    <2> QED BY <1>3, <2>1, <2>3
  <1>5. CASE Completes(t)
    <2>1. PICK taken \in SetupSteps : Asks(t, Request("check", NoBody, taken, "none"))
      BY <1>5 DEF Completes
    <2> DEFINE r == Request("check", NoBody, taken, "none")
    <2>2. r \in SetupRequests /\ ActsAsChecked(r)
      BY <1>1, <1>2, SetupBounds DEF Request, SetupRequests, ActsAsChecked
    <2> QED BY <1>3, <2>1, <2>2
  <1>6. CASE Skips(t)
    <2>1. PICK taken \in SetupSteps : Asks(t, Request("read", NoBody, taken, "skipped"))
      BY <1>6 DEF Skips
    <2> DEFINE r == Request("read", NoBody, taken, "skipped")
    <2>2. r \in SetupRequests /\ ActsAsChecked(r)
      BY <1>1, <1>2, SetupBounds DEF Request, SetupRequests, ActsAsChecked, Statuses
    <2> QED BY <1>3, <2>1, <2>2
  <1> QED BY <1>4, <1>5, <1>6

\* A request under way is well formed.
LEMMA UnderWay ==
    ASSUME SetupInv, NEW t \in Tabs, NEW at, at # "idle", Stands(t, at)
    PROVE  request[t] \in SetupRequests /\ ActsAsChecked(request[t]) /\ request[t].at = at
  BY DEF SetupInv, SetupRequestInv, Stands, NoRequest

LEMMA ChecksInv ==
    ASSUME SetupInv, NEW t \in Tabs, Checks(t)
    PROVE  SetupInv'
  <1>1. request[t] \in SetupRequests /\ ActsAsChecked(request[t]) /\ request[t].at = "check"
    BY UnderWay DEF Checks
  <1>2. PICK found \in Outcomes(request[t].step, request[t].choices) :
            Becomes(t, [request[t] EXCEPT !.at = "read", !.result = found])
    BY DEF Checks
  <1> DEFINE r == [request[t] EXCEPT !.at = "read", !.result = found]
  <1>3. CASE request[t].step = "none"
    <2>1. found \in Statuses
      BY <1>3 DEF Outcomes, Statuses
    <2>2. r \in SetupRequests /\ ActsAsChecked(r)
      BY <1>1, <1>3, <2>1 DEF SetupRequests, ActsAsChecked
    <2> QED BY <1>2, <2>2, MovesInv DEF Checks, Becomes, SetupRequestInv, SetupInv, SetupStored
  <1>4. CASE request[t].step # "none"
    <2>1. request[t].step \in SetupSteps /\ request[t].choices \in Choices
      BY <1>1, <1>4 DEF SetupRequests
    <2>2. found \in Statuses /\ (request[t].step = "playback" /\ found = "done" => request[t].choices.media)
      BY <2>1, OutcomesFacts
    <2>3. r \in SetupRequests /\ ActsAsChecked(r)
      BY <1>1, <2>2 DEF SetupRequests, ActsAsChecked
    <2> QED BY <1>2, <2>3, MovesInv DEF Checks, Becomes, SetupRequestInv, SetupInv, SetupStored
  <1> QED BY <1>3, <1>4

LEMMA ReadsInv ==
    ASSUME SetupInv, NEW t \in Tabs, Reads(t)
    PROVE  SetupInv'
  <1>1. request[t] \in SetupRequests /\ ActsAsChecked(request[t]) /\ request[t].at = "read"
    BY UnderWay DEF Reads
  <1> DEFINE r == IF ~IsPreference(request[t]) /\ Refused(setup, request[t]) THEN NoRequest
                  ELSE [request[t] EXCEPT !.at = "write", !.doc = setup]
  <1>2. setup \in Setups
    BY DEF SetupInv, SetupStored
  <1>3. ASSUME r # NoRequest PROVE r \in SetupRequests /\ ActsAsChecked(r)
    <2>1. r = [request[t] EXCEPT !.at = "write", !.doc = setup]
      BY <1>3
    <2>2. request[t].step # "none" => setup.choices = request[t].choices
      BY <1>3 DEF IsPreference, Refused, ChoicesStand
    <2> QED BY <1>1, <1>2, <2>1, <2>2 DEF SetupRequests, ActsAsChecked
  <1>4. SetupRequestInv(r)
    BY <1>3 DEF SetupRequestInv
  <1> QED BY <1>4, MovesInv DEF Reads, Becomes, SetupInv, SetupStored

LEMMA TriesAgainInv ==
    ASSUME SetupInv, NEW t \in Tabs, TriesAgain(t)
    PROVE  SetupInv'
  <1>1. request[t] \in SetupRequests /\ ActsAsChecked(request[t]) /\ request[t].at = "write"
    BY UnderWay DEF TriesAgain
  <1>2. NewSetup \in Setups
    BY ChoicesFacts DEF NewSetup, Setups, Statuses
  <1> DEFINE r == IF request[t].left = 1 THEN NoRequest
                  ELSE [request[t] EXCEPT !.at = "read", !.doc = NewSetup, !.left = @ - 1]
  <1>3. SetupRequestInv(r)
    <2>1. CASE request[t].left = 1
      BY <2>1 DEF SetupRequestInv
    <2>2. CASE request[t].left # 1
      <3>1. request[t].left - 1 \in 1 .. Attempts
        BY <1>1, <2>2, SetupBounds DEF SetupRequests
      <3> QED BY <1>1, <1>2, <2>2, <3>1 DEF SetupRequestInv, SetupRequests, ActsAsChecked
    <2> QED BY <2>1, <2>2
  <1> QED BY <1>3, MovesInv DEF TriesAgain, Becomes, SetupInv, SetupStored

LEMMA ReplacesInv ==
    ASSUME SetupInv, NEW t \in Tabs, Replaces(t)
    PROVE  SetupInv'
  <1> DEFINE r == request[t]
  <1>1. r \in SetupRequests /\ ActsAsChecked(r) /\ r.at = "write"
    BY UnderWay DEF Replaces
  <1>2. /\ setup \in Setups /\ setup = r.doc /\ chosen = setup.choices /\ DoneAsChosen
        /\ r.body \in PatchBody /\ setup.choices \in Choices
    BY <1>1 DEF Replaces, SameRow, SetupInv, SetupStored, NothingReplaced, SetupRequests, Setups
  <1>3. /\ setup' = Result(setup, r) /\ chosen' = Set(chosen, r.body)
        /\ shown' = [s \in Resting |-> IF s = r.step THEN r.choices ELSE shown[s]]
    BY <1>2 DEF Replaces
  <1>4. /\ DOMAIN request' = Tabs /\ request' = [u \in Tabs |-> request'[u]]
        /\ \A u \in Tabs : SetupRequestInv(request[u])'
        /\ requests' \in 0 .. MaxRequests
    BY DEF Replaces, Becomes, SetupInv, SetupStored, SetupRequestInv
  <1>5. /\ {"acquisition", "first-title", "playback"} = Resting
        /\ setup.complete \in BOOLEAN /\ setup.choices.media \in BOOLEAN
        /\ shown \in [Resting -> Choices]
    BY <1>2 DEF Resting, Setups, Choices, SetupInv, SetupStored
  <1>6. CASE IsPreference(r)
    <2>1. /\ setup' = Preferred(setup, r.body) /\ shown' = shown
      BY <1>3, <1>5, <1>6 DEF Result, IsPreference
    <2>2. setup' \in Setups /\ setup'.choices = chosen' /\ chosen' \in Choices
      BY <1>2, <1>3, <2>1, PreferredFacts, SetFacts
    <2>3. DoneAsChosen'
      BY <1>2, <1>5, <2>1, PreferredFacts DEF DoneAsChosen
    <2> QED BY <1>4, <1>5, <2>1, <2>2, <2>3 DEF SetupInv, SetupStored, NothingReplaced
  <1>7. CASE ~IsPreference(r)
    <2>1. /\ r.step # "none" /\ r.body = NoBody /\ r.choices = setup.choices
          /\ r.result \in Statuses
          /\ r.step = "playback" /\ r.result = "done" => setup.choices.media
      BY <1>1, <1>2, <1>7 DEF IsPreference, ActsAsChecked
    <2>2. /\ setup' = Recorded(setup, r)
          /\ shown' = [s \in Resting |-> IF s = r.step THEN setup.choices ELSE shown[s]]
      BY <1>3, <1>7, <2>1 DEF Result
    <2>3. setup' \in Setups /\ setup'.choices = setup.choices /\ chosen' = setup.choices
      BY <1>1, <1>2, <1>3, <2>1, <2>2, RecordedFacts, SetFacts
    <2>4. shown' \in [Resting -> Choices]
      BY <1>2, <1>5, <2>2
    <2>5. ASSUME NEW s \in Resting, setup'.steps[s] = "done"
          PROVE  \/ s = r.step /\ r.result = "done" /\ shown'[s] = setup.choices
                 \/ s # r.step /\ setup.steps[s] = "done" /\ shown'[s] = shown[s]
      BY <1>1, <1>2, <2>1, <2>2, <2>5, RecordedFacts
    <2>6. ~setup'.complete => ~setup.complete
      BY <1>1, <1>2, <2>1, <2>2, RecordedFacts
    <2>7. DoneAsChosen'
      BY <1>2, <1>5, <2>1, <2>3, <2>5, <2>6 DEF DoneAsChosen
    <2> QED BY <1>2, <1>4, <2>3, <2>4, <2>7 DEF SetupInv, SetupStored, NothingReplaced
  <1> QED BY <1>6, <1>7

LEMMA InterruptedInv == ASSUME SetupInv, Interrupted PROVE SetupInv'
  BY DEF Interrupted, SetupInv, SetupStored, SetupRequestInv, NothingReplaced, DoneAsChosen

LEMMA SetupStepInv == SetupInv /\ [SetupNext]_setupVars => SetupInv'
  <1> SUFFICES ASSUME SetupInv, [SetupNext]_setupVars PROVE SetupInv'
    OBVIOUS
  <1>1. CASE UNCHANGED setupVars
    BY <1>1 DEF setupVars, SetupInv, SetupStored, SetupRequestInv, NothingReplaced, DoneAsChosen
  <1>2. CASE Interrupted
    BY <1>2, InterruptedInv
  <1>3. ASSUME NEW t \in Tabs,
               Prefers(t) \/ Completes(t) \/ Skips(t) \/ Checks(t) \/ Reads(t) \/ Replaces(t) \/ TriesAgain(t)
        PROVE  SetupInv'
    BY <1>3, AsksInv, ChecksInv, ReadsInv, ReplacesInv, TriesAgainInv
  <1> QED BY <1>1, <1>2, <1>3 DEF SetupNext

------------------------------------------------------------------------------
(* The theorems *)

\* The invariant holds in every behaviour of the guided setup.
THEOREM SetupInvariance == SetupSpec => []SetupInv
  BY SetupInitInv, SetupStepInv, PTL DEF SetupSpec

\* Every variable of the guided setup keeps its type, whatever the tabs do.
THEOREM SetupTypes == SetupSpec => []SetupTypeOK
  <1>1. SetupInv => SetupTypeOK
    BY DEF SetupInv, SetupStored, SetupRequestInv, SetupRequests, SetupTypeOK, ActsAsChecked
  <1> QED BY <1>1, SetupInvariance, PTL

\* No tab replaces a choice another one was told is saved.
THEOREM ChoicesAreKept == SetupSpec => []NothingReplaced
  <1>1. SetupInv => NothingReplaced
    BY DEF SetupInv
  <1> QED BY <1>1, SetupInvariance, PTL

\* A step is done only for the choice it rests on.
THEOREM StepsAreVerified == SetupSpec => []DoneAsChosen
  <1>1. SetupInv => DoneAsChosen
    BY DEF SetupInv
  <1> QED BY <1>1, SetupInvariance, PTL

\* Whatever the tabs do at the same time, the setup is what they were told.
THEOREM SetupIsKept == SetupSpec => []SetupKept
  BY ChoicesAreKept, StepsAreVerified, PTL DEF SetupKept

------------------------------------------------------------------------------
(* The plugin set: the inductive invariant *)

\* A run is one of these records; only what the proof needs has a type.
RunShaped ==
    \/ run = Stopped \/ run = AtRest
    \/ run = Storing(run.config, run.had)
    \/ /\ run = [at |-> run.at, target |-> run.target, next |-> run.next,
                 queue |-> run.queue, known |-> run.known, config |-> run.config,
                 boot |-> run.boot]
       /\ run.at \in {"drop", "load", "mount"} /\ run.boot \in BOOLEAN

\* What the MCP process may run at each place of a boot or request.
McpRuns ==
    /\ run = Stopped => running = NoConfig
    /\ run = AtRest => running \in {desired.config, NoConfig} \/ apart
    /\ run.at = "store" => running \in {run.config, NoConfig}
    /\ Working => running \in {run.config, NoConfig}
    /\ Working /\ run.boot => run.config = desired.config

PluginInv ==
    /\ RunShaped /\ McpRuns
    /\ status \in [Plugins -> PluginStates]
    /\ status[Mcp] = "absent" => running = NoConfig
    /\ stored # NoConfig => desired.config = stored

LEMMA PluginInitInv == PluginSetInit => PluginInv
  BY McpIsConfigured DEF PluginSetInit, PluginInv, PluginStates, RunShaped, McpRuns, Stopped, AtRest, Storing, Working, Plugins

------------------------------------------------------------------------------
(* The steps *)

\* A step that leaves the run where it is, the MCP plugin as absent as it was
\* and the configurations alone.
LEMMA Elsewhere ==
    ASSUME PluginInv, UNCHANGED <<desired, stored, running, run, apart>>,
           status' \in [Plugins -> PluginStates], status'[Mcp] = "absent" => status[Mcp] = "absent"
    PROVE  PluginInv'
  BY DEF PluginInv, RunShaped, McpRuns, Working, Storing, Stopped, AtRest

\* The boot takes the stored configuration for the desired one.
LEMMA BootInv ==
    ASSUME PluginInv, Boot
    PROVE  PluginInv'
  <1>1. run = Stopped /\ running = NoConfig
    BY DEF Boot, PluginInv, RunShaped, McpRuns, Stopped, AtRest, Storing
  <1>2. /\ running' = NoConfig /\ UNCHANGED <<status, stored>>
        /\ run' = Applying(desired'.set, desired'.config, TRUE)
        /\ desired' = IF stored = NoConfig THEN [set |-> filed, config |-> 0]
                      ELSE [set |-> filed \cup {Mcp}, config |-> stored]
    BY <1>1 DEF Boot
  <1>3. /\ run'.at = "drop" /\ run'.config = desired'.config /\ run'.boot = TRUE
        /\ RunShaped'
    BY <1>2 DEF Applying, RunShaped
  <1>4. McpRuns'
    BY <1>2, <1>3 DEF McpRuns, Working, Stopped, AtRest
  <1>5. stored' # NoConfig => desired'.config = stored'
    BY <1>2
  <1> QED BY <1>2, <1>3, <1>4, <1>5 DEF PluginInv

\* While apply is at work, a step that moves on in it: the process of the MCP
\* plugin runs what the run gives it, or is gone.
LEMMA AppliesOn ==
    ASSUME PluginInv, Working, UNCHANGED <<desired, stored>>,
           RunShaped', Working', run'.config = run.config, run'.boot = run.boot,
           running' \in {running, run.config, NoConfig}, status' \in [Plugins -> PluginStates],
           status'[Mcp] = "absent" => running' = NoConfig
    PROVE  PluginInv'
  <1>1. running' \in {run'.config, NoConfig}
    BY DEF PluginInv, McpRuns
  <1>2. run' # Stopped /\ run' # AtRest /\ run'.at # "store"
    BY DEF Working, Stopped, AtRest
  <1>3. run'.boot => run'.config = desired'.config
    BY DEF PluginInv, McpRuns
  <1>4. McpRuns'
    BY <1>1, <1>2, <1>3 DEF McpRuns
  <1> QED BY <1>4 DEF PluginInv

LEMMA WorkingShape ==
    ASSUME PluginInv, Working
    PROVE  /\ run = [at |-> run.at, target |-> run.target, next |-> run.next,
                     queue |-> run.queue, known |-> run.known, config |-> run.config,
                     boot |-> run.boot]
           /\ run.at \in {"drop", "load", "mount"} /\ run.boot \in BOOLEAN
  BY DEF PluginInv, RunShaped, Working, Stopped, AtRest, Storing

LEMMA DropInv ==
    ASSUME PluginInv, NEW p \in Plugins, DropPlugin(p)
    PROVE  PluginInv'
  <1>1. Working /\ run' = [run EXCEPT !.known = @ \ {p}] /\ UNCHANGED <<desired, stored>>
    BY DEF DropPlugin, Working, plan
  <1>2. /\ RunShaped' /\ Working' /\ run'.config = run.config /\ run'.boot = run.boot
    BY <1>1, WorkingShape DEF RunShaped, Working
  <1>3. running' \in {running, NoConfig} /\ status' \in [Plugins -> PluginStates]
    BY DEF DropPlugin, PluginInv, PluginStates
  <1>4. status'[Mcp] = "absent" => running' = NoConfig
    BY McpIsConfigured DEF DropPlugin, PluginInv
  <1> QED BY <1>1, <1>2, <1>3, <1>4, AppliesOn

LEMMA LoadInv ==
    ASSUME PluginInv,
           \/ AllDropped \/ Sorts
           \/ \E readable \in BOOLEAN : LoadManifest(readable)
    PROVE  PluginInv'
  <1>1. Working /\ UNCHANGED <<desired, stored, status, running>>
    BY DEF AllDropped, Sorts, LoadManifest, Working, plan
  <1>4. status' \in [Plugins -> PluginStates] /\ (status'[Mcp] = "absent" => running' = NoConfig)
    BY <1>1 DEF PluginInv
  <1>2. CASE AllDropped \/ Sorts
    <2>1. \/ run' = [run EXCEPT !.at = "load"]
          \/ run' = [run EXCEPT !.at = "mount", !.queue = MountOrder(run.queue)]
      BY <1>2 DEF AllDropped, Sorts
    <2>2. /\ RunShaped' /\ Working' /\ run'.config = run.config /\ run'.boot = run.boot
      BY <1>1, <2>1, WorkingShape DEF RunShaped, Working
    <2> QED BY <1>1, <1>4, <2>2, AppliesOn
  <1>3. ASSUME NEW readable \in BOOLEAN, LoadManifest(readable) PROVE PluginInv'
    <2>1. PICK next, queue : run' = [run EXCEPT !.next = next, !.queue = queue]
      BY <1>3 DEF LoadManifest
    <2>2. /\ RunShaped' /\ Working' /\ run'.config = run.config /\ run'.boot = run.boot
      BY <1>1, <2>1, WorkingShape DEF RunShaped, Working
    <2> QED BY <1>1, <1>4, <2>2, AppliesOn
  <1> QED BY <1>2, <1>3

LEMMA MountInv ==
    ASSUME PluginInv, NEW works \in BOOLEAN, MountPlugin(works)
    PROVE  PluginInv'
  <1> DEFINE p == Head(run.queue)
  <1>1. /\ Working /\ run' = [run EXCEPT !.queue = Tail(@)]
        /\ UNCHANGED <<desired, stored>>
        /\ status' = IF works THEN [status EXCEPT ![p] = "healthy"] ELSE status
        /\ running' = IF works /\ p = Mcp THEN run.config ELSE running
    BY DEF MountPlugin, Working, plan
  <1>2. /\ RunShaped' /\ Working' /\ run'.config = run.config /\ run'.boot = run.boot
    BY <1>1, WorkingShape DEF RunShaped, Working
  <1> HIDE DEF p
  <1>3. status' \in [Plugins -> PluginStates] /\ running' \in {running, run.config}
    BY <1>1 DEF PluginInv, PluginStates
  <1>4. status'[Mcp] = "absent" => running' = NoConfig
    BY <1>1, McpIsConfigured DEF PluginInv
  <1> QED BY <1>1, <1>2, <1>3, <1>4, AppliesOn

\* apply() returns to the boot, or to the request.
LEMMA ChangeAppliedInv ==
    ASSUME PluginInv, Applied
    PROVE  PluginInv'
  <1>1. Working /\ UNCHANGED <<desired, stored, status, running>>
    BY DEF Applied, Working, plan
  <1>2. /\ running \in {run.config, NoConfig} /\ run.boot \in BOOLEAN
        /\ run.boot => run.config = desired.config
    BY <1>1, WorkingShape DEF PluginInv, McpRuns
  <1>3. CASE run.boot \/ status[Mcp] # "healthy"
    <2>1. run' = AtRest
      BY <1>3 DEF Applied
    <2>2. running' \in {desired'.config, NoConfig} \/ apart'
      <3>1. CASE run.boot
        BY <1>1, <1>2, <3>1
      <3>2. CASE ~run.boot /\ status[Mcp] = "absent"
        BY <1>1, <3>2 DEF PluginInv
      <3>3. CASE ~run.boot /\ status[Mcp] \in {"restarting", "failed"}
        BY <3>3 DEF Applied
      <3>4. status[Mcp] \in PluginStates
        BY McpIsConfigured DEF PluginInv
      <3> QED BY <1>2, <1>3, <3>1, <3>2, <3>3, <3>4 DEF PluginStates
    <2> QED BY <1>1, <2>1, <2>2 DEF PluginInv, RunShaped, McpRuns, AtRest, Stopped, Working
  <1>4. CASE ~run.boot /\ status[Mcp] = "healthy"
    <2>1. run' = Storing(run.config, FALSE)
      BY <1>4 DEF Applied
    <2> QED BY <1>1, <1>2, <2>1 DEF PluginInv, RunShaped, McpRuns, AtRest, Stopped, Working, Storing
  <1> QED BY <1>2, <1>3, <1>4

LEMMA ChangeRequestInv ==
    ASSUME PluginInv, McpRequest
    PROVE  PluginInv'
  <1>1. /\ run = AtRest /\ UNCHANGED <<desired, stored>>
        /\ running \in {desired.config, NoConfig} \/ apart
    BY DEF McpRequest, PluginInv, McpRuns, plan
  <1>2. CASE status[Mcp] # "absent"
    <2>1. PICK now \in {asked', running, NoConfig} :
             /\ running' = now
             /\ status' = [status EXCEPT ![Mcp] = IF now = NoConfig THEN "absent" ELSE "healthy"]
      BY <1>2 DEF McpRequest, Reconfigured
    <2>2. /\ run' = IF running' = asked' THEN Storing(asked', TRUE) ELSE AtRest
          /\ apart' = (apart /\ running' # NoConfig)
      BY <1>2 DEF McpRequest
    <2>3. status' \in [Plugins -> PluginStates] /\ (status'[Mcp] = "absent" => running' = NoConfig)
      BY <2>1, McpIsConfigured DEF PluginInv, PluginStates
    <2>4. CASE running' = asked'
      BY <1>1, <2>2, <2>3, <2>4 DEF PluginInv, RunShaped, McpRuns, AtRest, Stopped, Working, Storing
    <2>5. CASE running' # asked'
      <3>1. running' \in {desired'.config, NoConfig} \/ apart'
        BY <1>1, <2>1, <2>2, <2>5
      <3> QED BY <1>1, <2>2, <2>3, <2>5, <3>1 DEF PluginInv, RunShaped, McpRuns, AtRest, Stopped, Working
    <2> QED BY <2>4, <2>5
  <1>3. CASE status[Mcp] = "absent"
    <2>1. /\ run' = Applying(desired.set \cup {Mcp}, asked', FALSE)
          /\ UNCHANGED <<status, running>>
      BY <1>3 DEF McpRequest
    <2>2. /\ run'.at = "drop" /\ run'.boot = FALSE /\ RunShaped'
      BY <2>1 DEF Applying, RunShaped
    <2>3. running' = NoConfig
      BY <1>3, <2>1 DEF PluginInv
    <2> QED BY <1>1, <2>1, <2>2, <2>3 DEF PluginInv, McpRuns, AtRest, Stopped, Working
  <1> QED BY <1>2, <1>3

\* The row is written, or it is not and the change is taken back.
LEMMA RowInv ==
    ASSUME PluginInv, McpStored \/ McpUndone
    PROVE  PluginInv'
  <1>1. run.at = "store" /\ run' = AtRest
    BY DEF McpStored, McpUndone
  <1>2. CASE McpStored
    <2>1. /\ stored' = run.config /\ desired' = [set |-> desired.set \cup {Mcp}, config |-> run.config]
          /\ UNCHANGED <<status, running>>
      BY <1>2 DEF McpStored
    <2> QED BY <1>1, <2>1 DEF PluginInv, RunShaped, McpRuns, AtRest, Stopped, Working
  <1>3. CASE McpUndone
    <2>1. UNCHANGED <<desired, stored>> /\ apart' = (run.had /\ running' # desired.config)
      BY <1>3 DEF McpUndone, plan
    <2>2. status' \in [Plugins -> PluginStates] /\ (status'[Mcp] = "absent" => running' = NoConfig)
      BY <1>3, McpIsConfigured DEF McpUndone, Reconfigured, PluginInv, PluginStates
    <2>3. running' \in {desired'.config, NoConfig} \/ apart'
      BY <1>3, <2>1 DEF McpUndone
    <2> QED BY <1>1, <2>1, <2>2, <2>3 DEF PluginInv, RunShaped, McpRuns, AtRest, Stopped, Working
  <1> QED BY <1>2, <1>3

LEMMA StopInv ==
    ASSUME PluginInv, ServerStops
    PROVE  PluginInv'
  <1>1. /\ run' = Stopped /\ running' = NoConfig /\ UNCHANGED <<desired, stored>>
        /\ status' = [p \in Plugins |-> "absent"]
    BY DEF ServerStops, plan
  <1> QED BY <1>1, McpIsConfigured DEF PluginInv, PluginStates, RunShaped, McpRuns, AtRest, Stopped, Working

LEMMA ProcessInv ==
    ASSUME PluginInv, NEW p \in Plugins, PluginCrashes(p) \/ PluginRestarts(p)
    PROVE  PluginInv'
  <1>1. /\ UNCHANGED <<desired, stored, running, run, apart>>
        /\ status[p] # "absent"
        /\ \E now \in {"healthy", "restarting", "failed"} : status' = [status EXCEPT ![p] = now]
    BY DEF PluginCrashes, PluginRestarts, plan
  <1>2. status' \in [Plugins -> PluginStates] /\ (status'[Mcp] = "absent" => status[Mcp] = "absent")
    BY <1>1, McpIsConfigured DEF PluginInv, PluginStates
  <1> QED BY <1>1, <1>2, Elsewhere

LEMMA PluginStepInv == PluginInv /\ [PluginSetNext]_setVars => PluginInv'
  <1> SUFFICES ASSUME PluginInv, [PluginSetNext]_setVars PROVE PluginInv'
    OBVIOUS
  <1>1. CASE UNCHANGED setVars
    BY <1>1, Elsewhere DEF setVars, plan, PluginInv
  <1>2. CASE PluginSetNext
    BY <1>2, BootInv, DropInv, LoadInv, MountInv, ChangeAppliedInv, ChangeRequestInv, RowInv, StopInv,
       ProcessInv DEF PluginSetNext
  <1> QED BY <1>1, <1>2

------------------------------------------------------------------------------
\* Between requests the MCP plugin runs the configuration that is desired, or is
\* down, unless a request said it could not be undone; and once one is stored it
\* is the desired one (kernel.ts:507-586).
THEOREM McpConsistent == PluginSetSpec => []McpRunsAsStored
  <1>1. PluginInv => McpRunsAsStored
    BY DEF PluginInv, McpRuns, McpRunsAsStored
  <1> QED BY <1>1, PluginInitInv, PluginStepInv, PTL DEF PluginSetSpec

------------------------------------------------------------------------------
(* The order in which apply mounts *)

\* A set of naturals has a least member: what holds of 0 and of the successor
\* holds of every number, or there would be a least one of which it does not.
LowerNumber == {ss \in Nat \X Nat : ss[1] < ss[2]}
LEMMA LeastNumber ==
    ASSUME NEW ns \in SUBSET Nat, ns # {}
    PROVE  \E least \in ns : \A n \in ns : least <= n
  <1>1. IsWellFoundedOn(LowerNumber, Nat)
    <2>1. LowerNumber = OpToRel(<, Nat)
      BY Zenon DEF OpToRel, LowerNumber
    <2> QED BY <2>1, NatLessThanWellFounded, Zenon
  <1>2. \E x \in ns : \A y \in ns : ~ (<<y, x>> \in LowerNumber)
    BY <1>1, WFMin, Zenon
  <1>3. PICK x \in ns : \A y \in ns : ~ (<<y, x>> \in LowerNumber)
    BY <1>2
  <1>4. \A y \in ns : x <= y
    <2> SUFFICES ASSUME NEW y \in ns PROVE x <= y
      OBVIOUS
    <2>1. x \in Nat /\ y \in Nat /\ <<y, x>> \notin LowerNumber
      BY <1>3
    <2>2. ~(y < x)
      BY <2>1 DEF LowerNumber
    <2> QED BY <2>1, <2>2
  <1> QED BY <1>4

LEMMA FirstOf ==
    ASSUME NEW ns \in SUBSET Nat, ns # {}
    PROVE  Sets!Min(ns) \in ns
  BY LeastNumber DEF Sets!Min

LEMMA TakenOut ==
    ASSUME NEW l \in Seq(Plugins), NEW i \in 1 .. Len(l)
    PROVE  LET r == Lists!RemoveAt(l, i) IN
           /\ r \in Seq(Plugins) /\ Len(r) = Len(l) - 1
           /\ \A j \in 1 .. Len(r) : r[j] = IF j < i THEN l[j] ELSE l[j + 1]
  <1> DEFINE front == SubSeq(l, 1, i - 1)
             back  == SubSeq(l, i + 1, Len(l))
  <1>1. /\ front \in Seq(Plugins) /\ Len(front) = i - 1
        /\ \A j \in 1 .. i - 1 : front[j] = l[j]
    BY SubSeqProperties
  <1>2. /\ back \in Seq(Plugins) /\ Len(back) = Len(l) - i
        /\ \A j \in 1 .. Len(l) - i : back[j] = l[i + j]
    BY SubSeqProperties
  <1> HIDE DEF front, back
  <1>3. /\ front \o back \in Seq(Plugins) /\ Len(front \o back) = Len(l) - 1
        /\ \A j \in 1 .. Len(l) - 1 :
              (front \o back)[j] = IF j < i THEN front[j] ELSE back[j - (i - 1)]
    <2>1. /\ front \o back \in Seq(Plugins)
          /\ Len(front \o back) = Len(front) + Len(back)
          /\ \A j \in 1 .. Len(front) + Len(back) :
                (front \o back)[j] = IF j <= Len(front) THEN front[j] ELSE back[j - Len(front)]
      BY <1>1, <1>2, ConcatProperties
    <2> DEFINE both == front \o back
    <2>2. /\ both \in Seq(Plugins) /\ Len(both) = Len(l) - 1
          /\ \A j \in 1 .. Len(l) - 1 : both[j] = IF j < i THEN front[j] ELSE back[j - (i - 1)]
      <3> HIDE DEF both
      <3> QED BY <1>1, <1>2, <2>1 DEF both
    <2> QED BY <2>2
  <1>4. \A j \in 1 .. Len(l) - 1 : (front \o back)[j] = IF j < i THEN l[j] ELSE l[j + 1]
    <2> SUFFICES ASSUME NEW j \in 1 .. Len(l) - 1
                 PROVE  (front \o back)[j] = IF j < i THEN l[j] ELSE l[j + 1]
      OBVIOUS
    <2>1. CASE j < i
      BY <1>1, <1>3, <2>1
    <2>2. CASE ~(j < i)
      <3>1. j - (i - 1) \in 1 .. Len(l) - i /\ i + (j - (i - 1)) = j + 1
        BY <2>2
      <3> QED BY <1>2, <1>3, <2>2, <3>1
    <2> QED BY <2>1, <2>2
  <1> QED BY <1>3, <1>4 DEF Lists!RemoveAt, front, back

\* Every plugin is in a list once.
Once(ps) == \A i, j \in DOMAIN ps : ps[i] = ps[j] => i = j

\* Where the plugins of a list that is being ordered stand: those of the stalled
\* set need something that only it provides; any other has what it needs from a
\* plugin that is up or comes before, if one of the waiting provides it at all.
Arranged(order, stalled, waiting) ==
    \A i \in DOMAIN order :
        IF order[i] \in stalled
        THEN \E c \in manifest[order[i]].requires :
                /\ c \notin ProvidedBy(Healthy)
                /\ \A q \in waiting : c \in manifest[q].provides => q \in stalled
        ELSE \A c \in manifest[order[i]].requires :
                \/ c \notin ProvidedBy(waiting)
                \/ c \in ProvidedBy(Healthy)
                \/ \E j \in 1 .. i - 1 : c \in manifest[order[j]].provides

\* After k of the steps that order a list.
SortedSoFar(s, k, all) ==
    /\ s = [order |-> s.order, left |-> s.left, ready |-> s.ready]
    /\ s.order \in Seq(Plugins) /\ s.left \in Seq(Plugins)
    /\ Once(s.order) /\ Once(s.left)
    /\ Lists!ToSet(s.order) \cap Lists!ToSet(s.left) = {}
    /\ Lists!ToSet(s.order) \cup Lists!ToSet(s.left) = Lists!ToSet(all)
    /\ Len(s.order) + Len(s.left) = Len(all)
    /\ s.left = <<>> \/ Len(s.order) = k
    /\ IF s.left = <<>> THEN \E stalled : Arranged(s.order, stalled, Lists!ToSet(all))
       ELSE /\ Arranged(s.order, {}, Lists!ToSet(all))
            /\ s.ready = ProvidedBy(Healthy) \cup ProvidedBy(Lists!ToSet(s.order))

\* A step that finds a plugin whose needs are met places it.
LEMMA PlacesOne ==
    ASSUME NEW all \in Seq(Plugins), NEW k \in Nat, NEW s, SortedSoFar(s, k, all),
           NEW i \in Placeable(s.left, Lists!ToSet(all), s.ready)
    PROVE  SortedSoFar([order |-> Append(s.order, s.left[i]), left |-> Lists!RemoveAt(s.left, i),
                        ready |-> s.ready \cup manifest[s.left[i]].provides], k + 1, all)
  <1> DEFINE p     == s.left[i]
             order == Append(s.order, p)
             left  == Lists!RemoveAt(s.left, i)
             waiting == Lists!ToSet(all)
             t == [order |-> order, left |-> left, ready |-> s.ready \cup manifest[p].provides]
  <1>1. /\ i \in 1 .. Len(s.left) /\ s.left # <<>> /\ p \in Plugins
        /\ \A c \in manifest[p].requires : c \in s.ready \/ c \notin ProvidedBy(waiting)
    BY DEF Placeable, SortedSoFar
  <1>2. /\ s.order \in Seq(Plugins) /\ s.left \in Seq(Plugins) /\ Len(s.order) = k
        /\ Once(s.order) /\ Once(s.left) /\ Arranged(s.order, {}, waiting)
        /\ s.ready = ProvidedBy(Healthy) \cup ProvidedBy(Lists!ToSet(s.order))
        /\ Lists!ToSet(s.order) \cap Lists!ToSet(s.left) = {}
        /\ Lists!ToSet(s.order) \cup Lists!ToSet(s.left) = waiting
        /\ Len(s.order) + Len(s.left) = Len(all)
    BY <1>1 DEF SortedSoFar
  <1>3. /\ order \in Seq(Plugins) /\ Len(order) = k + 1 /\ order[k + 1] = p
        /\ \A j \in 1 .. k : order[j] = s.order[j]
    BY <1>1, <1>2, AppendProperties
  <1>4. /\ left \in Seq(Plugins) /\ Len(left) = Len(s.left) - 1
        /\ \A j \in 1 .. Len(left) : left[j] = IF j < i THEN s.left[j] ELSE s.left[j + 1]
    BY <1>1, <1>2, TakenOut
  <1> HIDE DEF order, left, p
  <1>5. DOMAIN order = 1 .. k + 1 /\ DOMAIN s.order = 1 .. k
        /\ DOMAIN left = 1 .. Len(s.left) - 1 /\ DOMAIN s.left = 1 .. Len(s.left)
        /\ Len(s.left) \in Nat
    BY <1>2, <1>3, <1>4
  <1>6. Lists!ToSet(order) = Lists!ToSet(s.order) \cup {p}
    BY <1>3, <1>5 DEF Lists!ToSet
  <1>7. Lists!ToSet(left) = Lists!ToSet(s.left) \ {p}
    <2>1. \A j \in DOMAIN left : left[j] \in Lists!ToSet(s.left) \ {p}
      <3> SUFFICES ASSUME NEW j \in DOMAIN left PROVE left[j] \in Lists!ToSet(s.left) \ {p}
        OBVIOUS
      <3>1. PICK m \in DOMAIN s.left : left[j] = s.left[m] /\ m # i
        <4>1. CASE j < i
          BY <1>1, <1>4, <1>5, <4>1
        <4>2. CASE ~(j < i)
          <5>1. j + 1 \in DOMAIN s.left /\ j + 1 # i /\ left[j] = s.left[j + 1]
            BY <1>1, <1>4, <1>5, <4>2
          <5> QED BY <5>1
        <4> QED BY <4>1, <4>2
      <3> QED BY <1>1, <1>2, <1>5, <3>1 DEF Once, Lists!ToSet, p
    <2>2. \A m \in DOMAIN s.left : m # i => s.left[m] \in Lists!ToSet(left)
      <3> SUFFICES ASSUME NEW m \in DOMAIN s.left, m # i PROVE \E j \in DOMAIN left : left[j] = s.left[m]
        BY DEF Lists!ToSet
      <3>1. CASE m < i
        <4>1. m \in DOMAIN left /\ left[m] = s.left[m]
          BY <1>1, <1>4, <1>5, <3>1
        <4> QED BY <4>1
      <3>2. CASE ~(m < i)
        <4>1. m - 1 \in DOMAIN left /\ left[m - 1] = s.left[m]
          BY <1>1, <1>4, <1>5, <3>2
        <4> QED BY <4>1
      <3> QED BY <3>1, <3>2
    <2> QED BY <2>1, <2>2 DEF Lists!ToSet, p
  <1>8. p \in Lists!ToSet(s.left)
    BY <1>1, <1>5 DEF Lists!ToSet, p
  <1>9. Once(order)
    <2>1. \A j \in 1 .. k : s.order[j] # p
      BY <1>2, <1>5, <1>8 DEF Lists!ToSet
    <2>2. \A j \in 1 .. k : order[j] # p
      BY <1>3, <2>1
    <2>3. \A m, n \in 1 .. k : order[m] = order[n] => m = n
      BY <1>2, <1>3, <1>5 DEF Once
    <2>4. \A m \in 1 .. k + 1 : m \in 1 .. k \/ m = k + 1
      OBVIOUS
    <2> QED BY <1>3, <1>5, <2>2, <2>3, <2>4 DEF Once
  <1>10. Once(left)
    <2> SUFFICES ASSUME NEW j \in DOMAIN left, NEW m \in DOMAIN left, left[j] = left[m], j # m PROVE FALSE
      BY DEF Once
    <2> DEFINE place(n) == IF n < i THEN n ELSE n + 1
    <2>1. \A n \in DOMAIN left : place(n) \in DOMAIN s.left /\ left[n] = s.left[place(n)]
      <3> SUFFICES ASSUME NEW n \in 1 .. Len(s.left) - 1
                   PROVE  place(n) \in 1 .. Len(s.left) /\ left[n] = s.left[place(n)]
        BY <1>5
      <3>1. n \in 1 .. Len(left) /\ n \in 1 .. Len(s.left) /\ n + 1 \in 1 .. Len(s.left)
        BY <1>4, <1>5
      <3> QED BY <1>4, <3>1
    <2>2. place(j) # place(m)
      BY <1>1, <1>5
    <2> HIDE DEF place
    <2> QED BY <1>2, <2>1, <2>2 DEF Once
  <1>11. Arranged(order, {}, waiting)
    <2> SUFFICES ASSUME NEW n \in DOMAIN order, NEW c \in manifest[order[n]].requires,
                        c \in ProvidedBy(waiting), c \notin ProvidedBy(Healthy)
                 PROVE  \E j \in 1 .. n - 1 : c \in manifest[order[j]].provides
      BY DEF Arranged
    <2>1. CASE n \in 1 .. k
      <3>1. PICK j \in 1 .. n - 1 : c \in manifest[s.order[j]].provides
        BY <1>2, <1>3, <1>5, <2>1 DEF Arranged
      <3> QED BY <1>3, <2>1, <3>1
    <2>2. CASE n = k + 1
      <3>1. c \in ProvidedBy(Lists!ToSet(s.order))
        BY <1>1, <1>2, <1>3, <2>2
      <3>2. PICK j \in 1 .. k : c \in manifest[s.order[j]].provides
        BY <1>5, <3>1 DEF ProvidedBy, Lists!ToSet
      <3> QED BY <1>3, <2>2, <3>2
    <2> QED BY <1>5, <2>1, <2>2
  <1>12. s.ready \cup manifest[p].provides = ProvidedBy(Healthy) \cup ProvidedBy(Lists!ToSet(order))
    BY <1>2, <1>6 DEF ProvidedBy
  <1>13. /\ Lists!ToSet(order) \cap Lists!ToSet(left) = {}
         /\ Lists!ToSet(order) \cup Lists!ToSet(left) = waiting
         /\ Len(order) + Len(left) = Len(all)
    <2>1. p \notin Lists!ToSet(s.order)
      BY <1>2, <1>8
    <2>2. Len(order) + Len(left) = Len(all)
      BY <1>2, <1>3, <1>4, <1>5
    <2> QED BY <1>2, <1>6, <1>7, <1>8, <2>1, <2>2
  <1>14. t.order = order /\ t.left = left /\ t.ready = s.ready \cup manifest[p].provides
    OBVIOUS
  <1>15. SortedSoFar(t, k + 1, all)
    <2> HIDE DEF waiting
    <2>1. t = [order |-> t.order, left |-> t.left, ready |-> t.ready]
      OBVIOUS
    <2> HIDE DEF t
    <2> QED BY <1>3, <1>4, <1>9, <1>10, <1>11, <1>12, <1>13, <1>14, <2>1 DEF SortedSoFar, waiting
  <1> QED BY <1>15 DEF t, order, left, p

\* A step that finds none leaves the rest as it is: it is stalled.
LEMMA NoneFollows ==
    ASSUME NEW all \in Seq(Plugins), NEW k \in Nat, NEW s, SortedSoFar(s, k, all),
           Placeable(s.left, Lists!ToSet(all), s.ready) = {}
    PROVE  SortedSoFar([order |-> s.order \o s.left, left |-> <<>>, ready |-> s.ready], k + 1, all)
  <1> DEFINE order == s.order \o s.left
             waiting == Lists!ToSet(all)
             t == [order |-> s.order \o s.left, left |-> <<>>, ready |-> s.ready]
             here == Len(s.order)
             there == Len(s.left)
  <1>1. /\ s.order \in Seq(Plugins) /\ s.left \in Seq(Plugins)
        /\ Once(s.order) /\ Once(s.left)
        /\ Lists!ToSet(s.order) \cap Lists!ToSet(s.left) = {}
        /\ Lists!ToSet(s.order) \cup Lists!ToSet(s.left) = waiting
        /\ here + there = Len(all)
    BY DEF SortedSoFar
  <1>2. /\ order \in Seq(Plugins) /\ Len(order) = here + there
        /\ \A j \in 1 .. here : order[j] = s.order[j]
        /\ \A j \in here + 1 .. here + there : order[j] = s.left[j - here]
    <2>1. /\ order \in Seq(Plugins) /\ Len(order) = here + there
          /\ \A j \in 1 .. here + there : order[j] = IF j <= here THEN s.order[j] ELSE s.left[j - here]
      BY ONLY <1>1, ConcatProperties
    <2>2. here \in Nat /\ there \in Nat
      BY <1>1
    <2> HIDE DEF order, here, there
    <2> QED BY <2>1, <2>2
  <1>3. /\ here \in Nat /\ there \in Nat /\ DOMAIN order = 1 .. here + there
        /\ DOMAIN s.order = 1 .. here /\ DOMAIN s.left = 1 .. there
    BY <1>1, <1>2
  <1>4. t = [order |-> order, left |-> <<>>, ready |-> s.ready]
    OBVIOUS
  <1> HIDE DEF order, here, there, t
  <1>5. \A j \in DOMAIN order : \/ j \in DOMAIN s.order /\ order[j] = s.order[j]
                                \/ j - here \in DOMAIN s.left /\ order[j] = s.left[j - here]
    <2> SUFFICES ASSUME NEW j \in 1 .. here + there
                 PROVE  \/ j \in 1 .. here /\ order[j] = s.order[j]
                        \/ j - here \in 1 .. there /\ order[j] = s.left[j - here]
      BY <1>3
    <2>1. j \in 1 .. here \/ (j \in here + 1 .. here + there /\ j - here \in 1 .. there)
      BY <1>3
    <2> QED BY <1>2, <2>1
  <1>6. \A j \in DOMAIN s.left : j + here \in DOMAIN order /\ order[j + here] = s.left[j]
    <2> SUFFICES ASSUME NEW j \in 1 .. there
                 PROVE  j + here \in 1 .. here + there /\ order[j + here] = s.left[j]
      BY <1>3
    <2>1. j + here \in here + 1 .. here + there /\ (j + here) - here = j /\ j + here \in 1 .. here + there
      BY <1>3
    <2> QED BY <1>2, <2>1
  <1>7. Lists!ToSet(order) = waiting
    <2>1. \A j \in DOMAIN s.order : j \in DOMAIN order /\ order[j] = s.order[j]
      BY <1>2, <1>3
    <2>2. \A j \in DOMAIN order : order[j] \in Lists!ToSet(s.order) \cup Lists!ToSet(s.left)
      BY <1>5 DEF Lists!ToSet
    <2>3. \A j \in DOMAIN s.order : s.order[j] \in Lists!ToSet(order)
      BY <2>1 DEF Lists!ToSet
    <2>4. \A j \in DOMAIN s.left : s.left[j] \in Lists!ToSet(order)
      <3> SUFFICES ASSUME NEW j \in DOMAIN s.left PROVE s.left[j] \in Lists!ToSet(order)
        OBVIOUS
      <3> QED BY <1>6 DEF Lists!ToSet
    <2>5. Lists!ToSet(order) \subseteq Lists!ToSet(s.order) \cup Lists!ToSet(s.left)
      BY <2>2 DEF Lists!ToSet
    <2>6. Lists!ToSet(s.order) \cup Lists!ToSet(s.left) \subseteq Lists!ToSet(order)
      BY <2>3, <2>4 DEF Lists!ToSet
    <2> QED BY <1>1, <2>5, <2>6
  <1>8. Once(order)
    <2> SUFFICES ASSUME NEW i \in DOMAIN order, NEW j \in DOMAIN order, order[i] = order[j] PROVE i = j
      BY DEF Once
    <2>1. \A m \in DOMAIN s.order, n \in DOMAIN s.left : s.order[m] # s.left[n]
      BY <1>1 DEF Lists!ToSet
    <2>2. CASE i \in DOMAIN s.order /\ order[i] = s.order[i]
      BY <1>1, <1>5, <2>1, <2>2 DEF Once
    <2>3. CASE i - here \in DOMAIN s.left /\ order[i] = s.left[i - here]
      <3>1. j - here \in DOMAIN s.left /\ order[j] = s.left[j - here]
        BY <1>5, <2>1, <2>3
      <3>2. i - here = j - here
        BY <1>1, <2>3, <3>1 DEF Once
      <3> QED BY <1>3, <3>2
    <2> QED BY <1>5, <2>2, <2>3
  <1>9. \E stalled : Arranged(order, stalled, waiting)
    <2>1. CASE s.left = <<>>
      <3>1. order = s.order
        BY <1>2, <1>3, <2>1, <1>1, ConcatEmptySeq DEF order
      <3> QED BY <2>1, <3>1 DEF SortedSoFar
    <2>2. CASE s.left # <<>>
      <3> DEFINE stalled == Lists!ToSet(s.left)
      <3>1. /\ Arranged(s.order, {}, waiting)
            /\ s.ready = ProvidedBy(Healthy) \cup ProvidedBy(Lists!ToSet(s.order))
        BY <2>2 DEF SortedSoFar
      <3>2. ASSUME NEW j \in DOMAIN s.left
            PROVE  \E c \in manifest[s.left[j]].requires :
                     /\ c \notin ProvidedBy(Healthy)
                     /\ \A q \in waiting : c \in manifest[q].provides => q \in stalled
        <4>1. PICK c \in manifest[s.left[j]].requires : c \notin s.ready /\ c \in ProvidedBy(waiting)
          BY DEF Placeable
        <4>2. \A q \in Lists!ToSet(s.order) : c \notin manifest[q].provides
          BY <3>1, <4>1 DEF ProvidedBy
        <4> QED BY <1>1, <3>1, <4>1, <4>2
      <3>3. ASSUME NEW j \in DOMAIN s.order
            PROVE  /\ s.order[j] \notin stalled
                   /\ \A c \in manifest[s.order[j]].requires :
                        \/ c \notin ProvidedBy(waiting)
                        \/ c \in ProvidedBy(Healthy)
                        \/ \E i \in 1 .. j - 1 : c \in manifest[s.order[i]].provides
        BY <1>1, <3>1 DEF Arranged, Lists!ToSet
      <3>4. \A j \in DOMAIN s.left : s.left[j] \in stalled
        BY DEF Lists!ToSet
      <3> HIDE DEF stalled
      <3>5. Arranged(order, stalled, waiting)
        <4> SUFFICES ASSUME NEW n \in DOMAIN order
                     PROVE  IF order[n] \in stalled
                            THEN \E c \in manifest[order[n]].requires :
                                    /\ c \notin ProvidedBy(Healthy)
                                    /\ \A q \in waiting : c \in manifest[q].provides => q \in stalled
                            ELSE \A c \in manifest[order[n]].requires :
                                    \/ c \notin ProvidedBy(waiting)
                                    \/ c \in ProvidedBy(Healthy)
                                    \/ \E j \in 1 .. n - 1 : c \in manifest[order[j]].provides
          BY DEF Arranged
        <4>1. CASE n \in DOMAIN s.order /\ order[n] = s.order[n]
          <5>1. \A j \in 1 .. n - 1 : order[j] = s.order[j]
            BY <1>2, <1>3, <4>1
          <5> QED BY <3>3, <4>1, <5>1
        <4>2. CASE n - here \in DOMAIN s.left /\ order[n] = s.left[n - here]
          BY <3>2, <3>4, <4>2
        <4> QED BY <1>5, <4>1, <4>2
      <3> QED BY <3>5
    <2> QED BY <2>1, <2>2
  <1>10. t.order = order /\ t.left = <<>> /\ t.ready = s.ready
    BY <1>4
  <1>11. t = [order |-> t.order, left |-> t.left, ready |-> t.ready]
    BY <1>4
  <1>12. /\ <<>> \in Seq(Plugins) /\ Once(<<>>) /\ Lists!ToSet(<<>>) = {} /\ Len(<<>>) = 0
    BY DEF Once, Lists!ToSet
  <1>13. SortedSoFar(t, k + 1, all)
    <2> HIDE DEF waiting
    <2>1. Len(t.order) + Len(t.left) = Len(all)
      BY <1>1, <1>2, <1>3, <1>10, <1>12
    <2> QED BY <1>1, <1>2, <1>7, <1>8, <1>9, <1>10, <1>11, <1>12, <2>1 DEF SortedSoFar, waiting
  <1> QED BY <1>13 DEF t

LEMMA SortsOn ==
    ASSUME NEW all \in Seq(Plugins), NEW k \in Nat, NEW s, SortedSoFar(s, k, all)
    PROVE  SortedSoFar(WithNext(s, Lists!ToSet(all)), k + 1, all)
  <1> DEFINE free == Placeable(s.left, Lists!ToSet(all), s.ready)
  <1>1. CASE free = {}
    BY <1>1, NoneFollows DEF WithNext
  <1>2. CASE free # {}
    <2>1. free \in SUBSET Nat
      BY DEF Placeable, SortedSoFar
    <2>2. Sets!Min(free) \in free
      BY <1>2, <2>1, FirstOf
    <2>3. WithNext(s, Lists!ToSet(all)) =
            [order |-> Append(s.order, s.left[Sets!Min(free)]),
             left |-> Lists!RemoveAt(s.left, Sets!Min(free)),
             ready |-> s.ready \cup manifest[s.left[Sets!Min(free)]].provides]
      BY <1>2 DEF WithNext
    <2> QED BY <2>2, <2>3, PlacesOne
  <1> QED BY <1>1, <1>2


\* The steps up to the nth, as a function: what MountOrder defines.
FoldSteps(f, all, n) ==
    f = [k \in 0 .. n |-> IF k = 0 THEN [order |-> <<>>, left |-> all, ready |-> ProvidedBy(Healthy)]
                          ELSE WithNext(f[k - 1], Lists!ToSet(all))]

\* There is such a function: no number is the least that has none.
LEMMA StepsExist ==
    ASSUME NEW all, NEW n \in Nat
    PROVE  \E f : FoldSteps(f, all, n)
  <1> DEFINE start == [order |-> <<>>, left |-> all, ready |-> ProvidedBy(Healthy)]
             next(s) == WithNext(s, Lists!ToSet(all))
             lacking == {m \in Nat : ~\E f : FoldSteps(f, all, m)}
  <1>1. \A f, m : FoldSteps(f, all, m) <=> f = [k \in 0 .. m |-> IF k = 0 THEN start ELSE next(f[k - 1])]
    BY DEF FoldSteps
  <1> HIDE DEF start, next
  <1>2. lacking = {}
    <2> SUFFICES ASSUME lacking # {} PROVE FALSE
      OBVIOUS
    <2>1. PICK least \in lacking : \A m \in lacking : least <= m
      BY LeastNumber
    <2>2. least \in Nat /\ ~\E f : FoldSteps(f, all, least)
      BY <2>1
    <2>3. CASE least = 0
      <3> DEFINE f == [k \in 0 .. 0 |-> start]
      <3>1. f = [k \in 0 .. 0 |-> IF k = 0 THEN start ELSE next(f[k - 1])]
        <4> HIDE DEF f
        <4>1. \A k \in 0 .. 0 : k = 0
          OBVIOUS
        <4> QED BY <4>1 DEF f
      <3> QED BY <1>1, <2>2, <2>3, <3>1
    <2>4. CASE least # 0
      <3>1. least - 1 \in Nat /\ least - 1 \notin lacking
        BY <2>1, <2>2, <2>4
      <3>2. PICK g : FoldSteps(g, all, least - 1)
        BY <3>1
      <3>3. g = [k \in 0 .. least - 1 |-> IF k = 0 THEN start ELSE next(g[k - 1])]
        BY <1>1, <3>2
      <3> DEFINE f == [k \in 0 .. least |-> IF k = 0 THEN start ELSE next(g[k - 1])]
      <3>4. \A k \in 0 .. least - 1 : g[k] = f[k]
        BY <2>2, <3>3
      <3>5. \A k \in 0 .. least : k # 0 => k - 1 \in 0 .. least - 1
        BY <2>2
      <3>6. f = [k \in 0 .. least |-> IF k = 0 THEN start ELSE next(f[k - 1])]
        <4> HIDE DEF f
        <4> QED BY <3>4, <3>5 DEF f
      <3> HIDE DEF f
      <3> QED BY <1>1, <2>2, <3>6
    <2> QED BY <2>3, <2>4
  <1> QED BY <1>2

\* What MountOrder makes of a list that has every plugin once: the same plugins,
\* each once, and arranged.
LEMMA MountOrderFacts ==
    ASSUME NEW all \in Seq(Plugins), Once(all)
    PROVE  /\ MountOrder(all) \in Seq(Plugins) /\ Once(MountOrder(all))
           /\ Lists!ToSet(MountOrder(all)) = Lists!ToSet(all)
           /\ \E stalled : Arranged(MountOrder(all), stalled, Lists!ToSet(all))
  <1> DEFINE sorted == CHOOSE f : FoldSteps(f, all, Len(all))
             start == [order |-> <<>>, left |-> all, ready |-> ProvidedBy(Healthy)]
  <1>0. Len(all) \in Nat
    OBVIOUS
  <1>1. MountOrder(all) = sorted[Len(all)].order
    BY DEF MountOrder, FoldSteps
  <1>2. FoldSteps(sorted, all, Len(all))
    BY <1>0, StepsExist
  <1> HIDE DEF sorted
  <1>3. /\ sorted[0] = start
        /\ \A k \in 1 .. Len(all) : sorted[k] = WithNext(sorted[k - 1], Lists!ToSet(all))
    BY <1>0, <1>2 DEF FoldSteps
  <1>4. SortedSoFar(start, 0, all)
    <2>1. /\ <<>> \in Seq(Plugins) /\ Len(<<>>) = 0 /\ Once(<<>>) /\ Lists!ToSet(<<>>) = {}
          /\ Arranged(<<>>, {}, Lists!ToSet(all))
      BY DEF Once, Arranged, Lists!ToSet
    <2>2. ProvidedBy({}) = {}
      BY DEF ProvidedBy
    <2>3. /\ start.order = <<>> /\ start.left = all /\ start.ready = ProvidedBy(Healthy)
          /\ start = [order |-> start.order, left |-> start.left, ready |-> start.ready]
      OBVIOUS
    <2> HIDE DEF start
    <2>4. Lists!ToSet(<<>>) \cup Lists!ToSet(all) = Lists!ToSet(all)
          /\ Lists!ToSet(<<>>) \cap Lists!ToSet(all) = {}
      BY <2>1
    <2>5. Len(<<>>) + Len(all) = Len(all)
      BY <1>0, <2>1
    <2>6. start.ready = ProvidedBy(Healthy) \cup ProvidedBy(Lists!ToSet(<<>>))
      BY <2>1, <2>2, <2>3
    <2>7. all = <<>> => \E stalled : Arranged(<<>>, stalled, Lists!ToSet(all))
      BY <2>1
    <2> QED BY ONLY <2>1, <2>3, <2>4, <2>5, <2>6, <2>7, all \in Seq(Plugins), Once(all) DEF SortedSoFar
  <1> HIDE DEF start
  <1> DEFINE amiss == {k \in 0 .. Len(all) : ~SortedSoFar(sorted[k], k, all)}
  <1>5. amiss = {}
    <2> SUFFICES ASSUME amiss # {} PROVE FALSE
      OBVIOUS
    <2>1. amiss \in SUBSET Nat
      BY <1>0
    <2>2. PICK least \in amiss : \A m \in amiss : least <= m
      BY <2>1, LeastNumber
    <2>3. least # 0
      BY <1>3, <1>4, <2>2
    <2>4. least \in 1 .. Len(all) /\ least - 1 \in 0 .. Len(all) /\ least - 1 \notin amiss
          /\ least - 1 \in Nat /\ (least - 1) + 1 = least
      BY <1>0, <2>2, <2>3
    <2>5. SortedSoFar(sorted[least - 1], least - 1, all)
      BY <2>4
    <2>6. SortedSoFar(sorted[least], (least - 1) + 1, all)
      BY <1>3, <2>4, <2>5, SortsOn
    <2> QED BY <2>2, <2>4, <2>6
  <1>6. SortedSoFar(sorted[Len(all)], Len(all), all)
    BY <1>0, <1>5
  <1> DEFINE s == sorted[Len(all)]
  <1>7. s.left = <<>>
    <2>1. s.left \in Seq(Plugins) /\ s.order \in Seq(Plugins) /\ Len(s.order) + Len(s.left) = Len(all)
          /\ (s.left = <<>> \/ Len(s.order) = Len(all))
      BY <1>6 DEF SortedSoFar
    <2> HIDE DEF s
    <2>2. Len(s.left) = 0 => s.left = <<>>
      BY <2>1, EmptySeq
    <2> QED BY <1>0, <2>1, <2>2
  <1>8. Lists!ToSet(<<>>) = {}
    BY DEF Lists!ToSet
  <1>9. /\ s.order \in Seq(Plugins) /\ Once(s.order) /\ Lists!ToSet(s.order) = Lists!ToSet(all)
        /\ \E stalled : Arranged(s.order, stalled, Lists!ToSet(all))
    BY <1>6, <1>7, <1>8 DEF SortedSoFar
  <1> QED BY <1>1, <1>9

------------------------------------------------------------------------------
(* Why a plugin is down: the inductive invariant *)

Queued == Lists!ToSet(run.queue)
\* The plugins that failed by themselves, or will be found to have: mount()
\* refuses one that the supervisor knows.
ToFail  == excused \cup {p \in Queued : status[p] # "absent"}
Doubted == ShakenBy(ToFail)
\* The wanted plugins that were looked at, and those that stay down: each of
\* the stalled waits for another of them.
Settled == run.target \ Queued
Lost(stalled) == (stalled \ Doubted) \cup {p \in Settled : status[p] = "absent"}

KnownAreWanted == \A p \in Plugins : status[p] # "absent" => p \in run.target

DropsInv == run.at = "drop" =>
    /\ run.next = 1 /\ run.queue = <<>>
    /\ \A p \in Plugins : status[p] # "absent" => p \in run.target \cup run.known

LoadsInv == run.at = "load" =>
    /\ KnownAreWanted /\ run.next \in Nat
    /\ run.queue \in Seq(Plugins) /\ Once(run.queue)
    /\ \A p \in Queued : p \in run.target /\ p < run.next
    /\ \A p \in run.target : p < run.next => p \in Healthy \cup excused \cup Queued

StalledInv(stalled) == \A p \in stalled \ Doubted :
    status[p] = "absent" /\ \E c \in manifest[p].requires : Suppliers(c) \subseteq stalled
\* What a queued plugin needs from one supplier is not to come after it.
OrderInv(stalled) == \A i \in DOMAIN run.queue :
    \/ run.queue[i] \in stalled
    \/ \A c \in manifest[run.queue[i]].requires : Cardinality(Suppliers(c)) = 1 =>
          \A j \in i .. Len(run.queue) : run.queue[j] \in Suppliers(c) => run.queue[j] \in Doubted
SettledInv(stalled) == \A p \in Settled \ (Healthy \cup Doubted) :
    /\ status[p] = "absent"
    /\ \E c \in manifest[p].requires :
          Cardinality(Suppliers(c)) # 1 \/ Suppliers(c) \subseteq Lost(stalled)
MountsInv == run.at = "mount" =>
    /\ KnownAreWanted
    /\ run.queue \in Seq(Plugins) /\ Once(run.queue) /\ Queued \subseteq run.target
    /\ \E stalled : StalledInv(stalled) /\ OrderInv(stalled) /\ SettledInv(stalled)

DownInv ==
    /\ PluginInv
    /\ filed \subseteq Plugins /\ desired.set \subseteq Plugins
    /\ Working => run.target \subseteq Plugins
    /\ DropsInv /\ LoadsInv /\ MountsInv

LEMMA DownInitInv == PluginSetInit => DownInv
  BY PluginInitInv DEF PluginSetInit, DownInv, DropsInv, LoadsInv, MountsInv, Working, Stopped

------------------------------------------------------------------------------
(* What the shaken plugins are *)

LEMMA ShakenFacts ==
    ASSUME NEW ps
    PROVE  /\ ShakenBy(ps) \subseteq Plugins
           /\ ps \cap Plugins \subseteq ShakenBy(ps)
           /\ \A p \in Plugins : \A c, q : /\ c \in manifest[p].requires
                                       /\ q \in Suppliers(c) /\ q \in ShakenBy(ps)
                                       => p \in ShakenBy(ps)
  <1>1. ShakenBy(ps) \subseteq Plugins /\ ps \cap Plugins \subseteq ShakenBy(ps)
    BY DEF ShakenBy
  <1>2. ASSUME NEW p \in Plugins, NEW c \in manifest[p].requires,
               NEW q \in Suppliers(c), q \in ShakenBy(ps)
        PROVE  p \in ShakenBy(ps)
    <2> SUFFICES ASSUME NEW all \in SUBSET Plugins, ps \subseteq all, Infects(all) PROVE p \in all
      BY DEF ShakenBy
    <2>1. q \in all
      BY <1>2 DEF ShakenBy
    <2> QED BY <2>1 DEF Infects
  <1> QED BY <1>1, <1>2

LEMMA SuppliersFinite ==
    ASSUME run.target \subseteq Plugins, NEW c
    PROVE  IsFiniteSet(Suppliers(c))
  <1>1. PluginCount \in Int
    BY McpIsConfigured
  <1>2. IsFiniteSet(Plugins)
    BY <1>1, FS_Interval DEF Plugins
  <1>3. Suppliers(c) \subseteq Plugins
    BY DEF Suppliers
  <1> QED BY <1>2, <1>3, FS_Subset

\* More that failed shake more.
LEMMA DoubtsStay ==
    ASSUME manifest' = manifest, run'.target = run.target, ToFail \subseteq ToFail'
    PROVE  Doubted \subseteq Doubted' /\ \A c : Suppliers(c)' = Suppliers(c)
  <1>1. \A c : Suppliers(c)' = Suppliers(c)
    BY DEF Suppliers
  <1>2. \A all : Infects(all)' <=> Infects(all)
    BY <1>1 DEF Infects
  <1>3. ASSUME NEW p \in Doubted PROVE p \in Doubted'
    <2>1. p \in Plugins /\ \A all \in SUBSET Plugins : ToFail \subseteq all /\ Infects(all) => p \in all
      BY <1>3 DEF Doubted, ShakenBy
    <2>2. \A all \in SUBSET Plugins : ToFail' \subseteq all /\ Infects(all)' => p \in all
      BY <1>2, <2>1
    <2> QED BY <2>1, <2>2 DEF Doubted, ShakenBy
  <1> QED BY <1>1, <1>3

LEMMA DoubtedFacts ==
    /\ Doubted \subseteq Plugins /\ ToFail \cap Plugins \subseteq Doubted
    /\ \A p \in Plugins : \A c, q : c \in manifest[p].requires /\ q \in Suppliers(c) /\ q \in Doubted
                                => p \in Doubted
  BY ShakenFacts DEF Doubted

LEMMA DoubtedFactsNext ==
    /\ (Doubted \subseteq Plugins)' /\ (ToFail \cap Plugins \subseteq Doubted)'
    /\ \A p \in Plugins : \A c, q : c \in manifest'[p].requires /\ q \in Suppliers(c)' /\ q \in Doubted'
                                => p \in Doubted'
  <1>1. (\A p \in Plugins : \A c, q : c \in manifest[p].requires /\ q \in Suppliers(c) /\ q \in Doubted
                                => p \in Doubted)'
    BY DoubtedFacts, PTL
  <1>2. (Doubted \subseteq Plugins /\ ToFail \cap Plugins \subseteq Doubted)'
    BY DoubtedFacts, PTL
  <1> QED BY <1>1, <1>2

------------------------------------------------------------------------------
(* The steps before the mounts *)

LEMMA StartsDown ==
    ASSUME DownInv, NEW target \in SUBSET Plugins, NEW config, NEW boot,
           run' = Applying(target, config, boot), UNCHANGED status,
           PluginInv', (filed \subseteq Plugins /\ desired.set \subseteq Plugins)'
    PROVE  DownInv'
  <1>1. /\ run'.at = "drop" /\ run'.next = 1 /\ run'.queue = <<>> /\ run'.target = target
        /\ run'.known = {p \in Plugins : status[p] # "absent"}
    BY DEF Applying
  <1>2. DropsInv' /\ LoadsInv' /\ MountsInv'
    BY <1>1 DEF DropsInv, LoadsInv, MountsInv
  <1> QED BY <1>1, <1>2 DEF DownInv

LEMMA BootDown ==
    ASSUME DownInv, Boot
    PROVE  DownInv'
  <1>1. PluginInv'
    BY BootInv DEF DownInv
  <1>2. desired'.set \in SUBSET Plugins /\ filed' \subseteq Plugins
    BY McpIsConfigured DEF Boot, DownInv
  <1>3. run' = Applying(desired'.set, desired'.config, TRUE) /\ UNCHANGED status
    BY DEF Boot
  <1> QED BY <1>1, <1>2, <1>3, StartsDown

LEMMA DropDown ==
    ASSUME DownInv, NEW p \in Plugins, DropPlugin(p)
    PROVE  DownInv'
  <1>1. PluginInv' /\ Working
    BY DropInv DEF DownInv, DropPlugin, Working
  <1>2. run.at = "drop" /\ run' = [run EXCEPT !.known = @ \ {p}] /\ UNCHANGED <<filed, desired>>
    BY DEF DropPlugin, plan
  <1>3. /\ run'.at = "drop" /\ run'.target = run.target /\ run'.next = run.next
        /\ run'.queue = run.queue /\ run'.known = run.known \ {p}
    BY <1>1, <1>2, WorkingShape DEF DownInv
  <1>4. ASSUME NEW q \in Plugins, status'[q] # "absent"
        PROVE  q \in run.target \cup (run.known \ {p})
    <2>1. status[q] # "absent" /\ (q = p => q \in run.target)
      BY <1>4 DEF DropPlugin, Dropped, DownInv, PluginInv
    <2> QED BY <1>2, <2>1 DEF DownInv, DropsInv
  <1>5. DropsInv' /\ LoadsInv' /\ MountsInv'
    BY <1>2, <1>3, <1>4 DEF DownInv, DropsInv, LoadsInv, MountsInv
  <1> QED BY <1>1, <1>2, <1>3, <1>5 DEF DownInv, Working

LEMMA AllDroppedDown ==
    ASSUME DownInv, AllDropped
    PROVE  DownInv'
  <1>1. PluginInv' /\ Working
    BY LoadInv DEF DownInv, AllDropped, Working
  <1>2. /\ run.at = "drop" /\ run.known = {} /\ run' = [run EXCEPT !.at = "load"]
        /\ UNCHANGED <<filed, desired, status>>
    BY DEF AllDropped, plan
  <1>3. run'.at = "load" /\ run'.target = run.target /\ run'.next = run.next /\ run'.queue = run.queue
    BY <1>1, <1>2, WorkingShape DEF DownInv
  <1>4. run.queue = <<>> /\ run.next = 1
    BY <1>2 DEF DownInv, DropsInv
  <1>5. KnownAreWanted'
    BY <1>2, <1>3 DEF DownInv, DropsInv, KnownAreWanted
  <1>6. Queued' = {} /\ Once(run'.queue) /\ run'.queue \in Seq(Plugins)
    BY <1>3, <1>4 DEF Queued, Once, Lists!ToSet
  <1>7. \A p \in run'.target : ~(p < run'.next)
    BY <1>1, <1>3, <1>4, McpIsConfigured DEF DownInv, Plugins
  <1>8. DropsInv' /\ LoadsInv' /\ MountsInv'
    BY <1>3, <1>4, <1>5, <1>6, <1>7 DEF DropsInv, LoadsInv, MountsInv
  <1> QED BY <1>1, <1>2, <1>3, <1>8 DEF DownInv, Working

LEMMA LoadDown ==
    ASSUME DownInv, NEW readable \in BOOLEAN, LoadManifest(readable)
    PROVE  DownInv'
  <1> DEFINE p == run.next
             taken == p \in run.target /\ status[p] # "healthy" /\ readable
             queue == IF taken THEN Append(run.queue, p) ELSE run.queue
  <1>1. PluginInv' /\ Working
    BY LoadInv DEF DownInv, LoadManifest, Working
  <1>2. /\ run.at = "load" /\ p <= PluginCount
        /\ p \notin run.target \/ status[p] = "healthy" => readable
        /\ run' = [run EXCEPT !.next = p + 1, !.queue = queue]
        /\ excused' = IF readable THEN excused ELSE excused \cup {p}
        /\ UNCHANGED <<filed, desired, status>>
    BY DEF LoadManifest, plan
  <1>3. /\ KnownAreWanted /\ p \in Nat
        /\ run.queue \in Seq(Plugins) /\ Once(run.queue)
        /\ \A q \in Queued : q \in run.target /\ q < p
        /\ \A q \in run.target : q < p => q \in Healthy \cup excused \cup Queued
        /\ run.target \subseteq Plugins
    BY <1>1, <1>2 DEF DownInv, LoadsInv
  <1>4. run'.at = "load" /\ run'.target = run.target /\ run'.next = p + 1 /\ run'.queue = queue
    <2>1. PICK next, q : next = p + 1 /\ q = queue /\ run' = [run EXCEPT !.next = next, !.queue = q]
      BY <1>2
    <2> HIDE DEF queue, p
    <2> QED BY <1>1, <1>2, <2>1, WorkingShape DEF DownInv
  <1>5. KnownAreWanted'
    BY <1>2, <1>3, <1>4 DEF KnownAreWanted
  <1> HIDE DEF p
  <1>6. /\ queue \in Seq(Plugins) /\ Once(queue)
        /\ Lists!ToSet(queue) = IF taken THEN Queued \cup {p} ELSE Queued
    <2>1. CASE taken
      <3> DEFINE n == Len(run.queue)
      <3>1. p \in Plugins
        BY <1>3, <2>1
      <3>2. /\ queue \in Seq(Plugins) /\ Len(queue) = n + 1 /\ queue[n + 1] = p
            /\ \A i \in 1 .. n : queue[i] = run.queue[i]
        BY <1>3, <2>1, <3>1, AppendProperties
      <3>3. n \in Nat /\ DOMAIN queue = 1 .. n + 1 /\ DOMAIN run.queue = 1 .. n
        BY <1>3, <3>2
      <3> HIDE DEF n, queue, taken
      <3>4. \A i \in 1 .. n : run.queue[i] \in Queued /\ run.queue[i] # p
        <4>1. \A i \in 1 .. n : run.queue[i] \in Queued
          BY <3>3 DEF Queued, Lists!ToSet
        <4>2. p \notin Queued
          BY <1>3
        <4> QED BY <4>1, <4>2
      <3>5. \A i \in 1 .. n + 1 : i \in 1 .. n \/ i = n + 1
        BY <3>3
      <3>6. Once(queue)
        BY <1>3, <3>2, <3>3, <3>4, <3>5 DEF Once
      <3>7. Lists!ToSet(queue) = Queued \cup {p}
        BY <3>2, <3>3, <3>5 DEF Queued, Lists!ToSet
      <3> QED BY <2>1, <3>2, <3>6, <3>7
    <2>2. CASE ~taken
      BY <1>3, <2>2 DEF Queued
    <2> QED BY <2>1, <2>2
  <1>7. Queued' = IF taken THEN Queued \cup {p} ELSE Queued
    <2> HIDE DEF queue
    <2> QED BY <1>4, <1>6 DEF Queued
  <1>8. \A q \in Queued' : q \in run'.target /\ q < run'.next
    <2> SUFFICES ASSUME NEW q \in Queued' PROVE q \in run'.target /\ q < run'.next
      OBVIOUS
    <2>1. q \in run.target /\ (q < p \/ q = p)
      BY <1>3, <1>7
    <2>2. q \in Nat
      BY <1>3, <2>1, McpIsConfigured DEF Plugins
    <2> QED BY <1>3, <1>4, <2>1, <2>2
  <1>9. \A q \in run'.target : q < run'.next => q \in Healthy' \cup excused' \cup Queued'
    <2> SUFFICES ASSUME NEW q \in run.target, q < p + 1 PROVE q \in Healthy \cup excused' \cup Queued'
      BY <1>2, <1>4 DEF Healthy
    <2>1. q \in Plugins /\ q \in Nat /\ (q < p \/ q = p)
      BY <1>3, McpIsConfigured DEF Plugins
    <2>2. CASE q < p
      BY <1>2, <1>3, <1>7, <2>2
    <2>3. CASE q = p
      <3>1. CASE status[p] = "healthy"
        BY <2>1, <2>3, <3>1 DEF Healthy
      <3>2. CASE status[p] # "healthy" /\ readable
        BY <1>7, <2>3, <3>2
      <3>3. CASE ~readable
        BY <1>2, <2>3, <3>3
      <3> QED BY <3>1, <3>2, <3>3
    <2> QED BY <2>1, <2>2, <2>3
  <1>10. DropsInv' /\ LoadsInv' /\ MountsInv'
    <2>1. run'.queue \in Seq(Plugins) /\ Once(run'.queue) /\ run'.next \in Nat /\ run'.at = "load"
      BY <1>3, <1>4, <1>6
    <2> QED BY <1>5, <1>8, <1>9, <2>1 DEF DropsInv, LoadsInv, MountsInv
  <1>11. run'.target \subseteq Plugins
    BY <1>3, <1>4
  <1> QED BY <1>1, <1>2, <1>10, <1>11 DEF DownInv

\* The order leaves nothing that is needed behind what needs it, but for the
\* stalled plugins: those that wait for one of themselves.
LEMMA SortsDown ==
    ASSUME DownInv, Sorts
    PROVE  DownInv'
  <1> DEFINE queue == MountOrder(run.queue)
  <1>1. PluginInv' /\ Working
    BY LoadInv DEF DownInv, Sorts, Working
  <1>2. /\ run.at = "load" /\ run.next = PluginCount + 1
        /\ run' = [run EXCEPT !.at = "mount", !.queue = queue]
        /\ UNCHANGED <<filed, desired, manifest, status, excused>>
    BY DEF Sorts, plan
  <1>3. /\ KnownAreWanted
        /\ run.queue \in Seq(Plugins) /\ Once(run.queue)
        /\ \A q \in Queued : q \in run.target
        /\ \A q \in run.target : q < run.next => q \in Healthy \cup excused \cup Queued
        /\ run.target \subseteq Plugins
    BY <1>1, <1>2 DEF DownInv, LoadsInv
  <1>4. run'.at = "mount" /\ run'.target = run.target /\ run'.queue = queue
    <2>1. PICK q : q = queue /\ run' = [run EXCEPT !.at = "mount", !.queue = q]
      BY <1>2
    <2> HIDE DEF queue
    <2> QED BY <1>1, <1>2, <2>1, WorkingShape DEF DownInv
  <1>5. /\ queue \in Seq(Plugins) /\ Once(queue) /\ Lists!ToSet(queue) = Queued
        /\ \E stalled : Arranged(queue, stalled, Queued)
    BY <1>3, MountOrderFacts DEF Queued
  <1> HIDE DEF queue
  <1>6. PICK stalled : Arranged(queue, stalled, Queued)
    BY <1>5
  <1>7. /\ Queued' = Queued /\ ToFail' = ToFail /\ Healthy' = Healthy
        /\ \A c : Suppliers(c)' = Suppliers(c)
    BY <1>2, <1>4, <1>5 DEF Queued, ToFail, Healthy, Suppliers
  <1>8. Doubted' = Doubted
    BY <1>2, <1>7 DEF Doubted, ShakenBy, Infects
  <1>9. \A q \in run.target : q \in Queued \/ q \in Healthy \/ q \in Doubted
    <2> SUFFICES ASSUME NEW q \in run.target PROVE q \in Queued \/ q \in Healthy \/ q \in Doubted
      OBVIOUS
    <2>1. q \in Plugins /\ q < run.next
      BY <1>2, <1>3, McpIsConfigured DEF Plugins
    <2> QED BY <1>3, <2>1, DoubtedFacts DEF ToFail
  <1>10. \A q \in Queued : q \in Plugins /\ (status[q] # "absent" => q \in Doubted)
    BY <1>3, DoubtedFacts DEF ToFail
  <1>11. DOMAIN queue = 1 .. Len(queue) /\ \A i \in DOMAIN queue : queue[i] \in Queued
    BY <1>5 DEF Lists!ToSet
  \* What is stalled needs something that only the stalled provide.
  <1>12. ASSUME NEW p \in (stalled \cap Queued) \ Doubted
         PROVE  /\ status[p] = "absent"
                /\ \E c \in manifest[p].requires : Suppliers(c) \subseteq stalled \cap Queued
    <2>1. PICK i \in DOMAIN queue : queue[i] = p
      BY <1>5 DEF Lists!ToSet
    <2>2. PICK c \in manifest[p].requires :
             /\ c \notin ProvidedBy(Healthy)
             /\ \A q \in Queued : c \in manifest[q].provides => q \in stalled
      BY <1>6, <1>12, <2>1 DEF Arranged
    <2>3. ASSUME NEW q \in Suppliers(c) PROVE q \in stalled \cap Queued
      <3>1. q \notin Healthy /\ q \in run.target /\ c \in manifest[q].provides
        BY <2>2 DEF ProvidedBy, Suppliers
      <3>2. q \notin Doubted
        BY <1>10, <1>12, <2>2, DoubtedFacts
      <3> QED BY <1>9, <2>2, <3>1, <3>2
    <2> QED BY <1>10, <1>12, <2>3
  <1>13. StalledInv(stalled \cap Queued)'
    BY <1>2, <1>7, <1>8, <1>12 DEF StalledInv
  <1>14. ASSUME NEW i \in DOMAIN queue, queue[i] \notin stalled \cap Queued,
                NEW c \in manifest[queue[i]].requires, Cardinality(Suppliers(c)) = 1,
                NEW j \in i .. Len(queue), queue[j] \in Suppliers(c)
         PROVE  queue[j] \in Doubted
    <2>1. PICK q : Suppliers(c) = {q}
      <3>1. IsFiniteSet(Suppliers(c))
        BY <1>3, SuppliersFinite
      <3> QED BY <1>14, <3>1, FS_Singleton
    <2>2. j \in DOMAIN queue /\ queue[j] = q /\ q \in Queued /\ c \in manifest[q].provides
      <3>1. j \in DOMAIN queue
        BY <1>5, <1>11
      <3>2. c \in manifest[queue[j]].provides /\ queue[j] = q
        BY <1>14, <2>1 DEF Suppliers
      <3> QED BY <1>11, <3>1, <3>2
    <2>3. \/ c \notin ProvidedBy(Queued)
          \/ c \in ProvidedBy(Healthy)
          \/ \E m \in 1 .. i - 1 : c \in manifest[queue[m]].provides
      BY <1>6, <1>11, <1>14 DEF Arranged
    <2>4. CASE c \in ProvidedBy(Healthy)
      <3>1. PICK h \in Healthy : c \in manifest[h].provides
        BY <2>4 DEF ProvidedBy
      <3>2. h \in Suppliers(c) /\ status[h] # "absent"
        BY <1>3, <3>1 DEF Healthy, KnownAreWanted, Suppliers
      <3> QED BY <1>10, <2>1, <2>2, <3>2
    <2>5. CASE \E m \in 1 .. i - 1 : c \in manifest[queue[m]].provides
      <3>1. PICK m \in 1 .. i - 1 : c \in manifest[queue[m]].provides
        BY <2>5
      <3>2. m \in DOMAIN queue /\ m # j /\ queue[m] \in run.target
        BY <1>3, <1>5, <1>11
      <3>3. queue[m] = q
        BY <2>1, <3>1, <3>2 DEF Suppliers
      <3> QED BY <1>5, <2>2, <3>2, <3>3 DEF Once
    <2>6. c \in ProvidedBy(Queued)
      BY <2>2 DEF ProvidedBy
    <2> QED BY <2>3, <2>4, <2>5, <2>6
  <1>15. OrderInv(stalled \cap Queued)'
    BY <1>2, <1>4, <1>7, <1>8, <1>14 DEF OrderInv
  <1>16. SettledInv(stalled \cap Queued)'
    BY <1>4, <1>7, <1>8, <1>9 DEF SettledInv, Settled
  <1>17. KnownAreWanted' /\ Queued' \subseteq run'.target
    BY <1>2, <1>3, <1>4, <1>7 DEF KnownAreWanted
  <1>18. MountsInv'
    <2>1. \E st : (StalledInv(st) /\ OrderInv(st) /\ SettledInv(st))'
      BY <1>13, <1>15, <1>16
    <2> QED BY <1>4, <1>5, <1>17, <2>1 DEF MountsInv
  <1>19. DropsInv' /\ LoadsInv' /\ run'.target \subseteq Plugins
    BY <1>3, <1>4 DEF DropsInv, LoadsInv
  <1> QED BY <1>1, <1>2, <1>18, <1>19 DEF DownInv

------------------------------------------------------------------------------
(* The mounts, and what happens meanwhile *)

\* A step during the mounts that takes at most the head of the queue, lets no
\* failure be forgotten and makes nothing of what it does not mount.
Onward ==
    /\ run.at = "mount" /\ run'.at = "mount" /\ run'.target = run.target
    /\ UNCHANGED <<manifest, filed, desired>>
    /\ ToFail \subseteq ToFail' /\ Queued' \subseteq Queued
    /\ \A q \in Settled : status[q] = "absent" => status'[q] = "absent"

\* A reason to stay down lasts.
LEMMA ReasonsLast ==
    ASSUME DownInv, Onward, NEW stalled, NEW p \in Plugins, p \notin Doubted',
           \E c \in manifest[p].requires :
               Cardinality(Suppliers(c)) # 1 \/ Suppliers(c) \subseteq Lost(stalled)
    PROVE  \E c \in manifest'[p].requires :
               Cardinality(Suppliers(c)') # 1 \/ Suppliers(c)' \subseteq Lost(stalled)'
  <1>1. /\ Doubted \subseteq Doubted' /\ \A c : Suppliers(c)' = Suppliers(c)
        /\ manifest' = manifest /\ run'.target = run.target
    BY DoubtsStay DEF Onward
  <1>2. PICK c \in manifest[p].requires :
           Cardinality(Suppliers(c)) # 1 \/ Suppliers(c) \subseteq Lost(stalled)
    OBVIOUS
  <1>3. ASSUME Suppliers(c) \subseteq Lost(stalled), NEW q \in Suppliers(c)
        PROVE  q \in Lost(stalled)'
    <2>1. q \notin Doubted'
      BY <1>1, <1>2, DoubtedFactsNext
    <2>2. CASE q \in stalled \ Doubted
      BY <2>1, <2>2 DEF Lost
    <2>3. CASE q \in Settled /\ status[q] = "absent"
      <3>1. q \in Settled' /\ status'[q] = "absent"
        BY <1>1, <2>3 DEF Onward, Settled
      <3> QED BY <3>1 DEF Lost
    <2> QED BY <1>3, <2>2, <2>3 DEF Lost
  <1> QED BY <1>1, <1>2, <1>3

\* So the invariant is kept if the stalled stay down, the rest of the queue is
\* what it was, and what is settled now has a reason.
LEMMA MountsOn ==
    ASSUME DownInv, Onward, PluginInv', KnownAreWanted', NEW stalled,
           run'.queue \in Seq(Plugins), Once(run'.queue),
           \A p \in stalled \ Doubted' : status[p] = "absent" => status'[p] = "absent",
           StalledInv(stalled), OrderInv(stalled)', SettledInv(stalled),
           \A p \in Settled' \ (Healthy' \cup Doubted') :
              \/ p \in Settled \ (Healthy \cup Doubted)
              \/ /\ status'[p] = "absent"
                 /\ \E c \in manifest[p].requires :
                       Cardinality(Suppliers(c)) # 1 \/ Suppliers(c) \subseteq Lost(stalled)
    PROVE  DownInv'
  <1>1. /\ Doubted \subseteq Doubted' /\ \A c : Suppliers(c)' = Suppliers(c)
        /\ manifest' = manifest /\ run'.target = run.target
        /\ filed' = filed /\ desired' = desired
        /\ run.at = "mount" /\ run'.at = "mount" /\ Queued' \subseteq Queued
    BY DoubtsStay DEF Onward
  <1>2. run.target \subseteq Plugins /\ Queued \subseteq run.target
    BY <1>1 DEF DownInv, Working, MountsInv
  <1>3. StalledInv(stalled)'
    <2> SUFFICES ASSUME NEW p \in stalled \ Doubted'
                 PROVE  /\ status'[p] = "absent"
                        /\ \E c \in manifest'[p].requires : Suppliers(c)' \subseteq stalled
      BY DEF StalledInv
    <2>1. /\ status[p] = "absent" /\ \E c \in manifest[p].requires : Suppliers(c) \subseteq stalled
      BY <1>1 DEF StalledInv
    <2> QED BY <1>1, <2>1
  <1>4. SettledInv(stalled)'
    <2> SUFFICES ASSUME NEW p \in Settled' \ (Healthy' \cup Doubted')
                 PROVE  /\ status'[p] = "absent"
                        /\ \E c \in manifest'[p].requires :
                              Cardinality(Suppliers(c)') # 1 \/ Suppliers(c)' \subseteq Lost(stalled)'
      BY DEF SettledInv
    <2>1. p \in Plugins
      BY <1>1, <1>2 DEF Settled
    <2>2. /\ status'[p] = "absent"
          /\ \E c \in manifest[p].requires :
                Cardinality(Suppliers(c)) # 1 \/ Suppliers(c) \subseteq Lost(stalled)
      <3>1. CASE p \in Settled \ (Healthy \cup Doubted)
        BY <3>1 DEF SettledInv, Onward
      <3> QED BY <3>1
    <2> QED BY <2>1, <2>2, ReasonsLast
  <1>5. \E st : (StalledInv(st) /\ OrderInv(st) /\ SettledInv(st))'
    BY <1>3, <1>4
  <1>6. MountsInv'
    BY <1>1, <1>2, <1>5 DEF MountsInv
  <1>7. DropsInv' /\ LoadsInv' /\ run'.target \subseteq Plugins
    BY <1>1, <1>2 DEF DropsInv, LoadsInv
  <1> QED BY <1>1, <1>6, <1>7 DEF DownInv

\* A plugin is mounted if what it needs has a supplier that is up, and the
\* stalled have none; one that is refused lacks what is lost.
LEMMA MountDown ==
    ASSUME DownInv, NEW works \in BOOLEAN, MountPlugin(works)
    PROVE  DownInv'
  <1> DEFINE p == Head(run.queue)
             starts == status[p] = "absent" /\ Resolvable(p)
  <1>1. PluginInv' /\ Working
    BY MountInv DEF DownInv, MountPlugin, Working
  <1>2. /\ run.at = "mount" /\ run.queue # <<>> /\ (works => starts)
        /\ run' = [run EXCEPT !.queue = Tail(@)]
        /\ status' = IF works THEN [status EXCEPT ![p] = "healthy"] ELSE status
        /\ excused' = IF ~works /\ (starts \/ status[p] # "absent")
                      THEN excused \cup {p} ELSE excused
        /\ UNCHANGED <<filed, desired, manifest>>
    BY DEF MountPlugin, plan
  <1>3. /\ KnownAreWanted /\ run.queue \in Seq(Plugins) /\ Once(run.queue)
        /\ Queued \subseteq run.target /\ run.target \subseteq Plugins
        /\ status \in [Plugins -> PluginStates]
    BY <1>1, <1>2 DEF DownInv, MountsInv, PluginInv
  <1>4. PICK stalled : StalledInv(stalled) /\ OrderInv(stalled) /\ SettledInv(stalled)
    BY <1>2 DEF DownInv, MountsInv
  <1>5. run'.at = "mount" /\ run'.target = run.target /\ run'.queue = Tail(run.queue)
    BY <1>1, <1>2, WorkingShape DEF DownInv
  <1> DEFINE n == Len(run.queue)
             tail == Tail(run.queue)
  <1>6. /\ n \in Nat /\ n # 0 /\ DOMAIN run.queue = 1 .. n /\ p = run.queue[1]
        /\ tail \in Seq(Plugins) /\ Len(tail) = n - 1 /\ DOMAIN tail = 1 .. n - 1
        /\ \A i \in 1 .. n - 1 : tail[i] = run.queue[i + 1]
    BY <1>2, <1>3
  <1> HIDE DEF p, n, tail
  <1>7. \A i \in 1 .. n - 1 : i + 1 \in 1 .. n /\ i + 1 # 1
    BY <1>6
  <1>8. Once(tail)
    <2> SUFFICES ASSUME NEW i \in 1 .. n - 1, NEW j \in 1 .. n - 1, tail[i] = tail[j] PROVE i = j
      BY <1>6 DEF Once
    <2>1. i + 1 = j + 1
      BY <1>3, <1>6, <1>7 DEF Once
    <2> QED BY <2>1
  <1>9. Queued' = Queued \ {p}
    <2>1. \A i \in 1 .. n - 1 : tail[i] \in Queued \ {p}
      <3> SUFFICES ASSUME NEW i \in 1 .. n - 1 PROVE tail[i] \in Queued \ {p}
        OBVIOUS
      <3>1. i + 1 \in DOMAIN run.queue /\ 1 \in DOMAIN run.queue /\ i + 1 # 1 /\ tail[i] = run.queue[i + 1]
        BY <1>6, <1>7
      <3>2. run.queue[i + 1] # run.queue[1]
        BY <1>3, <3>1 DEF Once
      <3> QED BY <1>6, <3>1, <3>2 DEF Queued, Lists!ToSet
    <2>2. \A i \in 1 .. n : run.queue[i] # p => run.queue[i] \in Lists!ToSet(tail)
      <3> SUFFICES ASSUME NEW i \in 1 .. n, run.queue[i] # p PROVE run.queue[i] \in Lists!ToSet(tail)
        OBVIOUS
      <3>1. i - 1 \in 1 .. n - 1 /\ tail[i - 1] = run.queue[i]
        BY <1>6
      <3> QED BY <1>6, <3>1 DEF Lists!ToSet
    <2>3. Lists!ToSet(tail) = Queued \ {p}
      <3>1. Lists!ToSet(tail) \subseteq Queued \ {p}
        BY <1>6, <2>1 DEF Lists!ToSet
      <3>2. Queued = {run.queue[i] : i \in 1 .. n}
        BY <1>6 DEF Queued, Lists!ToSet
      <3>3. Queued \ {p} \subseteq Lists!ToSet(tail)
        BY <2>2, <3>2
      <3> QED BY <3>1, <3>3
    <2> QED BY <1>5, <2>3 DEF Queued, tail
  <1>10. p \in Queued /\ p \in Plugins /\ p \in run.target
    BY <1>3, <1>6 DEF Queued, Lists!ToSet
  <1>11. \A q \in Plugins : q # p => status'[q] = status[q]
    BY <1>2, <1>3
  <1>12. status'[p] = IF works THEN "healthy" ELSE status[p]
    BY <1>2, <1>3, <1>10
  <1>13. ToFail \subseteq ToFail'
    <2> SUFFICES ASSUME NEW q \in ToFail PROVE q \in ToFail'
      OBVIOUS
    <2>1. CASE q \in excused
      BY <1>2, <2>1 DEF ToFail
    <2>2. CASE q \in Queued /\ status[q] # "absent" /\ q # p
      BY <1>3, <1>9, <1>11, <2>2 DEF ToFail
    <2>3. CASE q = p /\ status[p] # "absent"
      BY <1>2, <2>3 DEF ToFail
    <2> QED BY <2>1, <2>2, <2>3 DEF ToFail
  <1>14. Onward
    <2>1. ASSUME NEW q \in Settled, status[q] = "absent" PROVE status'[q] = "absent"
      BY <1>3, <1>10, <1>11, <2>1 DEF Settled
    <2> QED BY <1>2, <1>5, <1>9, <1>13, <2>1 DEF Onward
  <1>15. KnownAreWanted'
    BY <1>3, <1>5, <1>10, <1>11 DEF KnownAreWanted
  <1>16. Doubted \subseteq Doubted' /\ \A c : Suppliers(c)' = Suppliers(c)
    BY <1>2, <1>5, <1>13, DoubtsStay
  \* A stalled plugin that nothing was wrong with has nobody to start with.
  <1>17. ASSUME works, p \in stalled, p \notin Doubted PROVE FALSE
    <2>1. PICK c \in manifest[p].requires : Suppliers(c) \subseteq stalled
      BY <1>4, <1>17 DEF StalledInv
    <2>2. PICK q \in Healthy : c \in manifest[q].provides
      <3>1. Cardinality({q \in Healthy : c \in manifest[q].provides}) = 1
        BY <1>2, <1>17, <2>1 DEF Resolvable
      <3> DEFINE able == {h \in Healthy : c \in manifest[h].provides}
      <3>2. Cardinality(able) = 1
        BY <3>1
      <3> HIDE DEF able
      <3>3. able # {}
        BY <3>2, FS_EmptySet
      <3> QED BY <3>3 DEF able
    <2>3. q \in Suppliers(c) /\ status[q] # "absent"
      BY <1>3, <2>2 DEF Healthy, KnownAreWanted, Suppliers
    <2>4. q \in Doubted
      BY <1>4, <2>1, <2>3 DEF StalledInv
    <2> QED BY <1>10, <1>17, <2>1, <2>3, <2>4, DoubtedFacts
  <1>18. \A q \in stalled \ Doubted' : status[q] = "absent" => status'[q] = "absent"
    <2> SUFFICES ASSUME NEW q \in stalled \ Doubted', status[q] = "absent" PROVE status'[q] = "absent"
      OBVIOUS
    <2>1. CASE q = p
      BY <1>12, <1>16, <1>17, <2>1
    <2>2. CASE q # p
      BY <1>2, <2>2
    <2> QED BY <2>1, <2>2
  <1>19. OrderInv(stalled)'
    <2> SUFFICES ASSUME NEW i \in 1 .. n - 1, tail[i] \notin stalled,
                        NEW c \in manifest[tail[i]].requires, Cardinality(Suppliers(c)) = 1,
                        NEW j \in i .. n - 1, tail[j] \in Suppliers(c)
                 PROVE  tail[j] \in Doubted'
      <3>1. run'.queue = tail /\ DOMAIN run'.queue = 1 .. n - 1 /\ Len(run'.queue) = n - 1
        BY <1>5, <1>6 DEF tail
      <3> QED BY <1>2, <1>16, <3>1 DEF OrderInv
    <2>1. /\ i + 1 \in DOMAIN run.queue /\ j + 1 \in i + 1 .. Len(run.queue)
          /\ tail[i] = run.queue[i + 1] /\ tail[j] = run.queue[j + 1]
      BY <1>6, <1>7 DEF n
    <2>2. run.queue[j + 1] \in Doubted
      BY <1>4, <2>1 DEF OrderInv
    <2> QED BY <1>16, <2>1, <2>2
  \* One that is refused lacks something that has gone or never was.
  <1>20. ASSUME ~works, p \notin Doubted'
         PROVE  /\ status'[p] = "absent"
                /\ \E c \in manifest[p].requires :
                      Cardinality(Suppliers(c)) # 1 \/ Suppliers(c) \subseteq Lost(stalled)
    <2>1. p \notin Doubted /\ status[p] = "absent" /\ ~Resolvable(p)
      <3>1. p \notin ToFail'
        BY <1>10, <1>20, DoubtedFactsNext
      <3> QED BY <1>2, <1>16, <1>20, <3>1 DEF ToFail
    <2>2. CASE p \in stalled
      <3>1. PICK c \in manifest[p].requires : Suppliers(c) \subseteq stalled
        BY <1>4, <2>1, <2>2 DEF StalledInv
      <3>2. \A q \in Suppliers(c) : q \notin Doubted
        BY <1>10, <2>1, <3>1, DoubtedFacts
      <3>3. Suppliers(c) \subseteq Lost(stalled)
        BY <3>1, <3>2 DEF Lost
      <3> QED BY <1>12, <1>20, <2>1, <3>3
    <2>3. CASE p \notin stalled
      <3>1. PICK c \in manifest[p].requires :
               Cardinality({q \in Healthy : c \in manifest[q].provides}) # 1
        BY <2>1 DEF Resolvable
      <3>2. ASSUME Cardinality(Suppliers(c)) = 1 PROVE Suppliers(c) \subseteq Lost(stalled)
        <4>1. PICK q : Suppliers(c) = {q}
          <5>1. IsFiniteSet(Suppliers(c))
            BY <1>3, SuppliersFinite
          <5> QED BY <3>2, <5>1, FS_Singleton
        <4>2. q \in run.target /\ c \in manifest[q].provides
          BY <4>1 DEF Suppliers
        <4>3. q \notin Healthy
          <5> SUFFICES ASSUME q \in Healthy PROVE FALSE
            OBVIOUS
          <5>1. {h \in Healthy : c \in manifest[h].provides} \subseteq {q}
            BY <1>3, <4>1 DEF Healthy, KnownAreWanted, Suppliers
          <5>2. {h \in Healthy : c \in manifest[h].provides} = {q}
            BY <4>2, <5>1
          <5> QED BY <3>1, <5>2, FS_Singleton
        <4>4. q \notin Doubted
          BY <1>10, <2>1, <4>1, DoubtedFacts
        <4>5. q \notin Queued
          <5> SUFFICES ASSUME q \in Queued PROVE FALSE
            OBVIOUS
          <5>1. PICK j \in DOMAIN run.queue : run.queue[j] = q
            BY DEF Queued, Lists!ToSet
          <5>2. 1 \in DOMAIN run.queue /\ j \in 1 .. Len(run.queue)
            BY <1>6 DEF n
          <5>3. q \in Doubted
            BY <1>4, <1>6, <2>3, <3>1, <3>2, <4>1, <5>1, <5>2 DEF OrderInv
          <5> QED BY <4>4, <5>3
        <4>6. q \in Settled /\ status[q] = "absent"
          BY <1>4, <4>2, <4>3, <4>4, <4>5 DEF Settled, SettledInv
        <4> QED BY <4>1, <4>6 DEF Lost
      <3> QED BY <1>12, <1>20, <2>1, <3>1, <3>2
    <2> QED BY <2>2, <2>3
  <1>21. ASSUME NEW q \in Settled' \ (Healthy' \cup Doubted')
         PROVE  \/ q \in Settled \ (Healthy \cup Doubted)
                \/ /\ status'[q] = "absent"
                   /\ \E c \in manifest[q].requires :
                         Cardinality(Suppliers(c)) # 1 \/ Suppliers(c) \subseteq Lost(stalled)
    <2>1. CASE q = p
      <3>1. ~works
        BY <1>10, <1>12, <2>1 DEF Healthy
      <3> QED BY <1>20, <2>1, <3>1
    <2>2. CASE q # p
      <3>1. q \in Settled /\ q \in Plugins
        BY <1>3, <1>5, <1>9, <2>2 DEF Settled
      <3>2. q \notin Healthy
        BY <1>11, <2>2, <3>1 DEF Healthy
      <3> QED BY <1>16, <3>1, <3>2
    <2> QED BY <2>1, <2>2
  <1>22. run'.queue \in Seq(Plugins) /\ Once(run'.queue)
    BY <1>5, <1>6, <1>8 DEF tail
  <1> QED BY <1>1, <1>4, <1>14, <1>15, <1>18, <1>19, <1>21, <1>22, MountsOn

LEMMA ProcessDown ==
    ASSUME DownInv, NEW p \in Plugins, PluginCrashes(p) \/ PluginRestarts(p)
    PROVE  DownInv'
  <1>1. PluginInv'
    BY ProcessInv DEF DownInv
  <1>2. /\ UNCHANGED <<manifest, filed, desired, run>>
        /\ status \in [Plugins -> PluginStates] /\ status[p] # "absent"
        /\ \E now \in {"healthy", "restarting", "failed"} : status' = [status EXCEPT ![p] = now]
        /\ excused \subseteq excused'
        /\ status[p] = "healthy" => p \in excused'
    BY DEF PluginCrashes, PluginRestarts, plan, DownInv, PluginInv
  <1>3. /\ \A q \in Plugins : q # p => status'[q] = status[q]
        /\ status'[p] # "absent"
    BY <1>2
  <1>4. \A q \in Plugins : status'[q] = "absent" <=> status[q] = "absent"
    BY <1>2, <1>3
  <1>5. Queued' = Queued /\ Settled' = Settled /\ (KnownAreWanted' <=> KnownAreWanted)
    BY <1>2, <1>4 DEF Queued, Settled, KnownAreWanted
  <1>6. Working' => run'.target \subseteq Plugins
    BY <1>2 DEF DownInv, Working
  <1>7. CASE run.at = "mount"
    <2>1. /\ KnownAreWanted /\ run.queue \in Seq(Plugins) /\ Once(run.queue)
          /\ Queued \subseteq run.target /\ run.target \subseteq Plugins
      BY <1>7 DEF DownInv, MountsInv, Working
    <2>2. PICK stalled : StalledInv(stalled) /\ OrderInv(stalled) /\ SettledInv(stalled)
      BY <1>7 DEF DownInv, MountsInv
    <2>3. ToFail \subseteq ToFail'
      BY <1>2, <1>4, <1>5, <2>1 DEF ToFail
    <2>4. Doubted \subseteq Doubted' /\ \A c : Suppliers(c)' = Suppliers(c)
      BY <1>2, <2>3, DoubtsStay
    <2>5. Onward
      BY <1>2, <1>4, <1>5, <1>7, <2>1, <2>3 DEF Onward, Settled
    <2>6. \A q \in stalled \ Doubted' : status[q] = "absent" => status'[q] = "absent"
      <3>1. \A q : q \notin Plugins => status'[q] = status[q]
        BY <1>2
      <3> QED BY <1>4, <3>1
    <2>7. OrderInv(stalled)'
      BY <1>2, <2>2, <2>4 DEF OrderInv
    <2>8. ASSUME NEW q \in Settled' \ (Healthy' \cup Doubted')
          PROVE  q \in Settled \ (Healthy \cup Doubted)
      <3>1. q \in Settled /\ q \in Plugins /\ q \notin Doubted
        BY <1>5, <2>1, <2>4 DEF Settled
      <3>2. q # p \/ q \notin Healthy
        <4>1. q \notin excused'
          BY <2>8, <3>1, DoubtedFactsNext DEF ToFail
        <4> QED BY <1>2, <4>1 DEF Healthy
      <3>3. q \notin Healthy
        BY <1>3, <2>8, <3>1, <3>2 DEF Healthy
      <3> QED BY <3>1, <3>3
    <2> QED BY <1>1, <1>2, <1>5, <2>1, <2>2, <2>5, <2>6, <2>7, <2>8, MountsOn
  <1>8. CASE run.at # "mount"
    <2>1. DropsInv'
      BY <1>2, <1>4 DEF DownInv, DropsInv
    <2>2. LoadsInv'
      <3>1. ASSUME run.at = "load", NEW q \in run.target, q < run.next
            PROVE  q \in Healthy' \cup excused' \cup Queued'
        <4>1. q \in Healthy \cup excused \cup Queued
          BY <3>1 DEF DownInv, LoadsInv
        <4> QED BY <1>2, <1>3, <1>5, <4>1 DEF Healthy
      <3> QED BY <1>2, <1>5, <3>1 DEF DownInv, LoadsInv
    <2>3. MountsInv'
      BY <1>2, <1>8 DEF MountsInv
    <2> QED BY <1>1, <1>2, <1>6, <2>1, <2>2, <2>3 DEF DownInv
  <1> QED BY <1>7, <1>8

\* Outside of apply() there is nothing to keep.
LEMMA RestDown ==
    ASSUME DownInv, Applied \/ McpRequest \/ McpStored \/ McpUndone \/ ServerStops
    PROVE  DownInv'
  <1>1. PluginInv'
    BY ChangeAppliedInv, ChangeRequestInv, RowInv, StopInv DEF DownInv
  <1>2. filed' = filed /\ desired'.set \subseteq desired.set \cup {Mcp}
    <2>1. UNCHANGED <<filed, desired>> \/ McpStored
      BY DEF Applied, McpRequest, McpUndone, ServerStops, plan
    <2>2. CASE McpStored
      BY <2>2 DEF McpStored
    <2> QED BY <2>1, <2>2
  <1>3. (filed \subseteq Plugins /\ desired.set \subseteq Plugins)'
    BY <1>2, McpIsConfigured DEF DownInv
  <1>4. CASE run' \in {AtRest, Stopped} \/ \E config, had : run' = Storing(config, had)
    <2>1. run'.at \notin {"drop", "load", "mount"}
      BY <1>4 DEF AtRest, Stopped, Storing
    <2> QED BY <1>1, <1>3, <2>1 DEF DownInv, DropsInv, LoadsInv, MountsInv, Working
  <1>5. CASE /\ run' = Applying(desired.set \cup {Mcp}, asked', FALSE)
             /\ UNCHANGED status
    <2>1. desired.set \cup {Mcp} \in SUBSET Plugins
      BY McpIsConfigured DEF DownInv
    <2> QED BY <1>1, <1>3, <1>5, <2>1, StartsDown
  <1> QED BY <1>4, <1>5 DEF Applied, McpRequest, McpStored, McpUndone, ServerStops

LEMMA DownStepInv == DownInv /\ [PluginSetNext]_setVars => DownInv'
  <1> SUFFICES ASSUME DownInv, [PluginSetNext]_setVars PROVE DownInv'
    OBVIOUS
  <1>1. CASE UNCHANGED setVars
    <2>1. UNCHANGED <<manifest, filed, desired, stored, status, running, run, excused, apart>>
      BY <1>1 DEF setVars, plan
    <2>2. PluginInv'
      BY <2>1, Elsewhere DEF DownInv, PluginInv
    <2>3. UNCHANGED <<DropsInv, LoadsInv, MountsInv, Working>>
      BY <2>1 DEF DropsInv, LoadsInv, MountsInv, Working, KnownAreWanted, Queued, Healthy,
         StalledInv, OrderInv, SettledInv, Doubted, ToFail, ShakenBy, Infects, Suppliers, Settled, Lost
    <2> QED BY <2>1, <2>2, <2>3 DEF DownInv
  <1>2. CASE PluginSetNext
    BY <1>2, BootDown, DropDown, AllDroppedDown, LoadDown, SortsDown, MountDown, ProcessDown, RestDown
       DEF PluginSetNext
  <1> QED BY <1>1, <1>2

\* A wanted plugin that is not up when apply() is through failed by itself or
\* depends on one that did, or lacks a capability that not exactly one wanted
\* plugin provides, or whose provider is down itself: it is never for the order in
\* which the file names the plugins, cycles included (lifecycle.ts:100-136).
THEOREM OrderKeepsNoneDown == PluginSetSpec => []DownForAReason
  <1>1. ASSUME DownInv PROVE DownForAReason
    <2> SUFFICES ASSUME run.at = "mount", run.queue = <<>>, NEW p \in run.target \ (Healthy \cup Shaken)
                 PROVE  \E c \in manifest[p].requires :
                          Cardinality(Suppliers(c)) # 1 \/ ~(Suppliers(c) \subseteq Healthy)
      BY DEF DownForAReason
    <2>1. PICK stalled : StalledInv(stalled) /\ SettledInv(stalled)
      BY <1>1 DEF DownInv, MountsInv
    <2>2. Queued = {}
      BY DEF Queued, Lists!ToSet
    <2>3. ToFail = excused
      BY <2>2 DEF ToFail
    <2>4. Doubted = Shaken
      BY <2>3 DEF Doubted, Shaken
    <2>5. PICK c \in manifest[p].requires :
             Cardinality(Suppliers(c)) # 1 \/ Suppliers(c) \subseteq Lost(stalled)
      BY <2>1, <2>2, <2>4 DEF SettledInv, Settled
    <2>6. ASSUME Cardinality(Suppliers(c)) = 1, Suppliers(c) \subseteq Lost(stalled)
          PROVE  ~(Suppliers(c) \subseteq Healthy)
      <3>1. Suppliers(c) # {}
        <4> SUFFICES ASSUME Suppliers(c) = {} PROVE FALSE
          OBVIOUS
        <4>1. Cardinality({}) = 1
          BY <2>6
        <4> QED BY <4>1, FS_EmptySet
      <3>2. PICK q \in Suppliers(c) : q \in Lost(stalled)
        BY <2>6, <3>1
      <3>3. status[q] = "absent"
        BY <2>1, <3>2 DEF Lost, StalledInv
      <3> QED BY <3>2, <3>3 DEF Healthy
    <2> QED BY <2>5, <2>6
  <1> QED BY <1>1, DownInitInv, DownStepInv, PTL DEF PluginSetSpec
------------------------------------------------------------------------------
(* The types of the plugin set *)

\* What the types say beyond the invariant of the order.  A run that will give
\* the MCP plugin a configuration has one that was asked for.
RunKinds ==
    /\ run.at = "store" \/ Working => run.config \in Configs
    /\ Working => run.next \in 1 .. PluginCount + 1
SetKinds ==
    /\ manifest \in [Plugins -> Manifests]
    /\ desired \in [set : SUBSET Plugins, config : Configs]
    /\ stored \in Configs \cup {NoConfig} /\ running \in Configs \cup {NoConfig}
    /\ excused \subseteq Plugins /\ apart \in BOOLEAN /\ asked \in Configs
    /\ RunKinds

LEMMA PluginSetIsTyped == DownInv /\ SetKinds => PluginSetTypeOK
  <1> SUFFICES ASSUME DownInv, SetKinds PROVE PluginSetTypeOK
    OBVIOUS
  <1>1. run.at \in {"stopped", "idle", "drop", "load", "mount", "store"}
    BY DEF DownInv, PluginInv, RunShaped, Stopped, AtRest, Storing
  <1>2. Working => run.queue \in Seq(Plugins)
    <2>1. run.at = "drop" => run.queue = <<>>
      BY DEF DownInv, DropsInv
    <2>2. run.at = "load" => run.queue \in Seq(Plugins)
      BY DEF DownInv, LoadsInv
    <2>3. run.at = "mount" => run.queue \in Seq(Plugins)
      BY DEF DownInv, MountsInv
    <2>4. <<>> \in Seq(Plugins)
      OBVIOUS
    <2> QED BY <2>1, <2>2, <2>3, <2>4 DEF Working
  <1>3. filed \subseteq Plugins /\ status \in [Plugins -> PluginStates]
    BY DEF DownInv, PluginInv
  <1> QED BY <1>1, <1>2, <1>3 DEF SetKinds, RunKinds, PluginSetTypeOK

LEMMA SetKindsStart == PluginSetInit => SetKinds
  <1> SUFFICES ASSUME PluginSetInit PROVE SetKinds
    OBVIOUS
  <1>1. 0 \in Configs /\ filed \subseteq Plugins
    BY McpRequestBound DEF PluginSetInit, Configs
  <1>2. RunKinds
    BY DEF PluginSetInit, RunKinds, Working, Stopped
  <1> QED BY <1>1, <1>2 DEF PluginSetInit, SetKinds

\* While apply is at work it goes through the plugins of the file in order.
LEMMA WorkingKinds ==
    ASSUME DownInv, SetKinds,
           \/ AllDropped \/ Sorts
           \/ \E p \in Plugins : DropPlugin(p)
           \/ \E works \in BOOLEAN : LoadManifest(works) \/ MountPlugin(works)
    PROVE  SetKinds'
  <1>1. Working /\ UNCHANGED <<manifest, filed, desired, stored, bounds, apart>>
    BY DEF AllDropped, Sorts, DropPlugin, LoadManifest, MountPlugin, Working, plan
  <1>2. /\ run.config \in Configs /\ run.next \in 1 .. PluginCount + 1
        /\ run = [at |-> run.at, target |-> run.target, next |-> run.next,
                  queue |-> run.queue, known |-> run.known, config |-> run.config,
                  boot |-> run.boot]
    BY <1>1, WorkingShape DEF SetKinds, RunKinds, DownInv
  <1>3. running' \in {running, run.config, NoConfig}
    BY DEF AllDropped, Sorts, DropPlugin, LoadManifest, MountPlugin
  <1>4. CASE AllDropped \/ Sorts \/ \E p \in Plugins : DropPlugin(p)
    <2>1. run'.config = run.config /\ run'.next = run.next /\ excused' = excused
      BY <1>2, <1>4 DEF AllDropped, Sorts, DropPlugin
    <2> QED BY <1>1, <1>2, <1>3, <2>1 DEF SetKinds, RunKinds, bounds
  <1>5. ASSUME NEW works \in BOOLEAN, LoadManifest(works) PROVE SetKinds'
    <2>1. run.next \in Plugins /\ run.next + 1 \in 1 .. PluginCount + 1
      <3>1. run.next <= PluginCount
        BY <1>5 DEF LoadManifest
      <3> QED BY <1>2, <3>1, McpIsConfigured DEF Plugins
    <2>2. run'.config = run.config /\ run'.next = run.next + 1
      BY <1>2, <1>5 DEF LoadManifest
    <2>3. excused' \subseteq excused \cup {run.next}
      BY <1>5 DEF LoadManifest
    <2> QED BY <1>1, <1>2, <1>3, <2>1, <2>2, <2>3 DEF SetKinds, RunKinds, bounds
  <1>6. ASSUME NEW works \in BOOLEAN, MountPlugin(works) PROVE SetKinds'
    <2>1. Head(run.queue) \in Plugins
      BY <1>6 DEF MountPlugin, DownInv, MountsInv
    <2>2. run'.config = run.config /\ run'.next = run.next
      BY <1>2, <1>6 DEF MountPlugin
    <2>3. excused' \subseteq excused \cup {Head(run.queue)}
      BY <1>6 DEF MountPlugin
    <2> QED BY <1>1, <1>2, <1>3, <2>1, <2>2, <2>3 DEF SetKinds, RunKinds, bounds
  <1> QED BY <1>4, <1>5, <1>6

\* The configurations of a boot and of a request.
LEMMA RequestKinds ==
    ASSUME DownInv, SetKinds, Boot \/ Applied \/ McpRequest \/ McpStored \/ McpUndone
    PROVE  SetKinds'
  <1>1. CASE Boot
    <2>1. /\ UNCHANGED <<manifest, filed, stored, running, asked>>
          /\ excused' = {} /\ apart' = FALSE
          /\ run' = Applying(desired'.set, desired'.config, TRUE)
          /\ desired' = IF stored = NoConfig THEN [set |-> filed, config |-> 0]
                        ELSE [set |-> filed \cup {Mcp}, config |-> stored]
      BY <1>1 DEF Boot, bounds
    <2>2. filed \cup {Mcp} \subseteq Plugins /\ 0 \in Configs
      BY McpIsConfigured, McpRequestBound DEF DownInv, Configs
    <2>3. desired' \in [set : SUBSET Plugins, config : Configs]
      BY <2>1, <2>2 DEF SetKinds
    <2>4. run'.config \in Configs /\ run'.next = 1
      BY <2>1, <2>3 DEF Applying
    <2>5. 1 \in 1 .. PluginCount + 1
      BY McpIsConfigured
    <2> QED BY <2>1, <2>3, <2>4, <2>5 DEF SetKinds, RunKinds
  <1>2. CASE Applied
    <2>1. /\ UNCHANGED <<manifest, desired, stored, running, asked, excused>>
          /\ run' = AtRest \/ run' = Storing(run.config, FALSE)
          /\ run.config \in Configs /\ apart' \in BOOLEAN
      BY <1>2 DEF Applied, plan, bounds, SetKinds, RunKinds, Working
    <2>2. RunKinds'
      BY <2>1 DEF RunKinds, Working, AtRest, Storing
    <2> QED BY <2>1, <2>2 DEF SetKinds
  <1>3. CASE McpRequest
    <2>0. asked' \in Configs
      <3>1. asked \in Configs /\ asked < MaxMcpRequests /\ asked' = asked + 1
        BY <1>3 DEF McpRequest, SetKinds
      <3> QED BY <3>1, McpRequestBound DEF Configs
    <2>1. /\ UNCHANGED <<manifest, desired, stored>> /\ asked' \in Configs
          /\ running' \in {asked', running, NoConfig} /\ apart' \in BOOLEAN
          /\ excused' \in {{}, excused}
      BY <1>3, <2>0 DEF McpRequest, Reconfigured, plan, SetKinds
    <2>2. \/ run' = AtRest \/ run' = Storing(asked', TRUE)
          \/ run' = Applying(desired.set \cup {Mcp}, asked', FALSE)
      BY <1>3 DEF McpRequest
    <2>3. 1 \in 1 .. PluginCount + 1
      BY McpIsConfigured
    <2>4. RunKinds'
      BY <2>1, <2>2, <2>3 DEF RunKinds, Working, AtRest, Storing, Applying
    <2> QED BY <2>1, <2>4 DEF SetKinds
  <1>4. CASE McpStored
    <2>1. /\ UNCHANGED <<manifest, running, asked, excused>> /\ run.config \in Configs
          /\ stored' = run.config /\ apart' = FALSE /\ run' = AtRest
          /\ desired' = [set |-> desired.set \cup {Mcp}, config |-> run.config]
      BY <1>4 DEF McpStored, bounds, SetKinds, RunKinds
    <2>2. desired' \in [set : SUBSET Plugins, config : Configs]
      BY <2>1, McpIsConfigured DEF SetKinds
    <2> QED BY <2>1, <2>2 DEF SetKinds, RunKinds, Working, AtRest
  <1>5. CASE McpUndone
    <2>1. /\ UNCHANGED <<manifest, desired, stored, asked, excused>> /\ run' = AtRest
          /\ running' \in {desired.config, running, NoConfig} /\ apart' \in BOOLEAN
      BY <1>5 DEF McpUndone, Reconfigured, plan, bounds
    <2> QED BY <2>1 DEF SetKinds, RunKinds, Working, AtRest
  <1> QED BY <1>1, <1>2, <1>3, <1>4, <1>5

LEMMA SetKindsKept ==
    ASSUME DownInv, SetKinds, [PluginSetNext]_setVars
    PROVE  SetKinds'
  <1>1. CASE UNCHANGED setVars
    BY <1>1 DEF setVars, plan, bounds, SetKinds, RunKinds, Working
  <1>2. CASE ServerStops
    <2>1. /\ UNCHANGED <<manifest, desired, stored, asked, apart>> /\ run' = Stopped
          /\ excused' = {} /\ running' = NoConfig
      BY <1>2 DEF ServerStops, plan
    <2> QED BY <2>1 DEF SetKinds, RunKinds, Working, Stopped
  <1>3. ASSUME NEW p \in Plugins, PluginCrashes(p) \/ PluginRestarts(p) PROVE SetKinds'
    <2>1. /\ UNCHANGED <<manifest, desired, stored, running, run, asked, apart>>
          /\ excused' \subseteq excused \cup {p}
      BY <1>3 DEF PluginCrashes, PluginRestarts, plan, bounds
    <2> QED BY <2>1 DEF SetKinds, RunKinds, Working
  <1> QED BY <1>1, <1>2, <1>3, WorkingKinds, RequestKinds DEF PluginSetNext

\* Every manifest, configuration and list of plugins has its type: what is queued
\* are plugins of the file and what runs is a configuration that was asked for.
THEOREM PluginSetTypes == PluginSetSpec => []PluginSetTypeOK
  <1>1. PluginSetInit => DownInv /\ SetKinds
    BY DownInitInv, SetKindsStart
  <1>2. (DownInv /\ SetKinds) /\ [PluginSetNext]_setVars => (DownInv /\ SetKinds)'
    BY DownStepInv, SetKindsKept
  <1> QED BY <1>1, <1>2, PluginSetIsTyped, PTL DEF PluginSetSpec
==============================================================================
