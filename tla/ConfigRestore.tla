----------------------------- MODULE ConfigRestore -----------------------------
(* Configuration backups and their restore: three files (database, saved     *)
(* credentials, runtime configuration), a pending import that the next start *)
(* applies as a journal, and the copies kept of what it replaced.            *)
(* Translated from apps/server/src/backups.ts and the boot order of           *)
(* apps/server/src/kernel.ts.  A file's content is the number of its last     *)
(* write, 0 for no file; validation refuses and changes nothing.             *)
EXTENDS Naturals, Sequences, FiniteSets

CONSTANTS MaxWrites,    \* bound on the changes made while the server is up
          MaxRetention, \* the largest retention the settings ask for
          MaxBackups,   \* bound on the automatic backups, and on the manual ones
          MaxCrashes,
          NoFile

VARIABLES main, wal,          \* the database file and its write-ahead log
          credentials,        \* .secrets.json
          runtime,            \* configuration.runtime.json
          signedIn,           \* the database holds sessions
          pending,            \* configuration.pending.json
          before,             \* the pre-restore copies
          backups,            \* automatic backups, oldest first
          manual,             \* configuration files saved or exported on request
          server,             \* "off", "booting" or "up"
          step,               \* of the restore, or of the exclusive operation
          snapshot,           \* what that operation holds in memory
          writes, crashes,
          original            \* history: the files as a staged import found them

restoreVars == <<main, wal, credentials, runtime, signedIn, pending, before, backups, manual,
                 server, step, snapshot, writes, crashes, original>>
liveVars    == <<main, wal, credentials, runtime, signedIn>>
savedVars   == <<backups, manual>>
boundVars   == <<writes, crashes>>

\* The content of a configuration file made elsewhere.
Foreign   == MaxWrites + 1
Trio == [database : 0 .. Foreign, credentials : 0 .. Foreign, runtime : 0 .. Foreign]
NoCopies  == [database |-> 0, credentials |-> 0, runtime |-> 0]
ASSUME RestoreBounds == MaxWrites \in Nat \ {0} /\ MaxRetention \in Nat /\ MaxCrashes \in Nat
ASSUME NoFileIsNone  == NoFile \notin Trio /\ NoFile \notin [files : Trio, import : Trio]
\* SQLite reads the log over the file.
Database  == IF wal # 0 THEN wal ELSE main
LiveFiles == [database |-> Database, credentials |-> credentials, runtime |-> runtime]

RestoreTypeOK ==
    /\ {main, wal, credentials, runtime} \subseteq 0 .. Foreign /\ signedIn \in BOOLEAN
    /\ pending \in Trio \cup {NoFile} /\ before \in Trio
    /\ backups \in Seq(Trio) /\ manual \subseteq Trio /\ server \in {"off", "booting", "up"}
    /\ snapshot \in [copy : Trio \cup {NoFile}, import : Trio \cup {NoFile}]
    /\ writes \in 0 .. MaxWrites /\ crashes \in 0 .. MaxCrashes

Empty == [copy |-> NoFile, import |-> NoFile]

RestoreInit ==
    /\ main = 1 /\ wal = 0 /\ credentials = 1 /\ runtime = 0 /\ signedIn = FALSE
    /\ pending = NoFile /\ before = NoCopies /\ backups = <<>> /\ manual = {}
    /\ server = "off" /\ step = "none" /\ snapshot = Empty
    /\ writes = 1 /\ crashes = 0 /\ original = NoFile

------------------------------------------------------------------------------
\* The running server.

\* The settings of the backups are rows of the database, like everything else.
Updates == wal' = writes' /\ UNCHANGED <<main, credentials>>
Changes ==
    /\ server = "up" /\ writes < MaxWrites /\ writes' = writes + 1
    /\ \/ Updates /\ signedIn' \in {signedIn, TRUE}
       \/ credentials' = writes' /\ UNCHANGED <<main, wal, signedIn>>
    /\ UNCHANGED <<runtime, pending, before, savedVars, server, step, snapshot, crashes, original>>
EmptiesLog ==
    /\ server = "up" /\ wal # 0 /\ main' = wal /\ wal' = 0
    /\ UNCHANGED <<credentials, runtime, signedIn, pending, before, savedVars, server, step,
                   snapshot, boundVars, original>>

\* Backups.exclusive: one configuration operation at a time.
Idle == server = "up" /\ step = "none"
Step(from, to) == server = "up" /\ step = from /\ step' = to
Works(from, to) == Step(from, to) /\ UNCHANGED <<liveVars, server, boundVars>>

SaveStarts ==
    /\ Idle /\ Works("none", "save copy")
    /\ UNCHANGED <<pending, before, savedVars, snapshot, original>>
\* stage refuses while an import is pending; an import comes from a backup, or
\* from the settings page with any content.
StageStarts(file) ==
    /\ Idle /\ Works("none", "stage copy") /\ pending = NoFile
    /\ snapshot' = [snapshot EXCEPT !.import = file]
    /\ UNCHANGED <<pending, before, savedVars, original>>
\* snapshot: the database first, the credentials one await later; the
\* configuration is the one this server was started with.
Copies ==
    /\ \/ Works("save copy", "save write") \/ Works("stage copy", "clear")
    /\ snapshot' = [snapshot EXCEPT !.copy =
                       [database |-> Database, credentials |-> 0, runtime |-> runtime]]
    /\ UNCHANGED <<pending, before, savedVars, original>>
\* A file saved on request is kept; after a scheduled one the oldest scheduled
\* ones above the retention go, all of them kept when it is 0.
Pruned(all, retention) ==
    IF retention = 0 \/ Len(all) <= retention THEN all
    ELSE SubSeq(all, Len(all) - retention + 1, Len(all))
Saves ==
    /\ Works("save write", "none")
    /\ LET file == [snapshot.copy EXCEPT !.credentials = credentials] IN
       \/ /\ \E retention \in 0 .. MaxRetention :
                backups' = Pruned(Append(backups, file), retention)
          /\ Len(backups') <= MaxBackups
          /\ UNCHANGED manual
       \/ /\ manual' = manual \cup {file}
          /\ Cardinality(manual') <= MaxBackups
          /\ UNCHANGED backups
    /\ snapshot' = Empty
    /\ UNCHANGED <<pending, before, original>>

\* stage: the copies of an earlier restore go one by one, then the file lands.
Cleared(copies) == copies = NoCopies
Clears ==
    /\ Works("clear", "clear") /\ ~Cleared(before)
    /\ before' = IF before.database # 0 THEN [before EXCEPT !.database = 0]
                 ELSE IF before.credentials # 0 THEN [before EXCEPT !.credentials = 0]
                 ELSE [before EXCEPT !.runtime = 0]
    /\ UNCHANGED <<pending, savedVars, snapshot, original>>
StageLands ==
    /\ Works("clear", "none") /\ Cleared(before)
    /\ pending' = snapshot.import /\ snapshot' = Empty
    /\ original' = NoFile
    /\ UNCHANGED <<before, savedVars>>
Cancels ==
    /\ Idle /\ pending # NoFile /\ pending' = NoFile
    /\ UNCHANGED <<liveVars, before, savedVars, server, step, snapshot, boundVars, original>>
\* Any step of an operation may throw; the flag is reset in finally{}.
OperationFails ==
    /\ server = "up" /\ step # "none" /\ step' = "none" /\ snapshot' = Empty
    /\ UNCHANGED <<liveVars, pending, before, savedVars, server, boundVars, original>>

\* A clean stop closes the database, which empties the log.
Stops ==
    /\ Idle /\ server' = "off"
    /\ main' = Database /\ wal' = 0
    /\ UNCHANGED <<credentials, runtime, signedIn, pending, before, savedVars, step, snapshot,
                   boundVars, original>>
Crashes ==
    /\ server # "off" /\ crashes < MaxCrashes /\ crashes' = crashes + 1
    /\ server' = "off" /\ step' = "none" /\ snapshot' = Empty
    /\ UNCHANGED <<liveVars, pending, before, savedVars, writes, original>>

------------------------------------------------------------------------------
\* The start: applyPendingConfiguration runs before the database is opened.

\* The pre-restore copies are taken once, of the last live files.
AlwaysKeeps == pending # NoFile
Keeps == pending # NoFile /\ before.database = 0

Boots ==
    /\ server = "off" /\ server' = "booting"
    /\ step' = IF pending = NoFile THEN "open" ELSE IF Keeps THEN "keep" ELSE "credentials"
    /\ original' = IF pending # NoFile /\ original = NoFile
                   THEN [files |-> LiveFiles, import |-> pending] ELSE original
    /\ UNCHANGED <<liveVars, pending, before, savedVars, snapshot, boundVars>>

Applies(from, to) ==
    /\ server = "booting" /\ step = from /\ step' = to
    /\ UNCHANGED <<server, savedVars, snapshot, boundVars, original>>

KeepsCredentials ==
    /\ Applies("keep", "keep runtime")
    /\ before' = [before EXCEPT !.credentials = credentials]
    /\ UNCHANGED <<liveVars, pending>>
KeepsRuntime ==
    /\ Applies("keep runtime", "keep database")
    /\ before' = [before EXCEPT !.runtime = runtime]
    /\ UNCHANGED <<liveVars, pending>>
KeepsDatabase ==
    /\ Applies("keep database", "credentials")
    /\ before' = [before EXCEPT !.database = Database]
    /\ UNCHANGED <<liveVars, pending>>
WritesCredentials ==
    /\ Applies("credentials", "runtime") /\ credentials' = pending.credentials
    /\ UNCHANGED <<main, wal, runtime, signedIn, pending, before>>
WritesRuntime ==
    /\ Applies("runtime", "log") /\ runtime' = pending.runtime
    /\ UNCHANGED <<main, wal, credentials, signedIn, pending, before>>
RemovesLog ==
    /\ Applies("log", "database") /\ wal' = 0
    /\ UNCHANGED <<main, credentials, runtime, signedIn, pending, before>>
\* The sessions of the imported database come with it ...
WritesDatabase ==
    /\ Applies("database", "sessions") /\ main' = pending.database /\ signedIn' = TRUE
    /\ UNCHANGED <<wal, credentials, runtime, pending, before>>
\* ... and are deleted from it.
DeletesSessions ==
    /\ Applies("sessions", "finish") /\ signedIn' = FALSE
    /\ UNCHANGED <<main, wal, credentials, runtime, pending, before>>
Finishes ==
    /\ Applies("finish", "open") /\ pending' = NoFile
    /\ UNCHANGED <<liveVars, before>>
Opens ==
    /\ server = "booting" /\ step = "open"
    /\ server' = "up" /\ step' = "none"
    /\ original' = NoFile
    /\ UNCHANGED <<liveVars, pending, before, savedVars, snapshot, boundVars>>

\* A file made elsewhere, a database alone with what this server has besides,
\* or a backup.
Importable == {[database |-> Foreign, credentials |-> Foreign, runtime |-> Foreign],
               [database |-> Foreign, credentials |-> credentials, runtime |-> runtime]} \cup
              manual \cup {backups[n] : n \in DOMAIN backups}

RestoreNext ==
    \/ Changes \/ EmptiesLog \/ SaveStarts \/ Copies \/ Saves \/ Clears \/ StageLands
    \/ \E file \in Importable : StageStarts(file)
    \/ Cancels \/ OperationFails \/ Stops \/ Crashes \/ Boots
    \/ KeepsCredentials \/ KeepsRuntime \/ KeepsDatabase \/ WritesCredentials
    \/ WritesRuntime \/ RemovesLog \/ WritesDatabase \/ DeletesSessions \/ Finishes \/ Opens

RestoreSpec == RestoreInit /\ [][RestoreNext]_restoreVars

------------------------------------------------------------------------------
\* A restore is all or nothing over any number of crashes: a server that comes
\* up after one has the three files of the import and no session of theirs,
\* and the pre-restore copies are the files as they were before its first
\* attempt, writes made after staging included (backups.ts:80, 89-90).
RestoreIsWhole ==
    [][server = "booting" /\ server' = "up" /\ original # NoFile =>
          /\ LiveFiles = original.import /\ ~signedIn
          /\ before = original.files]_restoreVars
=============================================================================
