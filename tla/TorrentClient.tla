---------------------------- MODULE TorrentClient ----------------------------
(* The embedded torrent client: the durable resume document, the engine that *)
(* moves the data, and the operations and the progress poll that work on     *)
(* both with an await between any two of their steps.                        *)
(* Translated from plugins/torrent-native/src/plugin.ts and                  *)
(* webtorrent-engine.ts.  Pieces, files and paths are abstracted to whether a *)
(* torrent's payload is on the disk; every refusal is the end of the call.   *)
EXTENDS Naturals, FiniteSets

CONSTANTS TorrentItems, \* item keys the queue asks for
          Torrents,     \* info hashes
          TorrentOf,    \* [TorrentItems -> Torrents]
          Clients,      \* concurrent operations
          MaxJobs,      \* bound on the job numbers issued
          MaxStops,     \* bound on stops and crashes of the plugin
          WritersMeet,  \* whether two operations that save the document overlap
          NoJob         \* no such entry

ASSUME TorrentBounds == MaxJobs \in Nat /\ MaxStops \in Nat
ASSUME TorrentMarks  == TorrentOf \in [TorrentItems -> Torrents] /\ NoJob \notin TorrentItems

VARIABLES resume,       \* the durable document: [jobs, seq, rule]
          engine,       \* [Torrents -> {"absent", "held", "paused", "active"}]
          complete,     \* torrents the engine reports as done
          settled,      \* torrents whose ratio and seed time satisfy the rule
          payload,      \* [Torrents -> {"none", "part", "whole"}], on the disk
          gate,         \* whether the VPN binding gate allows this client
          client,       \* "down", "recovering" or "up"
          unread,       \* job numbers recovery has still to look at
          poll,         \* torrents the progress poll found active, or "idle"
          call,         \* [Clients -> an operation in progress, or Free]
          stops

moved == <<engine, complete, settled, payload>>
around == <<gate, client, unread, poll, stops>>
torrentVars == <<resume, call, moved, around>>

JobIds == 1 .. MaxJobs
Documents == [jobs : [JobIds -> TorrentItems \cup {NoJob}],
              seq : 0 .. MaxJobs,
              rule : {"none", "keeps", "frees"}]    \* allowDataRemoval, if any
Blank == [jobs |-> [n \in JobIds |-> NoJob], seq |-> 0, rule |-> "none"]
Free == [op |-> "none", at |-> "none"]

TorrentTypeOK ==
    /\ resume \in Documents
    /\ engine \in [Torrents -> {"absent", "held", "paused", "active"}]
    /\ settled \subseteq complete /\ complete \subseteq {t \in Torrents : engine[t] # "absent"}
    /\ payload \in [Torrents -> {"none", "part", "whole"}]
    /\ gate \in BOOLEAN /\ client \in {"down", "recovering", "up"}
    /\ unread \subseteq JobIds /\ poll \subseteq Torrents
    /\ \A c \in Clients : call[c] = Free \/ call[c].doc \in Documents
    /\ stops \in 0 .. MaxStops

TorrentInit ==
    /\ resume = Blank
    /\ engine = [t \in Torrents |-> "absent"]
    /\ payload = [t \in Torrents |-> "none"]
    /\ complete = {} /\ settled = {}
    /\ gate \in BOOLEAN /\ client = "down"
    /\ unread = {} /\ poll = {}
    /\ call = [c \in Clients |-> Free]
    /\ stops = 0

Live(t) == engine[t] # "absent"
Moving(t) == engine[t] = "active" /\ t \notin complete
\* requireTorrent: the document knows the number and the engine the torrent.
Known(doc, n) == doc.jobs[n] # NoJob /\ Live(TorrentOf[doc.jobs[n]])

\* engine.add of a torrent that is not there: done at once when the files are.
Insert(t, mode) ==
    /\ engine' = [engine EXCEPT ![t] = mode]
    /\ complete' = IF payload[t] = "whole" THEN complete \cup {t} ELSE complete
    /\ UNCHANGED <<settled, payload>>

DiscardRemembers(t, keep) ==
    /\ engine' = [engine EXCEPT ![t] = "absent"]
    /\ UNCHANGED <<complete, settled>>
    /\ payload' = IF keep THEN payload ELSE [payload EXCEPT ![t] = "none"]

\* engine.remove, with the files or without them.
Discard(t, keep) ==
    /\ engine' = [engine EXCEPT ![t] = "absent"]
    /\ complete' = complete \ {t}
    /\ settled' = settled \ {t}
    /\ payload' = IF keep THEN payload ELSE [payload EXCEPT ![t] = "none"]

------------------------------------------------------------------------------
\* The life of the plugin, the engine and the tunnel.

Mount ==
    /\ client = "down"
    /\ client' = "recovering"
    /\ unread' = {n \in JobIds : resume.jobs[n] # NoJob}
    /\ UNCHANGED <<resume, call, moved, gate, poll, stops>>

\* One persisted job goes back to the engine, unpaused and over the files it
\* finds; a source that is gone is logged and skipped.
Recover(n) ==
    /\ client = "recovering" /\ n \in unread
    /\ \/ UNCHANGED moved
       \/ ~Live(TorrentOf[resume.jobs[n]]) /\ Insert(TorrentOf[resume.jobs[n]], "active")
    /\ unread' = unread \ {n}
    /\ UNCHANGED <<resume, call, gate, client, poll, stops>>

Mounted ==
    /\ client = "recovering" /\ unread = {}
    /\ client' = "up"
    /\ UNCHANGED <<resume, call, moved, gate, unread, poll, stops>>

\* An unmount destroys the engine and takes the store away, a crash takes the
\* process: what was in flight goes no further.
Stop ==
    /\ client # "down" /\ stops < MaxStops
    /\ client' = "down" /\ stops' = stops + 1
    /\ engine' = [t \in Torrents |-> "absent"]
    /\ complete' = {} /\ settled' = {} /\ unread' = {} /\ poll' = {}
    /\ call' = [c \in Clients |-> Free]
    /\ UNCHANGED <<resume, payload, gate>>

Transfer(t) ==
    /\ Moving(t)
    /\ \/ payload[t] = "none" /\ payload' = [payload EXCEPT ![t] = "part"]
          /\ UNCHANGED complete
       \/ payload[t] = "part" /\ payload' = [payload EXCEPT ![t] = "whole"]
          /\ complete' = complete \cup {t}
    /\ UNCHANGED <<resume, call, engine, settled, around>>

Seed(t) ==
    /\ t \in complete \ settled /\ engine[t] = "active"
    /\ settled' = settled \cup {t}
    /\ UNCHANGED <<resume, call, engine, complete, payload, around>>

TunnelTurns ==
    /\ gate' = ~gate
    /\ UNCHANGED <<resume, call, moved, client, unread, poll, stops>>

------------------------------------------------------------------------------
\* The progress poll: it lists what moves, asks the gate, and pauses what it
\* listed; a torrent removed meanwhile makes it throw and leave the rest.

Owned(t) == \E n \in JobIds : resume.jobs[n] # NoJob /\ TorrentOf[resume.jobs[n]] = t
FreshlyMoving == {t \in Torrents : Moving(t) /\ Owned(t) /\ payload[t] = "none"}
Transferring == {t \in Torrents : Moving(t) /\ Owned(t)}
PollLists ==
    /\ client = "up" /\ poll = {}
    /\ poll' = Transferring
    /\ UNCHANGED <<resume, call, moved, gate, client, unread, stops>>

PollAsks ==
    /\ client = "up" /\ poll # {}
    /\ IF gate THEN UNCHANGED engine
       ELSE \E paused \in SUBSET poll :
              /\ (\A t \in poll : Live(t)) => paused = poll
              /\ \A t \in paused : Live(t)
              /\ engine' = [t \in Torrents |->
                               IF t \in paused /\ engine[t] = "active"
                               THEN "paused" ELSE engine[t]]
    /\ poll' = {}
    /\ UNCHANGED <<resume, call, complete, settled, payload, gate, client, unread, stops>>

------------------------------------------------------------------------------
\* The operations.  A call waits at "load", "add", "rollback", "decide",
\* "drop", "save" or "resume"; whatever refuses it ends it.

Writers == {"add", "remove", "retry", "rewrite", "rule"}

Request(op, at, n, i) == [op |-> op, at |-> at, job |-> n, item |-> i,
                          doc |-> Blank, keep |-> TRUE, rule |-> "none"]
Begin(c, request) ==
    /\ client = "up" /\ call[c] = Free
    /\ (request.op \in Writers /\ ~WritersMeet) =>
          \A d \in Clients : call[d].op \notin Writers
    /\ call' = [call EXCEPT ![c] = request]
    /\ UNCHANGED <<resume, moved, around>>

At(c, at) == client = "up" /\ call[c].at = at
Goes(c, at) == call' = [call EXCEPT ![c].at = at]
Ends(c) == call' = [call EXCEPT ![c] = Free]
Hash(c) == TorrentOf[call[c].item]

\* The gate is asked before anything else.
AddAsks(c, i) == gate /\ resume.seq < MaxJobs /\ Begin(c, Request("add", "load", 0, i))

\* An item whose job and torrent are both there is answered as it is.
Present(i) == Live(TorrentOf[i]) /\ \E n \in JobIds : resume.jobs[n] = i
AddLoads(c) ==
    /\ At(c, "load") /\ call[c].op = "add"
    /\ IF Present(call[c].item) THEN Ends(c)
       ELSE call' = [call EXCEPT ![c].at = "add", ![c].doc = resume]
    /\ UNCHANGED <<resume, moved, around>>

\* The source, the tracker rule's limit, the free space or the engine refuses.
AddRefused(c) ==
    /\ At(c, "add") /\ Ends(c)
    /\ UNCHANGED <<resume, moved, around>>

\* A torrent already there is handed back, one whose files exist is refused.
\* A new one is held, with no file selected, until its size has been checked:
\* neither pause nor resume makes it move.
TakesAnything(t) == TRUE
Takes(t) == Live(t) \/ payload[t] = "none"
AddTakes(c) ==
    /\ At(c, "add") /\ Takes(Hash(c))
    /\ \/ Goes(c, "save") /\ (IF Live(Hash(c)) THEN UNCHANGED moved
                              ELSE Insert(Hash(c), "active"))
       \/ Goes(c, "rollback") /\ (IF Live(Hash(c)) THEN UNCHANGED moved
                                  ELSE Insert(Hash(c), "held"))
    /\ UNCHANGED <<resume, around>>

\* The storage check failed: the torrent goes and its files with it.
AddRollsBack(c) ==
    /\ At(c, "rollback") /\ Ends(c)
    /\ IF Live(Hash(c)) THEN Discard(Hash(c), FALSE) ELSE UNCHANGED moved
    /\ UNCHANGED <<resume, around>>

RemoveAsks(c, n, keep) ==
    /\ Known(resume, n)
    /\ Begin(c, [Request("remove", "decide", n, resume.jobs[n]) EXCEPT !.keep = keep])

\* The tracker rule decides what may be deleted: nothing before it is
\* satisfied, nothing at all unless it allows removal.
KeepsUnder(rule, t, keep) == keep \/ (rule = "keeps" /\ t \in settled)
RefusedUnder(rule, t, keep) == ~keep /\ rule # "none" /\ t \notin settled
RemoveDecides(c) ==
    /\ At(c, "decide")
    /\ IF ~Known(resume, call[c].job) \/ RefusedUnder(resume.rule, Hash(c), call[c].keep)
       THEN Ends(c)
       ELSE call' = [call EXCEPT ![c].at = "drop",
                                 ![c].keep = KeepsUnder(resume.rule, Hash(c), @)]
    /\ UNCHANGED <<resume, moved, around>>

RemoveDrops(c) ==
    /\ At(c, "drop")
    /\ IF Live(Hash(c)) THEN Discard(Hash(c), call[c].keep) /\ Goes(c, "load")
                        ELSE UNCHANGED moved /\ Ends(c)
    /\ UNCHANGED <<resume, around>>

RetryAsks(c, n) ==
    /\ gate /\ Known(resume, n)
    /\ Begin(c, Request("retry", "load", n, resume.jobs[n]))

\* selectFiles and setQueuePosition: both write the whole job back.
RewriteAsks(c, n) ==
    /\ Known(resume, n) /\ Begin(c, Request("rewrite", "load", n, resume.jobs[n]))

RuleAsks(c, rule) ==
    /\ rule # resume.rule
    /\ Begin(c, [Request("rule", "load", 0, NoJob) EXCEPT !.rule = rule])

ResumeAsks(c, n) ==
    /\ gate /\ Known(resume, n)
    /\ Begin(c, Request("resume", "resume", n, resume.jobs[n]))

Loads(c) ==
    /\ At(c, "load") /\ call[c].op # "add"
    /\ call' = [call EXCEPT ![c].at = "save", ![c].doc = resume]
    /\ UNCHANGED <<resume, moved, around>>

\* What a call writes: its own copy of the document, changed.
Renumbered(doc, item) == [doc EXCEPT !.jobs[doc.seq + 1] = item]
Numbered(doc, item) == [doc EXCEPT !.seq = @ + 1, !.jobs[doc.seq + 1] = item]
Written(k) ==
    CASE k.op = "add" -> Numbered(k.doc, k.item)
      [] k.op = "remove" -> [k.doc EXCEPT !.jobs[k.job] = NoJob]
      [] k.op = "rule" -> [k.doc EXCEPT !.rule = k.rule]
      [] OTHER -> [k.doc EXCEPT !.jobs[k.job] = k.item]
Saves(c) ==
    /\ At(c, "save")
    /\ resume' = Written(call[c])
    /\ IF call[c].op = "retry" THEN Goes(c, "resume") ELSE Ends(c)
    /\ UNCHANGED <<moved, around>>

Resumes(c) ==
    /\ At(c, "resume") /\ Ends(c)
    /\ engine' = IF engine[Hash(c)] = "paused" THEN [engine EXCEPT ![Hash(c)] = "active"]
                                               ELSE engine
    /\ UNCHANGED <<resume, complete, settled, payload, around>>

Pause(n) ==
    /\ client = "up" /\ Known(resume, n)
    /\ engine' = [engine EXCEPT ![TorrentOf[resume.jobs[n]]] =
                    IF @ = "active" THEN "paused" ELSE @]
    /\ UNCHANGED <<resume, call, complete, settled, payload, around>>

\* cleanupCompleted: the operator deletes the files of a finished download.
CleanUp(n) ==
    /\ client = "up" /\ Known(resume, n)
    /\ payload[TorrentOf[resume.jobs[n]]] = "whole"
    /\ payload' = [payload EXCEPT ![TorrentOf[resume.jobs[n]]] = "none"]
    /\ UNCHANGED <<resume, call, engine, complete, settled, around>>

Asks(c) ==
    \/ \E i \in TorrentItems : AddAsks(c, i)
    \/ \E rule \in {"none", "keeps", "frees"} : RuleAsks(c, rule)
    \/ \E n \in JobIds :
          \/ \E keep \in BOOLEAN : RemoveAsks(c, n, keep)
          \/ RetryAsks(c, n) \/ RewriteAsks(c, n) \/ ResumeAsks(c, n)
Proceeds(c) ==
    \/ AddLoads(c) \/ AddRefused(c) \/ AddTakes(c) \/ AddRollsBack(c)
    \/ RemoveDecides(c) \/ RemoveDrops(c) \/ Loads(c) \/ Saves(c) \/ Resumes(c)
PollStep == PollLists \/ PollAsks

TorrentNext ==
    \/ Mount \/ Mounted \/ Stop \/ TunnelTurns \/ PollStep
    \/ \E t \in Torrents : Transfer(t) \/ Seed(t)
    \/ \E n \in JobIds : Recover(n) \/ Pause(n) \/ CleanUp(n)
    \/ \E c \in Clients : Asks(c) \/ Proceeds(c)

TorrentSpec == TorrentInit /\ [][TorrentNext]_torrentVars

------------------------------------------------------------------------------
\* Hazard: every operation saves the copy it loaded.  Job numbers are issued
\* once and a job stays until its removal, across stops and recoveries.
Removing == {call[c].job : c \in {d \in Clients :
                call[d].op = "remove" /\ call[d].at \in {"load", "save"}}}
Ledger == INSTANCE JobLedger WITH
    Ids <- JobIds, Items <- TorrentItems, NoItem <- NoJob,
    jobs <- resume.jobs, issued <- resume.seq, removing <- Removing
TorrentLedger == Ledger!Spec

\* plugin.ts says payload data is never removed before the tracker's
\* obligations pass.  Only the operator's explicit cleanup deletes the files of
\* a finished download whose rule has not passed or keeps them.
LosesPayload(t) == t \in complete /\ payload[t] = "whole" /\ payload'[t] # "whole"
RightlyLost == \A t \in Torrents : LosesPayload(t) =>
                  \/ resume.rule = "none"
                  \/ t \in settled /\ resume.rule = "frees"
                  \/ \E n \in JobIds : CleanUp(n)
PayloadKept == [][RightlyLost]_torrentVars

\* Hazard: the gate is asked at the start of add, resume and retry, and never
\* by recovery.  Once the tunnel stays down, nothing keeps downloading.
KillSwitchHolds == <>[](~gate) => <>[](\A t \in Torrents : ~Moving(t))

==============================================================================
