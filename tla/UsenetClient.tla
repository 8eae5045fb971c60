----------------------------- MODULE UsenetClient -----------------------------
(* The embedded Usenet client: the durable document, whose updates are queued *)
(* one behind another, the engine that appends one article at a time to a     *)
(* download's file, the worker that drives it, and the control operations     *)
(* that interleave with both.                                                 *)
(* Translated from plugins/usenet-native/src/plugin.ts and engine.ts.  A      *)
(* download is one file; a file is the sequence of the segments appended to   *)
(* it, and carries no checksum, so that nothing but the order of the steps    *)
(* makes it whole.                                                            *)
EXTENDS Naturals, Sequences, FiniteSets

CONSTANTS Releases,     \* item keys the queue asks for
          Segments,     \* segments of a release
          MaxNzbs,      \* bound on the download numbers issued
          MaxEngineIds, \* bound on the job ids one engine hands out
          MaxHalts,     \* bound on stops and crashes of the plugin
          MaxControls,  \* bound on the control operations asked for
          Nothing       \* no such entry

VARIABLES nzbDoc,       \* the durable document: [jobs, seq]
          files,        \* [download number -> segments in its file], on the disk
          nntp,         \* the engine: [ids -> job], ids are handed out in order
          handed,       \* the last id the engine handed out
          fetching,     \* the running engine step: [step, aborted], or Nothing
          worker,       \* <<number, engine id>> pairs the worker listed and has
                        \* still to step: [seen, todo], or Nothing
          working,      \* the workerRunning flag
          control,      \* the control operation in progress, or Nothing
          served,       \* whether the plugin is mounted
          skipped,      \* whether a recovery ever left a job out
          halts, controls

usenetEngine == <<nntp, handed, fetching>>
usenetVars == <<nzbDoc, files, nntp, handed, fetching, worker, working, control,
                served, skipped, halts, controls>>

Nzbs == 1 .. MaxNzbs
EngineIds == 1 .. MaxEngineIds
Whole == [s \in 1 .. Segments |-> s]
\* A checkpoint: its download, the segments passed and the segments written,
\* and whether PAR2 has to run.
Start(n) == [dl |-> n, passed |-> 0, written |-> 0, broken |-> FALSE]
Checkpoints == [dl : Nzbs, passed : 0 .. Segments, written : 0 .. Segments,
                broken : BOOLEAN]
\* What the document, the engine, the worker and the operations hold.
NzbJobs == [item : Releases, eid : EngineIds, at : Checkpoints, paused : BOOLEAN]
EngineJobs == [dl : Nzbs, at : Checkpoints,
               state : {"queued", "downloading", "paused", "completed", "failed"}]
Pairs   == Nzbs \X EngineIds
Fetches == [step : Pairs, aborted : BOOLEAN]
Rounds  == [todo : SUBSET Pairs, seen : SUBSET Pairs]
NzbRequests ==
    [op : {"add"}, at : {"insert"}, item : Releases]
        \cup [op : {"pause", "resume", "move", "remove", "delete", "retry"},
              at : {"engine", "take", "write"}, number : Nzbs, job : NzbJobs]
        \cup [op : {"configure"}, at : {"close", "swap", "recover"}]

\* An engine hands out as many ids as the document has jobs, at least, so that
\* a recovery never meets the bound.
ASSUME UsenetBounds ==
    /\ MaxNzbs \in Nat /\ MaxEngineIds \in Nat /\ Segments \in Nat
    /\ MaxHalts \in Nat /\ MaxControls \in Nat
    /\ MaxNzbs <= MaxEngineIds
ASSUME NothingIsNone ==
    Nothing \notin NzbJobs \cup EngineJobs \cup Fetches \cup Rounds \cup NzbRequests

UsenetTypeOK ==
    /\ nzbDoc \in [jobs : [Nzbs -> NzbJobs \cup {Nothing}], seq : 0 .. MaxNzbs]
    /\ files \in [Nzbs -> Seq(1 .. Segments)]
    /\ nntp \in [EngineIds -> EngineJobs \cup {Nothing}] /\ handed \in 0 .. MaxEngineIds
    /\ \A e \in EngineIds : nntp[e] # Nothing => e <= handed
    /\ fetching \in Fetches \cup {Nothing} /\ worker \in Rounds \cup {Nothing}
    /\ control \in NzbRequests \cup {Nothing}
    /\ working \in BOOLEAN /\ served \in BOOLEAN /\ skipped \in BOOLEAN
    /\ halts \in 0 .. MaxHalts /\ controls \in 0 .. MaxControls

UsenetInit ==
    /\ nzbDoc = [jobs |-> [n \in Nzbs |-> Nothing], seq |-> 0]
    /\ files = [n \in Nzbs |-> <<>>]
    /\ nntp = [e \in EngineIds |-> Nothing] /\ handed = 0
    /\ fetching = Nothing /\ worker = Nothing /\ working = FALSE
    /\ control = Nothing /\ served = FALSE /\ skipped = FALSE
    /\ halts = 0 /\ controls = 0

------------------------------------------------------------------------------
\* The engine.

Job(dl, at, state) == [dl |-> dl, at |-> at, state |-> state]

\* engine.add validates the checkpoint: it names this download's file, and the
\* file holds what it says was written.
Fits(n, job) == job.at.dl = n /\ job.at.written <= Len(files[n])

\* It then cuts the file back to it, whatever was appended since it was saved.
Uncut(file, at) == file
CutBack(file, at) == SubSeq(file, 1, at.written)

\* A step of the running operation is over when its job was paused, removed or
\* closed: whatever the article was, nothing is written.
StepEnds == fetching' = Nothing /\ worker' = [worker EXCEPT !.todo = @ \ {fetching.step}]
Running == nntp[fetching.step[2]]
BecomesOf(job) == nntp' = [nntp EXCEPT ![fetching.step[2]] = job]
Turned(e, state) == [nntp EXCEPT ![e] = Job(nntp[e].dl, nntp[e].at, state)]
WithoutJob(e) == [nntp EXCEPT ![e] = Nothing]

StepAborted ==
    /\ fetching # Nothing /\ fetching.aborted
    /\ StepEnds
    /\ \/ UNCHANGED files
       \/ /\ Running.at.passed = Segments /\ Running.at.broken   \* PAR2 had run
          /\ files' = [files EXCEPT ![Running.dl] = Whole]
    /\ UNCHANGED <<nzbDoc, nntp, handed, working, control, served, skipped, halts, controls>>

\* The article came, is missing or unreadable everywhere and left to PAR2, or
\* the job fails.  The last segment leads straight to the final checks.
Passed(at, written, broken) ==
    [dl |-> at.dl, passed |-> at.passed + 1, written |-> written, broken |-> broken]
Appended(at) == Passed(at, at.written + 1, at.broken)
Missed(at)   == Passed(at, at.written, TRUE)
Repaired(at) == [dl |-> at.dl, passed |-> at.passed, written |-> Segments, broken |-> FALSE]
ArticleComes ==
    /\ fetching # Nothing /\ ~fetching.aborted /\ Running.at.passed < Segments
    /\ \/ /\ files' = [files EXCEPT ![Running.dl] = Append(@, Running.at.passed + 1)]
          /\ BecomesOf([Running EXCEPT !.at = Appended(Running.at)])
          /\ IF Running.at.passed + 1 = Segments
             THEN UNCHANGED <<fetching, worker>> ELSE StepEnds
       \/ BecomesOf([Running EXCEPT !.at = Missed(Running.at)]) /\ StepEnds /\ UNCHANGED files
       \/ BecomesOf([Running EXCEPT !.state = "failed"]) /\ StepEnds /\ UNCHANGED files
    /\ UNCHANGED <<nzbDoc, handed, working, control, served, skipped, halts, controls>>

\* Verify, repair when required, then publish completion, even of a job paused
\* after the last check.
Finalize ==
    /\ fetching # Nothing /\ Running.at.passed = Segments
    /\ StepEnds
    /\ \/ /\ ~Running.at.broken
          /\ BecomesOf([Running EXCEPT !.state = "completed"])
          /\ UNCHANGED files
       \/ /\ Running.at.broken /\ ~fetching.aborted
          /\ files' = [files EXCEPT ![Running.dl] = Whole]
          /\ BecomesOf(Job(Running.dl, Repaired(Running.at), "completed"))
       \/ /\ ~fetching.aborted
          /\ BecomesOf([Running EXCEPT !.state = "failed"]) /\ UNCHANGED files
    /\ UNCHANGED <<nzbDoc, handed, working, control, served, skipped, halts, controls>>

------------------------------------------------------------------------------
\* The worker: it lists the jobs that move, steps each once, and merges what
\* became of them into the document as it is by then.

WorkerStarts ==
    /\ served /\ ~working /\ worker = Nothing
    /\ LET moving == {<<n, nzbDoc.jobs[n].eid>> : n \in
                        {m \in Nzbs : nzbDoc.jobs[m] # Nothing
                            /\ nntp[nzbDoc.jobs[m].eid] # Nothing
                            /\ nntp[nzbDoc.jobs[m].eid].state \in {"queued", "downloading"}}}
       IN  moving # {} /\ worker' = [todo |-> moving, seen |-> moving]
    /\ working' = TRUE
    /\ UNCHANGED <<nzbDoc, files, nntp, handed, fetching, control, served, skipped, halts, controls>>

\* A job that is gone throws, one that does not move any more is left alone.
WorkerSteps(step) ==
    /\ worker # Nothing /\ fetching = Nothing /\ step \in worker.todo
    /\ IF nntp[step[2]] # Nothing /\ nntp[step[2]].state \in {"queued", "downloading"}
       THEN /\ fetching' = [step |-> step, aborted |-> FALSE]
            /\ nntp' = Turned(step[2], "downloading")
            /\ UNCHANGED worker
       ELSE /\ worker' = [worker EXCEPT !.todo = @ \ {step}]
            /\ UNCHANGED <<fetching, nntp>>
    /\ UNCHANGED <<nzbDoc, files, handed, working, control, served, skipped, halts, controls>>

Snapshot(job, table) == [item |-> job.item, eid |-> job.eid, at |-> table[job.eid].at,
                         paused |-> table[job.eid].state = "paused"]
StaleMerge(jobs) == [n \in Nzbs |->
    IF \E e \in EngineIds : <<n, e>> \in worker.seen THEN jobs[n] ELSE Nothing]
Merged(jobs) == [n \in Nzbs |->
    IF /\ jobs[n] # Nothing /\ <<n, jobs[n].eid>> \in worker.seen
       /\ nntp[jobs[n].eid] # Nothing
    THEN Snapshot(jobs[n], nntp)
    ELSE jobs[n]]
WorkerMerges ==
    /\ worker # Nothing /\ worker.todo = {}
    /\ nzbDoc' = [nzbDoc EXCEPT !.jobs = Merged(nzbDoc.jobs)]
    /\ worker' = Nothing /\ working' = FALSE
    /\ UNCHANGED <<files, nntp, handed, fetching, control, served, skipped, halts, controls>>

------------------------------------------------------------------------------
\* Recovery, at a mount and after a reconfiguration: jobs go back in the order
\* of the document.  One whose stored id the engine already knows is taken for
\* recovered; one whose stored NZB is gone, or whose checkpoint is refused, is
\* left out and keeps its stored id.  A refusal has used up an engine id.

Remapped(job, e) == [job EXCEPT !.eid = e]
Unfit == {n \in Nzbs : nzbDoc.jobs[n] # Nothing /\ ~Fits(n, nzbDoc.jobs[n])}
PutBackOne(sofar, n, gone) ==
    LET job == sofar.jobs[n]
        e   == sofar.handed + 1
    IN IF job = Nothing \/ n \in gone \/ sofar.nntp[job.eid] # Nothing THEN sofar
       ELSE IF n \in Unfit THEN [sofar EXCEPT !.handed = e]
       ELSE [jobs   |-> [sofar.jobs EXCEPT ![n] = Remapped(job, e)],
             nntp   |-> [sofar.nntp EXCEPT ![e] =
                            Job(n, job.at, IF job.paused THEN "paused" ELSE "queued")],
             handed |-> e,
             files  |-> [sofar.files EXCEPT ![n] = CutBack(@, job.at)]]
PutBack(gone) ==
    LET back[n \in 0 .. MaxNzbs] ==
          IF n = 0 THEN [jobs |-> nzbDoc.jobs, nntp |-> [e \in EngineIds |-> Nothing],
                         handed |-> 0, files |-> files]
          ELSE PutBackOne(back[n - 1], n, gone)
    IN  back[MaxNzbs]
Recovered ==
    \E gone \in SUBSET Nzbs :
       LET r == PutBack(gone) IN
          /\ nzbDoc' = [nzbDoc EXCEPT !.jobs = r.jobs]
          /\ nntp' = r.nntp /\ handed' = r.handed /\ files' = r.files
          /\ skipped' = (skipped \/ \E n \in Unfit \cup gone : nzbDoc.jobs[n] # Nothing)

MountUsenet ==
    /\ ~served /\ served' = TRUE
    /\ Recovered
    /\ UNCHANGED <<fetching, worker, working, control, halts, controls>>

\* An unmount closes the engine and takes the store away; a crash takes all.
HaltUsenet ==
    /\ served /\ halts < MaxHalts
    /\ served' = FALSE /\ halts' = halts + 1
    /\ nntp' = [e \in EngineIds |-> Nothing] /\ handed' = 0
    /\ fetching' = Nothing /\ worker' = Nothing /\ working' = FALSE /\ control' = Nothing
    /\ UNCHANGED <<nzbDoc, files, skipped, controls>>

------------------------------------------------------------------------------
\* The control operations, one at a time, each with awaits of its own.

Ask(request) ==
    /\ served /\ control = Nothing /\ control' = request
    /\ controls < MaxControls /\ controls' = controls + 1
Asked(op, at, n, job) == [op |-> op, at |-> at, number |-> n, job |-> job]
ToWrite(job) == Asked(control.op, "write", control.number, job)
Aborts(e) == fetching' = IF fetching # Nothing /\ fetching.step[2] = e
                         THEN [fetching EXCEPT !.aborted = TRUE] ELSE fetching
Quiet(e) == fetching # Nothing => fetching.step[2] # e
Engine(n) == nzbDoc.jobs[n] # Nothing /\ nntp[nzbDoc.jobs[n].eid] # Nothing

\* An item whose job and engine job are both there is answered as it is; the
\* question is asked again inside the queued update that inserts the new job.
Answered(i) == \E n \in Nzbs : Engine(n) /\ nzbDoc.jobs[n].item = i
AddNzbAsks(i) ==
    /\ ~Answered(i) /\ Ask([op |-> "add", at |-> "insert", item |-> i])
    /\ UNCHANGED <<nzbDoc, files, usenetEngine, worker, working, served, skipped, halts>>
Inserted(doc, i) == LET n == doc.seq + 1 IN
    [seq |-> n,
     jobs |-> [doc.jobs EXCEPT ![n] = [item |-> i, eid |-> handed + 1,
                                       at |-> Start(n), paused |-> FALSE]]]
AddNzb ==
    /\ control # Nothing /\ control.at = "insert"
    /\ nzbDoc.seq < MaxNzbs /\ handed < MaxEngineIds
    /\ handed' = handed + 1
    /\ nntp' = [nntp EXCEPT ![handed + 1] = Job(nzbDoc.seq + 1, Start(nzbDoc.seq + 1), "queued")]
    /\ nzbDoc' = Inserted(nzbDoc, control.item)
    /\ control' = Nothing
    /\ UNCHANGED <<files, fetching, worker, working, served, skipped, halts, controls>>

\* pause and resume act on the engine, then write the job they had read.
PauseNzb(n) ==
    /\ Engine(n)
    /\ LET e == nzbDoc.jobs[n].eid IN
          IF nntp[e].state \in {"queued", "downloading"}
          THEN nntp' = Turned(e, "paused") /\ Aborts(e)
          ELSE UNCHANGED <<nntp, fetching>>
    /\ Ask(Asked("pause", "write", n, Snapshot(nzbDoc.jobs[n], nntp')))
    /\ UNCHANGED <<nzbDoc, files, handed, worker, working, served, skipped, halts>>

ResumeNzbAsks(n) ==
    /\ nzbDoc.jobs[n] # Nothing /\ Ask(Asked("resume", "engine", n, nzbDoc.jobs[n]))
    /\ UNCHANGED <<nzbDoc, files, usenetEngine, worker, working, served, skipped, halts>>
ResumeNzb ==
    /\ control # Nothing /\ control.at = "engine"
    /\ LET e == control.job.eid IN
          IF nntp[e] = Nothing THEN control' = Nothing /\ UNCHANGED nntp
          ELSE /\ nntp' = Turned(e, IF nntp[e].state = "paused" THEN "queued" ELSE nntp[e].state)
               /\ control' = ToWrite(Snapshot(control.job, nntp'))
    /\ UNCHANGED <<nzbDoc, files, handed, fetching, worker, working, served, skipped, halts, controls>>

\* setQueuePosition writes the job it had read.
MoveNzb(n) ==
    /\ nzbDoc.jobs[n] # Nothing /\ Ask(Asked("move", "write", n, nzbDoc.jobs[n]))
    /\ UNCHANGED <<nzbDoc, files, usenetEngine, worker, working, served, skipped, halts>>

\* remove and retry abort the running step and wait for it before they take the
\* engine's job away; a job the engine does not know ends the call.
TakeAsks(n, op) ==
    /\ Engine(n) /\ Ask(Asked(op, "take", n, nzbDoc.jobs[n]))
    /\ Aborts(nzbDoc.jobs[n].eid)
    /\ UNCHANGED <<nzbDoc, files, nntp, handed, worker, working, served, skipped, halts>>
RemoveNzb ==
    /\ control # Nothing /\ control.at = "take" /\ Quiet(control.job.eid)
    /\ control.op \in {"remove", "delete"}
    /\ nntp' = WithoutJob(control.job.eid)
    /\ files' = IF control.op = "delete" /\ nntp[control.job.eid] # Nothing
                THEN [files EXCEPT ![nntp[control.job.eid].dl] = <<>>] ELSE files
    /\ control' = ToWrite(control.job)
    /\ UNCHANGED <<nzbDoc, handed, fetching, worker, working, served, skipped, halts, controls>>

\* The download goes back from the checkpoint that was read, under a new id.
RetryNzb ==
    /\ control # Nothing /\ control.at = "take" /\ Quiet(control.job.eid)
    /\ control.op = "retry" /\ handed < MaxEngineIds
    /\ LET n == control.number e == handed + 1 IN
          IF Fits(n, control.job)
          THEN /\ nntp' = [WithoutJob(control.job.eid) EXCEPT ![e] = Job(n, control.job.at, "queued")]
               /\ files' = [files EXCEPT ![n] = CutBack(@, control.job.at)]
               /\ control' = ToWrite([item |-> control.job.item, eid |-> e,
                                      at |-> control.job.at, paused |-> FALSE])
          ELSE /\ nntp' = WithoutJob(control.job.eid)
               /\ control' = Nothing
               /\ UNCHANGED files
    /\ handed' = handed + 1
    /\ UNCHANGED <<nzbDoc, fetching, worker, working, served, skipped, halts, controls>>

WriteNzb ==
    /\ control # Nothing /\ control.at = "write"
    /\ LET left == IF control.op \in {"remove", "delete"} THEN Nothing ELSE control.job
       IN  nzbDoc' = [nzbDoc EXCEPT !.jobs = [nzbDoc.jobs EXCEPT ![control.number] = left]]
    /\ control' = Nothing
    /\ UNCHANGED <<files, usenetEngine, worker, working, served, skipped, halts, controls>>

\* configure: the worker's flag is looked at, passwords are awaited, and only
\* then the flag is taken, the engine closed, replaced and filled again.
SwapAsks ==
    /\ ~working /\ Ask([op |-> "configure", at |-> "close"])
    /\ UNCHANGED <<nzbDoc, files, usenetEngine, worker, working, served, skipped, halts>>
SwapCloses ==
    /\ control # Nothing /\ control.at = "close"
    /\ working' = TRUE
    /\ control' = [control EXCEPT !.at = "swap"]
    /\ fetching' = IF fetching = Nothing THEN Nothing ELSE [fetching EXCEPT !.aborted = TRUE]
    /\ UNCHANGED <<nzbDoc, files, nntp, handed, worker, served, skipped, halts, controls>>
Swap ==
    /\ control # Nothing /\ control.at = "swap" /\ fetching = Nothing
    /\ nntp' = [e \in EngineIds |-> Nothing] /\ handed' = 0
    /\ control' = [control EXCEPT !.at = "recover"]
    /\ UNCHANGED <<nzbDoc, files, fetching, worker, working, served, skipped, halts, controls>>
SwapRecovers ==
    /\ control # Nothing /\ control.at = "recover"
    /\ Recovered
    /\ working' = FALSE /\ control' = Nothing
    /\ UNCHANGED <<fetching, worker, served, halts, controls>>

UsenetNext ==
    \/ HaltUsenet \/ StepAborted \/ ArticleComes \/ Finalize
    \/ WorkerStarts \/ WorkerMerges \/ \E s \in Nzbs \X EngineIds : WorkerSteps(s)
    \/ \E i \in Releases : AddNzbAsks(i)
    \/ AddNzb \/ ResumeNzb \/ RemoveNzb \/ RetryNzb \/ WriteNzb
    \/ \E n \in Nzbs :
          \/ PauseNzb(n) \/ ResumeNzbAsks(n) \/ MoveNzb(n)
          \/ \E op \in {"remove", "delete", "retry"} : TakeAsks(n, op)
    \/ MountUsenet \/ SwapAsks \/ SwapCloses \/ Swap \/ SwapRecovers

UsenetSpec == UsenetInit /\ [][UsenetNext]_usenetVars

------------------------------------------------------------------------------
\* Hazard: the worker and the control operations interleave at every await.
\* Numbers are issued once and a job stays until its removal, whatever the
\* worker saves from a list it read before.
NzbLedger == INSTANCE JobLedger WITH
    Ids <- Nzbs, Items <- Releases, NoItem <- Nothing,
    jobs <- [n \in Nzbs |-> IF nzbDoc.jobs[n] = Nothing THEN Nothing ELSE nzbDoc.jobs[n].item],
    issued <- nzbDoc.seq,
    removing <- IF control # Nothing /\ control.op \in {"remove", "delete"}
                THEN {control.number} ELSE {}
UsenetLedger == NzbLedger!Spec

\* Hazards: the file is ahead of its checkpoint after a crash, a retry or a
\* pause; and engine ids start again at every mount and reconfiguration while
\* the document holds the old ones.  As long as recovery never left a download
\* out, one that is completed is every segment once, in order, although no
\* checksum is compared, and it is the engine's job for this download, not
\* that of another one, which answers for it.
OwnEngineJob == \A n \in Nzbs : Engine(n) => nntp[nzbDoc.jobs[n].eid].dl = n
UsenetWhole ==
    ~skipped =>
        /\ OwnEngineJob
        /\ \A e \in EngineIds : (nntp[e] # Nothing /\ nntp[e].state = "completed")
                                  => files[nntp[e].dl] = Whole

==============================================================================
