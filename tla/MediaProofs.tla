---------------------------- MODULE MediaProofs ------------------------------
(* Machine-checked theorems about TorrentClient, for any number of items,      *)
(* operations and stops; about WantedSearch, for any profiles, titles and      *)
(* edits; and about ServingSessions, for any number of sessions, caps and      *)
(* crashes.                                                                    *)
EXTENDS MCMedia, FiniteSetTheorems, TLAPS

------------------------------------------------------------------------------
(* TorrentClient: the inductive invariant *)

Modes == {"none", "keeps", "frees"}
Calls == [op : Writers \cup {"resume"},
          at : {"load", "add", "rollback", "decide", "drop", "save", "resume"},
          job : Nat, item : TorrentItems \cup {NoJob}, doc : Documents,
          keep : BOOLEAN, rule : Modes]

\* What a call has read is still so: nobody else saves the document meanwhile.
CallInv(k) ==
    /\ k \in Calls
    /\ k.op \in Writers /\ k.at \in {"add", "rollback", "save"} => k.doc = resume
    /\ k.op = "add" => k.item \in TorrentItems /\ resume.seq < MaxJobs
    /\ k.op \in {"remove", "retry", "rewrite"} => k.job \in JobIds
    /\ k.op \in {"retry", "rewrite"} /\ k.at \in {"load", "save"} => k.item = resume.jobs[k.job]
    /\ k.at \in {"add", "rollback"} => k.op = "add"
    /\ k.at \in {"decide", "drop"} => k.op = "remove"
    /\ k.at \in {"load", "save"} => k.op \in Writers

OneWriter ==
    \A c, d \in Clients : call[c].op \in Writers /\ call[d].op \in Writers => c = d

IInv ==
    /\ resume \in Documents
    /\ call = [c \in Clients |-> call[c]]
    /\ \A c \in Clients : call[c] = Free \/ CallInv(call[c])
    /\ OneWriter

------------------------------------------------------------------------------
(* The operators and the initial states *)

\* A free client has no operation and waits nowhere.
LEMMA FreeFacts == Free.op \notin Writers /\ Free.op # "remove" /\ Free.at = "none"
  BY DEF Free, Writers

LEMMA BlankFacts == Blank \in Documents
  BY TorrentBounds DEF Blank, Documents, JobIds

\* A client that waits somewhere has a call.
LEMMA HasCall ==
    ASSUME IInv, NEW c \in Clients, NEW at, at # "none", At(c, at)
    PROVE  CallInv(call[c]) /\ call[c].at = at
  BY FreeFacts DEF IInv, At

\* The document a call saves: the next number to its item, the removed job
\* gone, a job as it was, or another rule.
LEMMA WrittenFacts ==
    ASSUME resume \in Documents, NEW k, CallInv(k), k.at = "save"
    PROVE  /\ Written(k) \in Documents
           /\ k.op = "add" =>
                 /\ resume.seq + 1 \in JobIds /\ Written(k).seq = resume.seq + 1
                 /\ Written(k).jobs = [resume.jobs EXCEPT ![resume.seq + 1] = k.item]
           /\ k.op = "remove" =>
                 /\ Written(k).seq = resume.seq
                 /\ Written(k).jobs = [resume.jobs EXCEPT ![k.job] = NoJob]
           /\ k.op \notin {"add", "remove"} =>
                 Written(k).seq = resume.seq /\ Written(k).jobs = resume.jobs
  <1>1. k.doc = resume /\ k.op \in Writers /\ k \in Calls
    BY DEF CallInv
  <1>2. resume.seq \in 0 .. MaxJobs /\ resume.jobs \in [JobIds -> TorrentItems \cup {NoJob}]
    BY DEF Documents
  <1>3. CASE k.op = "add"
    <2>1. Written(k) = Numbered(resume, k.item)
      BY <1>1, <1>3 DEF Written
    <2>2. resume.seq + 1 \in JobIds /\ k.item \in TorrentItems
      BY <1>2, <1>3, TorrentBounds DEF CallInv, JobIds
    <2>3. /\ Numbered(resume, k.item) \in Documents
          /\ Numbered(resume, k.item).seq = resume.seq + 1
          /\ Numbered(resume, k.item).jobs = [resume.jobs EXCEPT ![resume.seq + 1] = k.item]
      <3> DEFINE new == [resume.jobs EXCEPT ![resume.seq + 1] = k.item]
      <3>1. new \in [JobIds -> TorrentItems \cup {NoJob}] /\ resume.seq + 1 \in 0 .. MaxJobs
        BY <1>2, <2>2, TorrentBounds DEF JobIds
      <3>2. Numbered(resume, k.item) = [resume EXCEPT !.seq = resume.seq + 1, !.jobs = new]
        BY DEF Numbered, Documents
      <3> HIDE DEF new
      <3>3. /\ Numbered(resume, k.item) \in Documents
            /\ Numbered(resume, k.item).seq = resume.seq + 1
            /\ Numbered(resume, k.item).jobs = new
        BY <3>1, <3>2 DEF Documents
      <3> QED BY <3>3 DEF new
    <2> QED BY <1>3, <2>1, <2>2, <2>3
  <1>4. CASE k.op = "remove"
    <2>1. Written(k) = [resume EXCEPT !.jobs[k.job] = NoJob]
      BY <1>1, <1>4 DEF Written
    <2> QED BY <1>2, <1>4, <2>1 DEF Documents
  <1>5. CASE k.op = "rule"
    <2>1. Written(k) = [resume EXCEPT !.rule = k.rule]
      BY <1>1, <1>5 DEF Written
    <2> QED BY <1>1, <1>2, <1>5, <2>1 DEF Documents, Calls, Modes
  <1>6. CASE k.op \in {"retry", "rewrite"}
    <2>1. Written(k) = [resume EXCEPT !.jobs[k.job] = k.item]
      BY <1>1, <1>6 DEF Written
    <2>2. k.item = resume.jobs[k.job] /\ k.job \in JobIds
      BY <1>6 DEF CallInv
    <2> QED BY <1>2, <1>6, <2>1, <2>2 DEF Documents
  <1> QED BY <1>1, <1>3, <1>4, <1>5, <1>6 DEF Writers

LEMMA InitInv == TorrentInit => IInv
  BY FreeFacts, BlankFacts DEF TorrentInit, IInv, OneWriter

------------------------------------------------------------------------------
(* The actions *)

\* A step that leaves the document alone may change one call, if it starts no
\* second writer.
LEMMA CallMoves ==
    ASSUME IInv, NEW c \in Clients, NEW k, resume' = resume, call' = [call EXCEPT ![c] = k],
           k = Free \/ CallInv(k),
           k.op \in Writers =>
              \/ call[c].op \in Writers
              \/ \A d \in Clients : call[d].op \notin Writers
    PROVE  IInv'
  <1>1. \A d \in Clients : call'[d] = IF d = c THEN k ELSE call[d]
    BY DEF IInv
  <1>2. (\A d \in Clients : call[d] = Free \/ CallInv(call[d]))'
    BY <1>1 DEF IInv, CallInv
  <1>3. OneWriter'
    BY <1>1 DEF IInv, OneWriter
  <1> QED BY <1>2, <1>3 DEF IInv

\* The requests: what they ask for is read from the document before the first
\* await.
LEMMA AsksInv ==
    ASSUME IInv, ~WritersMeet, NEW c \in Clients, Asks(c)
    PROVE  IInv'
  <1>1. ASSUME NEW k, Begin(c, k), CallInv(k)
        PROVE  IInv'
    BY <1>1, CallMoves DEF Begin
  <1>2. /\ resume.jobs \in [JobIds -> TorrentItems \cup {NoJob}] /\ JobIds \subseteq Nat
        /\ Blank \in Documents
    BY BlankFacts DEF IInv, Documents, JobIds
  <1>3. ASSUME NEW i \in TorrentItems, AddAsks(c, i) PROVE IInv'
    <2>1. CallInv(Request("add", "load", 0, i))
      BY <1>2, <1>3 DEF AddAsks, CallInv, Calls, Request, Writers, Modes
    <2> QED BY <1>1, <1>3, <2>1 DEF AddAsks
  <1>4. ASSUME NEW rule \in Modes, RuleAsks(c, rule) PROVE IInv'
    <2>1. CallInv([Request("rule", "load", 0, NoJob) EXCEPT !.rule = rule])
      BY <1>2 DEF CallInv, Calls, Request, Writers, Modes
    <2> QED BY <1>1, <1>4, <2>1 DEF RuleAsks
  <1>5. ASSUME NEW n \in JobIds, NEW keep \in BOOLEAN, RemoveAsks(c, n, keep) PROVE IInv'
    <2>1. CallInv([Request("remove", "decide", n, resume.jobs[n]) EXCEPT !.keep = keep])
      BY <1>2 DEF CallInv, Calls, Request, Writers, Modes
    <2> QED BY <1>1, <1>5, <2>1 DEF RemoveAsks
  <1>6. ASSUME NEW n \in JobIds, RetryAsks(c, n) PROVE IInv'
    <2>1. CallInv(Request("retry", "load", n, resume.jobs[n]))
      BY <1>2 DEF CallInv, Calls, Request, Writers, Modes
    <2> QED BY <1>1, <1>6, <2>1 DEF RetryAsks
  <1>7. ASSUME NEW n \in JobIds, RewriteAsks(c, n) PROVE IInv'
    <2>1. CallInv(Request("rewrite", "load", n, resume.jobs[n]))
      BY <1>2 DEF CallInv, Calls, Request, Writers, Modes
    <2> QED BY <1>1, <1>7, <2>1 DEF RewriteAsks
  <1>8. ASSUME NEW n \in JobIds, ResumeAsks(c, n) PROVE IInv'
    <2>1. CallInv(Request("resume", "resume", n, resume.jobs[n]))
      BY <1>2 DEF CallInv, Calls, Request, Writers, Modes
    <2> QED BY <1>1, <1>8, <2>1 DEF ResumeAsks
  <1> QED BY <1>3, <1>4, <1>5, <1>6, <1>7, <1>8 DEF Asks, Modes

\* A call that ends frees its client.
LEMMA EndsInv ==
    ASSUME IInv, NEW c \in Clients, resume' = resume, Ends(c)
    PROVE  IInv'
  BY CallMoves, FreeFacts DEF Ends

\* A call goes on: it keeps what it asked for and takes a fresh copy of the
\* document, or keeps the one it has.
LEMMA GoesOn ==
    ASSUME IInv, NEW c \in Clients, NEW k, CallInv(call[c]), CallInv(k), k.op = call[c].op,
           resume' = resume, call' = [call EXCEPT ![c] = k]
    PROVE  IInv'
  BY CallMoves

LEMMA ProceedsInv ==
    ASSUME IInv, NEW c \in Clients, Proceeds(c), resume' = resume
    PROVE  IInv'
  <1> USE DEF Goes
  <1>1. CASE AddLoads(c)
    <2>1. CallInv(call[c]) /\ call[c].op = "add"
      BY <1>1, HasCall DEF AddLoads
    <2> DEFINE k == [call[c] EXCEPT !.at = "add", !.doc = resume]
    <2>2. CASE Ends(c)
      BY <2>2, EndsInv
    <2>3. CASE call' = [call EXCEPT ![c].at = "add", ![c].doc = resume]
      <3>1. call' = [call EXCEPT ![c] = k]
        BY <2>3 DEF IInv
      <3>2. CallInv(k) /\ k.op = call[c].op
        BY <2>1 DEF CallInv, Calls, IInv, Writers
      <3> QED BY <2>1, <3>1, <3>2, GoesOn
    <2> QED BY <1>1, <2>2, <2>3 DEF AddLoads
  <1>2. CASE AddRefused(c) \/ AddRollsBack(c) \/ Resumes(c)
    BY <1>2, EndsInv DEF AddRefused, AddRollsBack, Resumes
  <1>3. CASE AddTakes(c)
    <2>1. CallInv(call[c]) /\ call[c].at = "add"
      BY <1>3, HasCall DEF AddTakes
    <2>2. PICK at \in {"save", "rollback"} : call' = [call EXCEPT ![c].at = at]
      BY <1>3 DEF AddTakes
    <2> DEFINE k == [call[c] EXCEPT !.at = at]
    <2>3. call' = [call EXCEPT ![c] = k]
      BY <2>2
    <2>4. CallInv(k) /\ k.op = call[c].op
      BY <2>1 DEF CallInv, Calls, Writers
    <2> QED BY <2>1, <2>3, <2>4, GoesOn
  <1>4. CASE RemoveDecides(c)
    <2>1. CallInv(call[c]) /\ call[c].at = "decide" /\ call[c].op = "remove"
      BY <1>4, HasCall DEF RemoveDecides, CallInv
    <2> DEFINE kept == KeepsUnder(resume.rule, Hash(c), call[c].keep)
               k == [call[c] EXCEPT !.at = "drop", !.keep = kept]
    <2>2. CASE Ends(c)
      BY <2>2, EndsInv
    <2>3. CASE ~Ends(c)
      <3>1. call' = [call EXCEPT ![c] = k]
        BY <1>4, <2>3 DEF RemoveDecides
      <3>2. kept \in BOOLEAN
        BY <2>1 DEF KeepsUnder, CallInv, Calls
      <3> HIDE DEF kept
      <3>3. CallInv(k) /\ k.op = call[c].op
        BY <2>1, <3>2 DEF CallInv, Calls, Writers
      <3> QED BY <2>1, <3>1, <3>3, GoesOn
    <2> QED BY <2>2, <2>3
  <1>5. CASE RemoveDrops(c)
    <2>1. CallInv(call[c]) /\ call[c].at = "drop" /\ call[c].op = "remove"
      BY <1>5, HasCall DEF RemoveDrops, CallInv
    <2> DEFINE k == [call[c] EXCEPT !.at = "load"]
    <2>2. CASE Ends(c)
      BY <2>2, EndsInv
    <2>3. CASE ~Ends(c)
      <3>1. call' = [call EXCEPT ![c] = k]
        BY <1>5, <2>3 DEF RemoveDrops
      <3>2. CallInv(k) /\ k.op = call[c].op
        BY <2>1 DEF CallInv, Calls, Writers
      <3> QED BY <2>1, <3>1, <3>2, GoesOn
    <2> QED BY <2>2, <2>3
  <1>6. CASE Loads(c)
    <2>1. CallInv(call[c]) /\ call[c].at = "load" /\ call[c].op \in Writers \ {"add"}
      BY <1>6, HasCall DEF Loads, CallInv
    <2> DEFINE k == [call[c] EXCEPT !.at = "save", !.doc = resume]
    <2>2. call' = [call EXCEPT ![c] = k]
      BY <1>6 DEF Loads
    <2>3. CallInv(k) /\ k.op = call[c].op
      BY <2>1 DEF CallInv, Calls, IInv, Writers
    <2> QED BY <2>1, <2>2, <2>3, GoesOn
  <1>7. CASE Saves(c)
    <2>1. CallInv(call[c]) /\ call[c].at = "save"
      BY <1>7, HasCall DEF Saves
    <2>2. CASE Ends(c)
      BY <2>2, EndsInv
    <2>3. CASE call[c].op = "retry" /\ Goes(c, "resume")
      <3> DEFINE k == [call[c] EXCEPT !.at = "resume"]
      <3>1. CallInv(k) /\ k.op = call[c].op /\ call' = [call EXCEPT ![c] = k]
        BY <2>1, <2>3 DEF CallInv, Calls, Writers
      <3> QED BY <2>1, <3>1, GoesOn
    <2> QED BY <1>7, <2>2, <2>3 DEF Saves
  <1> QED BY <1>1, <1>2, <1>3, <1>4, <1>5, <1>6, <1>7 DEF Proceeds

\* The document is saved: no other call has read it.
LEMMA SavesInv ==
    ASSUME IInv, NEW c \in Clients, Saves(c)
    PROVE  IInv'
  <1>1. CallInv(call[c]) /\ call[c].at = "save" /\ call[c].op \in Writers
    BY HasCall DEF Saves, CallInv
  <1>2. resume' \in Documents
    BY <1>1, WrittenFacts DEF Saves, IInv
  <1>3. \A d \in Clients \ {c} : call'[d] = call[d] /\ call[d].op \notin Writers
    BY <1>1 DEF Saves, Goes, Ends, IInv, OneWriter
  <1>4. \A d \in Clients \ {c} : call'[d] = Free \/ CallInv(call[d])'
    BY <1>3 DEF IInv, CallInv, Writers
  <1>5. call'[c] = Free \/ CallInv(call[c])'
    <2>1. CASE call[c].op = "retry"
      <3>1. call'[c] = [call[c] EXCEPT !.at = "resume"]
        BY <2>1 DEF Saves, Goes, IInv
      <3> QED BY <1>1, <2>1, <3>1 DEF CallInv, Calls, Writers
    <2>2. CASE call[c].op # "retry"
      BY <2>2 DEF Saves, Ends, IInv
    <2> QED BY <2>1, <2>2
  <1>6. call' = [d \in Clients |-> call'[d]]
    BY DEF Saves, Goes, Ends, IInv
  <1>7. OneWriter'
    BY <1>3 DEF OneWriter
  <1> QED BY <1>2, <1>4, <1>5, <1>6, <1>7 DEF IInv

\* Everything else leaves the document and the calls alone, or ends them all.
LEMMA StillInv == ASSUME IInv, UNCHANGED <<resume, call>> PROVE IInv'
  BY DEF IInv, CallInv, OneWriter

LEMMA StopInv == ASSUME IInv, Stop PROVE IInv'
  BY FreeFacts DEF IInv, Stop, OneWriter

\* Every step is one of these four kinds.
LEMMA Kinds ==
    ASSUME [TorrentNext]_torrentVars
    PROVE  \/ UNCHANGED <<resume, call>>
           \/ Stop
           \/ \E c \in Clients : Asks(c)
           \/ \E c \in Clients : Proceeds(c) /\ (Saves(c) \/ resume' = resume)
  <1>1. CASE UNCHANGED torrentVars
    BY <1>1 DEF torrentVars
  <1>2. CASE Mount \/ Mounted \/ TunnelTurns \/ PollStep
    BY <1>2 DEF Mount, Mounted, TunnelTurns, PollStep, PollLists, PollAsks
  <1>3. ASSUME NEW t \in Torrents, Transfer(t) \/ Seed(t) PROVE UNCHANGED <<resume, call>>
    BY <1>3 DEF Transfer, Seed
  <1>4. ASSUME NEW n \in JobIds, Recover(n) \/ Pause(n) \/ CleanUp(n)
        PROVE  UNCHANGED <<resume, call>>
    BY <1>4 DEF Recover, Pause, CleanUp
  <1>5. ASSUME NEW c \in Clients, Proceeds(c) PROVE Saves(c) \/ resume' = resume
    BY <1>5 DEF Proceeds, AddLoads, AddRefused, AddTakes, AddRollsBack, RemoveDecides,
                RemoveDrops, Loads, Resumes
  <1> QED BY <1>1, <1>2, <1>3, <1>4, <1>5 DEF TorrentNext

LEMMA StepInv == IInv /\ ~WritersMeet /\ [TorrentNext]_torrentVars => IInv'
  BY Kinds, StillInv, StopInv, AsksInv, ProceedsInv, SavesInv

------------------------------------------------------------------------------
(* The refinement *)

\* A step that leaves jobs and sequence as they are may only ask for removals.
LEMMA AskStep ==
    ASSUME IInv', resume'.jobs = resume.jobs, resume'.seq = resume.seq
    PROVE  Ledger!Ask
  <1>1. Removing' \subseteq JobIds
    BY FreeFacts DEF Removing, IInv, CallInv
  <1> QED BY <1>1 DEF Ledger!Ask

\* A step that saves the document is one of the promise.
LEMMA SaveStep ==
    ASSUME IInv, IInv', NEW c \in Clients, Saves(c)
    PROVE  Ledger!Next
  <1>1. CallInv(call[c]) /\ call[c].at = "save" /\ call[c].op \in Writers
    BY HasCall DEF Saves, CallInv
  <1>2. resume' = Written(call[c]) /\ resume \in Documents
    BY DEF Saves, IInv
  <1>3. \A d \in Clients \ {c} : call'[d] = call[d] /\ call[d].op \notin Writers
    BY <1>1 DEF Saves, Goes, Ends, IInv, OneWriter
  <1>4. Removing' = {}
    <2>1. call'[c].op # "remove"
      <3>1. \/ call'[c] = Free
            \/ call[c].op = "retry" /\ call'[c] = [call[c] EXCEPT !.at = "resume"]
        <4>1. CASE call[c].op = "retry"
          BY <4>1 DEF Saves, Goes, IInv
        <4>2. CASE call[c].op # "retry"
          BY <4>2 DEF Saves, Ends, IInv
        <4> QED BY <4>1, <4>2
      <3>2. [call[c] EXCEPT !.at = "resume"].op = call[c].op
        BY <1>1 DEF CallInv, Calls
      <3> QED BY <3>1, <3>2, FreeFacts
    <2>2. \A d \in Clients : call'[d].op # "remove"
      BY <1>3, <2>1 DEF Writers
    <2> QED BY <2>2 DEF Removing
  <1>5. CASE call[c].op = "add"
    <2>1. Removing = {}
      BY <1>3, <1>5 DEF Removing, Writers
    <2>2. call[c].item \in TorrentItems
      BY <1>1, <1>5 DEF CallInv
    <2>3. Ledger!Accept(call[c].item)
      BY <1>1, <1>2, <1>4, <1>5, <2>1, WrittenFacts DEF Ledger!Accept
    <2> QED BY <2>2, <2>3, <1>1, <1>2, <1>5, WrittenFacts DEF Ledger!Next
  <1>6. CASE call[c].op = "remove"
    <2>1. call[c].job \in Removing /\ call[c].job \in JobIds
      BY <1>1, <1>6 DEF Removing, CallInv
    <2>2. Ledger!Remove(call[c].job)
      BY <1>1, <1>2, <1>4, <1>6, <2>1, WrittenFacts DEF Ledger!Remove
    <2> QED BY <2>1, <2>2 DEF Ledger!Next
  <1>7. CASE call[c].op \notin {"add", "remove"}
    BY <1>1, <1>2, <1>7, WrittenFacts, AskStep DEF Ledger!Next
  <1> QED BY <1>5, <1>6, <1>7

LEMMA LedgerStep ==
    IInv /\ IInv' /\ [TorrentNext]_torrentVars => [Ledger!Next]_(Ledger!vars)
  <1> SUFFICES ASSUME IInv, IInv', [TorrentNext]_torrentVars PROVE Ledger!Next
    OBVIOUS
  <1>1. CASE resume' = resume
    BY <1>1, AskStep DEF Ledger!Next
  <1>2. CASE \E c \in Clients : Saves(c)
    BY <1>2, SaveStep
  <1> QED BY <1>1, <1>2, Kinds DEF Stop, Asks, AddAsks, RuleAsks, RemoveAsks, RetryAsks,
                                   RewriteAsks, ResumeAsks, Begin

LEMMA LedgerInit == TorrentInit => Ledger!Init
  BY FreeFacts DEF TorrentInit, Ledger!Init, Removing, Blank

------------------------------------------------------------------------------
(* The theorems *)

\* While writers do not meet, what a call has read of the document stays true
\* until it saves.
THEOREM CopiesAreCurrent == ~WritersMeet /\ TorrentSpec => []IInv
  <1> SUFFICES ASSUME ~WritersMeet PROVE TorrentSpec => []IInv
    OBVIOUS
  <1> QED BY InitInv, StepInv, PTL DEF TorrentSpec

\* While writers do not meet, job numbers are issued once and in order, and a
\* job stays until its removal: the client implements the job ledger, for any
\* number of items, torrents, calls, jobs and stops.
THEOREM TorrentKeepsLedger == ~WritersMeet => (TorrentSpec => TorrentLedger)
  <1> SUFFICES ASSUME ~WritersMeet PROVE TorrentSpec => TorrentLedger
    OBVIOUS
  <1>1. TorrentSpec => []IInv
    BY CopiesAreCurrent
  <1> QED BY <1>1, LedgerInit, LedgerStep, PTL DEF TorrentSpec, TorrentLedger, Ledger!Spec

------------------------------------------------------------------------------
(* The payloads: what a call may do to the files when it reaches them *)

\* No two items stand for the same torrent.
OwnTorrents == \A i, j \in TorrentItems : TorrentOf[i] = TorrentOf[j] => i = j

EngineKnown ==
    /\ engine \in [Torrents -> {"absent", "held", "paused", "active"}]
    /\ payload \in [Torrents -> {"none", "part", "whole"}]
    /\ complete \subseteq Torrents /\ \A t \in complete : Live(t)
RecoveryKnown ==
    /\ client # "up" => \A c \in Clients : call[c] = Free
    /\ client = "recovering" => \A n \in unread : n \in JobIds /\ resume.jobs[n] # NoJob
NumbersInOrder == \A n \in JobIds : n > resume.seq => resume.jobs[n] = NoJob

\* A torrent in the engine belongs to a job, or to the add that put it there.
Adds(k) == k.op = "add" /\ k.at \in {"save", "rollback"}
LiveIsOwned ==
    \A t \in Torrents : Live(t) => Owned(t) \/ \E c \in Clients : Adds(call[c]) /\ Hash(c) = t

\* An add that is about to hand its torrent over found it absent, the one it
\* rolls back is held, and what a removal deletes has satisfied the rule.
CallPays(k) ==
    /\ k.at = "add" => ~Live(TorrentOf[k.item])
    /\ k.at = "rollback" => /\ engine[TorrentOf[k.item]] = "held"
                            /\ TorrentOf[k.item] \notin complete
    /\ k.op = "remove" => k.item \in TorrentItems /\ k.item = resume.jobs[k.job]
    /\ k.op = "remove" /\ k.at \in {"load", "save"} => ~Live(TorrentOf[k.item])
    /\ k.at = "drop" => \/ k.keep \/ resume.rule = "none"
                        \/ TorrentOf[k.item] \in settled /\ resume.rule = "frees"
CallsPay == \A c \in Clients : CallPays(call[c])
PayloadInv == EngineKnown /\ RecoveryKnown /\ NumbersInOrder /\ LiveIsOwned /\ CallsPay

LEMMA PayloadStarts == TorrentInit => PayloadInv
<1> SUFFICES ASSUME TorrentInit PROVE PayloadInv
  OBVIOUS
<1>1. EngineKnown /\ \A t \in Torrents : ~Live(t)
  BY DEF TorrentInit, EngineKnown, Live
<1>2. RecoveryKnown /\ CallsPay
  BY FreeFacts DEF TorrentInit, RecoveryKnown, CallsPay, CallPays, Free
<1>3. NumbersInOrder
  BY DEF TorrentInit, Blank, NumbersInOrder
<1>4. LiveIsOwned
  BY <1>1 DEF LiveIsOwned
<1> QED
  BY <1>1, <1>2, <1>3, <1>4 DEF PayloadInv

\* The engine goes its way: nothing comes or goes, and what is held stays so.
Mild ==
    /\ resume' = resume /\ EngineKnown'
    /\ \A t \in Torrents : Live(t)' = Live(t)
    /\ settled \subseteq settled'
    /\ \A t \in Torrents : engine[t] = "held" =>
          engine'[t] = "held" /\ (t \in complete' => t \in complete)

\* The torrent of a call is one of the engine's.
LEMMA HashKnown ==
    ASSUME NEW k, CallInv(k), k.at \in {"add", "rollback"} \/ k.item \in TorrentItems
    PROVE  k.item \in TorrentItems /\ TorrentOf[k.item] \in Torrents
BY TorrentMarks DEF CallInv

\* A call that waits while the engine goes its way may still do what it may.
LEMMA WaitsMildly ==
    ASSUME IInv, PayloadInv, Mild, NEW c \in Clients, call'[c] = call[c]
    PROVE  CallPays(call[c])'
<1>1. CallPays(call[c]) /\ (call[c] = Free \/ CallInv(call[c]))
  BY DEF PayloadInv, CallsPay, IInv
<1>2. CASE call[c] = Free
  BY <1>1, <1>2, FreeFacts DEF CallPays
<1>3. CASE CallInv(call[c])
  <2> DEFINE t == TorrentOf[call[c].item]
  <2>1. call[c].at \in {"add", "rollback", "drop"} \/ call[c].op = "remove" => t \in Torrents
    BY <1>1, <1>3, HashKnown DEF CallInv, CallPays
  <2>2. /\ call[c].at = "add" => ~Live(t)'
        /\ call[c].at = "rollback" => engine'[t] = "held" /\ t \notin complete'
        /\ call[c].op = "remove" /\ call[c].at \in {"load", "save"} => ~Live(t)'
    BY <1>1, <2>1 DEF Mild, CallPays
  <2>3. call[c].at = "drop" => \/ call[c].keep \/ resume.rule = "none"
                               \/ t \in settled' /\ resume.rule = "frees"
    BY <1>1 DEF Mild, CallPays
  <2> QED
    BY <1>1, <2>2, <2>3 DEF Mild, CallPays, Live
<1> QED
  BY <1>1, <1>2, <1>3

\* Beside a writer the others have nothing to do with the files.
LEMMA OthersAreIdle ==
    ASSUME IInv, NEW c \in Clients, call[c].op \in Writers, NEW d \in Clients, d # c,
           call'[d] = call[d]
    PROVE  CallPays(call[d])' /\ ~Adds(call[d]) /\ ~Adds(call'[d])
<1>1. call[d].op \notin Writers
  BY DEF IInv, OneWriter
<1>2. call[d].at \notin {"add", "rollback", "drop"} /\ call[d].op # "remove" /\ call[d].op # "add"
  BY <1>1, FreeFacts DEF IInv, CallInv, Writers
<1> QED
  BY <1>2 DEF CallPays, Adds

\* A mild step keeps what is known, if a call it moves is no add with a torrent
\* of its own and may do what it is about to do.
LEMMA MildKeeps ==
    ASSUME IInv, PayloadInv, Mild, RecoveryKnown',
           \A d \in Clients : call'[d] = call[d] \/ (CallPays(call[d])' /\ ~Adds(call[d]))
    PROVE  PayloadInv'
<1>1. CallsPay'
  BY WaitsMildly DEF CallsPay
<1>2. NumbersInOrder'
  BY DEF NumbersInOrder, Mild, PayloadInv
<1>3. LiveIsOwned'
  <2> SUFFICES ASSUME NEW t \in Torrents, Live(t)'
               PROVE  Owned(t)' \/ \E d \in Clients : Adds(call'[d]) /\ TorrentOf[call'[d].item] = t
    BY DEF LiveIsOwned, Hash, Adds
  <2>1. Live(t)
    BY DEF Mild
  <2>2. CASE Owned(t)
    BY <2>2 DEF Owned, Mild
  <2>3. ASSUME NEW d \in Clients, Adds(call[d]), Hash(d) = t
        PROVE  Adds(call'[d]) /\ TorrentOf[call'[d].item] = t
    BY <2>3 DEF Hash
  <2> QED
    BY <2>1, <2>2, <2>3 DEF PayloadInv, LiveIsOwned
<1> QED
  BY <1>1, <1>2, <1>3 DEF PayloadInv, Mild

\* Nothing of the engine changes.
LEMMA UnmovedIsMild ==
    ASSUME PayloadInv, resume' = resume, UNCHANGED moved
    PROVE  Mild /\ RightlyLost
BY DEF PayloadInv, EngineKnown, Mild, moved, Live, RightlyLost, LosesPayload

LEMMA AsksPays ==
    ASSUME IInv, PayloadInv, NEW c \in Clients, Asks(c)
    PROVE  PayloadInv' /\ RightlyLost
<1>1. ASSUME NEW k, Begin(c, k), k.at \in {"load", "decide", "resume"},
             k.op = "remove" => k.at = "decide" /\ k.item \in TorrentItems /\ k.item = resume.jobs[k.job]
      PROVE  PayloadInv' /\ RightlyLost
  <2>1. /\ client = "up" /\ call[c] = Free /\ call' = [call EXCEPT ![c] = k] /\ resume' = resume
        /\ UNCHANGED moved /\ client' = client /\ unread' = unread
    BY <1>1 DEF Begin, around
  <2>2. call'[c] = k /\ \A d \in Clients \ {c} : call'[d] = call[d]
    BY <2>1 DEF IInv
  <2>3. RecoveryKnown'
    BY <2>1 DEF RecoveryKnown
  <2>4. CallPays(call[c])' /\ ~Adds(call[c])
    BY <1>1, <2>1, <2>2, FreeFacts DEF CallPays, Adds, Writers
  <2> QED
    BY <2>1, <2>2, <2>3, <2>4, UnmovedIsMild, MildKeeps
<1>2. ASSUME NEW i \in TorrentItems, AddAsks(c, i) PROVE PayloadInv' /\ RightlyLost
  BY <1>1, <1>2 DEF AddAsks, Request
<1>3. ASSUME NEW rule \in Modes, RuleAsks(c, rule) PROVE PayloadInv' /\ RightlyLost
  BY <1>1, <1>3 DEF RuleAsks, Request
<1>4. ASSUME NEW n \in JobIds, NEW keep \in BOOLEAN, RemoveAsks(c, n, keep)
      PROVE  PayloadInv' /\ RightlyLost
  <2>1. resume.jobs[n] \in TorrentItems
    BY <1>4 DEF RemoveAsks, Known, IInv, Documents
  <2> QED
    BY <1>1, <1>4, <2>1 DEF RemoveAsks, Request
<1>5. ASSUME NEW n \in JobIds, RetryAsks(c, n) \/ RewriteAsks(c, n) \/ ResumeAsks(c, n)
      PROVE  PayloadInv' /\ RightlyLost
  BY <1>1, <1>5 DEF RetryAsks, RewriteAsks, ResumeAsks, Request
<1> QED
  BY <1>2, <1>3, <1>4, <1>5 DEF Asks, Modes

\* The steps of no call but those that read the document back or stop it all.
LEMMA EnginePays ==
    ASSUME IInv, PayloadInv, UNCHANGED <<call, resume>>, client' = client, unread' = unread,
           Mild
    PROVE  PayloadInv'
<1>1. RecoveryKnown'
  BY DEF PayloadInv, RecoveryKnown
<1> QED
  BY <1>1, MildKeeps

LEMMA WorldPays ==
    ASSUME IInv, PayloadInv,
           \/ TunnelTurns \/ PollStep \/ \E t \in Torrents : Transfer(t) \/ Seed(t)
           \/ \E n \in JobIds : Pause(n) \/ CleanUp(n)
    PROVE  PayloadInv' /\ RightlyLost
<1>1. UNCHANGED <<call, resume>> /\ client' = client /\ unread' = unread
  BY DEF TunnelTurns, PollStep, PollLists, PollAsks, Transfer, Seed, Pause, CleanUp, around
<1>2. CASE TunnelTurns \/ PollLists
  BY <1>1, <1>2, UnmovedIsMild, EnginePays DEF TunnelTurns, PollLists
<1>3. CASE PollAsks \/ \E n \in JobIds : Pause(n)
  <2>1. complete' = complete /\ settled' = settled /\ payload' = payload
    BY <1>3 DEF PollAsks, Pause
  <2>2. /\ engine' \in [Torrents -> {"absent", "held", "paused", "active"}]
        /\ \A t \in Torrents : engine'[t] = engine[t] \/ (engine[t] = "active" /\ engine'[t] = "paused")
    <3>1. CASE PollAsks
      BY <3>1 DEF PollAsks, PayloadInv, EngineKnown
    <3>2. CASE \E n \in JobIds : Pause(n)
      BY <3>2 DEF Pause, PayloadInv, EngineKnown
    <3> QED
      BY <1>3, <3>1, <3>2
  <2>3. \A t \in Torrents : Live(t)' = Live(t)
    BY <2>2 DEF Live
  <2>4. Mild
    BY <1>1, <2>1, <2>2, <2>3 DEF Mild, PayloadInv, EngineKnown
  <2> QED
    BY <1>1, <2>1, <2>4, EnginePays DEF RightlyLost, LosesPayload
<1>4. ASSUME NEW t \in Torrents, Transfer(t) PROVE PayloadInv' /\ RightlyLost
  <2>1. /\ engine' = engine /\ settled' = settled /\ engine[t] = "active"
        /\ complete' \in {complete, complete \cup {t}}
        /\ payload[t] # "whole"
        /\ payload' \in {[payload EXCEPT ![t] = "part"], [payload EXCEPT ![t] = "whole"]}
    BY <1>4 DEF Transfer, Moving, PayloadInv, EngineKnown
  <2>2. Mild
    BY <1>1, <2>1 DEF Mild, PayloadInv, EngineKnown, Live
  <2>3. RightlyLost
    BY <2>1 DEF RightlyLost, LosesPayload, PayloadInv, EngineKnown
  <2> QED
    BY <1>1, <2>2, <2>3, EnginePays
<1>5. ASSUME NEW t \in Torrents, Seed(t) PROVE PayloadInv' /\ RightlyLost
  <2>1. UNCHANGED <<engine, complete, payload>> /\ settled \subseteq settled'
    BY <1>5 DEF Seed
  <2> QED
    BY <1>1, <2>1, EnginePays DEF Mild, PayloadInv, EngineKnown, Live, RightlyLost, LosesPayload
<1>6. ASSUME NEW n \in JobIds, CleanUp(n) PROVE PayloadInv' /\ RightlyLost
  <2>1. /\ UNCHANGED <<engine, complete, settled>>
        /\ payload' \in [Torrents -> {"none", "part", "whole"}]
    BY <1>6 DEF CleanUp, PayloadInv, EngineKnown
  <2> QED
    BY <1>1, <1>6, <2>1, EnginePays DEF Mild, PayloadInv, EngineKnown, Live, RightlyLost
<1> QED
  BY <1>2, <1>3, <1>4, <1>5, <1>6 DEF PollStep

\* Torrents come back only for jobs that are there, while nobody calls.
LEMMA LifePays ==
    ASSUME IInv, PayloadInv, Mount \/ Mounted \/ Stop \/ \E n \in JobIds : Recover(n)
    PROVE  PayloadInv' /\ RightlyLost
<1>1. CASE Mount \/ Mounted
  <2>1. UNCHANGED <<call, resume>> /\ UNCHANGED moved
    BY <1>1 DEF Mount, Mounted
  <2>2. RecoveryKnown'
    BY <1>1 DEF Mount, Mounted, PayloadInv, RecoveryKnown
  <2> QED
    BY <2>1, <2>2, UnmovedIsMild, MildKeeps
<1>2. CASE Stop
  <2>1. /\ \A t \in Torrents : engine'[t] = "absent"
        /\ engine' \in [Torrents -> {"absent", "held", "paused", "active"}]
        /\ complete' = {} /\ payload' = payload /\ resume' = resume
        /\ client' = "down" /\ \A d \in Clients : call'[d] = Free
    BY <1>2 DEF Stop
  <2>2. EngineKnown' /\ RecoveryKnown' /\ NumbersInOrder' /\ LiveIsOwned' /\ CallsPay'
    BY <2>1, FreeFacts DEF PayloadInv, EngineKnown, RecoveryKnown, NumbersInOrder, LiveIsOwned,
                           CallsPay, CallPays, Live
  <2> QED
    BY <2>1, <2>2 DEF PayloadInv, RightlyLost, LosesPayload
<1>3. ASSUME NEW n \in JobIds, Recover(n) PROVE PayloadInv' /\ RightlyLost
  <2> DEFINE t == TorrentOf[resume.jobs[n]]
  <2>1. /\ UNCHANGED <<call, resume>> /\ client' = client /\ unread' = unread \ {n}
        /\ client = "recovering" /\ resume.jobs[n] # NoJob /\ payload' = payload
        /\ settled' = settled /\ \A d \in Clients : call[d] = Free
    BY <1>3 DEF Recover, PayloadInv, RecoveryKnown, Insert, moved
  <2>2. resume.jobs[n] \in TorrentItems
    BY <2>1 DEF IInv, Documents
  <2>3. t \in Torrents
    BY <2>2, TorrentMarks
  <2>4. /\ engine' \in [Torrents -> {"absent", "held", "paused", "active"}]
        /\ complete' \subseteq Torrents
        /\ \A u \in Torrents : Live(u)' => u = t \/ Live(u)
        /\ \A u \in complete' : Live(u)'
    BY <1>3, <2>3 DEF Recover, Insert, moved, PayloadInv, EngineKnown, Live
  <2>5. RecoveryKnown' /\ NumbersInOrder'
    BY <2>1 DEF PayloadInv, RecoveryKnown, NumbersInOrder
  <2>6. CallsPay'
    BY <2>1, FreeFacts DEF CallsPay, CallPays
  <2>7. LiveIsOwned'
    <3> SUFFICES ASSUME NEW u \in Torrents, Live(u)' PROVE Owned(u)'
      BY DEF LiveIsOwned
    <3>1. u = t \/ Owned(u)
      BY <2>1, <2>4, FreeFacts DEF PayloadInv, LiveIsOwned, Adds
    <3> QED
      BY <2>1, <3>1 DEF Owned
  <2>8. EngineKnown' /\ RightlyLost
    BY <2>1, <2>4 DEF EngineKnown, PayloadInv, RightlyLost, LosesPayload
  <2> QED
    BY <2>5, <2>6, <2>7, <2>8 DEF PayloadInv
<1> QED
  BY <1>1, <1>2, <1>3

\* Steps of a call that leave the engine as it is, or let go of a pause.
LEMMA QuietCallPays ==
    ASSUME IInv, PayloadInv, OwnTorrents, NEW c \in Clients,
           AddLoads(c) \/ AddRefused(c) \/ RemoveDecides(c) \/ Loads(c) \/ Resumes(c)
    PROVE  PayloadInv' /\ RightlyLost
<1>1. /\ client = "up" /\ client' = client /\ unread' = unread /\ resume' = resume
      /\ \A d \in Clients \ {c} : call'[d] = call[d]
  BY DEF AddLoads, AddRefused, RemoveDecides, Loads, Resumes, At, Ends, around, IInv
<1>2. RecoveryKnown'
  BY <1>1 DEF RecoveryKnown
<1>3. CallInv(call[c]) /\ CallPays(call[c]) /\ call[c].at # "none"
  BY HasCall, FreeFacts DEF AddLoads, AddRefused, RemoveDecides, Loads, Resumes, At,
                            PayloadInv, CallsPay
<1>4. Mild /\ RightlyLost
  <2>1. CASE ~Resumes(c)
    BY <1>1, <2>1, UnmovedIsMild DEF AddLoads, AddRefused, RemoveDecides, Loads
  <2>2. CASE Resumes(c)
    <3>1. /\ UNCHANGED <<complete, settled, payload>>
          /\ engine' \in [Torrents -> {"absent", "held", "paused", "active"}]
          /\ \A t \in Torrents : engine'[t] = engine[t]
                              \/ (engine[t] = "paused" /\ engine'[t] = "active")
      BY <2>2 DEF Resumes, PayloadInv, EngineKnown
    <3> QED
      BY <1>1, <3>1 DEF Mild, PayloadInv, EngineKnown, Live, RightlyLost, LosesPayload
  <2> QED
    BY <2>1, <2>2
<1>5. ~Adds(call[c])
  BY <1>3 DEF AddLoads, AddRefused, RemoveDecides, Loads, Resumes, At, CallInv, Adds
<1>6. CASE Ends(c)
  <2>1. call'[c] = Free
    BY <1>6 DEF Ends, IInv
  <2>2. CallPays(call[c])'
    BY <2>1, FreeFacts DEF CallPays
  <2> QED
    BY <1>1, <1>2, <1>4, <1>5, <2>2, MildKeeps
<1>7. CASE AddLoads(c) /\ ~Ends(c)
  <2>1. /\ call[c].op = "add" /\ call[c].item \in TorrentItems /\ ~Present(call[c].item)
        /\ call'[c] = [call[c] EXCEPT !.at = "add", !.doc = resume] /\ engine' = engine
    BY <1>3, <1>7 DEF AddLoads, At, CallInv, IInv, moved
  <2>2. call'[c].at = "add" /\ call'[c].op = "add" /\ call'[c].item = call[c].item
    BY <1>3, <2>1 DEF CallInv, Calls
  <2>3. TorrentOf[call[c].item] \in Torrents
    BY <2>1, TorrentMarks
  <2>4. ~Live(TorrentOf[call[c].item])
    <3> SUFFICES ASSUME Live(TorrentOf[call[c].item]) PROVE FALSE
      OBVIOUS
    <3>1. \A d \in Clients : ~Adds(call[d])
      BY <1>5, <2>1 DEF IInv, OneWriter, Adds, Writers
    <3>2. PICK n \in JobIds : /\ resume.jobs[n] # NoJob
                              /\ TorrentOf[resume.jobs[n]] = TorrentOf[call[c].item]
      BY <2>3, <3>1 DEF PayloadInv, LiveIsOwned, Owned
    <3>3. resume.jobs[n] = call[c].item
      BY <2>1, <3>2 DEF OwnTorrents, IInv, Documents
    <3> QED
      BY <2>1, <3>3 DEF Present
  <2>5. CallPays(call[c])'
    BY <2>1, <2>2, <2>4 DEF CallPays, Live
  <2> QED
    BY <1>1, <1>2, <1>4, <1>5, <2>5, MildKeeps
<1>8. CASE RemoveDecides(c) /\ ~Ends(c)
  <2> DEFINE t == TorrentOf[call[c].item]
             kept == KeepsUnder(resume.rule, t, call[c].keep)
  <2>1. /\ call[c].op = "remove" /\ call'[c] = [call[c] EXCEPT !.at = "drop", !.keep = kept]
        /\ ~RefusedUnder(resume.rule, t, call[c].keep) /\ UNCHANGED moved
    BY <1>3, <1>8 DEF RemoveDecides, At, CallInv, IInv, Hash
  <2> HIDE DEF kept
  <2>2. /\ call'[c].at = "drop" /\ call'[c].op = "remove" /\ call'[c].item = call[c].item
        /\ call'[c].job = call[c].job /\ call'[c].keep = kept
    BY <1>3, <2>1 DEF CallInv, Calls
  <2>3. kept \/ resume.rule = "none" \/ (t \in settled /\ resume.rule = "frees")
    BY <2>1 DEF kept, KeepsUnder, RefusedUnder, IInv, Documents
  <2>4. CallPays(call[c])'
    BY <1>1, <1>3, <2>1, <2>2, <2>3 DEF CallPays, moved
  <2> QED
    BY <1>1, <1>2, <1>4, <1>5, <2>4, MildKeeps
<1>9. CASE Loads(c)
  <2>1. /\ call[c].at = "load" /\ call[c].op # "add" /\ UNCHANGED moved
        /\ call'[c] = [call[c] EXCEPT !.at = "save", !.doc = resume]
    BY <1>9 DEF Loads, At, IInv
  <2>2. /\ call'[c].at = "save" /\ call'[c].op = call[c].op /\ call'[c].item = call[c].item
        /\ call'[c].job = call[c].job
    BY <1>3, <2>1 DEF CallInv, Calls
  <2>3. CallPays(call[c])'
    BY <1>1, <1>3, <2>1, <2>2 DEF CallPays, moved, Live
  <2> QED
    BY <1>1, <1>2, <1>4, <1>5, <2>3, MildKeeps
<1> QED
  BY <1>6, <1>7, <1>8, <1>9 DEF AddRefused, Resumes

\* An add hands its torrent over, or holds it until its size is known.
LEMMA AddTakesPays ==
    ASSUME IInv, PayloadInv, NEW c \in Clients, AddTakes(c)
    PROVE  PayloadInv' /\ RightlyLost
<1> DEFINE t == Hash(c)
<1>1. /\ CallInv(call[c]) /\ CallPays(call[c]) /\ call[c].at = "add" /\ call[c].op = "add"
      /\ client = "up"
  BY HasCall DEF AddTakes, At, CallInv, PayloadInv, CallsPay
<1>2. t \in Torrents /\ ~Live(t) /\ payload[t] = "none"
  BY <1>1, HashKnown DEF Hash, CallPays, AddTakes, Takes
<1>3. PICK at \in {"save", "rollback"} :
         /\ call' = [call EXCEPT ![c].at = at]
         /\ Insert(t, IF at = "save" THEN "active" ELSE "held")
  BY <1>2 DEF AddTakes, Goes
<1>4. /\ resume' = resume /\ client' = client /\ unread' = unread /\ complete' = complete
      /\ settled' = settled /\ payload' = payload
      /\ engine' = [engine EXCEPT ![t] = IF at = "save" THEN "active" ELSE "held"]
  BY <1>2, <1>3 DEF AddTakes, around, Insert
<1>5. /\ \A d \in Clients \ {c} : call'[d] = call[d]
      /\ call'[c].at = at /\ call'[c].op = "add" /\ call'[c].item = call[c].item
  BY <1>1, <1>3 DEF IInv, CallInv, Calls
<1>6. t \notin complete
  BY <1>2 DEF PayloadInv, EngineKnown
<1>7. EngineKnown' /\ \A u \in Torrents : Live(u)' <=> u = t \/ Live(u)
  BY <1>2, <1>4 DEF PayloadInv, EngineKnown, Live
<1>8. RecoveryKnown' /\ NumbersInOrder'
  BY <1>1, <1>4 DEF PayloadInv, RecoveryKnown, NumbersInOrder
<1>9. CallsPay'
  <2>1. CallPays(call[c])'
    BY <1>2, <1>4, <1>5, <1>6 DEF CallPays, Hash, PayloadInv, EngineKnown
  <2>2. ASSUME NEW d \in Clients \ {c} PROVE CallPays(call[d])'
    BY <1>1, <1>5, OthersAreIdle DEF Writers
  <2> QED
    BY <2>1, <2>2 DEF CallsPay
<1>10. LiveIsOwned'
  <2> SUFFICES ASSUME NEW u \in Torrents, Live(u)'
               PROVE  Owned(u)' \/ \E d \in Clients : Adds(call'[d]) /\ TorrentOf[call'[d].item] = u
    BY DEF LiveIsOwned, Hash, Adds
  <2>1. CASE u = t
    BY <1>5, <2>1 DEF Adds, Hash
  <2>2. CASE u # t
    <3>1. \A d \in Clients : ~Adds(call[d])
      BY <1>1 DEF IInv, OneWriter, Adds, Writers
    <3> QED
      BY <1>4, <1>7, <2>2, <3>1 DEF PayloadInv, LiveIsOwned, Owned
  <2> QED
    BY <2>1, <2>2
<1> QED
  BY <1>4, <1>7, <1>8, <1>9, <1>10 DEF PayloadInv, RightlyLost, LosesPayload

\* A writer lets a torrent go: it is no other call's, and no add's from now on.
LEMMA LetsGo ==
    ASSUME IInv, PayloadInv, NEW c \in Clients, NEW t \in Torrents, NEW keep \in BOOLEAN,
           call[c].op \in Writers, client = "up", Discard(t, keep), UNCHANGED <<resume, around>>,
           \A d \in Clients \ {c} : call'[d] = call[d],
           CallPays(call[c])', Adds(call[c]) => Hash(c) = t
    PROVE  PayloadInv'
<1>1. EngineKnown' /\ \A u \in Torrents : Live(u)' <=> u # t /\ Live(u)
  BY DEF Discard, PayloadInv, EngineKnown, Live
<1>2. RecoveryKnown' /\ NumbersInOrder'
  BY DEF around, PayloadInv, RecoveryKnown, NumbersInOrder
<1>3. CallsPay'
  BY OthersAreIdle DEF CallsPay
<1>4. LiveIsOwned'
  <2> SUFFICES ASSUME NEW u \in Torrents, Live(u)' PROVE Owned(u)'
    BY DEF LiveIsOwned
  <2>1. u # t /\ Live(u)
    BY <1>1
  <2>2. \A d \in Clients \ {c} : ~Adds(call[d])
    BY OthersAreIdle
  <2>3. Owned(u)
    BY <2>1, <2>2 DEF PayloadInv, LiveIsOwned
  <2> QED
    BY <2>3 DEF Owned
<1> QED
  BY <1>1, <1>2, <1>3, <1>4 DEF PayloadInv

\* What an add rolls back has never moved.
LEMMA AddRollsBackPays ==
    ASSUME IInv, PayloadInv, NEW c \in Clients, AddRollsBack(c)
    PROVE  PayloadInv' /\ RightlyLost
<1> DEFINE t == Hash(c)
<1>1. /\ CallInv(call[c]) /\ CallPays(call[c]) /\ call[c].at = "rollback" /\ call[c].op = "add"
      /\ client = "up"
  BY HasCall DEF AddRollsBack, At, CallInv, PayloadInv, CallsPay
<1>2. t \in Torrents /\ Live(t) /\ t \notin complete
  BY <1>1, HashKnown DEF Hash, CallPays, Live
<1>3. /\ Discard(t, FALSE) /\ UNCHANGED <<resume, around>> /\ call'[c] = Free
      /\ \A d \in Clients \ {c} : call'[d] = call[d]
  BY <1>2 DEF AddRollsBack, Ends, IInv
<1>4. CallPays(call[c])' /\ call[c].op \in Writers
  BY <1>1, <1>3, FreeFacts DEF CallPays, Writers
<1>5. PayloadInv'
  BY <1>1, <1>2, <1>3, <1>4, LetsGo
<1>6. RightlyLost
  BY <1>2, <1>3 DEF Discard, RightlyLost, LosesPayload, PayloadInv, EngineKnown
<1> QED
  BY <1>5, <1>6

\* A removal deletes what has satisfied its rule.
LEMMA RemoveDropsPays ==
    ASSUME IInv, PayloadInv, NEW c \in Clients, RemoveDrops(c)
    PROVE  PayloadInv' /\ RightlyLost
<1> DEFINE t == Hash(c)
<1>1. /\ CallInv(call[c]) /\ CallPays(call[c]) /\ call[c].at = "drop" /\ call[c].op = "remove"
      /\ client = "up" /\ UNCHANGED <<resume, around>>
  BY HasCall DEF RemoveDrops, At, CallInv, PayloadInv, CallsPay
<1>2. t \in Torrents /\ call[c].keep \in BOOLEAN /\ call[c].op \in Writers
  BY <1>1, HashKnown DEF Hash, CallPays, CallInv, Calls, Writers
<1>3. CASE Live(t)
  <2>1. /\ Discard(t, call[c].keep) /\ call'[c] = [call[c] EXCEPT !.at = "load"]
        /\ \A d \in Clients \ {c} : call'[d] = call[d]
    BY <1>3 DEF RemoveDrops, Goes, IInv
  <2>2. /\ call'[c].at = "load" /\ call'[c].op = "remove" /\ call'[c].item = call[c].item
        /\ call'[c].job = call[c].job
    BY <1>1, <2>1 DEF CallInv, Calls
  <2>3. engine'[t] = "absent"
    BY <1>2, <2>1 DEF Discard, PayloadInv, EngineKnown
  <2>4. CallPays(call[c])' /\ ~Adds(call[c])
    BY <1>1, <2>2, <2>3 DEF CallPays, Live, Hash, Adds
  <2>5. PayloadInv'
    BY <1>1, <1>2, <2>1, <2>4, LetsGo
  <2>6. RightlyLost
    BY <1>1, <1>2, <2>1 DEF Discard, RightlyLost, LosesPayload, PayloadInv, EngineKnown, CallPays,
                            Hash
  <2> QED
    BY <2>5, <2>6
<1>4. CASE ~Live(t)
  <2>1. UNCHANGED moved /\ call'[c] = Free /\ \A d \in Clients \ {c} : call'[d] = call[d]
    BY <1>4 DEF RemoveDrops, Ends, IInv
  <2>2. CallPays(call[c])' /\ ~Adds(call[c]) /\ RecoveryKnown'
    BY <1>1, <2>1, FreeFacts DEF CallPays, Adds, RecoveryKnown, around
  <2> QED
    BY <1>1, <2>1, <2>2, UnmovedIsMild, MildKeeps
<1> QED
  BY <1>3, <1>4

\* A save gives the torrent of an add to its job and takes only what is gone.
LEMMA SavesPays ==
    ASSUME IInv, PayloadInv, NEW c \in Clients, Saves(c)
    PROVE  PayloadInv' /\ RightlyLost
<1>1. /\ CallInv(call[c]) /\ CallPays(call[c]) /\ call[c].at = "save" /\ call[c].op \in Writers
      /\ client = "up" /\ UNCHANGED <<moved, around>> /\ resume' = Written(call[c])
  BY HasCall DEF Saves, At, CallInv, PayloadInv, CallsPay
<1>2. /\ \A d \in Clients \ {c} : call'[d] = call[d]
      /\ call'[c].at \in {"none", "resume"} /\ call'[c].op \in {"none", "retry"}
  BY <1>1 DEF Saves, Goes, Ends, Free, IInv, CallInv, Calls
<1>3. CallsPay'
  <2>1. CallPays(call[c])'
    BY <1>2 DEF CallPays
  <2> QED
    BY <1>1, <1>2, <2>1, OthersAreIdle DEF CallsPay
<1>4. resume \in Documents /\ resume.seq \in Nat /\ JobIds \subseteq Nat
  BY DEF IInv, Documents, JobIds
<1>5. RecoveryKnown' /\ EngineKnown' /\ RightlyLost /\ \A t \in Torrents : Live(t)' = Live(t)
  BY <1>1 DEF around, moved, RecoveryKnown, PayloadInv, EngineKnown, Live, RightlyLost,
              LosesPayload
<1>6. \A d \in Clients \ {c} : ~Adds(call[d])
  BY <1>1, <1>2, OthersAreIdle
<1>7. CASE call[c].op = "add"
  <2> DEFINE n == resume.seq + 1
  <2>1. /\ n \in JobIds /\ resume'.seq = n /\ call[c].item \in TorrentItems
        /\ resume'.jobs = [resume.jobs EXCEPT ![n] = call[c].item]
    BY <1>1, <1>4, <1>7, WrittenFacts DEF CallInv
  <2>2. resume.jobs[n] = NoJob
    BY <1>4, <2>1 DEF PayloadInv, NumbersInOrder
  <2>3. /\ resume'.jobs[n] = call[c].item /\ call[c].item # NoJob
        /\ \A m \in JobIds \ {n} : resume'.jobs[m] = resume.jobs[m]
    BY <1>4, <2>1, TorrentMarks DEF Documents
  <2>4. NumbersInOrder'
    BY <1>4, <2>1, <2>3 DEF PayloadInv, NumbersInOrder
  <2>5. LiveIsOwned'
    <3> SUFFICES ASSUME NEW t \in Torrents, Live(t)' PROVE Owned(t)'
      BY DEF LiveIsOwned
    <3>1. Owned(t) \/ t = Hash(c)
      BY <1>5, <1>6 DEF PayloadInv, LiveIsOwned
    <3> QED
      BY <2>1, <2>2, <2>3, <3>1 DEF Owned, Hash
  <2> QED
    BY <1>3, <1>5, <2>4, <2>5 DEF PayloadInv
<1>8. CASE call[c].op # "add"
  <2>1. /\ resume'.seq = resume.seq
        /\ \A m \in JobIds : \/ resume'.jobs[m] = resume.jobs[m]
                             \/ /\ call[c].op = "remove" /\ m = call[c].job
                                /\ resume'.jobs[m] = NoJob
    <3>1. CASE call[c].op = "remove"
      <4>1. /\ resume'.seq = resume.seq /\ resume'.jobs = [resume.jobs EXCEPT ![call[c].job] = NoJob]
        BY <1>1, <1>4, <3>1, WrittenFacts
      <4>2. resume.jobs \in [JobIds -> TorrentItems \cup {NoJob}]
        BY <1>4 DEF Documents
      <4> QED
        BY <3>1, <4>1, <4>2
    <3>2. CASE call[c].op # "remove"
      BY <1>1, <1>4, <1>8, <3>2, WrittenFacts
    <3> QED
      BY <3>1, <3>2
  <2>2. NumbersInOrder'
    BY <2>1 DEF PayloadInv, NumbersInOrder
  <2>3. LiveIsOwned'
    <3> SUFFICES ASSUME NEW t \in Torrents, Live(t)' PROVE Owned(t)'
      BY DEF LiveIsOwned
    <3>1. PICK m \in JobIds : resume.jobs[m] # NoJob /\ TorrentOf[resume.jobs[m]] = t
      BY <1>5, <1>6, <1>8 DEF PayloadInv, LiveIsOwned, Adds, Owned
    <3>2. resume'.jobs[m] = resume.jobs[m]
      BY <1>1, <1>5, <2>1, <3>1 DEF CallPays
    <3> QED
      BY <3>1, <3>2 DEF Owned
  <2> QED
    BY <1>3, <1>5, <2>2, <2>3 DEF PayloadInv
<1> QED
  BY <1>7, <1>8

LEMMA PayloadSteps ==
    ASSUME OwnTorrents, IInv, PayloadInv, [TorrentNext]_torrentVars
    PROVE  PayloadInv' /\ RightlyLost
<1>1. CASE UNCHANGED torrentVars
  <2>1. UNCHANGED <<call, resume>> /\ UNCHANGED moved /\ client' = client /\ unread' = unread
    BY <1>1 DEF torrentVars, around
  <2> QED
    BY <2>1, UnmovedIsMild, EnginePays
<1>2. ASSUME NEW c \in Clients, Proceeds(c) PROVE PayloadInv' /\ RightlyLost
  BY <1>2, QuietCallPays, AddTakesPays, AddRollsBackPays, RemoveDropsPays, SavesPays DEF Proceeds
<1> QED
  BY <1>1, <1>2, LifePays, WorldPays, AsksPays DEF TorrentNext

\* While writers do not meet and no two items stand for one torrent, what a
\* download finished stays on the disk until its tracker's rule has passed or
\* the operator cleans it up: no add rolls back, and no removal deletes, the
\* files of another job, across stops and recoveries, for any number of them.
THEOREM FinishedPayloadIsKept ==
    ~WritersMeet /\ OwnTorrents => (TorrentSpec => PayloadKept)
<1> SUFFICES ASSUME ~WritersMeet, OwnTorrents PROVE TorrentSpec => PayloadKept
  OBVIOUS
<1>1. TorrentSpec => []IInv
  BY CopiesAreCurrent
<1>2. IInv /\ PayloadInv /\ [TorrentNext]_torrentVars => PayloadInv' /\ RightlyLost
  BY PayloadSteps
<1> QED
  BY <1>1, <1>2, PayloadStarts, PTL DEF TorrentSpec, PayloadKept

------------------------------------------------------------------------------
(* The types of the torrent client *)

EngineTyped ==
    /\ engine \in [Torrents -> {"absent", "held", "paused", "active"}]
    /\ payload \in [Torrents -> {"none", "part", "whole"}]
    /\ settled \subseteq complete /\ complete \subseteq {t \in Torrents : Live(t)}
AroundTyped ==
    /\ gate \in BOOLEAN /\ client \in {"down", "recovering", "up"}
    /\ unread \subseteq JobIds /\ poll \subseteq Torrents /\ stops \in 0 .. MaxStops
TorrentTyped == EngineTyped /\ AroundTyped /\ RecoveryKnown

LEMMA TypedStarts == TorrentInit => TorrentTyped
BY TorrentBounds DEF TorrentInit, TorrentTyped, EngineTyped, AroundTyped, RecoveryKnown, Live

\* What comes in was not there, what goes out is forgotten.
LEMMA InsertTyped ==
    ASSUME EngineTyped, NEW t \in Torrents, NEW mode \in {"held", "active"}, Insert(t, mode)
    PROVE  EngineTyped'
<1>1. /\ engine' = [engine EXCEPT ![t] = mode] /\ engine' \in [Torrents -> {"absent", "held", "paused", "active"}]
      /\ settled' = settled /\ payload' = payload /\ complete' \in {complete, complete \cup {t}}
  BY DEF Insert, EngineTyped
<1>2. \A u \in Torrents : Live(u) \/ u = t => Live(u)'
  BY <1>1 DEF Live, EngineTyped
<1> QED
  BY <1>1, <1>2 DEF EngineTyped

LEMMA DiscardTyped ==
    ASSUME EngineTyped, NEW t, NEW keep, Discard(t, keep)
    PROVE  EngineTyped'
<1>1. /\ engine' = [engine EXCEPT ![t] = "absent"]
      /\ engine' \in [Torrents -> {"absent", "held", "paused", "active"}]
      /\ settled' = settled \ {t} /\ complete' = complete \ {t}
      /\ payload' \in [Torrents -> {"none", "part", "whole"}]
  BY DEF Discard, EngineTyped
<1>2. \A u \in Torrents : Live(u) /\ u # t => Live(u)'
  BY <1>1 DEF Live, EngineTyped
<1> QED
  BY <1>1, <1>2 DEF EngineTyped

\* The engine changes the modes of what is there and finishes what moves.
LEMMA StaysTyped ==
    ASSUME EngineTyped, engine' \in [Torrents -> {"absent", "held", "paused", "active"}],
           payload' \in [Torrents -> {"none", "part", "whole"}],
           \A t \in Torrents : Live(t) => Live(t)',
           settled' \subseteq complete', complete' \subseteq {t \in Torrents : Live(t)}
    PROVE  EngineTyped'
BY DEF EngineTyped

LEMMA UnmovedTyped == ASSUME EngineTyped, UNCHANGED moved PROVE EngineTyped'
BY DEF EngineTyped, Live, moved

LEMMA WorldTyped ==
    ASSUME TorrentTyped,
           \/ \E t \in Torrents : Transfer(t) \/ Seed(t)
           \/ TunnelTurns \/ PollStep
           \/ \E n \in JobIds : Pause(n) \/ CleanUp(n)
    PROVE  TorrentTyped'
<1>1. RecoveryKnown' /\ AroundTyped'
  <2>1. UNCHANGED <<resume, call, client, unread, stops>> /\ gate' \in BOOLEAN /\ poll' \subseteq Torrents
    BY DEF TorrentTyped, AroundTyped, Transfer, Seed, TunnelTurns, PollStep, PollLists, PollAsks, Pause,
       CleanUp, around, Transferring
  <2> QED
    BY <2>1 DEF TorrentTyped, AroundTyped, RecoveryKnown
<1>2. ASSUME NEW t \in Torrents, Transfer(t) PROVE EngineTyped'
  <2>1. /\ engine' = engine /\ settled' = settled /\ Live(t)
        /\ payload' \in [Torrents -> {"none", "part", "whole"}]
        /\ complete' \in {complete, complete \cup {t}}
    BY <1>2 DEF Transfer, Moving, Live, TorrentTyped, EngineTyped
  <2> QED
    BY <2>1, StaysTyped DEF TorrentTyped, EngineTyped, Live
<1>3. ASSUME NEW t \in Torrents, Seed(t) PROVE EngineTyped'
  BY <1>3, StaysTyped DEF Seed, TorrentTyped, EngineTyped, Live
<1>4. CASE TunnelTurns \/ PollLists
  BY <1>1, <1>4, UnmovedTyped DEF TunnelTurns, PollLists, TorrentTyped
<1>5. CASE PollAsks
  <2>1. /\ engine' \in [Torrents -> {"absent", "held", "paused", "active"}]
        /\ \A t \in Torrents : Live(t) => Live(t)'
        /\ UNCHANGED <<settled, complete, payload>>
    BY <1>5 DEF PollAsks, Live, TorrentTyped, EngineTyped
  <2> QED
    BY <1>1, <2>1, StaysTyped DEF TorrentTyped, EngineTyped
<1>6. ASSUME NEW n \in JobIds, Pause(n) PROVE EngineTyped'
  <2>1. /\ engine' \in [Torrents -> {"absent", "held", "paused", "active"}]
        /\ \A t \in Torrents : Live(t) => Live(t)'
        /\ UNCHANGED <<settled, complete, payload>>
    BY <1>6 DEF Pause, Live, TorrentTyped, EngineTyped
  <2> QED
    BY <2>1, StaysTyped DEF TorrentTyped, EngineTyped
<1>7. ASSUME NEW n \in JobIds, CleanUp(n) PROVE EngineTyped'
  BY <1>7, StaysTyped DEF CleanUp, TorrentTyped, EngineTyped, Live
<1> QED
  BY <1>1, <1>2, <1>3, <1>4, <1>5, <1>6, <1>7 DEF TorrentTyped, PollStep

\* Recovery takes up the jobs that the document has, and nobody else is at work
\* before it is over.
LEMMA LifeTyped ==
    ASSUME IInv, TorrentTyped,
           Mount \/ Mounted \/ Stop \/ \E n \in JobIds : Recover(n)
    PROVE  TorrentTyped'
<1>1. CASE Mount \/ Mounted
  <2>1. UNCHANGED <<resume, call, gate, poll, stops>> /\ UNCHANGED moved
    BY <1>1 DEF Mount, Mounted
  <2>2. AroundTyped' /\ RecoveryKnown'
    BY <1>1, <2>1 DEF Mount, Mounted, TorrentTyped, AroundTyped, RecoveryKnown
  <2> QED
    BY <2>1, <2>2, UnmovedTyped DEF TorrentTyped
<1>2. CASE Stop
  BY <1>2, TorrentBounds DEF Stop, TorrentTyped, EngineTyped, AroundTyped, RecoveryKnown, Live
<1>3. ASSUME NEW n \in JobIds, Recover(n) PROVE TorrentTyped'
  <2>1. AroundTyped' /\ RecoveryKnown'
    BY <1>3 DEF Recover, TorrentTyped, AroundTyped, RecoveryKnown
  <2>2. TorrentOf[resume.jobs[n]] \in Torrents
    BY <1>3, TorrentMarks DEF Recover, TorrentTyped, RecoveryKnown, IInv, Documents
  <2>3. EngineTyped'
    BY <1>3, <2>2, InsertTyped, UnmovedTyped DEF Recover, TorrentTyped
  <2> QED
    BY <2>1, <2>3 DEF TorrentTyped
<1> QED
  BY <1>1, <1>2, <1>3

LEMMA CallsTyped ==
    ASSUME IInv, TorrentTyped, NEW c \in Clients, Asks(c) \/ Proceeds(c)
    PROVE  TorrentTyped'
<1>1. UNCHANGED around /\ client = "up"
  BY DEF Asks, AddAsks, RuleAsks, RemoveAsks, RetryAsks, RewriteAsks, ResumeAsks, Begin, Proceeds,
     AddLoads, AddRefused, AddTakes, AddRollsBack, RemoveDecides, RemoveDrops, Loads, Saves, Resumes, At
<1>2. AroundTyped' /\ RecoveryKnown'
  BY <1>1 DEF around, TorrentTyped, AroundTyped, RecoveryKnown
<1>3. CASE Asks(c)
  BY <1>2, <1>3, UnmovedTyped DEF Asks, AddAsks, RuleAsks, RemoveAsks, RetryAsks, RewriteAsks, ResumeAsks,
     Begin, TorrentTyped
<1>4. CASE \/ AddLoads(c) \/ AddRefused(c) \/ RemoveDecides(c) \/ Loads(c) \/ Saves(c)
  BY <1>2, <1>4, UnmovedTyped DEF AddLoads, AddRefused, RemoveDecides, Loads, Saves, TorrentTyped
<1>5. CASE AddTakes(c)
  <2>1. CallInv(call[c]) /\ call[c].at = "add"
    BY <1>5, HasCall DEF AddTakes
  <2>2. Hash(c) \in Torrents
    BY <2>1, HashKnown DEF Hash
  <2> QED
    BY <1>2, <1>5, <2>2, InsertTyped, UnmovedTyped DEF AddTakes, TorrentTyped
<1>6. CASE AddRollsBack(c) \/ RemoveDrops(c)
  BY <1>2, <1>6, DiscardTyped, UnmovedTyped DEF AddRollsBack, RemoveDrops, TorrentTyped
<1>7. CASE Resumes(c)
  <2>1. /\ engine' \in [Torrents -> {"absent", "held", "paused", "active"}]
        /\ \A t \in Torrents : Live(t) => Live(t)'
        /\ UNCHANGED <<settled, complete, payload>>
    BY <1>7 DEF Resumes, Live, TorrentTyped, EngineTyped
  <2> QED
    BY <1>2, <2>1, StaysTyped DEF TorrentTyped, EngineTyped
<1> QED
  BY <1>3, <1>4, <1>5, <1>6, <1>7 DEF Proceeds

LEMMA TypedSteps ==
    IInv /\ TorrentTyped /\ [TorrentNext]_torrentVars => TorrentTyped'
<1> SUFFICES ASSUME IInv, TorrentTyped, [TorrentNext]_torrentVars PROVE TorrentTyped'
  OBVIOUS
<1>1. CASE UNCHANGED torrentVars
  BY <1>1 DEF torrentVars, moved, around, TorrentTyped, EngineTyped, AroundTyped, RecoveryKnown, Live
<1> QED
  BY <1>1, WorldTyped, LifeTyped, CallsTyped DEF TorrentNext

\* While writers do not meet, whatever the stops and recoveries, every call
\* carries a document, and the engine reports as done, and as satisfied, only
\* what it holds.
THEOREM TorrentTypes == ~WritersMeet => (TorrentSpec => []TorrentTypeOK)
<1> SUFFICES ASSUME ~WritersMeet PROVE TorrentSpec => []TorrentTypeOK
  OBVIOUS
<1>1. TorrentSpec => []IInv
  BY CopiesAreCurrent
<1>2. IInv /\ TorrentTyped => TorrentTypeOK
  <2> SUFFICES ASSUME IInv, TorrentTyped PROVE TorrentTypeOK
    OBVIOUS
  <2>1. \A c \in Clients : call[c] = Free \/ call[c].doc \in Documents
    BY DEF IInv, CallInv, Calls
  <2> QED
    BY <2>1 DEF IInv, TorrentTyped, EngineTyped, AroundTyped, TorrentTypeOK, Live
<1> QED
  BY <1>1, <1>2, TypedStarts, TypedSteps, PTL DEF TorrentSpec

------------------------------------------------------------------------------
(* WantedSearch: what an automatic grab is chosen from *)

\* A profile ranks with natural numbers, so among any qualities one ranks best.
LEMMA RanksAreNatural == ASSUME NEW p \in Profiles, NEW q PROVE Rank(p, q) \in Nat
BY ProfilesRank DEF Rank

Lower == {ss \in Nat \X Nat : ss[1] < ss[2]}
LEMMA LowerIsWellFounded == IsWellFoundedOn(Lower, Nat)
<1>1. Lower = OpToRel(<, Nat)
  BY Zenon DEF OpToRel, Lower
<1> QED
  BY <1>1, NatLessThanWellFounded, Zenon

LEMMA BestIsOneOfThem ==
    ASSUME NEW p \in Profiles, NEW qs, qs # {}
    PROVE  Best(p, qs) \in qs
<1> DEFINE ranks == {Rank(p, q) : q \in qs}
<1>1. ranks \subseteq Nat /\ ranks # {}
  BY RanksAreNatural
<1>2. PICK least \in ranks : \A r \in ranks : <<r, least>> \notin Lower
  <2> HIDE DEF ranks
  <2>1. \E x \in ranks : \A y \in ranks : ~ (<<y, x>> \in Lower)
    BY <1>1, LowerIsWellFounded, WFMin, Zenon
  <2> QED
    BY <2>1
<1>3. \A r \in ranks : least <= r
  <2> SUFFICES ASSUME NEW r \in ranks PROVE least <= r
    OBVIOUS
  <2>1. r \in Nat /\ least \in Nat /\ <<r, least>> \notin Lower
    BY <1>1, <1>2
  <2>2. ~(r < least)
    BY <2>1 DEF Lower
  <2> QED
    BY <2>1, <2>2
<1>4. PICK q \in qs : Rank(p, q) = least
  OBVIOUS
<1>5. \A r \in qs : Rank(p, q) <= Rank(p, r)
  BY <1>3, <1>4
<1> QED
  BY <1>5 DEF Best

\* What a search has read of the profile is one of the profiles.
WalkKnown ==
    /\ profile \in Profiles /\ DOMAIN grabbed = Wantable
    /\ search # Resting =>
          /\ DOMAIN search = {"job", "at", "left", "last", "read", "active"}
          /\ search.at = "offers" => search.read.profile \in Profiles

LEMMA WalkStarts == WantedInit => WalkKnown
BY DEF WantedInit, WalkKnown

\* The search decides by what it has read: of the offers that improve it, the best.
LEMMA DecisionClimbs == ASSUME WalkKnown, Decides PROVE ClimbsNow
<1> SUFFICES ASSUME NEW t \in Wantable, Current = t, search.read.had = installed[t], t \in Copies,
                    grabbed'[t] # grabbed[t]
             PROVE  installed[t] # Unknown /\ grabbed'[t].quality > installed[t]
  BY DEF ClimbsNow
<1> DEFINE p == search.read.profile
           had == search.read.had
<1>1. p \in Profiles
  BY DEF Decides, SearchAt, WalkKnown
<1>2. PICK offers \in SUBSET Qualities :
         grabbed' = IF Eligible(p, had, offers) = {} \/ Current \in Active THEN grabbed
                    ELSE [grabbed EXCEPT ![Current] =
                            [quality |-> Best(p, Eligible(p, had, offers)), placed |-> FALSE]]
  BY DEF Decides
<1> DEFINE good == Eligible(p, had, offers)
<1>3. good # {} /\ grabbed'[t].quality = Best(p, good)
  BY <1>2 DEF WalkKnown
<1>4. Best(p, good) \in good
  BY <1>1, <1>3, BestIsOneOfThem
<1>5. had # NoCopy
  BY DEF Copies
<1>6. IsUpgrade(p, had, Best(p, good))
  BY <1>4, <1>5 DEF Eligible
<1> QED
  BY <1>3, <1>6 DEF IsUpgrade

LEMMA WalkSteps == WalkKnown /\ [WantedNext]_searchVars => WalkKnown' /\ ClimbsNow
<1> SUFFICES ASSUME WalkKnown, [WantedNext]_searchVars PROVE WalkKnown' /\ ClimbsNow
  OBVIOUS
<1>1. ASSUME search' = search \/ grabbed' = grabbed PROVE ClimbsNow
  BY <1>1 DEF ClimbsNow
<1>2. CASE UNCHANGED searchVars
  BY <1>1, <1>2 DEF searchVars, WalkKnown
<1>3. CASE WantedStarts \/ UpgradeStarts
  <2>1. /\ profile' = profile /\ grabbed' = grabbed
        /\ DOMAIN search' = {"job", "at", "left", "last", "read", "active"} /\ search'.at = "next"
    BY <1>3 DEF WantedStarts, UpgradeStarts, Walk, outside
  <2> QED
    BY <1>1, <2>1 DEF WalkKnown
<1>4. ASSUME PassesOn, search # Resting, profile' = profile, DOMAIN grabbed' = Wantable
      PROVE  WalkKnown'
  BY <1>4 DEF PassesOn, WalkKnown
<1>5. CASE Skips \/ SearchFails
  BY <1>1, <1>4, <1>5 DEF Skips, SearchFails, SearchAt, outside, WalkKnown
<1>6. CASE Decides
  <2>1. DOMAIN grabbed' = Wantable
    BY <1>6 DEF Decides, WalkKnown
  <2> QED
    BY <1>4, <1>6, <2>1, DecisionClimbs DEF Decides, SearchAt, outside
<1>7. CASE Looks
  <2>1. /\ profile' = profile /\ grabbed' = grabbed /\ search # Resting
        /\ search' = [search EXCEPT !.at = "offers",
                                    !.read = [had |-> installed[Current], profile |-> profile]]
    BY <1>7 DEF Looks, SearchAt, outside
  <2> QED
    BY <1>1, <2>1 DEF WalkKnown
<1>8. CASE SearchEnds \/ SearchStops
  BY <1>1, <1>8 DEF SearchEnds, SearchStops, outside, WalkKnown
<1>9. CASE ProfileEdited
  BY <1>1, <1>9 DEF ProfileEdited, WalkKnown
<1>10. ASSUME NEW t \in Wantable,
              \/ Imports(t) \/ Settles(t) \/ GrabLost(t)
              \/ TitleEdited(t) \/ GrabbedByHand(t) \/ FileChanges(t)
       PROVE  WalkKnown' /\ ClimbsNow
  <2>1. search' = search /\ profile' = profile /\ DOMAIN grabbed' = DOMAIN grabbed
    BY <1>10 DEF Imports, Settles, GrabLost, TitleEdited, GrabbedByHand, FileChanges, outside
  <2> QED
    BY <1>1, <2>1 DEF WalkKnown
<1> QED
  BY <1>2, <1>3, <1>5, <1>6, <1>7, <1>8, <1>9, <1>10 DEF WantedNext, SearchStep

\* An automatic grab over an installed file is of a known and lower resolution
\* than the release, whatever order the profiles rank in, and whatever is
\* edited, imported, lost or stopped while the indexers answer.
THEOREM GrabsClimb == WantedSpec => Climbs
<1> QED
  BY WalkStarts, WalkSteps, PTL DEF WantedSpec, Climbs

------------------------------------------------------------------------------
(* WantedSearch: the batches and the types *)

Increasing(s) == \A i, j \in DOMAIN s : i < j => s[i] < s[j]

\* Titles can be put in order: the last of them goes behind the others.
LEMMA LastAndOthers ==
    ASSUME NEW titles \in SUBSET Wantable, titles # {}
    PROVE  \E t \in titles : \A u \in titles : u <= t
<1> DEFINE gaps == {TitleCount - t : t \in titles}
<1>1. \A t \in titles : t \in Nat /\ TitleCount - t \in Nat
  BY BatchHolds DEF Wantable
<1>2. gaps \subseteq Nat /\ gaps # {}
  BY <1>1
<1>3. PICK least \in gaps : \A g \in gaps : <<g, least>> \notin Lower
  <2> HIDE DEF gaps
  <2>1. \E x \in gaps : \A y \in gaps : ~ (<<y, x>> \in Lower)
    BY <1>2, LowerIsWellFounded, WFMin, Zenon
  <2> QED BY <2>1
<1>4. \A g \in gaps : least <= g
  <2> SUFFICES ASSUME NEW g \in gaps PROVE least <= g
    OBVIOUS
  <2>1. g \in Nat /\ least \in Nat /\ <<g, least>> \notin Lower
    BY <1>2, <1>3
  <2>2. ~(g < least)
    BY <2>1 DEF Lower
  <2> QED BY <2>1, <2>2
<1>5. PICK t \in titles : TitleCount - t = least
  OBVIOUS
<1>6. \A u \in titles : u <= t
  <2> SUFFICES ASSUME NEW u \in titles PROVE u <= t
    OBVIOUS
  <2>1. TitleCount - t <= TitleCount - u
    BY <1>4, <1>5
  <2> QED BY <1>1, <2>1, BatchHolds
<1> QED BY <1>6

LEMMA OrderExists ==
    ASSUME NEW titles \in SUBSET Wantable
    PROVE  \E s \in [1 .. Cardinality(titles) -> titles] : Increasing(s)
<1> DEFINE Orders(ts) == \E s \in [1 .. Cardinality(ts) -> ts] : Increasing(s)
           sizes == {n \in Nat : \E ts \in SUBSET Wantable : Cardinality(ts) = n /\ ~Orders(ts)}
<1>1. \A ts \in SUBSET Wantable : IsFiniteSet(ts) /\ Cardinality(ts) \in Nat
  <2>1. IsFiniteSet(Wantable)
    BY FS_Interval, BatchHolds DEF Wantable
  <2> QED BY <2>1, FS_Subset, FS_CardinalityType
<1>2. SUFFICES sizes = {}
  BY <1>1
<1>3. SUFFICES ASSUME sizes # {} PROVE FALSE
  OBVIOUS
<1>4. PICK n \in sizes : \A m \in sizes : <<m, n>> \notin Lower
  <2> HIDE DEF sizes
  <2>1. sizes \subseteq Nat
    BY DEF sizes
  <2>2. \E x \in sizes : \A y \in sizes : ~ (<<y, x>> \in Lower)
    BY <1>3, <2>1, LowerIsWellFounded, WFMin, Zenon
  <2> QED BY <2>2
<1>5. PICK ts \in SUBSET Wantable : Cardinality(ts) = n /\ ~Orders(ts)
  OBVIOUS
<1>6. CASE ts = {}
  <2>1. n = 0
    BY <1>5, <1>6, FS_EmptySet
  <2>2. 1 .. Cardinality(ts) = {}
    BY <1>5, <2>1
  <2>3. [i \in {} |-> 0] \in [1 .. Cardinality(ts) -> ts] /\ Increasing([i \in {} |-> 0])
    BY <2>2 DEF Increasing
  <2> QED BY <1>5, <2>3
<1>7. CASE ts # {}
  <2>1. PICK last \in ts : \A u \in ts : u <= last
    BY <1>7, LastAndOthers
  <2> DEFINE others == ts \ {last}
  <2>2. n \in Nat /\ n > 0 /\ Cardinality(others) = n - 1 /\ others \in SUBSET Wantable
    <3>1. Cardinality(others) = Cardinality(ts) - 1 /\ Cardinality(others) \in Nat
      BY <1>1, FS_RemoveElement
    <3> QED BY <1>5, <3>1
  <2>3. Orders(others)
    <3>1. n - 1 \notin sizes
      <4> HIDE DEF sizes, Orders
      <4>1. n - 1 \in Nat /\ <<n - 1, n>> \in Lower
        BY <2>2 DEF Lower
      <4> QED BY <1>4, <4>1
    <3> HIDE DEF Orders, others
    <3> QED BY <2>2, <3>1
  <2>4. PICK s \in [1 .. n - 1 -> others] : Increasing(s)
    BY <2>2, <2>3
  <2> DEFINE new == [i \in 1 .. n |-> IF i = n THEN last ELSE s[i]]
  <2>5. \A i \in 1 .. n : i = n \/ i \in 1 .. n - 1
    BY <2>2
  <2>6. new \in [1 .. n -> ts]
    BY <2>4, <2>5
  <2>7. ASSUME NEW i \in 1 .. n, NEW j \in 1 .. n, i < j PROVE new[i] < new[j]
    <3>1. i \in 1 .. n - 1 /\ s[i] \in others /\ new[i] = s[i]
      BY <2>2, <2>4, <2>7
    <3>2. CASE j = n
      <4>1. s[i] \in ts /\ s[i] # last /\ new[j] = last
        BY <3>1, <3>2
      <4>2. s[i] \in Wantable /\ last \in Wantable /\ s[i] <= last
        BY <2>1, <4>1
      <4>3. s[i] < last
        BY <4>1, <4>2 DEF Wantable
      <4> QED BY <3>1, <4>1, <4>3
    <3>3. CASE j # n
      <4>1. j \in 1 .. n - 1 /\ new[j] = s[j]
        BY <2>5, <3>3
      <4> QED BY <2>4, <2>7, <3>1, <4>1 DEF Increasing
    <3> QED BY <3>2, <3>3
  <2>8. Increasing(new)
    BY <2>7 DEF Increasing
  <2> QED BY <1>5, <2>6, <2>8
<1> QED BY <1>6, <1>7

\* A batch that has a title to begin with is a sequence of titles, not too long.
LEMMA BatchIs ==
    ASSUME NEW all \in SUBSET Wantable, NEW from, Onward(all, from) # {}
    PROVE  LET batch == Batch(all, from)
           IN  /\ batch \in Seq(Wantable) /\ Len(batch) \in 1 .. BatchSize
               /\ Seqs!Last(batch) \in Wantable
<1> DEFINE onward == Onward(all, from)
           n == Cardinality(onward)
           sorted == InOrder(onward)
           size == Seqs!Min({BatchSize, n})
<1>1. onward \in SUBSET Wantable
  BY DEF Onward
<1>2. n \in Nat \ {0}
  <2>1. IsFiniteSet(Wantable)
    BY FS_Interval, BatchHolds DEF Wantable
  <2>2. IsFiniteSet(onward)
    BY <1>1, <2>1, FS_Subset
  <2>3. onward # {}
    OBVIOUS
  <2> HIDE DEF onward
  <2> QED BY <2>2, <2>3, FS_CardinalityType, FS_EmptySet
<1>3. sorted \in [1 .. n -> onward]
  <2> HIDE DEF onward
  <2>1. \E s \in [1 .. Cardinality(onward) -> onward] : \A i, j \in DOMAIN s : i < j => s[i] < s[j]
    BY <1>1, OrderExists DEF Increasing
  <2> QED BY <2>1 DEF InOrder
<1>4. sorted \in Seq(Wantable) /\ Len(sorted) = n
  <2> HIDE DEF sorted, n
  <2> QED BY <1>1, <1>2, <1>3
<1>5. size \in 1 .. BatchSize /\ size <= n
  <2> HIDE DEF n
  <2>1. \E x \in {BatchSize, n} : \A y \in {BatchSize, n} : x <= y
    BY <1>2, BatchHolds
  <2>2. size \in {BatchSize, n} /\ \A y \in {BatchSize, n} : size <= y
    BY <2>1 DEF Seqs!Min
  <2> QED BY <1>2, <2>2, BatchHolds
<1>6. Batch(all, from) = SubSeq(sorted, 1, size)
  <2>1. Batch(all, from) = SubSeq(sorted, 1, Seqs!Min({BatchSize, Len(sorted)}))
    BY DEF Batch
  <2> HIDE DEF sorted, n
  <2> QED BY <1>4, <2>1
<1> HIDE DEF sorted, n, size
<1>7. /\ SubSeq(sorted, 1, size) \in Seq(Wantable) /\ Len(SubSeq(sorted, 1, size)) = size
      /\ SubSeq(sorted, 1, size)[size] \in Wantable
  BY <1>2, <1>4, <1>5, BatchHolds
<1> QED BY <1>5, <1>6, <1>7 DEF Seqs!Last

\* A search goes on over a batch, with its last title kept for the cursor.
WalkTyped ==
    search # Resting =>
       /\ search.job \in {"wanted", "upgrade"} /\ search.at \in {"next", "offers"}
       /\ search.left \in Seq(Wantable) /\ Len(search.left) <= BatchSize
       /\ search.active \subseteq Wantable /\ search.last \in Wantable
       /\ search.at = "offers" => search.left # <<>>
GrabsTyped ==
    grabbed = [t \in Wantable |-> grabbed[t]]
    /\ \A t \in Active : grabbed[t] \in [quality : Qualities, placed : BOOLEAN]
TitlesTyped ==
    /\ wanted \subseteq Wantable /\ installed \in [Wantable -> Qualities \cup {Unknown, NoCopy}]
    /\ cursor \in [wanted : 0 .. TitleCount, upgrade : 0 .. TitleCount]
WantedTyped == WalkTyped /\ GrabsTyped /\ TitlesTyped

LEMMA WantedStartsTyped == WantedInit => WantedTyped
BY BatchHolds DEF WantedInit, WantedTyped, WalkTyped, GrabsTyped, TitlesTyped, Active, Wantable

LEMMA GrabsKept == ASSUME GrabsTyped, grabbed' = grabbed PROVE GrabsTyped'
BY DEF GrabsTyped, Active

\* A row is put on the queue, changed or taken off it.
LEMMA GrabTyped ==
    ASSUME GrabsTyped, NEW t \in Wantable,
           NEW row, row = NoGrab \/ row \in [quality : Qualities, placed : BOOLEAN],
           grabbed' = [grabbed EXCEPT ![t] = row]
    PROVE  GrabsTyped'
<1>1. \A u \in Wantable : grabbed'[u] = IF u = t THEN row ELSE grabbed[u]
  BY DEF GrabsTyped
<1>2. grabbed' = [u \in Wantable |-> grabbed'[u]]
  BY DEF GrabsTyped
<1> QED BY <1>1, <1>2 DEF GrabsTyped, Active

LEMMA PassesOnTyped ==
    ASSUME WalkKnown, WalkTyped, TitlesTyped, search # Resting, search.left # <<>>, PassesOn
    PROVE  WalkTyped' /\ cursor' \in [wanted : 0 .. TitleCount, upgrade : 0 .. TitleCount]
<1>1. /\ Current \in Wantable /\ Tail(search.left) \in Seq(Wantable)
      /\ Len(Tail(search.left)) <= BatchSize
  BY BatchHolds DEF WalkTyped, Current
<1>2. Current \in 0 .. TitleCount
  BY <1>1 DEF Wantable
<1>3. cursor' \in [wanted : 0 .. TitleCount, upgrade : 0 .. TitleCount]
  BY <1>2 DEF PassesOn, TitlesTyped
<1>4. search' = [search EXCEPT !.at = "next", !.left = Tail(search.left), !.read = NoCopy]
  BY DEF PassesOn
<1>5. /\ search'.job = search.job /\ search'.at = "next" /\ search'.left = Tail(search.left)
      /\ search'.active = search.active /\ search'.last = search.last
  BY <1>4 DEF WalkKnown
<1> QED BY <1>1, <1>3, <1>5 DEF WalkTyped

LEMMA SearchTyped ==
    ASSUME WalkKnown, WantedTyped,
           WantedStarts \/ UpgradeStarts \/ SearchStep \/ SearchStops
    PROVE  WantedTyped'
<1> USE DEF WantedTyped
<1>1. ASSUME NEW job \in {"wanted", "upgrade"}, NEW all \in SUBSET Wantable, NEW from,
             Onward(all, from) # {}, search' = Walk(job, Batch(all, from))
      PROVE  WalkTyped'
  <2> DEFINE batch == Batch(all, from)
  <2>1. /\ batch \in Seq(Wantable) /\ Len(batch) \in 1 .. BatchSize
        /\ Seqs!Last(batch) \in Wantable
    BY <1>1, BatchIs
  <2> HIDE DEF batch
  <2>2. search' = Walk(job, batch)
    BY <1>1 DEF batch
  <2>3. /\ search'.job = job /\ search'.at = "next" /\ search'.left = batch
        /\ search'.active \subseteq Wantable /\ search'.last = Seqs!Last(batch)
    BY <2>2 DEF Walk, Active
  <2> QED BY <2>1, <2>3, BatchHolds DEF WalkTyped
<1>2. CASE WantedStarts \/ UpgradeStarts
  <2>1. WalkTyped'
    BY <1>1, <1>2 DEF WantedStarts, UpgradeStarts, TitlesTyped, Copies
  <2> QED BY <1>2, <2>1, GrabsKept DEF WantedStarts, UpgradeStarts, TitlesTyped
<1>3. CASE Skips \/ SearchFails
  <2>1. search # Resting /\ search.left # <<>> /\ PassesOn
    BY <1>3 DEF Skips, SearchFails, SearchAt, WalkTyped
  <2> QED BY <1>3, <2>1, PassesOnTyped, GrabsKept DEF Skips, SearchFails, TitlesTyped
<1>4. CASE Decides
  <2>1. search # Resting /\ search.left # <<>> /\ PassesOn /\ search.read.profile \in Profiles
    BY <1>4 DEF Decides, SearchAt, WalkTyped, WalkKnown
  <2>2. Current \in Wantable
    BY <2>1 DEF WalkTyped, Current
  <2>3. PICK offers \in SUBSET Qualities :
           grabbed' = IF Eligible(search.read.profile, search.read.had, offers) = {} \/ Current \in Active
                      THEN grabbed
                      ELSE [grabbed EXCEPT ![Current] =
                              [quality |-> Best(search.read.profile,
                                                Eligible(search.read.profile, search.read.had, offers)),
                               placed |-> FALSE]]
    BY <1>4 DEF Decides
  <2> DEFINE good == Eligible(search.read.profile, search.read.had, offers)
             row == [quality |-> Best(search.read.profile, good), placed |-> FALSE]
  <2>4. good # {} => row \in [quality : Qualities, placed : BOOLEAN]
    <3> SUFFICES ASSUME good # {} PROVE row \in [quality : Qualities, placed : BOOLEAN]
      OBVIOUS
    <3>1. good \subseteq Qualities
      BY DEF Eligible
    <3>2. Best(search.read.profile, good) \in good
      <4> HIDE DEF good
      <4> QED BY <2>1, BestIsOneOfThem
    <3> HIDE DEF good
    <3> QED BY <3>1, <3>2
  <2>5. grabbed' = grabbed \/ (good # {} /\ grabbed' = [grabbed EXCEPT ![Current] = row])
    BY <2>3
  <2> HIDE DEF row, good
  <2>6. GrabsTyped'
    BY <2>2, <2>4, <2>5, GrabsKept, GrabTyped
  <2>7. WalkTyped' /\ TitlesTyped'
    BY <1>4, <2>1, PassesOnTyped DEF Decides, TitlesTyped
  <2> QED BY <2>6, <2>7
<1>5. CASE Looks
  <2>1. search' = [search EXCEPT !.at = "offers",
                                 !.read = [had |-> installed[Current], profile |-> profile]]
    BY <1>5 DEF Looks
  <2>2. search # Resting /\ search.left # <<>>
    BY <1>5 DEF Looks, SearchAt
  <2>3. /\ search'.job = search.job /\ search'.at = "offers" /\ search'.left = search.left
        /\ search'.active = search.active /\ search'.last = search.last
    BY <2>1, <2>2 DEF WalkKnown
  <2>4. WalkTyped'
    BY <2>2, <2>3 DEF WalkTyped
  <2> QED BY <1>5, <2>4, GrabsKept DEF Looks, TitlesTyped
<1>6. CASE SearchEnds \/ SearchStops
  <2>1. search' = Resting /\ grabbed' = grabbed /\ search # Resting
    BY <1>6 DEF SearchEnds, SearchStops, SearchAt
  <2>2. search.last \in 0 .. TitleCount
    BY <2>1 DEF WalkTyped, Wantable
  <2> QED BY <1>6, <2>1, <2>2, GrabsKept DEF SearchEnds, SearchStops, TitlesTyped, WalkTyped
<1> QED BY <1>2, <1>3, <1>4, <1>5, <1>6 DEF SearchStep

LEMMA OutsideTyped ==
    ASSUME WantedTyped, NEW t \in Wantable,
           \/ Imports(t) \/ Settles(t) \/ GrabLost(t)
           \/ TitleEdited(t) \/ GrabbedByHand(t) \/ FileChanges(t)
    PROVE  WantedTyped'
<1>1. WalkTyped'
  BY DEF Imports, Settles, GrabLost, TitleEdited, GrabbedByHand, FileChanges, WantedTyped, WalkTyped
<1>2. CASE Imports(t)
  <2>1. grabbed[t] \in [quality : Qualities, placed : BOOLEAN]
    BY <1>2 DEF Imports, WantedTyped, GrabsTyped, Active
  <2> DEFINE row == [grabbed[t] EXCEPT !.placed = TRUE]
  <2>2. row \in [quality : Qualities, placed : BOOLEAN] /\ grabbed' = [grabbed EXCEPT ![t] = row]
    BY <1>2, <2>1 DEF Imports
  <2>3. GrabsTyped'
    BY <2>2, GrabTyped DEF WantedTyped
  <2> QED BY <1>1, <1>2, <2>1, <2>3 DEF Imports, WantedTyped, TitlesTyped
<1>3. CASE Settles(t) \/ GrabLost(t)
  <2>1. GrabsTyped'
    BY <1>3, GrabTyped DEF Settles, GrabLost, WantedTyped
  <2> QED BY <1>1, <1>3, <2>1 DEF Settles, GrabLost, WantedTyped, TitlesTyped
<1>4. CASE GrabbedByHand(t)
  <2>1. GrabsTyped'
    BY <1>4, GrabTyped DEF GrabbedByHand, WantedTyped
  <2> QED BY <1>1, <1>4, <2>1 DEF GrabbedByHand, WantedTyped, TitlesTyped
<1>5. CASE TitleEdited(t) \/ FileChanges(t)
  BY <1>1, <1>5, GrabsKept DEF TitleEdited, FileChanges, WantedTyped, TitlesTyped
<1> QED BY <1>2, <1>3, <1>4, <1>5

LEMMA WantedStepsTyped == WalkKnown /\ WantedTyped /\ [WantedNext]_searchVars => WantedTyped'
<1> SUFFICES ASSUME WalkKnown, WantedTyped, [WantedNext]_searchVars PROVE WantedTyped'
  OBVIOUS
<1>1. CASE UNCHANGED searchVars
  BY <1>1, GrabsKept DEF searchVars, WantedTyped, WalkTyped, TitlesTyped
<1>2. CASE ProfileEdited
  BY <1>2, GrabsKept DEF ProfileEdited, WantedTyped, WalkTyped, TitlesTyped
<1> QED BY <1>1, <1>2, SearchTyped, OutsideTyped DEF WantedNext

\* Whatever is edited, imported, lost or stopped, a search works off a batch of
\* titles no longer than allowed, and its cursors and rows are of their types.
THEOREM WantedTypes == WantedSpec => []WantedTypeOK
<1>1. WalkKnown /\ WantedTyped => WantedTypeOK
  BY DEF WalkKnown, WantedTyped, WalkTyped, GrabsTyped, TitlesTyped, WantedTypeOK, SearchAt
<1> QED
  BY <1>1, WalkStarts, WalkSteps, WantedStartsTyped, WantedStepsTyped, PTL DEF WantedSpec

------------------------------------------------------------------------------
(* ServingSessions: the encoders that count                                    *)

\* The encoders nobody has killed and some record names.
AtLarge == encoding \ (doomed \cup lost)

\* While the plugin is up they are in its table.  While it is down or starts
\* again they are in the records it will find, unless there are none.
ServingInv ==
    /\ ServingTypeOK
    /\ serving \in {"down", "starting"} => encoders = {} /\ Open = {}
    /\ serving \in {"up", "closing"} => AtLarge \subseteq encoders
    /\ serving = "starting" => recordings = <<>> /\ AtLarge \subseteq recorded
    /\ serving = "down" => AtLarge = {} \/ (recordings = <<>> /\ AtLarge \subseteq saved)

LEMMA ServingStarts == ServingInit => ServingInv
<1> SUFFICES ASSUME ServingInit PROVE ServingInv
  OBVIOUS
<1>1. Open = {} /\ AtLarge = {}
  BY DEF ServingInit, Open, AtLarge
<1>2. recordings \in Seq(SUBSET Sessions) /\ touches \in 0 .. MaxTouches /\ kills \in 0 .. MaxKills
  BY CapsArePositive DEF ServingInit
<1>3. session \in [Sessions -> {"none", "direct", "hls", "closed"}]
  BY DEF ServingInit
<1>4. ServingTypeOK
  BY <1>1, <1>2, <1>3 DEF ServingInit, ServingTypeOK
<1> QED
  BY <1>1, <1>4 DEF ServingInit, ServingInv

\* A snapshot that is sent, or lands, is one of sessions.
LEMMA SnapshotsKnown ==
    ASSUME ServingTypeOK, NEW rs \in SUBSET Sessions
    PROVE  /\ Append(recordings, rs) \in Seq(SUBSET Sessions) /\ Append(recordings, rs) # <<>>
           /\ recordings # <<>> => /\ Head(recordings) \in SUBSET Sessions
                                   /\ Tail(recordings) \in Seq(SUBSET Sessions)
BY DEF ServingTypeOK

LEMMA CloseKeeps ==
    ASSUME ServingInv, NEW s \in Sessions, s \in Open, serving \in {"up", "closing"},
           CloseSession(s)
    PROVE  ServingInv' /\ encoding' = encoding
<1>1. /\ session' = [session EXCEPT ![s] = "closed"] /\ encoders' = encoders \ {s}
      /\ doomed' = doomed \cup ({s} \cap encoders \cap encoding)
      /\ encoding' = encoding /\ saved' = saved /\ quiet' = quiet /\ cap' = cap
      /\ serving' = serving /\ touches' = touches /\ kills' = kills /\ lost' = lost
  BY DEF CloseSession
<1>2. recorded' \in SUBSET Sessions /\ recordings' \in Seq(SUBSET Sessions)
  <2>1. recorded \ {s} \in SUBSET Sessions
    BY DEF ServingInv, ServingTypeOK
  <2> QED
    BY <2>1, SnapshotsKnown DEF CloseSession, Records, ServingInv, ServingTypeOK
<1>3. session' \in [Sessions -> {"none", "direct", "hls", "closed"}] /\ Open' = Open \ {s}
  BY <1>1 DEF ServingInv, ServingTypeOK, Open
<1>4. ServingTypeOK'
  BY <1>1, <1>2, <1>3 DEF ServingInv, ServingTypeOK
<1>5. AtLarge' \subseteq encoders'
  BY <1>1 DEF ServingInv, AtLarge
<1> QED
  BY <1>1, <1>4, <1>5 DEF ServingInv

\* One more encoder of an open session is within the cap.
LEMMA StartKeeps ==
    ASSUME ServingInv, NEW s \in Sessions, StartWorker(s)
    PROVE  ServingInv' /\ StartsWithinCap
<1>1. /\ serving = "up" /\ s \in Open \ encoders /\ ~Saturated(s) /\ encoders' = encoders \cup {s}
      /\ encoding' \in {encoding, encoding \cup {s}} /\ recorded' = recorded \cup {s}
      /\ recordings' = Append(recordings, recorded')
      /\ session' = session /\ doomed' = doomed /\ saved' = saved /\ quiet' = quiet /\ cap' = cap
      /\ serving' = serving /\ touches' = touches /\ kills' = kills /\ lost' = lost
  BY DEF StartWorker, Records
<1>2. recorded' \in SUBSET Sessions /\ recordings' \in Seq(SUBSET Sessions)
  <2>1. recorded \cup {s} \in SUBSET Sessions
    BY DEF ServingInv, ServingTypeOK
  <2> QED
    BY <1>1, <2>1, SnapshotsKnown DEF ServingInv
<1>3. Open' = Open /\ encoders \subseteq Open /\ AtLarge \subseteq encoders
  BY <1>1 DEF ServingInv, ServingTypeOK, Open
<1>4. AtLarge' \subseteq encoders' /\ encoding' \subseteq Sessions /\ encoders' \subseteq Open'
  BY <1>1, <1>3 DEF AtLarge, ServingInv, ServingTypeOK
<1>5. ServingTypeOK'
  <2>1. doomed' \subseteq encoding'
    BY <1>1 DEF ServingInv, ServingTypeOK
  <2> QED
    BY <1>1, <1>2, <1>3, <1>4, <2>1 DEF ServingInv, ServingTypeOK
<1>6. Cardinality(AtLarge') <= cap
  <2>1. cap \in Nat \ {0}
    BY CapsArePositive DEF ServingInv, ServingTypeOK
  <2>2. CASE encoders = {}
    <3>1. AtLarge' \subseteq {s}
      BY <1>1, <1>4, <2>2
    <3>2. IsFiniteSet({s}) /\ Cardinality({s}) = 1
      BY FS_Singleton
    <3>3. Cardinality(AtLarge') <= 1 /\ Cardinality(AtLarge') \in Nat
      BY <3>1, <3>2, FS_Subset, FS_CardinalityType
    <3> QED
      BY <2>1, <3>3
  <2>3. CASE encoders # {}
    <3>1. IsFiniteSet(Open)
      <4>1. IsFiniteSet(Sessions)
        BY CapsArePositive, FS_Interval DEF Sessions
      <4> QED
        BY <4>1, FS_Subset DEF Open
    <3>2. AtLarge' \subseteq Open
      BY <1>1, <1>3, <1>4
    <3>3. Cardinality(AtLarge') <= Cardinality(Open) /\ IsFiniteSet(AtLarge')
      BY <3>1, <3>2, FS_Subset
    <3>4. Cardinality(AtLarge') \in Nat /\ Cardinality(Open) \in Nat
      BY <3>1, <3>3, FS_CardinalityType
    <3>5. ~(Cardinality(Open) >= cap)
      BY <1>1, <2>3 DEF Saturated
    <3> QED
      BY <2>1, <3>3, <3>4, <3>5
  <2> QED
    BY <2>2, <2>3
<1>7. AtLarge' = encoding' \ (doomed' \cup lost')
  BY DEF AtLarge
<1> QED
  BY <1>1, <1>4, <1>5, <1>6, <1>7 DEF ServingInv, StartsWithinCap

LEMMA ServingSteps == ServingInv /\ [ServingNext]_servingVars => ServingInv' /\ StartsWithinCap
<1> SUFFICES ASSUME ServingInv, [ServingNext]_servingVars PROVE ServingInv' /\ StartsWithinCap
  OBVIOUS
<1>1. ASSUME encoding' \subseteq encoding, ServingInv' PROVE ServingInv' /\ StartsWithinCap
  BY <1>1 DEF StartsWithinCap
<1>2. CASE UNCHANGED servingVars
  BY <1>2 DEF servingVars, ServingInv, ServingTypeOK, Open, AtLarge, StartsWithinCap
<1>3. CASE RecordLands
  <2>1. /\ recordings # <<>> /\ saved' = Head(recordings) /\ recordings' = Tail(recordings)
        /\ UNCHANGED <<session, encoders, encoding, doomed, recorded, quiet, cap, serving,
                       touches, kills, lost>>
    BY <1>3 DEF RecordLands
  <2>2. Open' = Open /\ AtLarge' = AtLarge
    BY <2>1 DEF Open, AtLarge
  <2>3. saved' \in SUBSET Sessions /\ recordings' \in Seq(SUBSET Sessions)
    <3>1. {} \in SUBSET Sessions
      OBVIOUS
    <3> QED
      BY <2>1, <3>1, SnapshotsKnown DEF ServingInv
  <2>4. ServingTypeOK'
    BY <2>1, <2>2, <2>3 DEF ServingInv, ServingTypeOK
  <2> QED
    BY <2>1, <2>2, <2>4 DEF ServingInv, StartsWithinCap
<1>4. CASE MountServing
  <2>1. /\ serving = "down" /\ recordings = <<>> /\ serving' = "starting"
        /\ recorded' = recorded \cup saved /\ cap' \in Caps
        /\ UNCHANGED <<session, encoders, encoding, doomed, recordings, saved, quiet, touches,
                       kills, lost>>
    BY <1>4 DEF MountServing
  <2>2. Open' = Open /\ AtLarge' = AtLarge
    BY <2>1 DEF Open, AtLarge
  <2>3. ServingTypeOK'
    BY <2>1, <2>2 DEF ServingInv, ServingTypeOK
  <2> QED
    BY <2>1, <2>2, <2>3 DEF ServingInv, StartsWithinCap
<1>5. CASE CleanupOrphans
  <2>1. /\ serving = "starting" /\ serving' = "up" /\ recorded' = {} /\ encoders' = {}
        /\ doomed' = doomed \cup (encoding \cap (encoders \cup recorded))
        /\ UNCHANGED <<session, encoding, recordings, saved, quiet, cap, touches, kills, lost>>
    BY <1>5 DEF CleanupOrphans, Orphans
  <2>2. Open' = Open /\ AtLarge' = {}
    BY <2>1 DEF Open, AtLarge, ServingInv
  <2>3. ServingTypeOK'
    BY <2>1, <2>2 DEF ServingInv, ServingTypeOK
  <2> QED
    BY <2>1, <2>2, <2>3 DEF ServingInv, StartsWithinCap
<1>6. CASE Unmount
  <2>1. /\ serving = "up" /\ serving' = "closing"
        /\ UNCHANGED <<session, encoders, encoding, doomed, recorded, recordings, saved, quiet,
                       cap, touches, kills, lost>>
    BY <1>6 DEF Unmount
  <2>2. Open' = Open /\ AtLarge' = AtLarge
    BY <2>1 DEF Open, AtLarge
  <2>3. ServingTypeOK'
    BY <2>1, <2>2 DEF ServingInv, ServingTypeOK
  <2> QED
    BY <2>1, <2>2, <2>3 DEF ServingInv, StartsWithinCap
<1>7. CASE Unmounted
  <2>1. /\ serving = "closing" /\ Open = {} /\ serving' = "down" /\ recorded' = {}
        /\ recordings' = Append(recordings, recorded)
        /\ UNCHANGED <<session, encoders, encoding, doomed, saved, quiet, cap, touches, kills,
                       lost>>
    BY <1>7 DEF Unmounted
  <2>2. Open' = {} /\ AtLarge' = {} /\ encoders' = {}
    BY <2>1 DEF Open, AtLarge, ServingInv, ServingTypeOK
  <2>3. recordings' \in Seq(SUBSET Sessions)
    <3>1. recorded \in SUBSET Sessions
      BY DEF ServingInv, ServingTypeOK
    <3> QED
      BY <2>1, <3>1, SnapshotsKnown DEF ServingInv
  <2>4. ServingTypeOK'
    BY <2>1, <2>2, <2>3 DEF ServingInv, ServingTypeOK
  <2> QED
    BY <2>1, <2>2, <2>4 DEF ServingInv, StartsWithinCap
<1>8. CASE Kill
  <2>1. /\ serving # "down" /\ kills < MaxKills /\ kills' = kills + 1 /\ serving' = "down"
        /\ session' = [s \in Sessions |-> IF s \in Open THEN "closed" ELSE session[s]]
        /\ encoders' = {} /\ recorded' = {} /\ recordings' = <<>>
        /\ lost' = lost \cup (encoding \ (doomed \cup saved))
        /\ UNCHANGED <<encoding, doomed, saved, quiet, cap, touches>>
    BY <1>8 DEF Kill
  <2>2. Open' = {} /\ AtLarge' \subseteq saved'
    BY <2>1 DEF Open, AtLarge
  <2>3. session' \in [Sessions -> {"none", "direct", "hls", "closed"}]
    BY <2>1 DEF ServingInv, ServingTypeOK
  <2>6. kills' \in 0 .. MaxKills
    <3>1. kills \in 0 .. MaxKills /\ kills < MaxKills /\ kills' = kills + 1
      BY <2>1 DEF ServingInv, ServingTypeOK
    <3> QED
      BY ONLY <3>1, CapsArePositive
  <2>4. recordings' \in Seq(SUBSET Sessions) /\ lost' \subseteq Sessions
    BY <2>1 DEF ServingInv, ServingTypeOK
  <2>5. ServingTypeOK'
    BY <2>1, <2>2, <2>3, <2>4, <2>6 DEF ServingInv, ServingTypeOK
  <2> QED
    BY <2>1, <2>2, <2>5 DEF ServingInv, StartsWithinCap
<1>9. ASSUME NEW mode \in {"direct", "hls"}, OpenSession(mode)
      PROVE  ServingInv' /\ StartsWithinCap
  <2>1. PICK s \in Sessions : session' = [session EXCEPT ![s] = mode] /\ session[s] = "none"
    BY <1>9 DEF OpenSession
  <2>2. /\ serving = "up"
        /\ UNCHANGED <<encoders, encoding, doomed, recorded, recordings, saved, quiet, cap,
                       serving, touches, kills, lost>>
    BY <1>9 DEF OpenSession
  <2>3. /\ session' \in [Sessions -> {"none", "direct", "hls", "closed"}] /\ Open \subseteq Open'
        /\ AtLarge' = AtLarge
    BY <2>1, <2>2 DEF Open, AtLarge, ServingInv, ServingTypeOK
  <2>4. ServingTypeOK'
    BY <2>2, <2>3 DEF ServingInv, ServingTypeOK
  <2> QED
    BY <2>2, <2>3, <2>4 DEF ServingInv, StartsWithinCap
<1>10. ASSUME NEW n \in Caps, SetPlaybackPolicy(n) PROVE ServingInv' /\ StartsWithinCap
  <2>1. /\ serving = "up" /\ cap' = n
        /\ UNCHANGED <<session, encoders, encoding, doomed, saved, quiet, serving, touches,
                       kills, lost>>
    BY <1>10 DEF SetPlaybackPolicy
  <2>2. recorded' \in SUBSET Sessions /\ recordings' \in Seq(SUBSET Sessions)
    <3>1. recorded \in SUBSET Sessions
      BY DEF ServingInv, ServingTypeOK
    <3> QED
      BY <1>10, <3>1, SnapshotsKnown DEF SetPlaybackPolicy, Records, ServingInv, ServingTypeOK
  <2>3. Open' = Open /\ AtLarge' = AtLarge
    BY <2>1 DEF Open, AtLarge
  <2>4. ServingTypeOK'
    BY <2>1, <2>2, <2>3 DEF ServingInv, ServingTypeOK
  <2> QED
    BY <2>1, <2>3, <2>4 DEF ServingInv, StartsWithinCap
<1>11. ASSUME NEW s \in Sessions, StartWorker(s) PROVE ServingInv' /\ StartsWithinCap
  BY <1>11, StartKeeps
<1>12. ASSUME NEW s \in Sessions, CloseAsked(s) \/ Reap(s) \/ UnmountCloses(s)
       PROVE  ServingInv' /\ StartsWithinCap
  <2>1. CloseSession(s) /\ s \in Open /\ serving \in {"up", "closing"}
    BY <1>12 DEF CloseAsked, Reap, UnmountCloses
  <2> QED
    BY <1>1, <2>1, CloseKeeps
<1>13. ASSUME NEW s \in Sessions, EncoderEnds(s) PROVE ServingInv' /\ StartsWithinCap
  <2>1. /\ encoding' = encoding \ {s} /\ doomed' = doomed \ {s}
        /\ UNCHANGED <<session, encoders, recorded, recordings, saved, quiet, cap, serving,
                       touches, kills, lost>>
    BY <1>13 DEF EncoderEnds
  <2>2. Open' = Open /\ AtLarge' \subseteq AtLarge
    BY <2>1 DEF Open, AtLarge
  <2>3. ServingTypeOK'
    BY <2>1, <2>2 DEF ServingInv, ServingTypeOK
  <2>4. ServingInv'
    BY <2>1, <2>2, <2>3 DEF ServingInv
  <2> QED
    BY <1>1, <2>1, <2>4
<1>14. ASSUME NEW s \in Sessions, Touch(s) \/ TimePasses(s) PROVE ServingInv' /\ StartsWithinCap
  <2>1. /\ quiet' \subseteq quiet \cup {s}
        /\ UNCHANGED <<session, encoders, encoding, doomed, recorded, recordings, saved, cap,
                       serving, kills, lost>>
    BY <1>14 DEF Touch, TimePasses
  <2>5. touches' \in 0 .. MaxTouches
    <3>1. touches \in 0 .. MaxTouches
      BY DEF ServingInv, ServingTypeOK
    <3>2. touches' = touches \/ (touches < MaxTouches /\ touches' = touches + 1)
      BY <1>14 DEF Touch, TimePasses
    <3> QED
      BY ONLY <3>1, <3>2, CapsArePositive
  <2>2. Open' = Open /\ AtLarge' = AtLarge
    BY <2>1 DEF Open, AtLarge
  <2>3. ServingTypeOK'
    BY <2>1, <2>2, <2>5 DEF ServingInv, ServingTypeOK
  <2> QED
    BY <2>1, <2>2, <2>3 DEF ServingInv, StartsWithinCap
<1> QED
  BY <1>2, <1>3, <1>4, <1>5, <1>6, <1>7, <1>8, <1>9, <1>10, <1>11, <1>12, <1>13, <1>14
     DEF ServingNext

\* Whatever is opened, closed, killed or configured, the plugin's table, records
\* and processes keep their shapes: the table holds open sessions only.
THEOREM ServingTypes == ServingSpec => []ServingTypeOK
<1>1. ServingInit => ServingInv
  BY ServingStarts
<1>2. ServingInv /\ [ServingNext]_servingVars => ServingInv'
  BY ServingSteps
<1>3. ServingInv => ServingTypeOK
  BY DEF ServingInv
<1> QED
  BY <1>1, <1>2, <1>3, PTL DEF ServingSpec

\* An encoder starts only while those that nobody has killed and that a record
\* names stay within the cap, across closes, kills and new lives of the plugin.
THEOREM EncodersStayWithinCap == ServingSpec => WithinCap
<1>1. ServingInit => ServingInv
  BY ServingStarts
<1>2. ServingInv /\ [ServingNext]_servingVars => ServingInv' /\ StartsWithinCap
  BY ServingSteps
<1> QED
  BY <1>1, <1>2, PTL DEF ServingSpec, WithinCap

------------------------------------------------------------------------------
(* MCMedia: the three components together                                      *)

LEMMA MediaStarts == MediaInit => TorrentInit /\ ServingInit /\ WantedInit
BY DEF MediaInit

\* One of them takes a step, the others stay as they are.
LEMMA MediaSteps ==
    [MediaNext]_mediaVars =>
       [TorrentNext]_torrentVars /\ [ServingNext]_servingVars /\ [WantedNext]_searchVars
BY DEF MediaNext, mediaVars, TorrentOnly, ServingOnly, SearchOnly

\* A behaviour of the three together is one of each: whatever is proved of a
\* component holds where they are composed.
THEOREM MediaIsMadeOfParts == MediaSpec => TorrentSpec /\ ServingSpec /\ WantedSpec
BY MediaStarts, MediaSteps, PTL DEF MediaSpec, TorrentSpec, ServingSpec, WantedSpec

\* While writers do not meet, every variable of the torrent client, the serving
\* plugin and the automatic searches keeps its type.
THEOREM MediaTypes == ~WritersMeet => (MediaSpec => []MediaTypeOK)
<1> SUFFICES ASSUME ~WritersMeet PROVE MediaSpec => []MediaTypeOK
  OBVIOUS
<1>1. TorrentSpec => []TorrentTypeOK
  BY TorrentTypes
<1>2. TorrentTypeOK /\ ServingTypeOK /\ WantedTypeOK => MediaTypeOK
  BY DEF MediaTypeOK
<1> QED
  BY <1>1, <1>2, MediaIsMadeOfParts, ServingTypes, WantedTypes, PTL

\* While writers do not meet and no two items stand for one torrent, what is
\* promised of each component is kept where they are composed.
THEOREM MediaIsKept ==
    ~WritersMeet /\ OwnTorrents =>
       (MediaSpec => TorrentLedger /\ PayloadKept /\ WithinCap /\ Climbs)
<1> SUFFICES ASSUME ~WritersMeet, OwnTorrents
             PROVE  MediaSpec => TorrentLedger /\ PayloadKept /\ WithinCap /\ Climbs
  OBVIOUS
<1>1. TorrentSpec => TorrentLedger /\ PayloadKept
  BY TorrentKeepsLedger, FinishedPayloadIsKept
<1> QED
  BY <1>1, MediaIsMadeOfParts, EncodersStayWithinCap, GrabsClimb, PTL

==============================================================================
