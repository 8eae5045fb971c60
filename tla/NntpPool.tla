------------------------------- MODULE NntpPool -------------------------------
(* The connections of the usenet client to one news server: a bounded pool, a  *)
(* queue of calls that wait for a place in it, and connections that are used   *)
(* by one call after another.  Answers carry no number: what a call reads is   *)
(* the next line of its connection.                                            *)
(* Translated from plugins/usenet-native/src/nntp.ts.  The login is a part of  *)
(* the greeting, an article is one line (one that is too large is a bad        *)
(* response); the server is external.                                          *)
EXTENDS Naturals, Sequences, FiniteSets, SequencesExt

CONSTANTS Callers,         \* calls of article in progress at a time
          Articles,
          Places,          \* maxConnections
          MaxSockets,      \* bound on the connection objects made
          MaxArticleCalls, \* bound on the calls
          MaxNntpFaults,   \* bound on lost sockets, time-outs and goodbyes
          NoArticle, NoConn

\* Every attempt makes one object at most, and every retry has its fault.
ASSUME PoolBounds == /\ Places \in Nat \ {0} /\ {MaxArticleCalls, MaxNntpFaults} \subseteq Nat
                     /\ MaxSockets \in Nat /\ MaxSockets >= MaxArticleCalls + MaxNntpFaults
                     /\ IsFiniteSet(Callers)
ASSUME PoolMarks == NoConn \notin 1 .. MaxSockets /\ "greeting" \notin Articles

VARIABLES socket,       \* [Conns -> the state of the connection object]
          lines,        \* lines received and not read
          owes,         \* what the server has still to send on a connection
          idle,         \* connections that may be reused, the last one first
          waiters,      \* calls that wait for a permit, in order
          active,       \* permits given
          closed,       \* is the transport closed
          fetch,        \* [Callers -> the call]
          made, nntpLeft,
          delivered     \* history: [Callers -> the article asked for and the one returned]

poolVars == <<socket, lines, owes, idle, waiters, active, closed, fetch, made, nntpLeft,
              delivered>>

Conns    == 1 .. MaxSockets
Retries  == 2
NoFetch  == [at |-> "none", wants |-> NoArticle, conn |-> NoConn, tries |-> 0]
Owed     == Articles \cup {"greeting"}
\* A line is an article, the word that it is missing, a greeting or a goodbye.
Lines    == [says : {"article", "missing", "hello", "goodbye"}, of : Articles \cup {NoArticle}]
Word(says) == [says |-> says, of |-> NoArticle]

PoolTypeOK ==
    /\ socket \in [Conns -> {"new", "connecting", "open", "lost", "destroyed"}]
    /\ lines \in [Conns -> Seq(Lines)] /\ owes \in [Conns -> Seq(Owed)]
    /\ idle \in Seq(Conns) /\ waiters \in Seq(Callers)
    /\ active \in 0 .. Places /\ closed \in BOOLEAN /\ made \in 0 .. MaxSockets
    /\ fetch \in [Callers -> [at : {"none", "queued", "connecting", "greeting", "answer", "pause"},
                              wants : Articles \cup {NoArticle}, conn : Conns \cup {NoConn},
                              tries : 0 .. Retries]]

PoolInit ==
    /\ socket = [c \in Conns |-> "new"] /\ lines = [c \in Conns |-> <<>>] /\ owes = lines
    /\ idle = <<>> /\ waiters = <<>> /\ active = 0 /\ closed = FALSE /\ made = 0
    /\ fetch = [k \in Callers |-> NoFetch]
    /\ nntpLeft = [calls |-> MaxArticleCalls, faults |-> MaxNntpFaults]
    /\ delivered = [k \in Callers |-> [asked |-> NoArticle, got |-> NoArticle]]

------------------------------------------------------------------------------
\* A pool is what the stretches of withConnection pass on between two awaits.
Pool == [socket |-> socket, owes |-> owes, idle |-> idle, waiters |-> waiters,
         active |-> active, made |-> made, fetch |-> fetch]
Settles(p) ==
    /\ socket' = p.socket /\ owes' = p.owes /\ idle' = p.idle /\ waiters' = p.waiters
    /\ active' = p.active /\ made' = p.made /\ fetch' = p.fetch
Placed(p, k, at, c) == [p EXCEPT !.fetch[k].at = at, !.fetch[k].conn = c]

\* A call that has its permit takes an idle connection or makes one; one that is
\* open is sent the command, any other one is opened first.
MayReuse(p) == p.idle # <<>>
TakesConn(p, k) ==
    LET c    == IF MayReuse(p) THEN Last(p.idle) ELSE p.made + 1
        rest == IF MayReuse(p) THEN [p EXCEPT !.idle = Front(@)] ELSE [p EXCEPT !.made = @ + 1]
    IN IF p.socket[c] = "open"
         THEN Placed([rest EXCEPT !.owes[c] = Append(@, p.fetch[k].wants)], k, "answer", c)
         ELSE Placed([rest EXCEPT !.socket[c] = "connecting", !.owes[c] = <<>>],
                     k, "connecting", c)
\* The longest wait is over, or a permit is free again.
Released(p) ==
    IF p.waiters = <<>> THEN [p EXCEPT !.active = @ - 1]
    ELSE TakesConn([p EXCEPT !.waiters = Tail(@)], Head(p.waiters))
\* finally: an open connection can be reused, then the permit is released.
Returned(p, k) ==
    LET c    == p.fetch[k].conn
        back == IF p.socket[c] = "open" /\ ~closed THEN [p EXCEPT !.idle = Append(@, c)] ELSE p
    IN Released(back)

\* The end of an attempt: it is over, or is tried again after a pause.
Over(p, k)  == [p EXCEPT !.fetch[k] = NoFetch]
Again(p, k) ==
    LET call == p.fetch[k]
    IN IF closed \/ call.tries = Retries THEN Over(p, k)
       ELSE [p EXCEPT !.fetch[k] =
               [call EXCEPT !.at = "pause", !.tries = call.tries + 1, !.conn = NoConn]]
Destroyed(p, c) == [p EXCEPT !.socket[c] = "destroyed"]

Spends(what) == nntpLeft[what] > 0 /\ nntpLeft' = [nntpLeft EXCEPT ![what] = @ - 1]

------------------------------------------------------------------------------
\* acquirePermit
Acquires(p, k) ==
    IF p.active < Places THEN TakesConn([p EXCEPT !.active = @ + 1], k)
    ELSE [p EXCEPT !.waiters = Append(@, k), !.fetch[k].at = "queued"]
Fetches(k) ==
    /\ fetch[k] = NoFetch /\ ~closed /\ Spends("calls")
    /\ \E a \in Articles :
          Settles(Acquires([Pool EXCEPT !.fetch[k] = [NoFetch EXCEPT !.wants = a]], k))
    /\ UNCHANGED <<lines, closed, delivered>>
TriesAgainFetch(k) ==
    /\ fetch[k].at = "pause"
    /\ Settles(IF ~closed THEN Acquires(Pool, k) ELSE Over(Pool, k))
    /\ UNCHANGED <<lines, closed, nntpLeft, delivered>>
GivesUpWaiting(k) ==
    /\ fetch[k].at = "queued" /\ Spends("faults")
    /\ \E i \in DOMAIN waiters : /\ waiters[i] = k
                                /\ Settles(Again([Pool EXCEPT !.waiters = RemoveAt(@, i)], k))
    /\ UNCHANGED <<lines, closed, delivered>>

\* connect: the socket opens and the server owes its greeting, or it does not.
\* A bad certificate is not tried again.
Opens(k) ==
    LET c == fetch[k].conn IN
    /\ fetch[k].at = "connecting" /\ socket[c] = "connecting"
    /\ Settles(Placed([Pool EXCEPT !.socket[c] = "open", !.owes[c] = <<"greeting">>],
                      k, "greeting", c))
    /\ UNCHANGED <<lines, closed, nntpLeft, delivered>>
CannotOpen(k) ==
    /\ fetch[k].at = "connecting"
    /\ IF socket[fetch[k].conn] = "connecting" THEN Spends("faults") ELSE UNCHANGED nntpLeft
    /\ LET p == Returned(Destroyed(Pool, fetch[k].conn), k) IN
          \/ Settles(Again(p, k))
          \/ Settles(Over(p, k))
    /\ UNCHANGED <<lines, closed, delivered>>

------------------------------------------------------------------------------
\* A call reads the next line of its connection.
Receives(k, at) == fetch[k].at = at /\ lines[fetch[k].conn] # <<>>
NextLine(k)   == Head(lines[fetch[k].conn])
Consumed(k)   == lines' = [lines EXCEPT ![fetch[k].conn] = Tail(@)]
\* A bad response is not tried again; either way the connection is destroyed.
BadResponse(k)     == Settles(Over(Returned(Destroyed(Pool, fetch[k].conn), k), k))
KeepsConnection(k) == Settles(Again(Returned(Pool, k), k))
NextAttempt(k)     == Settles(Again(Returned(Destroyed(Pool, fetch[k].conn), k), k))

ReadsGreeting(k) ==
    LET c == fetch[k].conn IN
    /\ Receives(k, "greeting") /\ Consumed(k)
    /\ CASE NextLine(k).says # "hello" -> BadResponse(k)
         [] NextLine(k).says = "hello" /\ socket[c] # "open" -> NextAttempt(k)
         [] NextLine(k).says = "hello" /\ socket[c] = "open" ->
               Settles(Placed([Pool EXCEPT !.owes[c] = Append(@, fetch[k].wants)], k, "answer", c))
    /\ UNCHANGED <<closed, nntpLeft, delivered>>

ReadsArticle(k) ==
    /\ Receives(k, "answer") /\ Consumed(k)
    /\ IF NextLine(k).says \in {"article", "missing"}
         THEN /\ Settles(Over(Returned(Pool, k), k))
              /\ delivered' = [delivered EXCEPT ![k] =
                                 [asked |-> fetch[k].wants, got |-> NextLine(k).of]]
         ELSE BadResponse(k) /\ UNCHANGED delivered
    /\ UNCHANGED <<closed, nntpLeft>>

\* The wait for a line ends with the socket, or with a time-out, which destroys
\* the connection: the answer may still come.
Waiting(k) == fetch[k].at \in {"greeting", "answer"} /\ lines[fetch[k].conn] = <<>>
LineLost(k) ==
    /\ Waiting(k) /\ socket[fetch[k].conn] \in {"lost", "destroyed"}
    /\ NextAttempt(k)
    /\ UNCHANGED <<lines, closed, nntpLeft, delivered>>
LineTimesOut(k) ==
    /\ Waiting(k) /\ socket[fetch[k].conn] = "open" /\ Spends("faults")
    /\ NextAttempt(k)
    /\ UNCHANGED <<lines, closed, delivered>>

\* close: calls that wait are refused, every connection is destroyed.
ClosesTransport ==
    /\ ~closed /\ closed' = TRUE
    /\ socket' = [c \in Conns |-> IF socket[c] = "new" THEN "new" ELSE "destroyed"]
    /\ fetch' = [k \in Callers |-> IF fetch[k].at = "queued" THEN NoFetch ELSE fetch[k]]
    /\ waiters' = <<>> /\ idle' = <<>>
    /\ UNCHANGED <<lines, owes, active, made, nntpLeft, delivered>>

------------------------------------------------------------------------------
\* The news server (external): it answers what it is asked, in order, says
\* goodbye to a connection nobody uses, and sockets are lost.
ServerSends(c) ==
    /\ socket[c] = "open" /\ owes[c] # <<>>
    /\ LET what == Head(owes[c]) IN
          \E line \in IF what = "greeting" THEN {Word("hello"), Word("goodbye")}
                      ELSE {[says |-> "article", of |-> what], [says |-> "missing", of |-> what]} :
             lines' = [lines EXCEPT ![c] = Append(@, line)]
    /\ owes' = [owes EXCEPT ![c] = Tail(@)]
    /\ UNCHANGED <<socket, idle, waiters, active, closed, fetch, made, nntpLeft, delivered>>
SaysGoodbye(c) ==
    /\ socket[c] = "open" /\ owes[c] = <<>> /\ c \in ToSet(idle) /\ Spends("faults")
    /\ lines' = [lines EXCEPT ![c] = Append(@, Word("goodbye"))]
    /\ UNCHANGED <<socket, owes, idle, waiters, active, closed, fetch, made, delivered>>
SocketLost(c) ==
    /\ socket[c] = "open" /\ Spends("faults")
    /\ socket' = [socket EXCEPT ![c] = "lost"] /\ owes' = [owes EXCEPT ![c] = <<>>]
    /\ UNCHANGED <<lines, idle, waiters, active, closed, fetch, made, delivered>>

PoolNext ==
    \/ \E k \in Callers :
          \/ Fetches(k) \/ TriesAgainFetch(k) \/ GivesUpWaiting(k) \/ Opens(k) \/ CannotOpen(k)
          \/ ReadsGreeting(k) \/ ReadsArticle(k) \/ LineLost(k) \/ LineTimesOut(k)
    \/ ClosesTransport
    \/ \E c \in Conns : ServerSends(c) \/ SaysGoodbye(c) \/ SocketLost(c)

PoolSpec == PoolInit /\ [][PoolNext]_poolVars

------------------------------------------------------------------------------
\* Hazard: a connection is handed on after an answer that was late, missing or
\* cut off (nntp.ts:240).  A call returns the article it asked for.
AnswersItsOwn == \A k \in Callers : delivered[k].got = delivered[k].asked

\* Hazard: calls take, wait for, give up and hand over places in every order
\* (nntp.ts:348, 368).  The permits given are those of the calls at a
\* connection, no two of which use the same one, and there are never more
\* connections than places.
WithinPlaces ==
    LET AtWork == {k \in Callers : fetch[k].conn # NoConn}
        Kept   == {c \in Conns : socket[c] \in {"connecting", "open"}}
    IN /\ active = Cardinality(AtWork)
       /\ \A j, k \in AtWork : j # k => fetch[j].conn # fetch[k].conn
       /\ \A k \in AtWork : fetch[k].conn \notin ToSet(idle)
       /\ Cardinality(Kept) <= Places

\* Hazard: a call sleeps before its next attempt while the transport is closed
\* for new servers (nntp.ts:307, 312).  A closed transport opens nothing.
ClosedForGood ==
    closed => /\ \A c \in Conns : socket[c] \in {"new", "destroyed"}
              /\ idle = <<>> /\ waiters = <<>>

\* Answers, places and the close, under lost sockets and late answers.
PoolKept == PoolTypeOK /\ AnswersItsOwn /\ WithinPlaces /\ ClosedForGood
==============================================================================
