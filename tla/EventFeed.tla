------------------------------- MODULE EventFeed -------------------------------
(* The event log and the two ways to follow it: the live feed of a browser,    *)
(* which reconnects, and the pages of a reader with a cursor.                   *)
(* Translated from apps/server/src/events.ts, the feed in http.ts, the browser *)
(* in apps/web/src/live-event-feed.ts and the activity tool of                 *)
(* plugins/mcp-server.  An event is its place among those published; filters   *)
(* are left out.  A plugin that is handed an event may throw.                  *)
EXTENDS Naturals, Sequences, FiniteSets

CONSTANTS Producers,      \* publications in progress at a time
          PageSize,
          MaxEvents, MaxSocketsOpened,   \* bounds
          FeedScenarios,  \* bounds together: sockets, ticks and steps back of the clock,
                          \* faults, walks over the pages
          Plugins0        \* the subscriber that hands events on to plugins

ASSUME FeedBounds ==
    /\ PageSize \in Nat \ {0} /\ {MaxEvents, MaxSocketsOpened} \subseteq Nat
    /\ FeedScenarios \subseteq [sockets : 0 .. MaxSocketsOpened, ticks : Nat, steps : Nat,
                                faults : Nat, walks : Nat]
    /\ Plugins0 \notin 0 .. MaxSocketsOpened

VARIABLES log,          \* rows in the order of insertion: [id, occurredAt]
          clock, stamped,
          publish,      \* [Producers -> a publication in progress, or NotPublishing]
          subscribers,  \* in the order they came
          server,       \* [Feeds -> what the server knows of a socket]
          browser,      \* the page in the browser: state and socket
          frames,       \* [Feeds -> events sent and not received]
          seen,         \* events the page shows
          reader,       \* the walk over the pages
          feedLeft,
          due           \* history: events that were to be sent to the page's socket

feedVars == <<log, clock, stamped, publish, subscribers, server, browser, frames, seen,
              reader, feedLeft, due>>

Feeds  == 1 .. MaxSocketsOpened
Events == 1 .. MaxEvents
NotPublishing == [at |-> "idle"]
NoWalk == [at |-> "idle", cursor |-> 0, got |-> {}, wanted |-> {}]
NoSocket == 0
Rows   == DOMAIN log
Logged == {log[r].id : r \in Rows}

FeedTypeOK ==
    /\ log \in Seq([id : Events, occurredAt : Nat]) /\ clock \in Nat /\ stamped \in 0 .. MaxEvents
    /\ \A p \in Producers : publish[p].at \in {"idle", "append", "fanout", "handing"}
    /\ subscribers \in Seq(Feeds \cup {Plugins0})
    /\ server \in [Feeds -> {"none", "auth", "feeding", "gone"}]
    /\ browser \in [at : {"connecting", "live", "reconnecting", "unavailable"},
                    socket : Feeds \cup {NoSocket}]
    /\ frames \in [Feeds -> Seq(Events)] /\ {seen, due} \subseteq SUBSET Events
    /\ reader.at \in {"idle", "reading", "done"} /\ reader.cursor \in 0 .. Len(log)

FeedInit ==
    /\ log = <<>> /\ clock = 0 /\ stamped = 0
    /\ publish = [p \in Producers |-> NotPublishing]
    /\ subscribers = <<Plugins0>>
    /\ server = [f \in Feeds |-> "none"] /\ frames = [f \in Feeds |-> <<>>]
    /\ browser = [at |-> "connecting", socket |-> NoSocket]
    /\ seen = {} /\ due = {} /\ reader = NoWalk
    /\ feedLeft \in FeedScenarios

Spend(what) == feedLeft[what] > 0 /\ feedLeft' = [feedLeft EXCEPT ![what] = @ - 1]

------------------------------------------------------------------------------
\* publish: the event is stamped, appended when the database is free (a query
\* that comes at the right moment overtakes those that wait) ...
Stamps(p) ==
    /\ publish[p] = NotPublishing /\ stamped < MaxEvents
    /\ stamped' = stamped + 1
    /\ publish' = [publish EXCEPT ![p] = [at |-> "append", id |-> stamped + 1, time |-> clock]]
    /\ UNCHANGED <<log, clock, subscribers, server, browser, frames, seen, reader, feedLeft,
                   due>>
Appends(p) ==
    /\ publish[p].at = "append"
    /\ log' = Append(log, [id |-> publish[p].id, occurredAt |-> publish[p].time])
    /\ publish' = [publish EXCEPT ![p] = [at |-> "fanout", id |-> publish[p].id]]
    /\ UNCHANGED <<clock, stamped, subscribers, server, browser, frames, seen, reader,
                   feedLeft, due>>
\* A publication that cannot be appended is over.
AppendFails(p) ==
    /\ publish[p].at = "append" /\ Spend("faults")
    /\ publish' = [publish EXCEPT ![p] = NotPublishing]
    /\ UNCHANGED <<log, clock, stamped, subscribers, server, browser, frames, seen, reader,
                   due>>
\* ... and handed to those who subscribed, one after the other.
FansOut(p) ==
    /\ publish[p].at = "fanout"
    /\ publish' = [publish EXCEPT ![p] =
                      [at |-> "handing", id |-> publish[p].id, rest |-> subscribers]]
    /\ due' = IF browser.socket \in {subscribers[n] : n \in DOMAIN subscribers}
              THEN due \cup {publish[p].id} ELSE due
    /\ UNCHANGED <<log, clock, stamped, subscribers, server, browser, frames, seen, reader,
                   feedLeft>>

\* A subscriber that throws does not keep the event from the others.
Delivered(f, id) ==
    IF f # Plugins0 /\ f = browser.socket THEN [frames EXCEPT ![f] = Append(@, id)] ELSE frames
HandsOn(p) ==
    /\ publish[p].at = "handing" /\ publish[p].rest # <<>>
    /\ publish' = [publish EXCEPT ![p].rest = Tail(@)]
    /\ frames' = Delivered(Head(publish[p].rest), publish[p].id)
    /\ UNCHANGED <<log, clock, stamped, subscribers, server, browser, seen, reader, feedLeft,
                   due>>
Published(p) ==
    /\ publish[p].at = "handing" /\ publish[p].rest = <<>>
    /\ publish' = [publish EXCEPT ![p] = NotPublishing]
    /\ UNCHANGED <<log, clock, stamped, subscribers, server, browser, frames, seen, reader,
                   feedLeft, due>>

------------------------------------------------------------------------------
\* The page opens a socket; it calls itself live when the socket is open, which
\* is before the server knows who asks.
NextSocket == Cardinality({f \in Feeds : server[f] # "none"}) + 1
Connects ==
    /\ browser.at \in {"connecting", "reconnecting"} /\ browser.socket = NoSocket
    /\ Spend("sockets")
    /\ browser' = [browser EXCEPT !.socket = NextSocket]
    /\ server' = [server EXCEPT ![NextSocket] = "auth"]
    /\ UNCHANGED <<log, clock, stamped, publish, subscribers, frames, seen, reader, due>>
IsOpen ==
    /\ browser.at \in {"connecting", "reconnecting"} /\ browser.socket # NoSocket
    /\ browser' = [browser EXCEPT !.at = "live"]
    /\ UNCHANGED <<log, clock, stamped, publish, subscribers, server, frames, seen, reader,
                   feedLeft, due>>

\* The server looks up who asks and subscribes, whether or not the socket is
\* still there, or it refuses and the page gives up.
Subscribes(f) ==
    /\ server[f] = "auth"
    /\ subscribers' = Append(subscribers, f)
    /\ server' = [server EXCEPT ![f] = "feeding"]
    /\ UNCHANGED <<log, clock, stamped, publish, browser, frames, seen, reader, feedLeft, due>>
Refused4401(f) ==
    /\ server[f] = "auth" /\ server' = [server EXCEPT ![f] = "gone"]
    /\ browser' = IF browser.socket = f THEN [at |-> "unavailable", socket |-> NoSocket]
                  ELSE browser
    /\ UNCHANGED <<log, clock, stamped, publish, subscribers, frames, seen, reader, feedLeft,
                   due>>

\* The page receives an event, which it shows once.
Receives1(f) ==
    /\ browser.at = "live" /\ browser.socket = f /\ frames[f] # <<>>
    /\ seen' = seen \cup {Head(frames[f])}
    /\ frames' = [frames EXCEPT ![f] = Tail(@)]
    /\ UNCHANGED <<log, clock, stamped, publish, subscribers, server, browser, reader, feedLeft,
                   due>>

\* The socket is lost: what was on its way is too.  The server hears of it later,
\* and unsubscribes if it had subscribed by then.
SocketCloses ==
    /\ browser.socket # NoSocket /\ Spend("faults")
    /\ browser' = [at |-> "reconnecting", socket |-> NoSocket]
    /\ frames' = [frames EXCEPT ![browser.socket] = <<>>]
    /\ due' = due \cap seen
    /\ UNCHANGED <<log, clock, stamped, publish, subscribers, server, seen, reader>>
\* Subscribers are a set that keeps the order they came in.
RemovedAt(s, k) == [n \in 1 .. Len(s) - 1 |-> s[IF n < k THEN n ELSE n + 1]]
Unsubscribes(f) ==
    /\ server[f] = "feeding" /\ browser.socket # f
    /\ server' = [server EXCEPT ![f] = "gone"]
    /\ \E k \in DOMAIN subscribers :
          subscribers[k] = f /\ subscribers' = RemovedAt(subscribers, k)
    /\ UNCHANGED <<log, clock, stamped, publish, browser, frames, seen, reader, feedLeft, due>>

------------------------------------------------------------------------------
\* read: oldest first by time, by insertion among equals; after a cursor, the
\* rows inserted later than its row.
ByTime(q, r)    == \/ log[q].occurredAt < log[r].occurredAt
                   \/ log[q].occurredAt = log[r].occurredAt /\ q < r
LaterThan(cursor) == {r \in Rows : cursor # 0 => log[r].occurredAt > log[cursor].occurredAt}
From(cursor)    == {r \in Rows : r > cursor}
Earlier(cursor, r) == {q \in From(cursor) : ByTime(q, r)}
Page(cursor)    == {r \in From(cursor) : Cardinality(Earlier(cursor, r)) < PageSize}
LastOf(page)    == CHOOSE r \in page : \A q \in page \ {r} : ByTime(q, r)

WalkStarts ==
    /\ reader.at # "reading" /\ Spend("walks")
    /\ reader' = [at |-> "reading", cursor |-> 0, got |-> {}, wanted |-> Rows]
    /\ UNCHANGED <<log, clock, stamped, publish, subscribers, server, browser, frames, seen,
                   due>>
\* The tool asks for a page; a page that is not full is the last one.
ReadsPage ==
    /\ reader.at = "reading"
    /\ LET page == Page(reader.cursor)
           Full == Cardinality(page) = PageSize
       IN reader' = [at     |-> IF Full THEN "reading" ELSE "done",
                     cursor |-> IF page = {} THEN reader.cursor ELSE LastOf(page),
                     got    |-> reader.got \cup page,
                     wanted |-> reader.wanted]
    /\ UNCHANGED <<log, clock, stamped, publish, subscribers, server, browser, frames, seen,
                   feedLeft, due>>

------------------------------------------------------------------------------
TimePasses ==
    /\ Spend("ticks") /\ clock' = clock + 1
    /\ UNCHANGED <<log, stamped, publish, subscribers, server, browser, frames, seen, reader,
                   due>>
ClockStepsBack ==
    /\ clock > 0 /\ Spend("steps") /\ clock' = clock - 1
    /\ UNCHANGED <<log, stamped, publish, subscribers, server, browser, frames, seen, reader,
                   due>>
\* The server stops or dies and starts again.
ServerRestarts ==
    /\ Spend("faults")
    /\ publish' = [p \in Producers |-> NotPublishing]
    /\ subscribers' = <<Plugins0>>
    /\ server' = [f \in Feeds |-> IF server[f] = "none" THEN "none" ELSE "gone"]
    /\ frames' = [f \in Feeds |-> <<>>]
    /\ browser' = IF browser.at = "unavailable" THEN browser
                  ELSE [at |-> "reconnecting", socket |-> NoSocket]
    /\ reader' = NoWalk /\ due' = due \cap seen
    /\ UNCHANGED <<log, clock, stamped, seen>>

FeedNext ==
    \/ \E p \in Producers : Stamps(p) \/ Appends(p) \/ AppendFails(p) \/ FansOut(p)
                          \/ HandsOn(p) \/ Published(p)
    \/ Connects \/ IsOpen \/ SocketCloses
    \/ \E f \in Feeds : Subscribes(f) \/ Refused4401(f) \/ Receives1(f) \/ Unsubscribes(f)
    \/ WalkStarts \/ ReadsPage \/ TimePasses \/ ClockStepsBack \/ ServerRestarts

FeedSpec == FeedInit /\ [][FeedNext]_feedVars

------------------------------------------------------------------------------
\* Hazard: the log and the fan-out are two steps, and a consumer that is told of
\* an event looks it up (events.ts:59).  What a page shows is in the log.
LoggedFirst == seen \subseteq Logged

\* Hazard: subscribers fail, come and go while an event is handed round
\* (events.ts:69).  When nothing is on its way, a page has been shown what was
\* published since its socket was subscribed.
FeedWhole ==
    LET Quiet == /\ \A p \in Producers : publish[p] = NotPublishing
                 /\ \A f \in Feeds : frames[f] = <<>>
    IN Quiet => due \subseteq seen

\* Hazard: events are appended between two pages, many of them in one
\* millisecond (events.ts:105).  While events are inserted in the order of their
\* times, a walk over the pages returns every event that was there when it began.
PagesComplete ==
    LET InOrder == \A q, r \in Rows : q < r => log[q].occurredAt <= log[r].occurredAt
    IN InOrder /\ reader.at = "done" => reader.wanted \subseteq reader.got

\* The log, the live feed and the pages give the same events.
FeedKept == FeedTypeOK /\ LoggedFirst /\ FeedWhole /\ PagesComplete
==============================================================================
