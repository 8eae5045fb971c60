--------------------------- MODULE IndexerSettings ---------------------------
(* The indexers an operator has configured: one document each, edited by       *)
(* requests that load it, wait and write it back whole, and searched while at  *)
(* least one of them is enabled.                                               *)
(* Translated from apps/server/src/indexer-settings.ts, its routes, and the    *)
(* registration of the provider in kernel.ts.  An input is one that passes     *)
(* validation.  Names that differ in case only are one name; priority, tags,   *)
(* categories and modes decide which enabled indexers accept a search, and are *)
(* left to the search; what the indexers answer changes nothing here.  SQLite  *)
(* runs one query at a time, and answers are used in the order of the queries. *)
EXTENDS Naturals, Sequences, FiniteSets

CONSTANTS Indexers,      \* identifiers, each of them used for one indexer
          IndexerNames,
          ApiKeys,
          SearchLimit,   \* searches of one indexer per window; 0 is no limit
          Editors,       \* requests of operators in progress at a time
          Searchers,     \* searches in progress at a time
          IndexerRooms,  \* bounds together: edits, searches and restarts
          Blank,         \* no key
          NoIndexer

ASSUME IndexerBounds ==
    /\ SearchLimit \in Nat
    /\ IndexerRooms \subseteq [edits : Nat, searches : Nat, restarts : Nat]
    /\ Blank \notin ApiKeys

VARIABLES
          records,       \* the documents
          provider,      \* is the configured-indexers provider registered
          windows,       \* searches of each indexer that are still in its window
          edit,          \* [Editors -> a request in progress, or Resting]
          looks,         \* answers to "is one enabled" on their way, oldest first
          found,         \* [Searchers -> the indexers a search is about to ask]
          left,          \* edits, searches and restarts that may still happen
          said,          \* history: the documents as the requests wanted them
          asked,         \* history: admitted searches that are still in the window
          removed,       \* history: indexers that were deleted
          met            \* history: two requests worked on one indexer or one name

indexerVars == <<records, provider, windows, edit, looks, found, left, said, asked,
                 removed, met>>

Keys      == ApiKeys \cup {Blank}
Documents == [name : IndexerNames, key : Keys, on : BOOLEAN, tested : BOOLEAN]
ASSUME NoIndexerAssumption == NoIndexer \notin Documents
Stored    == {i \in Indexers : records[i] # NoIndexer}
Enabled   == {i \in Stored : records[i].on}
IdleEdit  == [at |-> "idle"]
Resting   == \A e \in Editors : edit[e] = IdleEdit

IndexerTypeOK ==
    /\ {records, said} \subseteq [Indexers -> Documents \cup {NoIndexer}]
    /\ provider \in BOOLEAN /\ met \in BOOLEAN
    /\ windows \in [Indexers -> Nat] /\ asked \in [Indexers -> Nat]
    /\ \A e \in Editors : edit[e].at \in {"idle", "names", "probe", "put", "look", "sync"}
    /\ looks \in Seq([of : Editors, enabled : BOOLEAN])
    /\ found \in [Searchers -> SUBSET Indexers] /\ removed \subseteq Indexers

IndexerInit ==
    /\ records = [i \in Indexers |-> NoIndexer] /\ said = records
    /\ provider = FALSE /\ looks = <<>> /\ met = FALSE /\ removed = {}
    /\ windows = [i \in Indexers |-> 0] /\ asked = windows
    /\ edit = [e \in Editors |-> IdleEdit]
    /\ found = [s \in Searchers |-> {}]
    /\ left \in IndexerRooms

------------------------------------------------------------------------------
\* A request: seen is the document it loaded, input what it was given, clash
\* whether another indexer had the name when the list was read.
Goes(e, to) == edit' = [edit EXCEPT ![e] = to]
Asks(e, request) ==
    /\ edit[e] = IdleEdit /\ left.edits > 0 /\ left' = [left EXCEPT !.edits = @ - 1]
    /\ Goes(e, request)
    /\ UNCHANGED <<records, provider, windows, looks, found, said, asked, removed, met>>

Taken(name, except) == \E i \in Stored \ {except} : records[i].name = name
Unused(i) == records[i] = NoIndexer /\ i \notin removed
             /\ \A e \in Editors : edit[e] # IdleEdit => edit[e].id # i
Asked(at, op, i, seen, input, clash) ==
    [at |-> at, op |-> op, id |-> i, seen |-> seen, input |-> input, clash |-> clash]

AddAsks(e) == \E i \in Indexers, name \in IndexerNames, key \in Keys, on \in BOOLEAN :
    /\ Unused(i)
    /\ Asks(e, Asked("put", "add", i, NoIndexer,
                     [name |-> name, key |-> key, on |-> on], Taken(name, i)))
UpdateAsks(e) == \E i \in Stored, name \in IndexerNames, key \in Keys, on \in BOOLEAN :
    Asks(e, Asked("names", "update", i, records[i], [name |-> name, key |-> key, on |-> on], FALSE))
EnableAsks(e) == \E i \in Stored, on \in BOOLEAN :
    Asks(e, Asked("put", "enable", i, records[i], [on |-> on], FALSE))
DeleteAsks(e) == \E i \in Stored :
    Asks(e, Asked("put", "delete", i, records[i], NoIndexer, FALSE))
TestAsks(e) == \E i \in Stored :
    Asks(e, Asked("probe", "test", i, records[i], NoIndexer, FALSE))

ReadsNames(e) ==
    /\ edit[e].at = "names"
    /\ Goes(e, [edit[e] EXCEPT !.at = "put", !.clash = Taken(edit[e].input.name, edit[e].id)])
    /\ UNCHANGED <<records, provider, windows, looks, found, left, said, asked, removed, met>>

\* The indexer answers with its capabilities, or it does not.
Probes(e) ==
    /\ edit[e].at = "probe"
    /\ \E to \in {IdleEdit, [edit[e] EXCEPT !.at = "put"]} : Goes(e, to)
    /\ UNCHANGED <<records, provider, windows, looks, found, left, said, asked, removed, met>>

------------------------------------------------------------------------------
\* What a request makes of a document.  A blank key keeps the one that is stored.
LastKey(doc, key) == key
KeyOf(doc, key)   == IF key = Blank THEN doc.key ELSE key
Made(doc, r) ==
    CASE r.op = "add"    -> [name |-> r.input.name, key |-> r.input.key, on |-> r.input.on,
                             tested |-> FALSE]
      [] r.op = "update" -> [name |-> r.input.name, key |-> KeyOf(doc, r.input.key),
                             on |-> r.input.on, tested |-> doc.tested]
      [] r.op = "enable" -> [doc EXCEPT !.on = r.input.on]
      [] r.op = "test"   -> [doc EXCEPT !.tested = TRUE]
      [] r.op = "delete" -> NoIndexer

\* The same, of what the requests before it wanted: the history.
Wanted(r) ==
    [said EXCEPT ![r.id] =
        CASE r.op = "add"                      -> Made(@, r)
          [] r.op # "add" /\ @ = NoIndexer     -> NoIndexer
          [] r.op = "update" /\ @ # NoIndexer  ->
                [name |-> r.input.name, on |-> r.input.on, tested |-> @.tested,
                 key |-> IF r.input.key = Blank THEN @.key ELSE r.input.key]
          [] r.op \in {"enable", "test", "delete"} /\ @ # NoIndexer -> Made(@, r)]

Settling(r) == r.at \in {"names", "probe", "put"}
Meets(e) == \E other \in Editors \ {e} :
    /\ Settling(edit[other])
    /\ \/ edit[other].id = edit[e].id
       \/ {edit[e].op, edit[other].op} \subseteq {"add", "update"}

Refuses(e) ==
    /\ edit[e].at = "put" /\ edit[e].clash
    /\ Goes(e, IdleEdit)
    /\ UNCHANGED <<records, provider, windows, looks, found, left, said, asked, removed, met>>

\* The whole document is written, from the copy the request loaded.
Puts(e) ==
    /\ edit[e].at = "put" /\ ~edit[e].clash
    /\ LET r == edit[e] IN
          /\ records' = [records EXCEPT ![r.id] = Made(r.seen, r)]
          /\ said' = Wanted(r)
          /\ removed' = IF r.op = "delete" THEN removed \cup {r.id} ELSE removed
          /\ Goes(e, [r EXCEPT !.at = "look"])
    /\ met' = (met \/ Meets(e))
    /\ UNCHANGED <<provider, windows, looks, found, left, asked>>

\* onChanged: ask whether an indexer is enabled ...
Looks(e) ==
    /\ edit[e].at = "look"
    /\ looks' = Append(looks, [of |-> e, enabled |-> Enabled # {}])
    /\ windows' = IF edit[e].op = "delete" THEN [windows EXCEPT ![edit[e].id] = 0] ELSE windows
    /\ Goes(e, [edit[e] EXCEPT !.at = "sync"])
    /\ UNCHANGED <<records, provider, found, left, said, asked, removed, met>>

\* ... and register the provider, or withdraw it.  Answers come in order.
IsNext(e) == looks # <<>> /\ Head(looks).of = e
Syncs(e) ==
    /\ edit[e].at = "sync" /\ IsNext(e)
    /\ provider' = Head(looks).enabled /\ looks' = Tail(looks)
    /\ Goes(e, IdleEdit)
    /\ UNCHANGED <<records, windows, found, left, said, asked, removed, met>>

------------------------------------------------------------------------------
\* search: the enabled indexers that accept the query ...
SearchReads(s) ==
    /\ provider /\ found[s] = {} /\ left.searches > 0
    /\ left' = [left EXCEPT !.searches = @ - 1]
    /\ \E accepting \in SUBSET Enabled \ {{}} : found' = [found EXCEPT ![s] = accepting]
    /\ UNCHANGED <<records, provider, windows, edit, looks, said, asked, removed, met>>

\* ... are asked, each of them within the limit of its window.
Admits(i) == SearchLimit = 0 \/ windows[i] < SearchLimit
SearchAsks(s) ==
    /\ found[s] # {}
    /\ LET admitted == {i \in found[s] : Admits(i)}
           Counted(count) == [i \in Indexers |-> count[i] + (IF i \in admitted THEN 1 ELSE 0)]
       IN windows' = Counted(windows) /\ asked' = Counted(asked)
    /\ found' = [found EXCEPT ![s] = {}]
    /\ UNCHANGED <<records, provider, edit, looks, left, said, removed, met>>

\* The window of an indexer moves past its oldest search; a deleted one has none.
Shrinks(n) == IF n = 0 THEN 0 ELSE n - 1
LeavesWindow(i) ==
    /\ asked[i] > 0
    /\ asked' = [asked EXCEPT ![i] = @ - 1]
    /\ windows' = [windows EXCEPT ![i] = Shrinks(@)]
    /\ UNCHANGED <<records, provider, edit, looks, found, left, said, removed, met>>

\* The server stops or dies and starts again: requests and windows are lost.
RestartsServer ==
    /\ left.restarts > 0 /\ left' = [left EXCEPT !.restarts = @ - 1]
    /\ edit' = [e \in Editors |-> IdleEdit] /\ looks' = <<>>
    /\ found' = [s \in Searchers |-> {}]
    /\ windows' = [i \in Indexers |-> 0] /\ asked' = windows'
    /\ provider' = (Enabled # {})
    /\ UNCHANGED <<records, said, removed, met>>

IndexerNext ==
    \/ \E e \in Editors :
          \/ AddAsks(e) \/ UpdateAsks(e) \/ EnableAsks(e) \/ DeleteAsks(e) \/ TestAsks(e)
          \/ ReadsNames(e) \/ Probes(e) \/ Refuses(e) \/ Puts(e) \/ Looks(e) \/ Syncs(e)
    \/ \E s \in Searchers : SearchReads(s) \/ SearchAsks(s)
    \/ \E i \in Indexers : LeavesWindow(i)
    \/ RestartsServer

IndexerSpec == IndexerInit /\ [][IndexerNext]_indexerVars

------------------------------------------------------------------------------
\* Hazard: the registration follows from an answer that may be old when it is
\* used, and requests overlap (kernel.ts:222).  When none is under way searches
\* find the provider exactly if an indexer is enabled.
ProviderFollows == Resting => (provider <=> Enabled # {})

\* Hazard: searches overlap and all of them count against one window
\* (indexer-settings.ts:490).  In a life of the process an indexer that is not
\* deleted is never asked more often than its window allows.
WithinWindow ==
    SearchLimit > 0 => \A i \in Indexers \ removed : asked[i] <= SearchLimit

\* Hazard: every request writes the whole document, the key no one is shown
\* included (indexer-settings.ts:335).  As long as no two requests met on one
\* indexer or one name, the documents are what the requests wanted, each under
\* a name of its own.
SavedAsAsked ==
    ~met => /\ records = said
            /\ \A i, j \in Stored : i # j => records[i].name # records[j].name

\* The documents, the registration and the windows of a server on which requests
\* and searches overlap.
IndexersKept == IndexerTypeOK /\ ProviderFollows /\ WithinWindow /\ SavedAsAsked
==============================================================================
