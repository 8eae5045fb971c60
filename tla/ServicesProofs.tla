--------------------------- MODULE ServicesProofs ----------------------------
(* Machine-checked theorems about Accounts, IndexerSettings, EventFeed,        *)
(* PluginChannel and NntpPool, for any number of users, indexers, requests,    *)
(* searches, cuts and restarts, of publications, sockets and pages, of         *)
(* processes, calls and requests of a plugin, and of articles, connections and *)
(* losses; and about MCServices, the five together.                            *)
EXTENDS MCServices, FiniteSetTheorems, WellFoundedInduction, TLAPS

------------------------------------------------------------------------------
(* Accounts: the inductive invariant *)

\* A request is on its way to found the first account, or to change one that is
\* there; accounts are never deleted.
Foundings == [at : {"lock", "check", "insert"}, op : {"bootstrap"}, of : Users]
RowChanges == [at : {"look", "count", "write"}, op : Changes, of : Users]
RequestsShaped ==
    /\ request \in [AccountRequests -> {Free} \cup Foundings \cup RowChanges]
    /\ \A r \in AccountRequests : request[r] \in RowChanges => request[r].of \in Known

\* The transaction of the first start: one request is inside, and the table is
\* empty from its look to its insert.
OneInside ==
    /\ \A r \in AccountRequests : r \in holder <=> request[r].at \in {"check", "insert"}
    /\ \A r, q \in holder : r = q
    /\ \A r \in AccountRequests : request[r].at = "insert" => Known = {}

\* The account made by the first start is one that is there.
FounderThere ==
    /\ founders \subseteq Known
    /\ founders = {} \/ \E u \in Users : founders = {u}
    /\ Known # {} => founders # {}

\* As long as no two requests that remove administrators overlapped, one of them
\* that is about to write leaves another administrator.
OneIsSpared ==
    ~overlap =>
       /\ Known # {} => Admins # {}
       /\ \A r \in AccountRequests :
             request[r].at = "write" /\ Removes(r) =>
                \E v \in Admins : v # request[r].of

AccountInv ==
    /\ AccountTypeOK /\ RequestsShaped /\ OneInside /\ FounderThere /\ OneIsSpared

\* A row is there.
LEMMA RowsAreThere == \A row \in [role : Roles, active : BOOLEAN] : row # Absent
BY AbsentAssumption, Zenon DEF Roles

\* A row that is written stays a row, and the account keeps its name.
LEMMA RowsKept ==
    ASSUME NEW row \in [role : Roles, active : BOOLEAN], NEW op \in Changes
    PROVE  /\ Set(row, op) \in [role : Roles, active : BOOLEAN]
           /\ op \in {"promote", "activate"} /\ row.role = "admin" /\ row.active =>
                 Set(row, op).role = "admin" /\ Set(row, op).active
BY DEF Set, Changes, Roles

\* Where a request that goes on gets to.
LEMMA GoesOn ==
    ASSUME RequestsShaped, NEW r \in AccountRequests, NEW place, GoesTo(r, place),
           \/ request[r] \in Foundings /\ place \in {"check", "insert"}
           \/ request[r] \in RowChanges /\ place \in {"count", "write"}
    PROVE  \E to \in Foundings \cup RowChanges :
              /\ request' = [request EXCEPT ![r] = to] /\ to.at = place
              /\ to.op = request[r].op /\ to.of = request[r].of
              /\ to \in RowChanges <=> request[r] \in RowChanges
<1> DEFINE to == [request[r] EXCEPT !.at = place]
<1>1. to \in Foundings \cup RowChanges /\ to.at = place
      /\ to.op = request[r].op /\ to.of = request[r].of
  BY DEF Foundings, RowChanges
<1>2. to \in RowChanges <=> request[r] \in RowChanges
  BY DEF Foundings, RowChanges
<1>3. request' = [request EXCEPT ![r] = to]
  BY DEF GoesTo, Turns
<1> QED
  BY <1>1, <1>2, <1>3

\* The place of a request tells what it is about.
LEMMA AtPlaces ==
    ASSUME RequestsShaped, NEW r \in AccountRequests
    PROVE  /\ request[r].at \in {"lock", "check", "insert"} <=> request[r] \in Foundings
           /\ request[r].at \in {"look", "count", "write"} <=> request[r] \in RowChanges
           /\ request[r].at = "idle" <=> request[r] = Free
BY DEF RequestsShaped, Foundings, RowChanges, Free

\* A request that arrives has done nothing yet.
LEMMA ArrivalKeeps ==
    ASSUME AccountInv, NEW r \in AccountRequests, NEW to, Arrives(r, to),
           \/ to \in Foundings /\ to.at = "lock"
           \/ to \in RowChanges /\ to.at = "look",
           to \in RowChanges => to.of \in Known
    PROVE  AccountInv'
<1>1. /\ request[r] = Free /\ request' = [request EXCEPT ![r] = to]
      /\ UNCHANGED <<account, holder, founders, overlap>>
  BY DEF Arrives, Turns
<1>2. RequestsShaped'
  BY <1>1 DEF AccountInv, RequestsShaped, Known
<1>3. AccountTypeOK'
  BY <1>1 DEF AccountInv, AccountTypeOK, RequestsShaped
<1>4. OneInside'
  BY <1>1 DEF AccountInv, OneInside, RequestsShaped, Free, Known
<1>5. FounderThere'
  BY <1>1 DEF AccountInv, FounderThere, Known
<1>6. OneIsSpared'
  BY <1>1 DEF AccountInv, OneIsSpared, RequestsShaped, Known, Admins, Removes
<1> QED
  BY <1>2, <1>3, <1>4, <1>5, <1>6 DEF AccountInv

\* A request that goes on or ends, and writes nothing: what it may count on.
LEMMA ReadKeeps ==
    ASSUME AccountInv, NEW r \in AccountRequests, UNCHANGED <<account, founders>>,
           NEW to \in {Free} \cup Foundings \cup RowChanges,
           request' = [request EXCEPT ![r] = to],
           to \in RowChanges => to.of \in Known,
           holder' = IF to.at \in {"check", "insert"} THEN {r} ELSE holder \ {r},
           to.at \in {"check", "insert"} => holder \subseteq {r},
           to.at = "insert" => Known = {},
           overlap' \in BOOLEAN, overlap => overlap',
           ~overlap' /\ to.at = "write" /\ to.op \in {"demote", "deactivate"} =>
              \E v \in Admins : v # to.of
    PROVE  AccountInv'
<1>1. Known' = Known /\ Admins' = Admins
  BY DEF Known, Admins
<1>2. RequestsShaped'
  BY <1>1 DEF AccountInv, RequestsShaped
<1>3. AccountTypeOK'
  <2>1. to.at \in {"idle", "lock", "check", "insert", "look", "count", "write"}
    BY DEF Free, Foundings, RowChanges
  <2> QED
    BY <2>1 DEF AccountInv, AccountTypeOK, RequestsShaped
<1>4. OneInside'
  BY <1>1 DEF AccountInv, OneInside, RequestsShaped
<1>5. FounderThere'
  BY <1>1 DEF AccountInv, FounderThere
<1>6. OneIsSpared'
  BY <1>1 DEF AccountInv, OneIsSpared, RequestsShaped, Removes
<1> QED
  BY <1>2, <1>3, <1>4, <1>5, <1>6 DEF AccountInv

\* The lock row, the look, and what the administrators' requests read.
LEMMA ReadsKeep ==
    ASSUME AccountInv, NEW r \in AccountRequests,
           Locks(r) \/ ChecksFirst(r) \/ LooksUp(r) \/ Counts(r) \/ CutShort(r)
    PROVE  AccountInv'
<1>1. Free.at = "idle" /\ Free \notin RowChanges
  BY DEF Free, RowChanges
<1>2. CASE Locks(r)
  <2>1. /\ request[r] \in Foundings /\ holder \subseteq {r} /\ holder' = holder \cup {r}
    BY <1>2, AtPlaces DEF AccountInv, Locks, AtPlace, Queries
  <2>2. PICK to \in Foundings \cup RowChanges :
           request' = [request EXCEPT ![r] = to] /\ to.at = "check"
    BY <1>2, <2>1, GoesOn DEF AccountInv, Locks
  <2>3. to \notin RowChanges
    BY <2>2 DEF RowChanges
  <2> QED
    BY <1>2, <2>1, <2>2, <2>3, ReadKeeps DEF AccountInv, AccountTypeOK, Locks
<1>3. CASE ChecksFirst(r)
  <2>1. /\ request[r] \in Foundings /\ holder \subseteq {r} /\ r \in holder
    BY <1>3, AtPlaces DEF AccountInv, ChecksFirst, OneInside
  <2>2. CASE Known = {}
    <3>1. PICK to \in Foundings \cup RowChanges :
             request' = [request EXCEPT ![r] = to] /\ to.at = "insert"
      BY <1>3, <2>1, <2>2, GoesOn DEF AccountInv, ChecksFirst
    <3>2. to \notin RowChanges
      BY <3>1 DEF RowChanges
    <3> QED
      BY <1>3, <2>1, <2>2, <3>1, <3>2, ReadKeeps DEF AccountInv, AccountTypeOK, ChecksFirst
  <2>3. CASE Known # {}
    BY <1>1, <1>3, <2>3, ReadKeeps DEF AccountInv, AccountTypeOK, ChecksFirst, Turns
  <2> QED
    BY <2>2, <2>3
<1>4. CASE LooksUp(r)
  <2> DEFINE place == IF Removes(r) /\ request[r].of \in Admins THEN "count" ELSE "write"
  <2>1. request[r] \in RowChanges /\ r \notin holder /\ request[r].of \in Known
    BY <1>4, AtPlaces DEF AccountInv, LooksUp, AtPlace, OneInside, RequestsShaped
  <2>2. PICK to \in Foundings \cup RowChanges :
           /\ request' = [request EXCEPT ![r] = to] /\ to.at = place
           /\ to.op = request[r].op /\ to.of = request[r].of
    BY <1>4, <2>1, GoesOn DEF AccountInv, LooksUp
  <2>3. to.at = "write" /\ to.op \in {"demote", "deactivate"} => to.of \notin Admins
    BY <2>2 DEF Removes
  <2>4. ~overlap => \E v \in Admins : v \in Admins
    BY <2>1 DEF AccountInv, OneIsSpared
  <2> QED
    BY <1>4, <2>1, <2>2, <2>3, <2>4, ReadKeeps DEF AccountInv, AccountTypeOK, LooksUp
<1>5. CASE Counts(r)
  <2>1. request[r] \in RowChanges /\ r \notin holder /\ request[r].of \in Known
    BY <1>5, AtPlaces DEF AccountInv, Counts, AtPlace, OneInside, RequestsShaped
  <2>2. overlap' \in BOOLEAN /\ (overlap => overlap')
    BY <1>5 DEF AccountInv, AccountTypeOK, Counts
  <2>3. CASE Spare(Cardinality(Admins))
    <3>1. PICK to \in Foundings \cup RowChanges :
             /\ request' = [request EXCEPT ![r] = to] /\ to.at = "write"
             /\ to.op = request[r].op /\ to.of = request[r].of
      BY <1>5, <2>1, <2>3, GoesOn DEF AccountInv, Counts
    <3>2. \E v \in Admins : v # to.of
      <4> SUFFICES ASSUME \A v \in Admins : v = to.of PROVE FALSE
        OBVIOUS
      <4>1. Admins = {} \/ Admins = {to.of}
        OBVIOUS
      <4>2. Cardinality(Admins) = 0 \/ Cardinality(Admins) = 1
        BY <4>1, FS_EmptySet, FS_Singleton
      <4> QED
        BY <2>3, <4>2 DEF Spare
    <3> QED
      BY <1>5, <2>1, <2>2, <3>1, <3>2, ReadKeeps DEF Counts
  <2>4. CASE ~Spare(Cardinality(Admins))
    BY <1>1, <1>5, <2>1, <2>2, <2>4, ReadKeeps DEF Counts, Turns
  <2> QED
    BY <2>3, <2>4
<1>6. CASE CutShort(r)
  BY <1>1, <1>6, ReadKeeps DEF AccountInv, AccountTypeOK, CutShort, Turns
<1> QED
  BY <1>2, <1>3, <1>4, <1>5, <1>6

\* The first account: it is the only one, so it is the only founder.
LEMMA FoundsKeeps ==
    ASSUME AccountInv, NEW r \in AccountRequests, Founds(r)
    PROVE  AccountInv'
<1> DEFINE u == request[r].of
<1>1. /\ request[r] \in Foundings /\ u \in Users /\ Known = {} /\ founders = {}
      /\ holder = {r}
  BY AtPlaces DEF AccountInv, Founds, OneInside, FounderThere, Foundings
<1>2. account[u] = Absent
  BY <1>1 DEF Known
<1>3. /\ account' = [account EXCEPT ![u] = Admin] /\ founders' = {u}
      /\ request' = [request EXCEPT ![r] = Free] /\ holder' = {} /\ overlap' = overlap
  BY <1>1, <1>2 DEF Founds, Turns
<1>4. Admin \in [role : Roles, active : BOOLEAN] /\ Admin # Absent
  BY RowsAreThere DEF Admin, Roles
<1>5. Known' = {u} /\ Admins' = {u}
  BY <1>1, <1>3, <1>4 DEF Known, Admins, Admin, AccountInv, AccountTypeOK
<1>6. RequestsShaped' /\ \A q \in AccountRequests : request'[q] \notin RowChanges
  BY <1>1, <1>3 DEF AccountInv, RequestsShaped, Free, RowChanges
<1>7. AccountTypeOK'
  BY <1>1, <1>3, <1>4 DEF AccountInv, AccountTypeOK, RequestsShaped, Free
<1>8. OneInside'
  BY <1>1, <1>3 DEF AccountInv, OneInside, RequestsShaped, Free
<1>9. FounderThere'
  BY <1>1, <1>3, <1>5 DEF FounderThere
<1>10. OneIsSpared'
  <2>1. \A q \in AccountRequests : request'[q].at # "write"
    BY <1>6 DEF RequestsShaped, Free, Foundings
  <2> QED
    BY <1>5, <2>1 DEF OneIsSpared
<1> QED
  BY <1>6, <1>7, <1>8, <1>9, <1>10 DEF AccountInv

\* A new account takes no administrator away.
LEMMA CreatesKeeps ==
    ASSUME AccountInv, NEW r \in AccountRequests, Creates(r)
    PROVE  AccountInv'
<1>1. PICK u \in Users, role \in Roles :
         /\ holder \subseteq {r} /\ Admins # {} /\ account[u] = Absent /\ request[r] = Free
         /\ account' = [account EXCEPT ![u] = [role |-> role, active |-> TRUE]]
         /\ UNCHANGED <<request, holder, founders, overlap>>
  BY DEF Creates, Queries
<1>2. [role |-> role, active |-> TRUE] \in [role : Roles, active : BOOLEAN] \ {Absent}
  <2>1. [role |-> role, active |-> TRUE] \in [role : Roles, active : BOOLEAN]
    OBVIOUS
  <2> QED
    BY <2>1, RowsAreThere
<1>3. Known' = Known \cup {u}
  BY <1>1, <1>2 DEF Known, AccountInv, AccountTypeOK
<1>4. Admins \subseteq Admins'
  BY <1>1, <1>3 DEF Admins, Known, AccountInv, AccountTypeOK
<1>5. holder = {} /\ Known # {}
  BY <1>1 DEF AccountInv, OneInside, Free, Admins
<1>6. RequestsShaped'
  BY <1>1, <1>3 DEF AccountInv, RequestsShaped
<1>7. AccountTypeOK'
  BY <1>1, <1>2 DEF AccountInv, AccountTypeOK
<1>8. OneInside'
  BY <1>1, <1>5 DEF AccountInv, OneInside
<1>9. FounderThere'
  BY <1>1, <1>3, <1>5 DEF AccountInv, FounderThere
<1>10. OneIsSpared'
  BY <1>1, <1>4, <1>5 DEF AccountInv, OneIsSpared, Removes
<1> QED
  BY <1>6, <1>7, <1>8, <1>9, <1>10 DEF AccountInv

\* A change of an account: either no other removal is under way, and the count
\* of this one still holds, or the overlap is on record.
LEMMA WritesKeeps ==
    ASSUME AccountInv, NEW r \in AccountRequests, WritesRow(r)
    PROVE  AccountInv'
<1> DEFINE u  == request[r].of
           op == request[r].op
<1>1. /\ request[r] \in RowChanges /\ u \in Known /\ u \in Users /\ op \in Changes
      /\ r \notin holder /\ holder = {}
  BY AtPlaces DEF AccountInv, WritesRow, AtPlace, Queries, RequestsShaped, RowChanges, OneInside
<1>2. /\ account' = [account EXCEPT ![u] = Set(@, op)]
      /\ request' = [request EXCEPT ![r] = Free] /\ UNCHANGED <<holder, founders>>
      /\ overlap' = (overlap \/ (Removes(r) /\ AnotherRemoves(r)))
  BY DEF WritesRow, Turns
<1>3. account[u] \in [role : Roles, active : BOOLEAN]
  BY <1>1 DEF AccountInv, AccountTypeOK, Known
<1>4. Set(account[u], op) \in [role : Roles, active : BOOLEAN] \ {Absent}
  BY <1>1, <1>3, RowsKept, RowsAreThere
<1>5. Known' = Known
  BY <1>1, <1>2, <1>4 DEF Known, AccountInv, AccountTypeOK
<1>6. \A v \in Admins : v # u => v \in Admins'
  BY <1>2, <1>5 DEF Admins, Known, AccountInv, AccountTypeOK
<1>7. ~Removes(r) => Admins \subseteq Admins'
  <2> SUFFICES ASSUME op \in {"promote", "activate"}, u \in Admins PROVE u \in Admins'
    BY <1>1, <1>6 DEF Removes, Changes
  <2>1. account[u].role = "admin" /\ account[u].active
    BY DEF Admins
  <2>2. Set(account[u], op).role = "admin" /\ Set(account[u], op).active
    BY <1>1, <1>3, <2>1, RowsKept
  <2> QED
    BY <1>1, <1>2, <1>5, <2>2 DEF Admins, AccountInv, AccountTypeOK
<1>8. RequestsShaped'
  BY <1>2, <1>5 DEF AccountInv, RequestsShaped, Free, RowChanges
<1>9. AccountTypeOK'
  BY <1>1, <1>2, <1>4 DEF AccountInv, AccountTypeOK, RequestsShaped, Free
<1>10. OneInside'
  BY <1>1, <1>2, <1>5 DEF AccountInv, OneInside, RequestsShaped, Free
<1>11. FounderThere'
  BY <1>2, <1>5 DEF AccountInv, FounderThere
<1>12. OneIsSpared'
  <2> SUFFICES ASSUME ~overlap'
               PROVE  /\ Known # {} => Admins' # {}
                      /\ \A q \in AccountRequests :
                            request'[q].at = "write" /\ Removes(q)' =>
                               \E v \in Admins' : v # request'[q].of
    BY <1>5 DEF OneIsSpared
  <2>1. ~overlap /\ ~(Removes(r) /\ AnotherRemoves(r))
    BY <1>2
  <2>2. Admins # {} /\ Admins' # {}
    <3>1. CASE Removes(r)
      BY <1>1, <1>6, <2>1, <3>1 DEF AccountInv, OneIsSpared, WritesRow, AtPlace
    <3>2. CASE ~Removes(r)
      BY <1>1, <1>7, <2>1, <3>2 DEF AccountInv, OneIsSpared
    <3> QED
      BY <3>1, <3>2
  <2>3. ASSUME NEW q \in AccountRequests, request'[q].at = "write", Removes(q)'
        PROVE  \E v \in Admins' : v # request'[q].of
    <3>1. q # r /\ request'[q] = request[q]
      BY <1>2, <2>3 DEF AccountInv, RequestsShaped, Free
    <3>2. Removes(q) /\ request[q].at = "write"
      BY <2>3, <3>1 DEF Removes
    <3>3. ~Removes(r)
      BY <2>1, <3>1, <3>2 DEF AnotherRemoves
    <3>4. \E v \in Admins : v # request[q].of
      BY <2>1, <3>2 DEF AccountInv, OneIsSpared
    <3> QED
      BY <1>7, <3>1, <3>3, <3>4
  <2> QED
    BY <2>2, <2>3
<1> QED
  BY <1>8, <1>9, <1>10, <1>11, <1>12 DEF AccountInv

LEMMA AccountInitInv == AccountInit => AccountInv
<1> SUFFICES ASSUME AccountInit PROVE AccountInv
  OBVIOUS
<1>1. Known = {} /\ Free.at = "idle" /\ Free \notin RowChanges
  BY DEF AccountInit, Known, Free, RowChanges
<1>2. AccountTypeOK /\ RequestsShaped
  BY <1>1 DEF AccountInit, AccountTypeOK, RequestsShaped
<1>3. OneInside /\ FounderThere /\ OneIsSpared
  BY <1>1 DEF AccountInit, OneInside, FounderThere, OneIsSpared
<1> QED
  BY <1>2, <1>3 DEF AccountInv

LEMMA AccountStepInv == AccountInv /\ [AccountNext]_accountVars => AccountInv'
<1> SUFFICES ASSUME AccountInv, [AccountNext]_accountVars PROVE AccountInv'
  OBVIOUS
<1>1. ASSUME NEW r \in AccountRequests, BootstrapAsks(r)
      PROVE  AccountInv'
  <2>1. PICK u \in Users : Arrives(r, [at |-> "lock", op |-> "bootstrap", of |-> u])
    BY <1>1 DEF BootstrapAsks
  <2> DEFINE to == [at |-> "lock", op |-> "bootstrap", of |-> u]
  <2>2. to \in Foundings /\ to \notin RowChanges /\ to.at = "lock"
    BY DEF Foundings, RowChanges
  <2>3. Arrives(r, to)
    BY <2>1
  <2> HIDE DEF to
  <2> QED
    BY <2>2, <2>3, ArrivalKeeps
<1>2. ASSUME NEW r \in AccountRequests, ChangeAsks(r)
      PROVE  AccountInv'
  <2>1. PICK u \in Known, op \in Changes : Arrives(r, [at |-> "look", op |-> op, of |-> u])
    BY <1>2 DEF ChangeAsks
  <2> DEFINE to == [at |-> "look", op |-> op, of |-> u]
  <2>2. to \in RowChanges /\ to.at = "look" /\ to.of = u
    BY DEF RowChanges, Known
  <2>3. Arrives(r, to)
    BY <2>1
  <2> HIDE DEF to
  <2> QED
    BY <2>2, <2>3, ArrivalKeeps
<1>3. CASE UNCHANGED accountVars
  BY <1>3 DEF accountVars, AccountInv, AccountTypeOK, RequestsShaped, OneInside,
      FounderThere, OneIsSpared, Known, Admins, Removes
<1> QED
  BY <1>1, <1>2, <1>3, ReadsKeep, FoundsKeeps, CreatesKeeps, WritesKeeps DEF AccountNext

\* The first start makes one administrator, and as long as no two requests that
\* take administrators away overlap somebody can sign in and manage the others,
\* for any number of users and requests.
THEOREM AccountsAreKept == AccountSpec => []AccountsKept
<1>1. AccountInv => AccountsKept
  <2> SUFFICES ASSUME AccountInv PROVE OneFounder
    BY DEF AccountInv, AccountsKept, OneIsSpared, AdminRemains
  <2>1. Cardinality(founders) <= 1
    BY FS_EmptySet, FS_Singleton DEF AccountInv, FounderThere
  <2> QED
    BY <2>1 DEF AccountInv, FounderThere, OneFounder
<1> QED
  BY <1>1, AccountInitInv, AccountStepInv, PTL DEF AccountSpec

------------------------------------------------------------------------------
(* Indexer settings: the inductive invariant *)

\* Requests in progress, by what they carry.
FullInputs == [name : IndexerNames, key : Keys, on : BOOLEAN]
OnInputs   == [on : BOOLEAN]
Requests0  ==
    [at : {"names", "probe", "put", "look", "sync"},
     op : {"add", "update", "enable", "delete", "test"}, id : Indexers,
     seen : Documents \cup {NoIndexer},
     input : FullInputs \cup OnInputs \cup {NoIndexer}, clash : BOOLEAN]
RequestShaped(r) ==
    \/ r = IdleEdit
    \/ /\ r \in Requests0
       /\ r.op \in {"add", "update"} => r.input \in FullInputs
       /\ r.op = "enable" => r.input \in OnInputs
       /\ r.op # "add" => r.seen # NoIndexer
       /\ r.op = "add" => r.seen = NoIndexer /\ r.at # "names"
       /\ r.at = "probe" => r.op = "test"
Answers == [of : Editors, enabled : BOOLEAN]
SettingsShaped ==
    /\ records \in [Indexers -> Documents \cup {NoIndexer}]
    /\ said \in [Indexers -> Documents \cup {NoIndexer}]
    /\ provider \in BOOLEAN /\ met \in BOOLEAN
    /\ windows \in [Indexers -> Nat] /\ asked \in [Indexers -> Nat]
    /\ edit \in [Editors -> Requests0 \cup {IdleEdit}]
    /\ \A e \in Editors : RequestShaped(edit[e])
    /\ looks \in Seq(Answers) /\ found \in [Searchers -> SUBSET Indexers]
    /\ removed \subseteq Indexers

\* The answers on their way are those of the requests that wait for one, and
\* the last of them is right unless a request is still to ask.
LooksOfSyncs ==
    /\ \A n \in DOMAIN looks : edit[looks[n].of].at = "sync"
    /\ \A m, n \in DOMAIN looks : looks[m].of = looks[n].of => m = n
    /\ \A e \in Editors : edit[e].at = "sync" => \E n \in DOMAIN looks : looks[n].of = e
LastIsRight ==
    (\A e \in Editors : edit[e].at # "look") =>
        IF looks = <<>> THEN provider <=> Enabled # {}
        ELSE looks[Len(looks)].enabled <=> Enabled # {}

\* The window of an indexer that is not deleted counts what it was asked.
WindowsCount ==
    /\ SearchLimit > 0 => \A i \in Indexers : windows[i] <= SearchLimit
    /\ \A i \in Indexers \ removed : asked[i] <= windows[i]
    /\ \A e \in Editors : edit[e].at \in {"look", "sync"} /\ edit[e].op = "delete" =>
          edit[e].id \in removed

\* A request that is to write has the document as it is, and the name it was
\* told is free is free.
NameFree(r) == \A j \in Indexers \ {r.id} : records[j] # NoIndexer => records[j].name # r.input.name
CopiesAreFresh ==
    ~met => /\ records = said
            /\ \A i, j \in Stored : i # j => records[i].name # records[j].name
            /\ \A e \in Editors : Settling(edit[e]) => edit[e].seen = records[edit[e].id]
            /\ \A e \in Editors :
                  edit[e].at = "put" /\ edit[e].op \in {"add", "update"} /\ ~edit[e].clash =>
                     NameFree(edit[e])

SettingsInv == SettingsShaped /\ LooksOfSyncs /\ LastIsRight /\ WindowsCount /\ CopiesAreFresh

LEMMA SettingsStart == IndexerInit => SettingsInv
<1> SUFFICES ASSUME IndexerInit PROVE SettingsInv
  OBVIOUS
<1>1. SettingsShaped
  <2>1. records \in [Indexers -> Documents \cup {NoIndexer}] /\ said = records
    BY DEF IndexerInit
  <2>2. windows \in [Indexers -> Nat] /\ asked = windows /\ removed = {} /\ looks = <<>>
    BY DEF IndexerInit
  <2>3. edit = [e \in Editors |-> IdleEdit]
    BY DEF IndexerInit
  <2>4. provider \in BOOLEAN /\ met \in BOOLEAN /\ found \in [Searchers -> SUBSET Indexers]
    BY DEF IndexerInit
  <2>5. looks \in Seq(Answers)
    BY <2>2
  <2> QED
    BY <2>1, <2>2, <2>3, <2>4, <2>5 DEF SettingsShaped, RequestShaped
<1>2. LooksOfSyncs /\ LastIsRight
  BY DEF IndexerInit, LooksOfSyncs, LastIsRight, Enabled, Stored, IdleEdit
<1>3. WindowsCount /\ CopiesAreFresh
  BY IndexerBounds DEF IndexerInit, WindowsCount, CopiesAreFresh, Stored, Settling, IdleEdit
<1> QED
  BY <1>1, <1>2, <1>3 DEF SettingsInv

\* Asking changes nothing but the request, which has the document as it is.
LEMMA AskKeeps ==
    ASSUME SettingsInv, NEW e \in Editors, NEW r, Asks(e, r), RequestShaped(r), r # IdleEdit,
           r.at \in {"names", "probe", "put"}, r.seen = records[r.id],
           r.at = "put" /\ r.op \in {"add", "update"} /\ ~r.clash => NameFree(r)
    PROVE  SettingsInv'
<1> USE DEF SettingsInv, Asks, Goes
<1>1. r \in Requests0 /\ edit[e] = IdleEdit
  BY DEF RequestShaped
<1>2. edit' = [edit EXCEPT ![e] = r] /\ edit'[e] = r
      /\ \A d \in Editors : d # e => edit'[d] = edit[d]
  BY DEF SettingsShaped
<1>3. SettingsShaped'
  BY <1>1, <1>2 DEF SettingsShaped
<1>4. LooksOfSyncs'
  BY <1>1, <1>2 DEF LooksOfSyncs, SettingsShaped, Answers, IdleEdit
<1>5. LastIsRight'
  BY <1>1, <1>2 DEF LastIsRight, Enabled, Stored, IdleEdit
<1>6. WindowsCount'
  BY <1>1, <1>2 DEF WindowsCount
<1>7. CopiesAreFresh'
  BY <1>1, <1>2 DEF CopiesAreFresh, Stored, NameFree, Settling
<1> QED
  BY <1>3, <1>4, <1>5, <1>6, <1>7

LEMMA AsksKeep ==
    ASSUME SettingsInv, NEW e \in Editors,
           AddAsks(e) \/ UpdateAsks(e) \/ EnableAsks(e) \/ DeleteAsks(e) \/ TestAsks(e)
    PROVE  SettingsInv'
<1> USE DEF Requests0, RequestShaped, Asked, IdleEdit, FullInputs, OnInputs
<1>0. records \in [Indexers -> Documents \cup {NoIndexer}]
  BY DEF SettingsInv, SettingsShaped
<1>1. CASE AddAsks(e)
  <2>1. PICK i \in Indexers, name \in IndexerNames, key \in Keys, on \in BOOLEAN :
           /\ Unused(i)
           /\ Asks(e, Asked("put", "add", i, NoIndexer, [name |-> name, key |-> key, on |-> on],
                            Taken(name, i)))
    BY <1>1 DEF AddAsks
  <2> DEFINE r == Asked("put", "add", i, NoIndexer, [name |-> name, key |-> key, on |-> on],
                        Taken(name, i))
  <2>2. Taken(name, i) \in BOOLEAN
    BY DEF Taken
  <2>3. RequestShaped(r) /\ r # IdleEdit /\ r.at = "put" /\ r.seen = records[r.id]
    BY <2>1, <2>2 DEF Unused
  <2>4. ~r.clash => NameFree(r)
    BY DEF Taken, NameFree, Stored
  <2> HIDE DEF r
  <2> QED
    BY <2>1, <2>3, <2>4, AskKeeps DEF r
<1>2. CASE UpdateAsks(e)
  <2>1. PICK i \in Stored, name \in IndexerNames, key \in Keys, on \in BOOLEAN :
           Asks(e, Asked("names", "update", i, records[i],
                         [name |-> name, key |-> key, on |-> on], FALSE))
    BY <1>2 DEF UpdateAsks
  <2> DEFINE r == Asked("names", "update", i, records[i],
                        [name |-> name, key |-> key, on |-> on], FALSE)
  <2>2. RequestShaped(r) /\ r # IdleEdit /\ r.at = "names" /\ r.seen = records[r.id]
    BY <1>0, <2>1 DEF Stored
  <2> HIDE DEF r
  <2> QED
    BY <2>1, <2>2, AskKeeps DEF r
<1>3. CASE EnableAsks(e)
  <2>1. PICK i \in Stored, on \in BOOLEAN :
           Asks(e, Asked("put", "enable", i, records[i], [on |-> on], FALSE))
    BY <1>3 DEF EnableAsks
  <2> DEFINE r == Asked("put", "enable", i, records[i], [on |-> on], FALSE)
  <2>2. RequestShaped(r) /\ r # IdleEdit /\ r.at = "put" /\ r.seen = records[r.id]
        /\ r.op = "enable"
    BY <1>0, <2>1 DEF Stored
  <2> HIDE DEF r
  <2> QED
    BY <2>1, <2>2, AskKeeps DEF r
<1>4. CASE DeleteAsks(e)
  <2>1. PICK i \in Stored : Asks(e, Asked("put", "delete", i, records[i], NoIndexer, FALSE))
    BY <1>4 DEF DeleteAsks
  <2> DEFINE r == Asked("put", "delete", i, records[i], NoIndexer, FALSE)
  <2>2. RequestShaped(r) /\ r # IdleEdit /\ r.at = "put" /\ r.seen = records[r.id]
        /\ r.op = "delete"
    BY <1>0, <2>1 DEF Stored
  <2> HIDE DEF r
  <2> QED
    BY <2>1, <2>2, AskKeeps DEF r
<1>5. CASE TestAsks(e)
  <2>1. PICK i \in Stored : Asks(e, Asked("probe", "test", i, records[i], NoIndexer, FALSE))
    BY <1>5 DEF TestAsks
  <2> DEFINE r == Asked("probe", "test", i, records[i], NoIndexer, FALSE)
  <2>2. RequestShaped(r) /\ r # IdleEdit /\ r.at = "probe" /\ r.seen = records[r.id]
        /\ r.op = "test"
    BY <1>0, <2>1 DEF Stored
  <2> HIDE DEF r
  <2> QED
    BY <2>1, <2>2, AskKeeps DEF r
<1> QED
  BY <1>1, <1>2, <1>3, <1>4, <1>5

\* A request that goes on, or ends before it has written.
LEMMA GoesOnKeeps ==
    ASSUME SettingsInv, NEW e \in Editors, NEW r, Goes(e, r), RequestShaped(r),
           UNCHANGED <<records, provider, windows, looks, found, said, asked, removed, met>>,
           edit[e].at \in {"names", "probe", "put"},
           r = IdleEdit \/ (/\ r.at = "put" /\ r.id = edit[e].id /\ r.seen = edit[e].seen
                            /\ r.op \in {"add", "update"} /\ ~r.clash => NameFree(r))
    PROVE  SettingsInv'
<1> USE DEF SettingsInv, Goes
<1>1. r \in Requests0 \cup {IdleEdit} /\ r.at \in {"idle", "put"}
      /\ (r.at = "put" => r # IdleEdit)
  <2>1. CASE r = IdleEdit
    BY <2>1 DEF IdleEdit
  <2>2. CASE r # IdleEdit
    BY <2>2 DEF RequestShaped
  <2> QED
    BY <2>1, <2>2
<1>2. edit' = [edit EXCEPT ![e] = r] /\ edit'[e] = r
      /\ \A d \in Editors : d # e => edit'[d] = edit[d]
  BY DEF SettingsShaped
<1>3. SettingsShaped'
  BY <1>1, <1>2 DEF SettingsShaped
<1>4. LooksOfSyncs'
  BY <1>1, <1>2 DEF LooksOfSyncs, SettingsShaped, Answers
<1>5. LastIsRight'
  BY <1>1, <1>2 DEF LastIsRight, Enabled, Stored
<1>6. WindowsCount'
  BY <1>1, <1>2 DEF WindowsCount
<1>7. CopiesAreFresh'
  <2>1. Settling(edit[e]) /\ Stored' = Stored
    BY DEF Settling, Stored
  <2>2. ASSUME ~met, r.at = "put" PROVE r.seen = records[r.id]
    BY <1>1, <2>1, <2>2 DEF CopiesAreFresh
  <2>3. ASSUME ~met, r.at = "put", r.op \in {"add", "update"}, ~r.clash PROVE NameFree(r)
    BY <1>1, <2>3
  <2> QED
    BY <1>1, <1>2, <2>1, <2>2, <2>3 DEF CopiesAreFresh, NameFree, Settling
<1> QED
  BY <1>3, <1>4, <1>5, <1>6, <1>7

LEMMA GoOnKeep ==
    ASSUME SettingsInv, NEW e \in Editors, ReadsNames(e) \/ Probes(e) \/ Refuses(e)
    PROVE  SettingsInv'
<1> USE DEF Requests0, RequestShaped, IdleEdit
<1>0. RequestShaped(edit[e])
  BY DEF SettingsInv, SettingsShaped
<1>1. CASE ReadsNames(e)
  <2> DEFINE c == Taken(edit[e].input.name, edit[e].id)
             r == [edit[e] EXCEPT !.at = "put", !.clash = c]
  <2>1. edit[e].at = "names" /\ Goes(e, r)
    BY <1>1 DEF ReadsNames
  <2>2. c \in BOOLEAN
    BY DEF Taken
  <2> HIDE DEF c
  <2>3. edit[e] \in Requests0 /\ edit[e].op # "add"
    BY <1>0, <2>1
  <2>4. /\ r \in Requests0 /\ r.at = "put" /\ r.clash = c /\ r.op = edit[e].op
        /\ r.id = edit[e].id /\ r.seen = edit[e].seen /\ r.input = edit[e].input
    BY <2>2, <2>3
  <2> HIDE DEF r
  <2>5. RequestShaped(r)
    BY <1>0, <2>2, <2>3, <2>4
  <2>6. ~r.clash => NameFree(r)
    BY <2>3, <2>4 DEF Taken, NameFree, Stored, c
  <2> QED
    BY <1>1, <2>1, <2>4, <2>5, <2>6, GoesOnKeeps DEF ReadsNames
<1>2. CASE Probes(e)
  <2>1. edit[e].at = "probe" /\ edit[e] \in Requests0
    BY <1>0, <1>2 DEF Probes
  <2>2. CASE Goes(e, IdleEdit)
    BY <1>2, <2>1, <2>2, GoesOnKeeps DEF Probes
  <2>3. CASE Goes(e, [edit[e] EXCEPT !.at = "put"])
    <3> DEFINE r == [edit[e] EXCEPT !.at = "put"]
    <3>1. r = [at |-> "put", op |-> edit[e].op, id |-> edit[e].id, seen |-> edit[e].seen,
               input |-> edit[e].input, clash |-> edit[e].clash]
      BY <2>1
    <3> HIDE DEF r
    <3>2. RequestShaped(r)
      BY <1>0, <2>1, <3>1
    <3>3. edit[e].op = "test"
      BY <1>0, <2>1 DEF SettingsInv, SettingsShaped
    <3> QED
      BY <1>2, <2>1, <2>3, <3>1, <3>2, <3>3, GoesOnKeeps DEF Probes, r
  <2> QED
    BY <1>2, <2>2, <2>3 DEF Probes
<1>3. CASE Refuses(e)
  BY <1>3, GoesOnKeeps DEF Refuses
<1> QED
  BY <1>1, <1>2, <1>3

\* What a request that met no other writes is what was wanted.
LEMMA PutsAsWanted ==
    ASSUME SettingsInv, NEW e \in Editors, edit[e].at = "put", ~met
    PROVE  LET r == edit[e] IN
           /\ r.id \in Indexers /\ Made(r.seen, r) \in Documents \cup {NoIndexer}
           /\ Wanted(r) = [said EXCEPT ![r.id] = Made(r.seen, r)]
<1> DEFINE r == edit[e]
<1>1. /\ RequestShaped(r) /\ r \in Requests0
      /\ said \in [Indexers -> Documents \cup {NoIndexer}]
  BY DEF SettingsInv, SettingsShaped, RequestShaped, IdleEdit
<1>2. r.seen = said[r.id]
  BY DEF SettingsInv, CopiesAreFresh, Settling
<1> HIDE DEF r
<1> USE DEF Requests0, RequestShaped, FullInputs, OnInputs, IdleEdit
<1>3. CASE r.op = "add"
  <2>1. r.input \in FullInputs
    BY <1>1, <1>3, NoIndexerAssumption DEF IdleEdit
  <2> QED
    BY <1>1, <1>2, <1>3, <2>1 DEF Made, Wanted, Documents, r
<1>4. CASE r.op = "update"
  <2>1. r.input \in FullInputs /\ r.seen \in Documents
    BY <1>1, <1>4
  <2>2. Made(r.seen, r) \in Documents
    BY <1>4, <2>1 DEF Made, KeyOf, Documents
  <2>3. [name |-> r.input.name, on |-> r.input.on, tested |-> said[r.id].tested,
         key |-> IF r.input.key = Blank THEN said[r.id].key ELSE r.input.key]
           = Made(r.seen, r)
    BY <1>2, <1>4, <2>1 DEF Made, KeyOf
  <2>4. said[r.id] # NoIndexer
    BY <1>1, <1>2, <1>4
  <2> QED
    BY <1>1, <1>4, <2>2, <2>3, <2>4 DEF Wanted, r
<1>5. CASE r.op \in {"enable", "test", "delete"}
  <2>1. r.seen \in Documents /\ said[r.id] # NoIndexer
    BY <1>1, <1>2, <1>5
  <2>2. Made(r.seen, r) \in Documents \cup {NoIndexer}
    <3>1. r.op = "enable" => r.input.on \in BOOLEAN
      BY <1>1
    <3>2. \A d \in Documents, on \in BOOLEAN :
             [d EXCEPT !.on = on] \in Documents /\ [d EXCEPT !.tested = TRUE] \in Documents
      BY DEF Documents
    <3> QED
      BY <1>5, <2>1, <3>1, <3>2 DEF Made
  <2> QED
    BY <1>1, <1>2, <1>5, <2>1, <2>2 DEF Wanted, r
<1> QED
  BY <1>1, <1>3, <1>4, <1>5

LEMMA MadeDocument ==
    ASSUME NEW r, RequestShaped(r), r.at = "put"
    PROVE  /\ r.id \in Indexers /\ Made(r.seen, r) \in Documents \cup {NoIndexer}
           /\ Made(r.seen, r) # NoIndexer => r.op # "delete"
           /\ r.op \in {"add", "update"} =>
                 Made(r.seen, r) # NoIndexer /\ Made(r.seen, r).name = r.input.name
           /\ r.op \in {"enable", "test"} =>
                 r.seen # NoIndexer /\ Made(r.seen, r).name = r.seen.name
<1> USE DEF Requests0, RequestShaped, FullInputs, OnInputs
<1>1. r \in Requests0
  BY DEF IdleEdit
<1>2. CASE r.op \in {"add", "update"}
  <2>1. r.input \in FullInputs /\ (r.op = "update" => r.seen \in Documents)
    BY <1>1, <1>2 DEF IdleEdit
  <2>2. Made(r.seen, r) \in Documents /\ Made(r.seen, r).name = r.input.name
    BY <1>1, <1>2, <2>1 DEF Made, KeyOf, Documents
  <2> QED
    BY <1>1, <1>2, <2>2, NoIndexerAssumption
<1>3. CASE r.op \in {"enable", "test", "delete"}
  <2>1. r.seen \in Documents /\ (r.op = "enable" => r.input \in OnInputs)
    BY <1>1, <1>3 DEF IdleEdit
  <2>2. /\ \A d \in Documents, on \in BOOLEAN :
               [d EXCEPT !.on = on] \in Documents /\ [d EXCEPT !.on = on].name = d.name
        /\ \A d \in Documents :
               [d EXCEPT !.tested = TRUE] \in Documents /\ [d EXCEPT !.tested = TRUE].name = d.name
    BY DEF Documents
  <2>3. r.op = "delete" => Made(r.seen, r) = NoIndexer
    BY DEF Made
  <2>4. r.op = "enable" => Made(r.seen, r) = [r.seen EXCEPT !.on = r.input.on]
                           /\ r.input.on \in BOOLEAN
    BY <2>1 DEF Made
  <2>5. r.op = "test" => Made(r.seen, r) = [r.seen EXCEPT !.tested = TRUE]
    BY DEF Made
  <2>6. r.id \in Indexers /\ r.seen # NoIndexer
    BY <1>1, <2>1, NoIndexerAssumption
  <2> DEFINE doc == Made(r.seen, r)
  <2>7. CASE r.op = "delete"
    <3>1. doc = NoIndexer /\ r.op \notin {"add", "update", "enable", "test"}
      BY <2>3, <2>7
    <3> HIDE DEF doc
    <3> QED
      BY <2>6, <3>1 DEF doc
  <2>8. CASE r.op = "enable"
    <3>1. doc = [r.seen EXCEPT !.on = r.input.on] /\ r.input.on \in BOOLEAN
      BY <2>4, <2>8
    <3>2. doc \in Documents /\ doc.name = r.seen.name
      BY ONLY <2>1, <2>2, <3>1
    <3>3. r.op \notin {"add", "update", "delete"}
      BY <2>8
    <3> HIDE DEF doc
    <3> QED
      BY <2>6, <3>2, <3>3 DEF doc
  <2>9. CASE r.op = "test"
    <3>1. doc \in Documents /\ doc.name = r.seen.name /\ r.op \notin {"add", "update", "delete"}
      BY <2>1, <2>2, <2>5, <2>9
    <3> HIDE DEF doc
    <3> QED
      BY <2>6, <3>1 DEF doc
  <2> QED
    BY <1>3, <2>7, <2>8, <2>9
<1> QED
  BY <1>1, <1>2, <1>3

LEMMA WantedShaped ==
    ASSUME SettingsInv, NEW r, RequestShaped(r), r.at = "put"
    PROVE  Wanted(r) \in [Indexers -> Documents \cup {NoIndexer}]
<1> USE DEF Requests0, RequestShaped, FullInputs, OnInputs
<1>1. r \in Requests0 /\ said \in [Indexers -> Documents \cup {NoIndexer}]
  BY DEF IdleEdit, SettingsInv, SettingsShaped
<1> DEFINE was == said[r.id]
<1>2. was \in Documents \cup {NoIndexer}
  BY <1>1
<1>3. CASE r.op = "add"
  <2>1. Made(was, r) \in Documents
    BY <1>1, <1>3 DEF Made, Documents, IdleEdit
  <2> QED
    BY <1>1, <1>3, <2>1 DEF Wanted
<1>4. CASE r.op # "add" /\ was = NoIndexer
  BY <1>1, <1>4 DEF Wanted
<1>5. CASE r.op = "update" /\ was # NoIndexer
  <2> DEFINE doc == [name |-> r.input.name, on |-> r.input.on, tested |-> was.tested,
                     key |-> IF r.input.key = Blank THEN was.key ELSE r.input.key]
  <2>1. doc \in Documents
    BY <1>1, <1>2, <1>5 DEF Documents, IdleEdit
  <2>2. Wanted(r) = [said EXCEPT ![r.id] = doc]
    BY <1>5 DEF Wanted
  <2> QED
    BY <1>1, <2>1, <2>2
<1>6. CASE r.op \in {"enable", "test", "delete"} /\ was # NoIndexer
  <2>1. /\ \A d \in Documents, on \in BOOLEAN : [d EXCEPT !.on = on] \in Documents
        /\ \A d \in Documents : [d EXCEPT !.tested = TRUE] \in Documents
    BY DEF Documents
  <2>2. r.op = "enable" => r.input.on \in BOOLEAN
    BY <1>1 DEF IdleEdit
  <2>3. Made(was, r) \in Documents \cup {NoIndexer}
    BY <1>2, <1>6, <2>1, <2>2 DEF Made
  <2>4. Wanted(r) = [said EXCEPT ![r.id] = Made(was, r)]
    BY <1>6 DEF Wanted
  <2> QED
    BY <1>1, <2>3, <2>4
<1> QED
  BY <1>1, <1>3, <1>4, <1>5, <1>6

LEMMA PutsKeeps ==
    ASSUME SettingsInv, NEW e \in Editors, Puts(e)
    PROVE  SettingsInv'
<1> DEFINE r == edit[e]
           doc == Made(r.seen, r)
<1>1. /\ r.at = "put" /\ ~r.clash /\ RequestShaped(r) /\ r \in Requests0
      /\ records' = [records EXCEPT ![r.id] = doc] /\ said' = Wanted(r)
      /\ edit' = [edit EXCEPT ![e] = [r EXCEPT !.at = "look"]]
      /\ UNCHANGED <<provider, windows, looks, found, left, asked>>
      /\ met' = (met \/ Meets(e))
      /\ removed' = IF r.op = "delete" THEN removed \cup {r.id} ELSE removed
  BY DEF Puts, Goes, SettingsInv, SettingsShaped, RequestShaped, IdleEdit
<1>2. /\ r.id \in Indexers /\ doc \in Documents \cup {NoIndexer}
      /\ r.op \in {"add", "update"} => doc # NoIndexer /\ doc.name = r.input.name
      /\ r.op \in {"enable", "test"} => r.seen # NoIndexer /\ doc.name = r.seen.name
      /\ doc # NoIndexer => r.op # "delete"
  BY <1>1, MadeDocument
<1>20. RequestShaped([r EXCEPT !.at = "look"])
  <2> HIDE DEF r
  <2>1. /\ [r EXCEPT !.at = "look"] \in Requests0 /\ [r EXCEPT !.at = "look"].op = r.op
        /\ [r EXCEPT !.at = "look"].input = r.input /\ [r EXCEPT !.at = "look"].seen = r.seen
        /\ [r EXCEPT !.at = "look"].at = "look"
    BY <1>1 DEF Requests0
  <2> QED
    BY <1>1, <2>1 DEF RequestShaped, IdleEdit
<1>3. /\ edit'[e].at = "look" /\ edit'[e].op = r.op /\ edit'[e].id = r.id
      /\ RequestShaped(edit'[e]) /\ edit'[e] \in Requests0
      /\ \A d \in Editors : d # e => edit'[d] = edit[d]
  <2> HIDE DEF r
  <2>1. edit'[e] = [r EXCEPT !.at = "look"] /\ \A d \in Editors : d # e => edit'[d] = edit[d]
    BY <1>1 DEF SettingsInv, SettingsShaped
  <2> QED
    BY <1>1, <1>20, <2>1 DEF Requests0
<1> HIDE DEF r, doc
<1>4. SettingsShaped'
  <2>1. records' \in [Indexers -> Documents \cup {NoIndexer}]
    BY <1>1, <1>2 DEF SettingsInv, SettingsShaped
  <2>2. said' \in [Indexers -> Documents \cup {NoIndexer}]
    BY <1>1, WantedShaped DEF SettingsInv, SettingsShaped, r
  <2>3. edit' \in [Editors -> Requests0 \cup {IdleEdit}]
    BY <1>1, <1>3 DEF SettingsInv, SettingsShaped
  <2>4. met' \in BOOLEAN /\ removed' \subseteq Indexers
    BY <1>1, <1>2 DEF SettingsInv, SettingsShaped, Meets
  <2> QED
    BY <1>1, <1>3, <2>1, <2>2, <2>3, <2>4 DEF SettingsInv, SettingsShaped
<1>5. LooksOfSyncs'
  BY <1>1, <1>3 DEF SettingsInv, SettingsShaped, LooksOfSyncs, Answers, r
<1>6. LastIsRight'
  BY <1>3 DEF LastIsRight
<1>7. WindowsCount'
  BY <1>1, <1>3 DEF SettingsInv, SettingsShaped, WindowsCount
<1>8. ASSUME ~met' PROVE records' = said'
  BY <1>1, <1>8, PutsAsWanted DEF SettingsInv, CopiesAreFresh, r, doc
<1>9. ASSUME ~met', NEW d \in Editors, d # e, Settling(edit[d])
      PROVE  /\ edit[d].id # r.id
             /\ ~({edit[d].op, r.op} \subseteq {"add", "update"})
  BY <1>1, <1>9 DEF Meets, r
<1>10. ASSUME ~met', NEW d \in Editors, Settling(edit[d])'
       PROVE  edit'[d].seen = records'[edit'[d].id]
  <2>1. d # e /\ edit'[d] = edit[d] /\ Settling(edit[d])
    BY <1>3, <1>10 DEF Settling
  <2>2. edit[d].id # r.id /\ edit[d].id \in Indexers
    BY <1>9, <1>10, <2>1 DEF SettingsInv, SettingsShaped, RequestShaped, Settling, IdleEdit,
                             Requests0
  <2>3. records'[edit[d].id] = records[edit[d].id]
    BY <1>1, <2>2 DEF SettingsInv, SettingsShaped
  <2> QED
    BY <1>1, <1>10, <2>1, <2>3 DEF SettingsInv, CopiesAreFresh
<1>11. ASSUME ~met' PROVE doc # NoIndexer => \A j \in Indexers \ {r.id} :
                            records[j] # NoIndexer => records[j].name # doc.name
  <2>1. CASE r.op \in {"add", "update"}
    BY <1>1, <1>2, <1>11, <2>1 DEF SettingsInv, CopiesAreFresh, NameFree, r
  <2>2. CASE r.op \in {"enable", "test"}
    <3>1. r.seen = records[r.id]
      BY <1>1, <1>11 DEF SettingsInv, CopiesAreFresh, Settling, r
    <3> QED
      BY <1>1, <1>2, <1>11, <2>2, <3>1 DEF SettingsInv, CopiesAreFresh, Stored
  <2>3. CASE r.op = "delete"
    BY <1>2, <2>3
  <2> QED
    BY <1>1, <2>1, <2>2, <2>3 DEF Requests0
<1>12. ASSUME ~met' PROVE \A i, j \in Stored' : i # j => records'[i].name # records'[j].name
  BY <1>1, <1>2, <1>11, <1>12 DEF SettingsInv, SettingsShaped, CopiesAreFresh, Stored
<1>13. ASSUME ~met', NEW d \in Editors, edit'[d].at = "put",
              edit'[d].op \in {"add", "update"}, ~edit'[d].clash
       PROVE  \A j \in Indexers \ {edit'[d].id} :
                 records'[j] # NoIndexer => records'[j].name # edit'[d].input.name
  <2>1. d # e /\ edit'[d] = edit[d] /\ Settling(edit[d])
    BY <1>3, <1>13 DEF Settling
  <2>2. edit[d].id # r.id /\ r.op \notin {"add", "update"}
    BY <1>9, <1>13, <2>1
  <2>3. NameFree(edit[d])
    BY <1>1, <1>13, <2>1 DEF SettingsInv, CopiesAreFresh
  <2>4. doc # NoIndexer => records[r.id] # NoIndexer /\ doc.name = records[r.id].name
    <3>1. r.seen = records[r.id]
      BY <1>1, <1>13 DEF SettingsInv, CopiesAreFresh, Settling, r
    <3>2. doc # NoIndexer => r.op \in {"enable", "test"}
      BY <1>1, <1>2, <2>2 DEF Requests0
    <3> QED
      BY <1>2, <3>1, <3>2
  <2>5. ASSUME NEW j \in Indexers, j # edit[d].id, records'[j] # NoIndexer
        PROVE  records'[j].name # edit[d].input.name
    <3>1. CASE j # r.id
      BY <1>1, <2>3, <2>5, <3>1 DEF NameFree, SettingsInv, SettingsShaped
    <3>2. CASE j = r.id
      <4>1. records'[j] = doc
        BY <1>1, <1>2, <3>2 DEF SettingsInv, SettingsShaped
      <4> QED
        BY <1>2, <2>3, <2>4, <2>5, <3>2, <4>1 DEF NameFree
    <3> QED
      BY <3>1, <3>2
  <2> QED
    BY <2>1, <2>5
<1>14. CopiesAreFresh'
  <2>1. ASSUME ~met', NEW d \in Editors, edit'[d].at = "put",
               edit'[d].op \in {"add", "update"}, ~edit'[d].clash
        PROVE  NameFree(edit[d])'
    BY <1>13, <2>1 DEF NameFree
  <2> QED
    BY <1>8, <1>10, <1>12, <2>1 DEF CopiesAreFresh
<1> QED
  BY <1>4, <1>5, <1>6, <1>7, <1>14 DEF SettingsInv

\* A request asks whether an indexer is enabled, and will have the last answer.
LEMMA LooksKeeps ==
    ASSUME SettingsInv, NEW e \in Editors, Looks(e)
    PROVE  SettingsInv'
<1> DEFINE r == edit[e]
           answer == [of |-> e, enabled |-> Enabled # {}]
<1>1. /\ r.at = "look" /\ RequestShaped(r) /\ r \in Requests0
      /\ looks' = Append(looks, answer) /\ answer \in Answers
      /\ windows' = IF r.op = "delete" THEN [windows EXCEPT ![r.id] = 0] ELSE windows
      /\ edit' = [edit EXCEPT ![e] = [r EXCEPT !.at = "sync"]]
      /\ UNCHANGED <<records, provider, found, left, said, asked, removed, met>>
  BY DEF Looks, Goes, SettingsInv, SettingsShaped, RequestShaped, IdleEdit, Answers
<1>2. RequestShaped([r EXCEPT !.at = "sync"])
  <2> HIDE DEF r, answer
  <2>1. /\ [r EXCEPT !.at = "sync"] \in Requests0 /\ [r EXCEPT !.at = "sync"].op = r.op
        /\ [r EXCEPT !.at = "sync"].input = r.input /\ [r EXCEPT !.at = "sync"].seen = r.seen
        /\ [r EXCEPT !.at = "sync"].at = "sync"
    BY <1>1 DEF Requests0
  <2> QED
    BY <1>1, <2>1 DEF RequestShaped, IdleEdit
<1>3. /\ edit'[e].at = "sync" /\ edit'[e].op = r.op /\ edit'[e].id = r.id
      /\ RequestShaped(edit'[e]) /\ edit'[e] \in Requests0
      /\ \A d \in Editors : d # e => edit'[d] = edit[d]
  <2> HIDE DEF r, answer
  <2>1. edit'[e] = [r EXCEPT !.at = "sync"] /\ \A d \in Editors : d # e => edit'[d] = edit[d]
    BY <1>1 DEF SettingsInv, SettingsShaped
  <2> QED
    BY <1>1, <1>2, <2>1 DEF Requests0
<1>4. looks \in Seq(Answers) /\ looks' \in Seq(Answers)
      /\ Len(looks') = Len(looks) + 1 /\ looks'[Len(looks')] = answer
      /\ \A n \in 1..Len(looks) : looks'[n] = looks[n]
  <2> HIDE DEF r, answer
  <2> QED
    BY <1>1 DEF SettingsInv, SettingsShaped
<1>5. \A n \in 1..Len(looks) : looks[n].of # e /\ looks[n].of \in Editors
  <2>1. ASSUME NEW n \in 1..Len(looks) PROVE looks[n] \in Answers /\ n \in DOMAIN looks
    BY <1>4
  <2> HIDE DEF answer
  <2> QED
    BY <1>1, <2>1 DEF SettingsInv, LooksOfSyncs, Answers
<1>6. answer.of = e /\ answer.enabled = (Enabled # {}) /\ Enabled' = Enabled
  BY <1>1 DEF Enabled, Stored
<1> HIDE DEF r, answer
<1>7. SettingsShaped'
  <2>1. windows' \in [Indexers -> Nat]
    BY <1>1 DEF SettingsInv, SettingsShaped
  <2>2. edit' \in [Editors -> Requests0 \cup {IdleEdit}]
    BY <1>1, <1>3 DEF SettingsInv, SettingsShaped
  <2> QED
    BY <1>1, <1>3, <1>4, <2>1, <2>2 DEF SettingsInv, SettingsShaped
<1>8. LooksOfSyncs'
  <2>0. DOMAIN looks' = 1..(Len(looks) + 1) /\ DOMAIN looks = 1..Len(looks) /\ Len(looks) \in Nat
    BY <1>4
  <2>1. \A n \in DOMAIN looks' : edit'[looks'[n].of].at = "sync"
    BY <1>3, <1>4, <1>5, <1>6, <2>0 DEF SettingsInv, LooksOfSyncs
  <2>2. \A m, n \in DOMAIN looks' : looks'[m].of = looks'[n].of => m = n
    BY <1>4, <1>5, <1>6, <2>0 DEF SettingsInv, LooksOfSyncs
  <2>3. \A d \in Editors : edit'[d].at = "sync" => \E n \in DOMAIN looks' : looks'[n].of = d
    BY <1>3, <1>4, <1>6, <2>0 DEF SettingsInv, LooksOfSyncs
  <2> QED
    BY <2>1, <2>2, <2>3 DEF LooksOfSyncs
<1>9. LastIsRight'
  <2>1. looks' # <<>>
    BY <1>4
  <2>2. looks'[Len(looks')].enabled <=> Enabled' # {}
    BY <1>4, <1>6
  <2> QED
    BY <2>1, <2>2 DEF LastIsRight
<1>10. WindowsCount'
  <2>1. CASE r.op = "delete"
    <3>1. r.id \in removed /\ r.id \in Indexers
      BY <1>1, <2>1 DEF SettingsInv, WindowsCount, Requests0, r
    <3> QED
      BY <1>1, <1>3, <2>1, <3>1, IndexerBounds DEF SettingsInv, SettingsShaped, WindowsCount, r
  <2>2. CASE r.op # "delete"
    BY <1>1, <1>3, <2>2 DEF SettingsInv, SettingsShaped, WindowsCount, r
  <2> QED
    BY <2>1, <2>2
<1>11. CopiesAreFresh'
  <2>1. \A d \in Editors : Settling(edit'[d]) \/ edit'[d].at = "put" =>
           edit'[d] = edit[d]
    BY <1>3 DEF Settling
  <2> QED
    BY <1>1, <2>1 DEF SettingsInv, CopiesAreFresh, Stored, NameFree, Settling
<1> QED
  BY <1>7, <1>8, <1>9, <1>10, <1>11 DEF SettingsInv

\* A request registers or withdraws the provider as the oldest answer says.
LEMMA SyncsKeeps ==
    ASSUME SettingsInv, NEW e \in Editors, Syncs(e)
    PROVE  SettingsInv'
<1>1. /\ edit[e].at = "sync" /\ looks # <<>> /\ looks[1].of = e
      /\ provider' = looks[1].enabled /\ looks' = Tail(looks)
      /\ edit' = [edit EXCEPT ![e] = IdleEdit]
      /\ UNCHANGED <<records, windows, found, left, said, asked, removed, met>>
  BY DEF Syncs, Goes, IsNext, SettingsInv, SettingsShaped
<1>2. /\ looks \in Seq(Answers) /\ Len(looks) \in Nat \ {0}
      /\ DOMAIN looks = 1..Len(looks) /\ DOMAIN looks' = 1..(Len(looks) - 1)
      /\ Len(looks') = Len(looks) - 1
      /\ looks' \in Seq(Answers) /\ looks[1] \in Answers
      /\ \A n \in 1..(Len(looks) - 1) : looks'[n] = looks[n + 1]
  BY <1>1 DEF SettingsInv, SettingsShaped
<1>3. edit'[e] = IdleEdit /\ \A d \in Editors : d # e => edit'[d] = edit[d]
  BY <1>1 DEF SettingsInv, SettingsShaped
<1>4. \A n \in 1..(Len(looks) - 1) : looks[n + 1].of # e /\ looks[n + 1].of \in Editors
  <2>1. ASSUME NEW n \in 1..(Len(looks) - 1)
        PROVE  n + 1 \in DOMAIN looks /\ 1 \in DOMAIN looks /\ n + 1 # 1
    BY <1>2
  <2>2. \A n \in 1..Len(looks) : looks[n] \in Answers
    BY <1>2
  <2> QED
    BY <1>1, <2>1, <2>2 DEF SettingsInv, LooksOfSyncs, Answers
<1>5. SettingsShaped'
  BY <1>1, <1>2, <1>3 DEF SettingsInv, SettingsShaped, RequestShaped, Answers
<1>6. LooksOfSyncs'
  <2>1. \A n \in DOMAIN looks' : edit'[looks'[n].of].at = "sync"
    BY <1>2, <1>3, <1>4 DEF SettingsInv, LooksOfSyncs
  <2>2. \A m, n \in DOMAIN looks' : looks'[m].of = looks'[n].of => m = n
    <3>1. ASSUME NEW m \in DOMAIN looks', NEW n \in DOMAIN looks', looks'[m].of = looks'[n].of
          PROVE  m = n
      <4>1. m + 1 \in DOMAIN looks /\ n + 1 \in DOMAIN looks
            /\ looks[m + 1].of = looks[n + 1].of
        BY <1>2, <3>1
      <4>2. m + 1 = n + 1
        BY <4>1 DEF SettingsInv, LooksOfSyncs
      <4> QED
        BY <1>2, <4>2
    <3> QED
      BY <3>1
  <2>3. ASSUME NEW d \in Editors, edit'[d].at = "sync"
        PROVE  \E n \in DOMAIN looks' : looks'[n].of = d
    <3>1. d # e /\ edit[d].at = "sync"
      BY <1>3, <2>3 DEF IdleEdit
    <3>2. PICK n \in DOMAIN looks : looks[n].of = d
      BY <3>1 DEF SettingsInv, LooksOfSyncs
    <3>3. n - 1 \in DOMAIN looks' /\ looks'[n - 1] = looks[n]
      BY <1>1, <1>2, <3>1, <3>2
    <3> QED
      BY <3>2, <3>3
  <2> QED
    BY <2>1, <2>2, <2>3 DEF LooksOfSyncs
<1>7. LastIsRight'
  <2> SUFFICES ASSUME \A d \in Editors : edit'[d].at # "look" PROVE LastIsRight'
    BY DEF LastIsRight
  <2>1. \A d \in Editors : edit[d].at # "look"
    BY <1>1, <1>3
  <2>2. looks[Len(looks)].enabled <=> Enabled # {}
    BY <1>1, <2>1 DEF SettingsInv, LastIsRight
  <2>3. Enabled' = Enabled
    BY <1>1 DEF Enabled, Stored
  <2>4. CASE Len(looks) = 1
    BY <1>1, <1>2, <2>2, <2>3, <2>4 DEF LastIsRight
  <2>5. CASE Len(looks) > 1
    <3>1. looks' # <<>> /\ looks'[Len(looks')] = looks[Len(looks)]
      BY <1>2, <2>5
    <3> QED
      BY <2>2, <2>3, <3>1 DEF LastIsRight
  <2> QED
    BY <1>2, <2>4, <2>5
<1>8. WindowsCount'
  BY <1>1, <1>3 DEF SettingsInv, WindowsCount, IdleEdit
<1>9. CopiesAreFresh'
  BY <1>1, <1>3 DEF SettingsInv, CopiesAreFresh, Stored, NameFree, Settling, IdleEdit
<1> QED
  BY <1>5, <1>6, <1>7, <1>8, <1>9 DEF SettingsInv

\* What leaves the documents, the requests and their answers alone.
LEMMA SearchingKeeps ==
    ASSUME SettingsInv, UNCHANGED <<records, provider, edit, looks, said, removed, met>>,
           windows' \in [Indexers -> Nat], asked' \in [Indexers -> Nat],
           found' \in [Searchers -> SUBSET Indexers],
           SearchLimit > 0 => \A i \in Indexers : windows'[i] <= SearchLimit,
           \A i \in Indexers \ removed : asked'[i] <= windows'[i]
    PROVE  SettingsInv'
<1>1. SettingsShaped' /\ WindowsCount'
  BY DEF SettingsInv, SettingsShaped, WindowsCount
<1>2. LooksOfSyncs' /\ LastIsRight'
  BY DEF SettingsInv, LooksOfSyncs, LastIsRight, Enabled, Stored
<1>3. CopiesAreFresh'
  BY DEF SettingsInv, CopiesAreFresh, Stored, NameFree, Settling
<1> QED
  BY <1>1, <1>2, <1>3 DEF SettingsInv

LEMMA SearchReadsKeeps ==
    ASSUME SettingsInv, NEW s \in Searchers, SearchReads(s)
    PROVE  SettingsInv'
<1>1. UNCHANGED <<records, provider, windows, edit, looks, said, asked, removed, met>>
  BY DEF SearchReads
<1>2. found' \in [Searchers -> SUBSET Indexers]
  BY DEF SearchReads, SettingsInv, SettingsShaped, Enabled, Stored
<1>3. /\ windows' \in [Indexers -> Nat] /\ asked' \in [Indexers -> Nat]
      /\ SearchLimit > 0 => \A i \in Indexers : windows'[i] <= SearchLimit
      /\ \A i \in Indexers \ removed : asked'[i] <= windows'[i]
  BY <1>1 DEF SettingsInv, SettingsShaped, WindowsCount
<1> QED
  BY <1>1, <1>2, <1>3, SearchingKeeps

LEMMA SearchAsksKeeps ==
    ASSUME SettingsInv, NEW s \in Searchers, SearchAsks(s)
    PROVE  SettingsInv'
<1>1. PICK more \in [Indexers -> {0, 1}] :
         /\ windows' = [i \in Indexers |-> windows[i] + more[i]]
         /\ asked' = [i \in Indexers |-> asked[i] + more[i]]
         /\ \A i \in Indexers : SearchLimit > 0 /\ more[i] = 1 => windows[i] < SearchLimit
  <2> DEFINE one == [i \in Indexers |-> IF i \in {j \in found[s] : Admits(j)} THEN 1 ELSE 0]
  <2>1. one \in [Indexers -> {0, 1}]
    OBVIOUS
  <2>2. /\ windows' = [i \in Indexers |-> windows[i] + one[i]]
        /\ asked' = [i \in Indexers |-> asked[i] + one[i]]
    BY DEF SearchAsks
  <2>3. \A i \in Indexers : SearchLimit > 0 /\ one[i] = 1 => windows[i] < SearchLimit
    BY DEF Admits
  <2> HIDE DEF one
  <2> QED
    BY <2>1, <2>2, <2>3
<1>2. /\ windows \in [Indexers -> Nat] /\ asked \in [Indexers -> Nat]
      /\ found' \in [Searchers -> SUBSET Indexers]
      /\ UNCHANGED <<records, provider, edit, looks, left, said, removed, met>>
  BY DEF SettingsInv, SettingsShaped, SearchAsks
<1>3. \A i \in Indexers : more[i] \in {0, 1} /\ windows[i] \in Nat /\ asked[i] \in Nat
  BY <1>1, <1>2
<1>4. /\ windows' \in [Indexers -> Nat] /\ asked' \in [Indexers -> Nat]
      /\ \A i \in Indexers : windows'[i] = windows[i] + more[i] /\ asked'[i] = asked[i] + more[i]
  BY <1>1, <1>3
<1>5. \A i \in Indexers \ removed : asked'[i] <= windows'[i]
  BY <1>3, <1>4 DEF SettingsInv, WindowsCount
<1>6. SearchLimit > 0 => \A i \in Indexers : windows'[i] <= SearchLimit
  BY <1>1, <1>3, <1>4, IndexerBounds DEF SettingsInv, WindowsCount
<1> QED
  BY <1>2, <1>4, <1>5, <1>6, SearchingKeeps

LEMMA LeavesWindowKeeps ==
    ASSUME SettingsInv, NEW i \in Indexers, LeavesWindow(i)
    PROVE  SettingsInv'
<1>1. /\ asked[i] > 0 /\ asked' = [asked EXCEPT ![i] = asked[i] - 1]
      /\ windows' = [windows EXCEPT ![i] = Shrinks(windows[i])]
      /\ UNCHANGED <<records, provider, edit, looks, found, left, said, removed, met>>
  BY DEF LeavesWindow
<1>2. windows \in [Indexers -> Nat] /\ asked \in [Indexers -> Nat]
      /\ found \in [Searchers -> SUBSET Indexers]
  BY DEF SettingsInv, SettingsShaped
<1>3. /\ windows' \in [Indexers -> Nat] /\ asked' \in [Indexers -> Nat]
      /\ \A j \in Indexers : windows'[j] <= windows[j]
      /\ \A j \in Indexers \ {i} : windows'[j] = windows[j] /\ asked'[j] = asked[j]
      /\ asked'[i] = asked[i] - 1 /\ (windows[i] > 0 => windows'[i] = windows[i] - 1)
  BY <1>1, <1>2 DEF Shrinks
<1>4. \A j \in Indexers \ removed : asked'[j] <= windows'[j]
  BY <1>1, <1>2, <1>3 DEF SettingsInv, WindowsCount
<1>5. SearchLimit > 0 => \A j \in Indexers : windows'[j] <= SearchLimit
  BY <1>2, <1>3, IndexerBounds DEF SettingsInv, WindowsCount
<1> QED
  BY <1>1, <1>2, <1>3, <1>4, <1>5, SearchingKeeps

LEMMA ServerRestartKeeps ==
    ASSUME SettingsInv, RestartsServer
    PROVE  SettingsInv'
<1>1. /\ edit' = [e \in Editors |-> IdleEdit] /\ looks' = <<>>
      /\ found' = [s \in Searchers |-> {}]
      /\ windows' = [i \in Indexers |-> 0] /\ asked' = [i \in Indexers |-> 0]
      /\ provider' = (Enabled # {})
      /\ UNCHANGED <<records, said, removed, met>>
  BY DEF RestartsServer
<1>2. SettingsShaped'
  <2>1. looks' \in Seq(Answers)
    BY <1>1
  <2>2. edit' \in [Editors -> Requests0 \cup {IdleEdit}]
        /\ \A e \in Editors : RequestShaped(edit'[e])
    BY <1>1 DEF RequestShaped
  <2> QED
    BY <1>1, <2>1, <2>2 DEF SettingsInv, SettingsShaped
<1>3. LooksOfSyncs' /\ LastIsRight'
  <2>1. \A e \in Editors : edit'[e].at = "idle"
    BY <1>1 DEF IdleEdit
  <2>2. DOMAIN looks' = {} /\ looks' = <<>>
    BY <1>1
  <2>3. Enabled' = Enabled /\ (provider' <=> Enabled # {})
    BY <1>1 DEF Enabled, Stored
  <2>4. LooksOfSyncs'
    BY <2>1, <2>2 DEF LooksOfSyncs
  <2> QED
    BY <2>2, <2>3, <2>4 DEF LastIsRight
<1>4. WindowsCount'
  BY <1>1, IndexerBounds DEF WindowsCount, IdleEdit
<1>5. CopiesAreFresh'
  BY <1>1 DEF SettingsInv, CopiesAreFresh, Stored, NameFree, Settling, IdleEdit
<1> QED
  BY <1>2, <1>3, <1>4, <1>5 DEF SettingsInv

LEMMA SettingsStep == SettingsInv /\ [IndexerNext]_indexerVars => SettingsInv'
<1> SUFFICES ASSUME SettingsInv, [IndexerNext]_indexerVars PROVE SettingsInv'
  OBVIOUS
<1>1. ASSUME NEW e \in Editors,
             \/ AddAsks(e) \/ UpdateAsks(e) \/ EnableAsks(e) \/ DeleteAsks(e) \/ TestAsks(e)
             \/ ReadsNames(e) \/ Probes(e) \/ Refuses(e) \/ Puts(e) \/ Looks(e) \/ Syncs(e)
      PROVE  SettingsInv'
  BY <1>1, AsksKeep, GoOnKeep, PutsKeeps, LooksKeeps, SyncsKeeps
<1>2. ASSUME NEW s \in Searchers, SearchReads(s) \/ SearchAsks(s) PROVE SettingsInv'
  BY <1>2, SearchReadsKeeps, SearchAsksKeeps
<1>3. ASSUME NEW i \in Indexers, LeavesWindow(i) PROVE SettingsInv'
  BY <1>3, LeavesWindowKeeps
<1>4. CASE UNCHANGED indexerVars
  <2>1. UNCHANGED <<records, provider, windows, edit, looks, found, said, asked, removed, met>>
    BY <1>4 DEF indexerVars
  <2>2. /\ windows' \in [Indexers -> Nat] /\ asked' \in [Indexers -> Nat]
        /\ found' \in [Searchers -> SUBSET Indexers]
        /\ SearchLimit > 0 => \A i \in Indexers : windows'[i] <= SearchLimit
        /\ \A i \in Indexers \ removed : asked'[i] <= windows'[i]
    BY <2>1 DEF SettingsInv, SettingsShaped, WindowsCount
  <2> QED
    BY <2>1, <2>2, SearchingKeeps
<1> QED
  BY <1>1, <1>2, <1>3, <1>4, ServerRestartKeeps DEF IndexerNext

LEMMA SettingsServe == SettingsInv => IndexersKept
<1> SUFFICES ASSUME SettingsInv PROVE IndexersKept
  OBVIOUS
<1>1. IndexerTypeOK
  <2>1. \A e \in Editors : edit[e].at \in {"idle", "names", "probe", "put", "look", "sync"}
    BY DEF SettingsInv, SettingsShaped, RequestShaped, Requests0, IdleEdit
  <2> QED
    BY <2>1 DEF SettingsInv, SettingsShaped, IndexerTypeOK, Answers
<1>2. ProviderFollows
  <2> SUFFICES ASSUME Resting PROVE provider <=> Enabled # {}
    BY DEF ProviderFollows
  <2>1. looks = <<>>
    <3> SUFFICES ASSUME looks # <<>> PROVE FALSE
      OBVIOUS
    <3>1. 1 \in DOMAIN looks /\ looks[1] \in Answers
      BY DEF SettingsInv, SettingsShaped
    <3>2. looks[1].of \in Editors /\ edit[looks[1].of].at = "sync"
      BY <3>1 DEF SettingsInv, LooksOfSyncs, Answers
    <3> QED
      BY <3>2 DEF Resting, IdleEdit
  <2> QED
    BY <2>1 DEF SettingsInv, LastIsRight, Resting, IdleEdit
<1>3. WithinWindow
  BY IndexerBounds DEF SettingsInv, SettingsShaped, WindowsCount, WithinWindow
<1>4. SavedAsAsked
  BY DEF SettingsInv, CopiesAreFresh, SavedAsAsked
<1> QED
  BY <1>1, <1>2, <1>3, <1>4 DEF IndexersKept

\* However edits and searches overlap and the server restarts, once all is quiet
\* the provider is registered exactly while an indexer is enabled, no indexer is
\* asked more often than its window allows, and as long as no two requests met
\* on one indexer or one name the documents are what was asked for
\* (indexer-settings.ts), for any number of indexers, editors and searches.
THEOREM IndexersAreKept == IndexerSpec => []IndexersKept
<1> QED
  BY SettingsStart, SettingsStep, SettingsServe, PTL DEF IndexerSpec

------------------------------------------------------------------------------
(* The event feed: the inductive invariant *)

Receivers == Feeds \cup {Plugins0}
Appending == [at : {"append"}, id : Events, time : Nat]
FanningOut == [at : {"fanout"}, id : Events]
HandingRound == [at : {"handing"}, id : Events, rest : Seq(Receivers)]
Publications == {NotPublishing} \cup Appending \cup FanningOut \cup HandingRound
LogRows == [id : Events, occurredAt : Nat]
Budgets == [sockets : Nat, ticks : Nat, steps : Nat, faults : Nat, walks : Nat]
FeedShaped ==
    /\ log \in Seq(LogRows) /\ clock \in Nat /\ stamped \in 0 .. MaxEvents
    /\ publish \in [Producers -> Publications]
    /\ subscribers \in Seq(Receivers)
    /\ server \in [Feeds -> {"none", "auth", "feeding", "gone"}]
    /\ browser \in [at : {"connecting", "live", "reconnecting", "unavailable"},
                    socket : Feeds \cup {NoSocket}]
    /\ frames \in [Feeds -> Seq(Events)] /\ seen \subseteq Events /\ due \subseteq Events
    /\ reader.at \in {"idle", "reading", "done"} /\ reader.cursor \in 0 .. Len(log)
    /\ reader = [at |-> reader.at, cursor |-> reader.cursor, got |-> reader.got,
                 wanted |-> reader.wanted]
    /\ reader.wanted \subseteq Rows
    /\ feedLeft \in Budgets

\* Sockets are opened one after the other, and there is room for those to come.
SocketsInOrder ==
    \E k \in 0 .. MaxSocketsOpened :
       /\ \A f \in Feeds : server[f] # "none" <=> f <= k
       /\ feedLeft.sockets + k <= MaxSocketsOpened

\* What was shown or is on its way is in the log.
OnItsWayIsLogged ==
    /\ seen \subseteq Logged
    /\ \A f \in Feeds : \A n \in DOMAIN frames[f] : frames[f][n] \in Logged
    /\ \A p \in Producers : publish[p].at \in {"fanout", "handing"} => publish[p].id \in Logged

\* A feed subscribes once, after the server knew who asked.
SubscribedOnce ==
    /\ \A n \in DOMAIN subscribers :
          subscribers[n] \in Feeds => server[subscribers[n]] = "feeding"
    /\ \A m, n \in DOMAIN subscribers : subscribers[m] = subscribers[n] => m = n

\* An event that is due was shown, is in a frame, or is still handed round with
\* the socket of the page among those to come.
InFrame(s, id)  == \E n \in DOMAIN frames[s] : frames[s][n] = id
IsToCome(s, id) == \E p \in Producers :
    /\ publish[p].at = "handing" /\ publish[p].id = id
    /\ \E n \in DOMAIN publish[p].rest : publish[p].rest[n] = s
DueIsComing ==
    \A id \in due : \/ id \in seen
                    \/ /\ browser.socket \in Feeds /\ server[browser.socket] \in {"feeding", "gone"}
                       /\ InFrame(browser.socket, id) \/ IsToCome(browser.socket, id)

\* The rows up to the cursor that the walk is to return, it has.
RowsInOrder == \A q, r \in Rows : q < r => log[q].occurredAt <= log[r].occurredAt
WalkIsWhole ==
    RowsInOrder =>
       /\ \A r \in reader.wanted : r <= reader.cursor => r \in reader.got
       /\ reader.at = "done" => reader.wanted \subseteq reader.got

FeedInv == /\ FeedShaped /\ SocketsInOrder /\ OnItsWayIsLogged /\ SubscribedOnce
           /\ DueIsComing /\ WalkIsWhole

LEMMA FeedStarts == FeedInit => FeedInv
<1> SUFFICES ASSUME FeedInit PROVE FeedInv
  OBVIOUS
<1> USE FeedBounds DEF FeedInit
<1>1. FeedShaped
  <2>1. log \in Seq(LogRows) /\ subscribers \in Seq(Receivers)
    BY DEF Receivers
  <2>2. frames \in [Feeds -> Seq(Events)]
    OBVIOUS
  <2>3. publish \in [Producers -> Publications]
    BY DEF Publications
  <2>4. feedLeft \in Budgets
    BY DEF Budgets
  <2> QED
    BY <2>1, <2>2, <2>3, <2>4 DEF FeedShaped, NoWalk, NoSocket
<1>2. SocketsInOrder
  <2>1. 0 \in 0 .. MaxSocketsOpened /\ \A f \in Feeds : server[f] = "none" /\ ~(f <= 0)
    BY DEF Feeds
  <2>2. feedLeft.sockets + 0 <= MaxSocketsOpened
    OBVIOUS
  <2> QED
    BY <2>1, <2>2 DEF SocketsInOrder
<1>3. OnItsWayIsLogged
  BY DEF OnItsWayIsLogged, NotPublishing
<1>4. SubscribedOnce
  BY DEF SubscribedOnce, Feeds
<1>5. DueIsComing /\ WalkIsWhole
  BY DEF DueIsComing, WalkIsWhole, NoWalk
<1> QED
  BY <1>1, <1>2, <1>3, <1>4, <1>5 DEF FeedInv

\* The frame of a conjunct: what it does not speak of may change.
LEMMA SocketsStay ==
    ASSUME SocketsInOrder, UNCHANGED server, feedLeft'.sockets = feedLeft.sockets
    PROVE  SocketsInOrder'
BY DEF SocketsInOrder

LEMMA WalkStays ==
    ASSUME WalkIsWhole, UNCHANGED <<log, reader>>
    PROVE  WalkIsWhole'
BY DEF WalkIsWhole, RowsInOrder, Rows

LEMMA SubscribersStay ==
    ASSUME SubscribedOnce, UNCHANGED <<subscribers, server>>
    PROVE  SubscribedOnce'
BY DEF SubscribedOnce

\* What is spent is one less, the rest is as it was.
LEMMA BudgetSpent ==
    ASSUME feedLeft \in Budgets, NEW what \in {"sockets", "ticks", "steps", "faults", "walks"},
           Spend(what)
    PROVE  /\ feedLeft' \in Budgets
           /\ what # "sockets" => feedLeft'.sockets = feedLeft.sockets
           /\ what = "sockets" => feedLeft'.sockets = feedLeft.sockets - 1 /\ feedLeft.sockets > 0
<1>1. CASE what = "sockets"
  BY <1>1 DEF Spend, Budgets
<1>2. CASE what = "ticks"
  BY <1>2 DEF Spend, Budgets
<1>3. CASE what = "steps"
  BY <1>3 DEF Spend, Budgets
<1>4. CASE what = "faults"
  BY <1>4 DEF Spend, Budgets
<1>5. CASE what = "walks"
  BY <1>5 DEF Spend, Budgets
<1> QED
  BY <1>1, <1>2, <1>3, <1>4, <1>5

\* The place of a publication tells what it carries.
LEMMA PublicationPlaces ==
    ASSUME NEW x \in Publications
    PROVE  /\ x.at = "idle" => x = NotPublishing
           /\ x.at = "append" => x \in Appending
           /\ x.at = "fanout" => x \in FanningOut
           /\ x.at = "handing" => x \in HandingRound
BY DEF Publications, Appending, FanningOut, HandingRound, NotPublishing

\* A publication that goes on, hands nothing on, and loses no one it is to reach.
LEMMA PublicationMoves ==
    ASSUME FeedInv, NEW p \in Producers, NEW x \in Publications,
           publish' = [publish EXCEPT ![p] = x],
           UNCHANGED <<log, clock, subscribers, server, browser, frames, seen, reader>>,
           stamped' \in 0 .. MaxEvents, due' \subseteq Events,
           feedLeft' \in Budgets,
           feedLeft'.sockets = feedLeft.sockets,
           x.at \in {"fanout", "handing"} => publish[p].at = "fanout" /\ x.id = publish[p].id,
           publish[p].at = "handing" => publish[p].rest = <<>>,
           \A id \in due' \ due :
              /\ browser.socket \in Feeds /\ server[browser.socket] = "feeding"
              /\ x.at = "handing" /\ x.id = id
              /\ \E n \in DOMAIN x.rest : x.rest[n] = browser.socket
    PROVE  FeedInv'
<1>1. publish'[p] = x /\ \A o \in Producers \ {p} : publish'[o] = publish[o]
  BY DEF FeedInv, FeedShaped
<1>2. FeedShaped'
  BY DEF FeedInv, FeedShaped, Rows
<1>3. SocketsInOrder' /\ WalkIsWhole' /\ SubscribedOnce'
  BY SocketsStay, WalkStays, SubscribersStay DEF FeedInv
<1>4. OnItsWayIsLogged'
  BY <1>1 DEF FeedInv, OnItsWayIsLogged, Logged, Rows
<1>5. DueIsComing'
  <2> SUFFICES ASSUME NEW id \in due', id \notin seen
               PROVE  /\ browser.socket \in Feeds
                      /\ server[browser.socket] \in {"feeding", "gone"}
                      /\ InFrame(browser.socket, id) \/ IsToCome(browser.socket, id)'
    BY DEF DueIsComing, InFrame
  <2>1. CASE id \in due
    <3>1. /\ browser.socket \in Feeds /\ server[browser.socket] \in {"feeding", "gone"}
          /\ InFrame(browser.socket, id) \/ IsToCome(browser.socket, id)
      BY <2>1 DEF FeedInv, DueIsComing
    <3>2. ASSUME IsToCome(browser.socket, id) PROVE IsToCome(browser.socket, id)'
      <4>1. PICK o \in Producers :
               /\ publish[o].at = "handing" /\ publish[o].id = id
               /\ \E n \in DOMAIN publish[o].rest : publish[o].rest[n] = browser.socket
        BY <3>2 DEF IsToCome
      <4>2. o # p
        BY <4>1
      <4> QED
        BY <1>1, <4>1, <4>2 DEF IsToCome
    <3> QED
      BY <3>1, <3>2
  <2>2. CASE id \notin due
    BY <1>1, <2>2 DEF IsToCome
  <2> QED
    BY <2>1, <2>2
<1> QED
  BY <1>2, <1>3, <1>4, <1>5 DEF FeedInv

LEMMA StampsKeeps ==
    ASSUME FeedInv, NEW p \in Producers, Stamps(p) PROVE FeedInv'
<1> DEFINE x == [at |-> "append", id |-> stamped + 1, time |-> clock]
<1>1. x \in Publications /\ x.at = "append"
  BY FeedBounds DEF FeedInv, FeedShaped, Stamps, Publications, Appending, Events
<1>2. publish[p].at = "idle" /\ stamped' \in 0 .. MaxEvents
  BY FeedBounds DEF Stamps, NotPublishing, FeedInv, FeedShaped
<1>3. publish' = [publish EXCEPT ![p] = x]
  BY DEF Stamps
<1> HIDE DEF x
<1> QED
  BY <1>1, <1>2, <1>3, PublicationMoves DEF Stamps, FeedInv, FeedShaped

LEMMA AppendFailsKeeps ==
    ASSUME FeedInv, NEW p \in Producers, AppendFails(p) PROVE FeedInv'
<1>1. NotPublishing \in Publications /\ NotPublishing.at = "idle"
  BY DEF Publications, NotPublishing
<1>2. /\ feedLeft' \in Budgets
      /\ feedLeft'.sockets = feedLeft.sockets
  BY BudgetSpent DEF AppendFails, FeedInv, FeedShaped
<1> QED
  BY <1>1, <1>2, PublicationMoves DEF AppendFails, FeedInv, FeedShaped

LEMMA PublishedKeeps ==
    ASSUME FeedInv, NEW p \in Producers, Published(p) PROVE FeedInv'
<1>1. NotPublishing \in Publications /\ NotPublishing.at = "idle"
  BY DEF Publications, NotPublishing
<1> QED
  BY <1>1, PublicationMoves DEF Published, FeedInv, FeedShaped

LEMMA FansOutKeeps ==
    ASSUME FeedInv, NEW p \in Producers, FansOut(p) PROVE FeedInv'
<1> DEFINE x == [at |-> "handing", id |-> publish[p].id, rest |-> subscribers]
<1>1. publish[p].at = "fanout" /\ publish[p].id \in Events
  BY PublicationPlaces DEF FansOut, FeedInv, FeedShaped, FanningOut
<1>2. x \in Publications /\ x.at = "handing" /\ x.id = publish[p].id /\ x.rest = subscribers
  BY <1>1 DEF FeedInv, FeedShaped, Publications, HandingRound
<1>3. publish' = [publish EXCEPT ![p] = x]
  BY DEF FansOut
<1>4. due' \subseteq Events
  BY <1>1 DEF FansOut, FeedInv, FeedShaped
<1>5. ASSUME NEW id \in due' \ due
      PROVE  /\ id = publish[p].id
             /\ \E n \in DOMAIN subscribers : subscribers[n] = browser.socket
  BY <1>5 DEF FansOut
<1>6. ASSUME NEW n \in DOMAIN subscribers, subscribers[n] = browser.socket
      PROVE  browser.socket \in Feeds /\ server[browser.socket] = "feeding"
  <2>1. subscribers[n] \in Receivers /\ browser.socket \in Feeds \cup {NoSocket}
    BY DEF FeedInv, FeedShaped
  <2>2. browser.socket \in Feeds
    BY <1>6, <2>1, FeedBounds DEF Receivers, NoSocket, Feeds
  <2> QED
    BY <1>6, <2>2 DEF FeedInv, SubscribedOnce
<1>7. \A id \in due' \ due :
         /\ browser.socket \in Feeds /\ server[browser.socket] = "feeding"
         /\ x.at = "handing" /\ x.id = id
         /\ \E n \in DOMAIN x.rest : x.rest[n] = browser.socket
  BY <1>2, <1>5, <1>6
<1>8. /\ UNCHANGED <<log, clock, subscribers, server, browser, frames, seen, reader>>
      /\ stamped' \in 0 .. MaxEvents /\ feedLeft' = feedLeft
      /\ feedLeft \in Budgets
  BY DEF FansOut, FeedInv, FeedShaped
<1> HIDE DEF x
<1> QED
  BY <1>1, <1>2, <1>3, <1>4, <1>7, <1>8, PublicationMoves

\* A row that is appended is the last one.
LEMMA AppendsKeeps ==
    ASSUME FeedInv, NEW p \in Producers, Appends(p) PROVE FeedInv'
<1> DEFINE row == [id |-> publish[p].id, occurredAt |-> publish[p].time]
           x == [at |-> "fanout", id |-> publish[p].id]
<1>1. publish[p] \in Appending
  BY PublicationPlaces DEF Appends, FeedInv, FeedShaped
<1>2. /\ row \in LogRows /\ x \in Publications /\ x.at = "fanout" /\ x.id = publish[p].id
      /\ row.id = publish[p].id /\ publish[p].at = "append"
  BY <1>1 DEF Appending, Publications, FanningOut, LogRows
<1>3. /\ log' = Append(log, row) /\ publish' = [publish EXCEPT ![p] = x]
      /\ UNCHANGED <<clock, stamped, subscribers, server, browser, frames, seen, reader,
                     feedLeft, due>>
  BY DEF Appends
<1> HIDE DEF row, x
<1>4. publish'[p] = x /\ \A o \in Producers \ {p} : publish'[o] = publish[o]
  BY <1>3 DEF FeedInv, FeedShaped
<1>5. /\ log \in Seq(LogRows) /\ log' \in Seq(LogRows) /\ Len(log') = Len(log) + 1
      /\ Len(log) \in Nat /\ Rows = 1 .. Len(log) /\ Rows' = 1 .. (Len(log) + 1)
      /\ \A r \in Rows : log'[r] = log[r]
      /\ log'[Len(log) + 1] = row
  BY <1>2, <1>3 DEF FeedInv, FeedShaped, Rows
<1>6. Logged \subseteq Logged' /\ row.id \in Logged'
  BY <1>5 DEF Logged
<1>7. FeedShaped'
  <2>1. reader'.cursor \in 0 .. Len(log') /\ reader'.wanted \subseteq Rows'
    BY <1>3, <1>5 DEF FeedInv, FeedShaped
  <2> QED
    BY <1>2, <1>3, <1>5, <2>1 DEF FeedInv, FeedShaped
<1>8. SocketsInOrder' /\ SubscribedOnce'
  BY <1>3, SocketsStay, SubscribersStay DEF FeedInv
<1>9. OnItsWayIsLogged'
  BY <1>2, <1>3, <1>4, <1>6 DEF FeedInv, OnItsWayIsLogged
<1>10. DueIsComing'
  BY <1>2, <1>3, <1>4 DEF FeedInv, DueIsComing, InFrame, IsToCome
<1>11. WalkIsWhole'
  <2>1. RowsInOrder' => RowsInOrder
    BY <1>5 DEF RowsInOrder
  <2> QED
    BY <1>3, <2>1 DEF FeedInv, WalkIsWhole
<1> QED
  BY <1>7, <1>8, <1>9, <1>10, <1>11 DEF FeedInv

\* The next subscriber is handed the event; if it is the page's socket, the event
\* is in its frames now.
LEMMA HandsOnKeeps ==
    ASSUME FeedInv, NEW p \in Producers, HandsOn(p) PROVE FeedInv'
<1> DEFINE f == Head(publish[p].rest)
           x == [at |-> "handing", id |-> publish[p].id, rest |-> Tail(publish[p].rest)]
<1>1. publish[p] \in HandingRound /\ publish[p].at = "handing" /\ publish[p].rest # <<>>
  BY PublicationPlaces DEF HandsOn, FeedInv, FeedShaped
<1>2. /\ publish[p].rest \in Seq(Receivers) /\ publish[p].id \in Events
      /\ publish[p].id \in Logged
  BY <1>1 DEF HandingRound, FeedInv, OnItsWayIsLogged
<1>3. publish' = [publish EXCEPT ![p] = x]
  <2>1. publish' = [publish EXCEPT ![p] = [publish[p] EXCEPT !.rest = Tail(publish[p].rest)]]
    BY DEF HandsOn
  <2>2. ASSUME NEW h \in HandingRound, NEW rest
        PROVE  [h EXCEPT !.rest = rest] = [at |-> "handing", id |-> h.id, rest |-> rest]
    BY DEF HandingRound
  <2>3. [publish[p] EXCEPT !.rest = Tail(publish[p].rest)] = x
    BY <1>1, <2>2
  <2> QED
    BY <2>1, <2>3
<1>4. /\ x \in Publications /\ x.at = "handing" /\ x.id = publish[p].id
      /\ x.rest = Tail(publish[p].rest)
  BY <1>1, <1>2 DEF Publications, HandingRound
<1>5. ASSUME NEW n \in DOMAIN publish[p].rest
      PROVE  \/ publish[p].rest[n] = f
             \/ \E m \in DOMAIN x.rest : x.rest[m] = publish[p].rest[n]
  <2>1. CASE n = 1
    BY <1>1, <1>2, <2>1
  <2>2. CASE n # 1
    <3>1. n \in 2 .. Len(publish[p].rest) /\ n - 1 \in 1 .. (Len(publish[p].rest) - 1)
      BY <1>2, <2>2
    <3>2. /\ DOMAIN Tail(publish[p].rest) = 1 .. (Len(publish[p].rest) - 1)
          /\ Tail(publish[p].rest)[n - 1] = publish[p].rest[(n - 1) + 1]
      BY <1>1, <1>2, <3>1
    <3>3. n - 1 \in DOMAIN x.rest /\ x.rest[n - 1] = publish[p].rest[n]
      BY <1>4, <3>1, <3>2
    <3> QED
      BY <3>3
  <2> QED
    BY <2>1, <2>2
<1>6. /\ UNCHANGED <<log, clock, stamped, subscribers, server, browser, seen, reader, feedLeft,
                     due>>
      /\ frames' = Delivered(f, publish[p].id)
  BY DEF HandsOn
<1> HIDE DEF x, f
<1>7. publish'[p] = x /\ \A o \in Producers \ {p} : publish'[o] = publish[o]
  BY <1>3 DEF FeedInv, FeedShaped
<1>8. /\ frames \in [Feeds -> Seq(Events)] /\ browser.socket \in Feeds \cup {NoSocket}
      /\ NoSocket \notin Feeds /\ Plugins0 \notin Feeds
  BY FeedBounds DEF FeedInv, FeedShaped, Feeds, NoSocket
<1>9. f \in Receivers
  BY <1>1, <1>2 DEF f
<1>10. /\ frames' \in [Feeds -> Seq(Events)]
       /\ \A s \in Feeds \ {f} : frames'[s] = frames[s]
       /\ \A s \in Feeds : \A n \in DOMAIN frames[s] :
             n \in DOMAIN frames'[s] /\ frames'[s][n] = frames[s][n]
       /\ \A s \in Feeds : \A n \in DOMAIN frames'[s] :
             \/ frames'[s][n] = publish[p].id
             \/ n \in DOMAIN frames[s] /\ frames'[s][n] = frames[s][n]
       /\ f = browser.socket => \E n \in DOMAIN frames'[f] : frames'[f][n] = publish[p].id
  <2>1. CASE f # Plugins0 /\ f = browser.socket
    <3> DEFINE now == Append(frames[f], publish[p].id)
    <3>1. f \in Feeds /\ frames[f] \in Seq(Events)
      BY <1>8, <1>9, <2>1 DEF Receivers
    <3>2. frames' = [frames EXCEPT ![f] = now]
      BY <1>6, <2>1 DEF Delivered
    <3>3. /\ now \in Seq(Events) /\ Len(now) = Len(frames[f]) + 1 /\ Len(frames[f]) \in Nat
          /\ now[Len(frames[f]) + 1] = publish[p].id
          /\ DOMAIN now = 1 .. (Len(frames[f]) + 1) /\ DOMAIN frames[f] = 1 .. Len(frames[f])
          /\ \A n \in DOMAIN frames[f] : now[n] = frames[f][n]
      BY <1>2, <3>1
    <3> HIDE DEF now
    <3>4. frames'[f] = now /\ \A s \in Feeds \ {f} : frames'[s] = frames[s]
      BY <1>8, <3>1, <3>2
    <3>5. \E n \in DOMAIN frames'[f] : frames'[f][n] = publish[p].id
      <4>1. Len(frames[f]) + 1 \in DOMAIN frames'[f]
            /\ frames'[f][Len(frames[f]) + 1] = publish[p].id
        BY <3>3, <3>4
      <4> QED
        BY <4>1
    <3>6. frames' \in [Feeds -> Seq(Events)]
      BY <1>8, <3>1, <3>2, <3>3
    <3>7. ASSUME NEW s \in Feeds
          PROVE  /\ \A n \in DOMAIN frames[s] :
                       n \in DOMAIN frames'[s] /\ frames'[s][n] = frames[s][n]
                 /\ \A n \in DOMAIN frames'[s] :
                       \/ frames'[s][n] = publish[p].id
                       \/ n \in DOMAIN frames[s] /\ frames'[s][n] = frames[s][n]
      <4>1. CASE s = f
        <5>1. \A n \in DOMAIN frames[f] :
                 n \in DOMAIN frames'[f] /\ frames'[f][n] = frames[f][n]
          BY ONLY <3>3, <3>4
        <5>2. ASSUME NEW n \in DOMAIN frames'[f]
              PROVE  n \in DOMAIN frames[f] \/ n = Len(frames[f]) + 1
          BY ONLY <3>3, <3>4
        <5> QED
          BY <3>3, <3>4, <4>1, <5>1, <5>2
      <4>2. CASE s # f
        BY <3>4, <4>2
      <4> QED
        BY <4>1, <4>2
    <3>8. \A s \in Feeds : \A n \in DOMAIN frames[s] :
             n \in DOMAIN frames'[s] /\ frames'[s][n] = frames[s][n]
      BY <3>7
    <3>9. \A s \in Feeds : \A n \in DOMAIN frames'[s] :
             \/ frames'[s][n] = publish[p].id
             \/ n \in DOMAIN frames[s] /\ frames'[s][n] = frames[s][n]
      BY <3>7
    <3> QED
      BY ONLY <3>4, <3>5, <3>6, <3>8, <3>9
  <2>2. CASE ~(f # Plugins0 /\ f = browser.socket)
    <3>1. frames' = frames
      BY <1>6, <2>2 DEF Delivered
    <3>2. f # browser.socket
      BY <2>2, FeedBounds, <1>8 DEF NoSocket
    <3> QED
      BY <1>8, <3>1, <3>2
  <2> QED
    BY <2>1, <2>2
<1>11. FeedShaped'
  BY <1>3, <1>4, <1>6, <1>10 DEF FeedInv, FeedShaped, Rows
<1>12. SocketsInOrder' /\ WalkIsWhole' /\ SubscribedOnce'
  BY <1>6, SocketsStay, WalkStays, SubscribersStay DEF FeedInv
<1>13. OnItsWayIsLogged'
  <2>1. Logged' = Logged /\ seen' = seen
    BY <1>6 DEF Logged, Rows
  <2>2. ASSUME NEW s \in Feeds, NEW n \in DOMAIN frames'[s] PROVE frames'[s][n] \in Logged
    BY <1>2, <1>10 DEF FeedInv, OnItsWayIsLogged
  <2>3. ASSUME NEW o \in Producers, publish'[o].at \in {"fanout", "handing"}
        PROVE  publish'[o].id \in Logged
    BY <1>2, <1>4, <1>7, <2>3 DEF FeedInv, OnItsWayIsLogged
  <2> QED
    BY <2>1, <2>2, <2>3 DEF FeedInv, OnItsWayIsLogged
<1>14. DueIsComing'
  <2> SUFFICES ASSUME NEW id \in due', id \notin seen
               PROVE  /\ browser.socket \in Feeds
                      /\ server[browser.socket] \in {"feeding", "gone"}
                      /\ (\E n \in DOMAIN frames'[browser.socket] :
                             frames'[browser.socket][n] = id)
                         \/ IsToCome(browser.socket, id)'
    BY <1>6 DEF DueIsComing, InFrame
  <2>1. /\ browser.socket \in Feeds /\ server[browser.socket] \in {"feeding", "gone"}
        /\ InFrame(browser.socket, id) \/ IsToCome(browser.socket, id)
    BY <1>6 DEF FeedInv, DueIsComing
  <2>2. CASE InFrame(browser.socket, id)
    BY <1>10, <2>1, <2>2 DEF InFrame
  <2>3. CASE IsToCome(browser.socket, id)
    <3>1. PICK o \in Producers :
             /\ publish[o].at = "handing" /\ publish[o].id = id
             /\ \E n \in DOMAIN publish[o].rest : publish[o].rest[n] = browser.socket
      BY <2>3 DEF IsToCome
    <3>2. CASE o # p
      <4>1. publish'[o] = publish[o] /\ browser' = browser
        BY <1>6, <1>7, <3>2
      <4>2. \E q \in Producers : /\ publish'[q].at = "handing" /\ publish'[q].id = id
                              /\ \E n \in DOMAIN publish'[q].rest :
                                    publish'[q].rest[n] = browser'.socket
        BY <3>1, <4>1
      <4> QED
        BY <2>1, <4>2 DEF IsToCome
    <3>3. CASE o = p /\ f = browser.socket
      <4>1. \E n \in DOMAIN frames'[f] : frames'[f][n] = id
        BY <1>10, <3>1, <3>3 DEF InFrame
      <4> QED
        BY <2>1, <3>3, <4>1
    <3>4. CASE o = p /\ f # browser.socket
      <4>1. PICK n \in DOMAIN publish[p].rest : publish[p].rest[n] = browser.socket
        BY <3>1, <3>4
      <4>2. \E m \in DOMAIN x.rest : x.rest[m] = browser.socket
        BY <1>5, <3>4, <4>1
      <4> QED
        BY <1>4, <1>6, <1>7, <2>1, <3>1, <3>4, <4>2 DEF IsToCome
    <3> QED
      BY <3>2, <3>3, <3>4
  <2> QED
    BY <2>1, <2>2, <2>3
<1> QED
  BY <1>11, <1>12, <1>13, <1>14 DEF FeedInv

------------------------------------------------------------------------------
\* The page and its sockets.
LEMMA ConnectsKeeps == ASSUME FeedInv, Connects PROVE FeedInv'
<1>1. /\ browser.socket = NoSocket /\ Spend("sockets")
      /\ browser' = [browser EXCEPT !.socket = NextSocket]
      /\ server' = [server EXCEPT ![NextSocket] = "auth"]
      /\ UNCHANGED <<log, clock, stamped, publish, subscribers, frames, seen, reader, due>>
  BY DEF Connects
<1>2. PICK k \in 0 .. MaxSocketsOpened :
         /\ \A f \in Feeds : server[f] # "none" <=> f <= k
         /\ feedLeft.sockets + k <= MaxSocketsOpened
  BY DEF FeedInv, SocketsInOrder
<1>3. /\ feedLeft' \in Budgets /\ feedLeft.sockets \in Nat \ {0}
      /\ feedLeft'.sockets = feedLeft.sockets - 1
  BY <1>1, BudgetSpent DEF FeedInv, FeedShaped, Budgets
<1>4. MaxSocketsOpened \in Nat /\ k \in Nat /\ k + 1 \in Feeds
  BY <1>2, <1>3, FeedBounds DEF Feeds
<1>5. NextSocket = k + 1
  <2>1. {f \in Feeds : server[f] # "none"} = 1 .. k
    BY <1>2, <1>4 DEF Feeds
  <2>2. Cardinality(1 .. k) = k
    <3>1. Cardinality(1 .. k) = IF 1 > k THEN 0 ELSE k - 1 + 1
      BY <1>4, FS_Interval
    <3> QED
      BY <1>4, <3>1
  <2> QED
    BY <2>1, <2>2 DEF NextSocket
<1>6. /\ browser'.socket = k + 1 /\ server'[k + 1] = "auth" /\ server[k + 1] = "none"
      /\ \A f \in Feeds \ {k + 1} : server'[f] = server[f]
      /\ browser' \in [at : {"connecting", "live", "reconnecting", "unavailable"},
                       socket : Feeds \cup {NoSocket}]
      /\ server' \in [Feeds -> {"none", "auth", "feeding", "gone"}]
  BY <1>1, <1>2, <1>4, <1>5 DEF FeedInv, FeedShaped
<1>7. FeedShaped'
  BY <1>1, <1>3, <1>6 DEF FeedInv, FeedShaped, Rows
<1>8. SocketsInOrder'
  <2>1. k + 1 \in 0 .. MaxSocketsOpened /\ feedLeft'.sockets + (k + 1) <= MaxSocketsOpened
    BY <1>2, <1>3, <1>4 DEF Feeds
  <2>2. \A f \in Feeds : server'[f] # "none" <=> f <= k + 1
    BY <1>2, <1>4, <1>6 DEF Feeds
  <2> QED
    BY <2>1, <2>2 DEF SocketsInOrder
<1>9. OnItsWayIsLogged' /\ WalkIsWhole'
  BY <1>1, WalkStays DEF FeedInv, OnItsWayIsLogged, Logged, Rows
<1>10. SubscribedOnce'
  BY <1>1, <1>6 DEF FeedInv, SubscribedOnce
<1>11. DueIsComing'
  <2>1. NoSocket \notin Feeds
    BY DEF NoSocket, Feeds
  <2> QED
    BY <1>1, <2>1 DEF FeedInv, DueIsComing
<1> QED
  BY <1>7, <1>8, <1>9, <1>10, <1>11 DEF FeedInv

\* The page calls itself live; time passes or is set back.
LEMMA OthersKeep ==
    ASSUME FeedInv, IsOpen \/ TimePasses \/ ClockStepsBack \/ UNCHANGED feedVars PROVE FeedInv'
<1>1. /\ UNCHANGED <<log, stamped, publish, subscribers, server, frames, seen, reader, due>>
      /\ browser'.socket = browser.socket
  BY DEF IsOpen, TimePasses, ClockStepsBack, feedVars, FeedInv, FeedShaped
<1>2. feedLeft' \in Budgets /\ feedLeft'.sockets = feedLeft.sockets
  BY BudgetSpent DEF IsOpen, TimePasses, ClockStepsBack, feedVars, FeedInv, FeedShaped
<1>3. /\ clock' \in Nat
      /\ browser' \in [at : {"connecting", "live", "reconnecting", "unavailable"},
                       socket : Feeds \cup {NoSocket}]
  BY DEF IsOpen, TimePasses, ClockStepsBack, feedVars, FeedInv, FeedShaped
<1>4. FeedShaped'
  BY <1>1, <1>2, <1>3 DEF FeedInv, FeedShaped, Rows
<1>5. SocketsInOrder' /\ WalkIsWhole' /\ SubscribedOnce'
  BY <1>1, <1>2, SocketsStay, WalkStays, SubscribersStay DEF FeedInv
<1>6. OnItsWayIsLogged' /\ DueIsComing'
  BY <1>1 DEF FeedInv, OnItsWayIsLogged, Logged, Rows, DueIsComing, InFrame, IsToCome
<1> QED
  BY <1>4, <1>5, <1>6 DEF FeedInv

\* What the server knows of a socket goes on; the page may lose it.
LEMMA SubscribesKeeps == ASSUME FeedInv, NEW f \in Feeds, Subscribes(f) PROVE FeedInv'
<1>1. /\ server[f] = "auth" /\ subscribers' = Append(subscribers, f)
      /\ server' = [server EXCEPT ![f] = "feeding"]
      /\ UNCHANGED <<log, clock, stamped, publish, browser, frames, seen, reader, feedLeft, due>>
  BY DEF Subscribes
<1>2. server'[f] = "feeding" /\ \A g \in Feeds \ {f} : server'[g] = server[g]
  BY <1>1 DEF FeedInv, FeedShaped
<1>3. /\ subscribers \in Seq(Receivers) /\ subscribers' \in Seq(Receivers)
      /\ Len(subscribers) \in Nat
      /\ DOMAIN subscribers = 1 .. Len(subscribers)
      /\ DOMAIN subscribers' = 1 .. (Len(subscribers) + 1)
      /\ subscribers'[Len(subscribers) + 1] = f
      /\ \A n \in 1 .. Len(subscribers) : subscribers'[n] = subscribers[n]
  BY <1>1 DEF FeedInv, FeedShaped, Receivers
<1>4. \A n \in 1 .. Len(subscribers) : subscribers[n] # f
  BY <1>1, <1>3 DEF FeedInv, SubscribedOnce
<1>5. FeedShaped'
  BY <1>1, <1>3 DEF FeedInv, FeedShaped, Rows
<1>6. SocketsInOrder' /\ WalkIsWhole'
  BY <1>1, <1>2, WalkStays DEF FeedInv, SocketsInOrder
<1>7. OnItsWayIsLogged'
  BY <1>1 DEF FeedInv, OnItsWayIsLogged, Logged, Rows
<1>8. SubscribedOnce'
  <2>1. \A n \in DOMAIN subscribers' :
           subscribers'[n] \in Feeds => server'[subscribers'[n]] = "feeding"
    BY <1>2, <1>3, <1>4 DEF FeedInv, SubscribedOnce
  <2>2. \A m, n \in DOMAIN subscribers' : subscribers'[m] = subscribers'[n] => m = n
    BY <1>3, <1>4 DEF FeedInv, SubscribedOnce
  <2> QED
    BY <2>1, <2>2 DEF SubscribedOnce
<1>9. DueIsComing'
  BY <1>1, <1>2 DEF FeedInv, DueIsComing, InFrame, IsToCome
<1> QED
  BY <1>5, <1>6, <1>7, <1>8, <1>9 DEF FeedInv

LEMMA RefusedKeeps == ASSUME FeedInv, NEW f \in Feeds, Refused4401(f) PROVE FeedInv'
<1>1. /\ server[f] = "auth" /\ server' = [server EXCEPT ![f] = "gone"]
      /\ browser' = IF browser.socket = f THEN [at |-> "unavailable", socket |-> NoSocket]
                    ELSE browser
      /\ UNCHANGED <<log, clock, stamped, publish, subscribers, frames, seen, reader, feedLeft,
                     due>>
  BY DEF Refused4401
<1>2. server'[f] = "gone" /\ \A g \in Feeds \ {f} : server'[g] = server[g]
  BY <1>1 DEF FeedInv, FeedShaped
<1>3. FeedShaped'
  BY <1>1 DEF FeedInv, FeedShaped, Rows
<1>4. SocketsInOrder' /\ WalkIsWhole'
  BY <1>1, <1>2, WalkStays DEF FeedInv, SocketsInOrder
<1>5. OnItsWayIsLogged' /\ SubscribedOnce'
  BY <1>1, <1>2 DEF FeedInv, OnItsWayIsLogged, Logged, Rows, SubscribedOnce
<1>6. DueIsComing'
  BY <1>1, <1>2 DEF FeedInv, DueIsComing, InFrame, IsToCome
<1> QED
  BY <1>3, <1>4, <1>5, <1>6 DEF FeedInv

LEMMA ReceivesKeeps == ASSUME FeedInv, NEW f \in Feeds, Receives1(f) PROVE FeedInv'
<1>1. /\ browser.socket = f /\ frames[f] # <<>> /\ seen' = seen \cup {frames[f][1]}
      /\ frames' = [frames EXCEPT ![f] = Tail(frames[f])]
      /\ UNCHANGED <<log, clock, stamped, publish, subscribers, server, browser, reader,
                     feedLeft, due>>
  BY DEF Receives1, FeedInv, FeedShaped
<1> DEFINE now == Tail(frames[f])
<1>2. /\ frames[f] \in Seq(Events) /\ Len(frames[f]) \in Nat /\ Len(frames[f]) > 0
      /\ DOMAIN frames[f] = 1 .. Len(frames[f])
      /\ now \in Seq(Events) /\ DOMAIN now = 1 .. (Len(frames[f]) - 1)
      /\ \A n \in 1 .. (Len(frames[f]) - 1) : now[n] = frames[f][n + 1]
  BY <1>1 DEF FeedInv, FeedShaped
<1> HIDE DEF now
<1>3. frames'[f] = now /\ \A g \in Feeds \ {f} : frames'[g] = frames[g]
  BY <1>1 DEF FeedInv, FeedShaped, now
<1>4. frames[f][1] \in Events /\ frames[f][1] \in Logged
  BY <1>2 DEF FeedInv, OnItsWayIsLogged
<1>5. FeedShaped'
  <2>1. frames' \in [Feeds -> Seq(Events)] /\ seen' \subseteq Events
    BY <1>1, <1>2, <1>4 DEF FeedInv, FeedShaped, now
  <2> QED
    BY <1>1, <2>1 DEF FeedInv, FeedShaped, Rows
<1>6. SocketsInOrder' /\ WalkIsWhole' /\ SubscribedOnce'
  BY <1>1, SocketsStay, WalkStays, SubscribersStay DEF FeedInv
<1>7. OnItsWayIsLogged'
  <2>1. Logged' = Logged /\ publish' = publish /\ seen' \subseteq Logged
    BY <1>1, <1>4 DEF Logged, Rows, FeedInv, OnItsWayIsLogged
  <2>2. ASSUME NEW s \in Feeds, NEW n \in DOMAIN frames'[s] PROVE frames'[s][n] \in Logged
    <3>1. CASE s = f
      <4>1. n + 1 \in DOMAIN frames[f] /\ frames'[f][n] = frames[f][n + 1]
        BY <1>2, <1>3, <2>2, <3>1
      <4> QED
        BY <3>1, <4>1 DEF FeedInv, OnItsWayIsLogged
    <3>2. CASE s # f
      BY <1>3, <3>2 DEF FeedInv, OnItsWayIsLogged
    <3> QED
      BY <3>1, <3>2
  <2> QED
    BY <2>1, <2>2 DEF FeedInv, OnItsWayIsLogged
<1>8. DueIsComing'
  <2> SUFFICES ASSUME NEW id \in due, id \notin seen'
               PROVE  /\ f \in Feeds /\ server[f] \in {"feeding", "gone"}
                      /\ (\E n \in DOMAIN frames'[f] : frames'[f][n] = id) \/ IsToCome(f, id)
    BY <1>1 DEF DueIsComing, InFrame, IsToCome
  <2>1. server[f] \in {"feeding", "gone"} /\ (InFrame(f, id) \/ IsToCome(f, id))
    BY <1>1 DEF FeedInv, DueIsComing
  <2>2. ASSUME InFrame(f, id) PROVE \E n \in DOMAIN frames'[f] : frames'[f][n] = id
    <3>1. PICK n \in DOMAIN frames[f] : frames[f][n] = id
      BY <2>2 DEF InFrame
    <3>2. n # 1
      BY <1>1, <3>1
    <3>3. n - 1 \in DOMAIN frames'[f] /\ frames'[f][n - 1] = id
      BY <1>2, <1>3, <3>1, <3>2
    <3> QED
      BY <3>3
  <2> QED
    BY <2>1, <2>2
<1> QED
  BY <1>5, <1>6, <1>7, <1>8 DEF FeedInv

LEMMA SocketClosesKeeps == ASSUME FeedInv, SocketCloses PROVE FeedInv'
<1>1. /\ browser.socket # NoSocket /\ Spend("faults")
      /\ browser' = [at |-> "reconnecting", socket |-> NoSocket]
      /\ frames' = [frames EXCEPT ![browser.socket] = <<>>] /\ due' = due \cap seen
      /\ UNCHANGED <<log, clock, stamped, publish, subscribers, server, seen, reader>>
  BY DEF SocketCloses
<1>2. feedLeft' \in Budgets /\ feedLeft'.sockets = feedLeft.sockets
  BY <1>1, BudgetSpent DEF FeedInv, FeedShaped
<1>3. /\ frames' \in [Feeds -> Seq(Events)]
      /\ \A f \in Feeds : frames'[f] = frames[f] \/ frames'[f] = <<>>
  BY <1>1 DEF FeedInv, FeedShaped
<1>4. FeedShaped'
  BY <1>1, <1>2, <1>3 DEF FeedInv, FeedShaped, Rows
<1>5. SocketsInOrder' /\ WalkIsWhole' /\ SubscribedOnce'
  BY <1>1, <1>2, SocketsStay, WalkStays, SubscribersStay DEF FeedInv
<1>6. OnItsWayIsLogged'
  BY <1>1, <1>3 DEF FeedInv, OnItsWayIsLogged, Logged, Rows
<1>7. DueIsComing'
  BY <1>1 DEF DueIsComing
<1> QED
  BY <1>4, <1>5, <1>6, <1>7 DEF FeedInv

LEMMA UnsubscribesKeeps == ASSUME FeedInv, NEW f \in Feeds, Unsubscribes(f) PROVE FeedInv'
<1>1. PICK k \in DOMAIN subscribers :
         subscribers[k] = f /\ subscribers' = RemovedAt(subscribers, k)
  BY DEF Unsubscribes
<1>2. /\ server[f] = "feeding" /\ server' = [server EXCEPT ![f] = "gone"]
      /\ UNCHANGED <<log, clock, stamped, publish, browser, frames, seen, reader, feedLeft, due>>
  BY DEF Unsubscribes
<1>3. server'[f] = "gone" /\ \A g \in Feeds \ {f} : server'[g] = server[g]
  BY <1>2 DEF FeedInv, FeedShaped
<1>4. /\ subscribers \in Seq(Receivers) /\ Len(subscribers) \in Nat \ {0}
      /\ DOMAIN subscribers = 1 .. Len(subscribers) /\ k \in 1 .. Len(subscribers)
  BY <1>1 DEF FeedInv, FeedShaped
<1>5. /\ DOMAIN subscribers' = 1 .. (Len(subscribers) - 1)
      /\ subscribers' \in Seq(Receivers)
      /\ \A n \in DOMAIN subscribers' :
            /\ subscribers'[n] = subscribers[IF n < k THEN n ELSE n + 1]
            /\ (IF n < k THEN n ELSE n + 1) \in DOMAIN subscribers \ {k}
  <2>1. \A n \in 1 .. (Len(subscribers) - 1) :
           (IF n < k THEN n ELSE n + 1) \in DOMAIN subscribers \ {k}
    BY <1>4
  <2>2. /\ subscribers' = [n \in 1 .. (Len(subscribers) - 1) |->
                              subscribers[IF n < k THEN n ELSE n + 1]]
        /\ Len(subscribers) - 1 \in Nat
    BY <1>1, <1>4 DEF RemovedAt
  <2>3. \A n \in 1 .. (Len(subscribers) - 1) :
           subscribers[IF n < k THEN n ELSE n + 1] \in Receivers
    BY <1>4, <2>1
  <2> QED
    BY <2>1, <2>2, <2>3
<1>6. FeedShaped'
  BY <1>2, <1>5 DEF FeedInv, FeedShaped, Rows
<1>7. SocketsInOrder' /\ WalkIsWhole'
  BY <1>2, <1>3, WalkStays DEF FeedInv, SocketsInOrder
<1>8. OnItsWayIsLogged'
  BY <1>2 DEF FeedInv, OnItsWayIsLogged, Logged, Rows
<1>9. SubscribedOnce'
  <2>1. ASSUME NEW n \in DOMAIN subscribers', subscribers'[n] \in Feeds
        PROVE  server'[subscribers'[n]] = "feeding"
    <3>1. PICK m \in DOMAIN subscribers : m # k /\ subscribers'[n] = subscribers[m]
      BY <1>5, <2>1
    <3>2. subscribers[m] # f
      BY <1>1, <3>1 DEF FeedInv, SubscribedOnce
    <3> QED
      BY <1>3, <2>1, <3>1, <3>2 DEF FeedInv, SubscribedOnce
  <2>2. ASSUME NEW m \in DOMAIN subscribers', NEW n \in DOMAIN subscribers',
               subscribers'[m] = subscribers'[n]
        PROVE  m = n
    <3>1. (IF m < k THEN m ELSE m + 1) = (IF n < k THEN n ELSE n + 1)
      BY <1>5, <2>2 DEF FeedInv, SubscribedOnce
    <3> QED
      BY <1>4, <1>5, <3>1
  <2> QED
    BY <2>1, <2>2 DEF SubscribedOnce
<1>10. DueIsComing'
  BY <1>2, <1>3 DEF FeedInv, DueIsComing, InFrame, IsToCome
<1> QED
  BY <1>6, <1>7, <1>8, <1>9, <1>10 DEF FeedInv

LEMMA ServerRestartsKeeps == ASSUME FeedInv, ServerRestarts PROVE FeedInv'
<1>1. /\ Spend("faults") /\ publish' = [p \in Producers |-> NotPublishing]
      /\ subscribers' = <<Plugins0>> /\ frames' = [f \in Feeds |-> <<>>]
      /\ server' = [f \in Feeds |-> IF server[f] = "none" THEN "none" ELSE "gone"]
      /\ browser' = IF browser.at = "unavailable" THEN browser
                    ELSE [at |-> "reconnecting", socket |-> NoSocket]
      /\ reader' = NoWalk /\ due' = due \cap seen
      /\ UNCHANGED <<log, clock, stamped, seen>>
  BY DEF ServerRestarts
<1>2. feedLeft' \in Budgets /\ feedLeft'.sockets = feedLeft.sockets
  BY <1>1, BudgetSpent DEF FeedInv, FeedShaped
<1>3. FeedShaped'
  <2>1. subscribers' \in Seq(Receivers) /\ publish' \in [Producers -> Publications]
    BY <1>1 DEF Receivers, Publications
  <2>2. frames' \in [Feeds -> Seq(Events)] /\ reader'.wanted \subseteq Rows'
    BY <1>1 DEF NoWalk
  <2>3. reader'.cursor \in 0 .. Len(log')
    BY <1>1 DEF NoWalk, FeedInv, FeedShaped
  <2> QED
    BY <1>1, <1>2, <2>1, <2>2, <2>3 DEF FeedInv, FeedShaped, NoWalk
<1>4. SocketsInOrder'
  <2>1. \A f \in Feeds : server'[f] # "none" <=> server[f] # "none"
    BY <1>1
  <2> QED
    BY <1>2, <2>1 DEF FeedInv, SocketsInOrder
<1>5. OnItsWayIsLogged'
  <2>1. Logged' = Logged /\ seen' = seen
    BY <1>1 DEF Logged, Rows
  <2>2. \A p \in Producers : publish'[p].at = "idle"
    BY <1>1 DEF NotPublishing
  <2>3. \A f \in Feeds : DOMAIN frames'[f] = {}
    BY <1>1
  <2> QED
    BY <2>1, <2>2, <2>3 DEF FeedInv, OnItsWayIsLogged
<1>6. SubscribedOnce'
  BY <1>1, FeedBounds DEF SubscribedOnce, Feeds
<1>7. DueIsComing' /\ WalkIsWhole'
  BY <1>1 DEF DueIsComing, WalkIsWhole, NoWalk
<1> QED
  BY <1>3, <1>4, <1>5, <1>6, <1>7 DEF FeedInv

------------------------------------------------------------------------------
\* The walk over the pages.
LEMMA WalkStartsKeeps == ASSUME FeedInv, WalkStarts PROVE FeedInv'
<1>1. /\ Spend("walks")
      /\ reader' = [at |-> "reading", cursor |-> 0, got |-> {}, wanted |-> Rows]
      /\ UNCHANGED <<log, clock, stamped, publish, subscribers, server, browser, frames, seen,
                     due>>
  BY DEF WalkStarts
<1>2. feedLeft' \in Budgets /\ feedLeft'.sockets = feedLeft.sockets
  BY <1>1, BudgetSpent DEF FeedInv, FeedShaped
<1>3. Len(log) \in Nat /\ Rows = 1 .. Len(log)
  BY DEF FeedInv, FeedShaped, Rows
<1>4. FeedShaped'
  BY <1>1, <1>2, <1>3 DEF FeedInv, FeedShaped, Rows
<1>5. SocketsInOrder' /\ SubscribedOnce'
  BY <1>1, <1>2, SocketsStay, SubscribersStay DEF FeedInv
<1>6. OnItsWayIsLogged' /\ DueIsComing'
  BY <1>1 DEF FeedInv, OnItsWayIsLogged, Logged, Rows, DueIsComing, InFrame, IsToCome
<1>7. WalkIsWhole'
  BY <1>1, <1>3 DEF WalkIsWhole
<1> QED
  BY <1>4, <1>5, <1>6, <1>7 DEF FeedInv

LEMMA RowTimes ==
    ASSUME FeedShaped
    PROVE  /\ Rows = 1 .. Len(log) /\ Len(log) \in Nat
           /\ \A r \in Rows : log[r].occurredAt \in Nat
<1>1. log \in Seq(LogRows)
  BY DEF FeedShaped
<1>2. Rows = 1 .. Len(log) /\ Len(log) \in Nat
  BY <1>1 DEF Rows
<1>3. \A r \in Rows : log[r] \in LogRows
  BY <1>1, <1>2
<1> QED
  BY <1>2, <1>3 DEF LogRows

\* The order of a page is a strict total order, so that a page has a last row.
LEMMA LastOfPage ==
    ASSUME FeedShaped, NEW page \in SUBSET Rows, page # {}
    PROVE  /\ LastOf(page) \in page
           /\ \A q \in page \ {LastOf(page)} : ByTime(q, LastOf(page))
<1>1. /\ Rows = 1 .. Len(log) /\ Len(log) \in Nat
      /\ \A r \in Rows : log[r].occurredAt \in Nat
  BY RowTimes
<1>2. \A q, r \in Rows : q = r \/ ByTime(q, r) \/ ByTime(r, q)
  BY <1>1 DEF ByTime
<1>3. \A q, r, s \in Rows : ByTime(q, r) /\ ByTime(r, s) => ByTime(q, s)
  BY <1>1 DEF ByTime
<1>4. \A r \in Rows : ~ByTime(r, r)
  BY <1>1 DEF ByTime
<1>5. PICK later : later = [r \in page |-> {q \in page : ByTime(r, q)}]
  OBVIOUS
<1>6. IsFiniteSet(Rows)
  BY <1>1, FS_Interval
<1> DEFINE T == {later[r] : r \in page}
<1>7. T \subseteq FiniteSubsetsOf(Rows) /\ T # {}
  <2>1. ASSUME NEW r \in page PROVE later[r] \in FiniteSubsetsOf(Rows)
    <3>1. later[r] \in SUBSET Rows
      BY <1>5
    <3>2. IsFiniteSet(later[r])
      BY <1>6, <3>1, FS_Subset
    <3> QED
      BY <3>1, <3>2 DEF FiniteSubsetsOf
  <2> QED
    BY <2>1
<1>8. \E x \in T : \A y \in T : ~(<<y, x>> \in StrictSubsetOrdering(Rows))
  <2> HIDE DEF T
  <2> QED
    BY <1>7, FS_StrictSubsetOrderingWellFounded, WFMin
<1>9. PICK r \in page : \A q \in page : ~(<<later[q], later[r]>> \in StrictSubsetOrdering(Rows))
  BY <1>8
<1>10. \A q \in page : ~ByTime(r, q)
  <2> SUFFICES ASSUME NEW q \in page, ByTime(r, q) PROVE FALSE
    OBVIOUS
  <2>1. later[q] \subseteq later[r]
    BY <1>3, <1>5
  <2>2. q \in later[r] /\ q \notin later[q]
    BY <1>4, <1>5
  <2>3. later[q] \in SUBSET Rows /\ later[r] \in SUBSET Rows
    BY <1>5
  <2>4. <<later[q], later[r]>> \in StrictSubsetOrdering(Rows)
    BY <2>1, <2>2, <2>3 DEF StrictSubsetOrdering
  <2> QED
    BY <1>9, <2>4
<1>11. \A q \in page \ {r} : ByTime(q, r)
  BY <1>2, <1>10
<1> QED
  BY <1>11 DEF LastOf

\* While rows are inserted in the order of their times, a page is the rows after
\* the cursor up to its last one ...
LEMMA PageIsWhole ==
    ASSUME FeedShaped, RowsInOrder, NEW cursor \in 0 .. Len(log),
           NEW m \in Page(cursor), NEW r \in Rows, cursor < r, r <= m
    PROVE  r \in Page(cursor)
<1>1. /\ Rows = 1 .. Len(log) /\ Len(log) \in Nat
      /\ \A q \in Rows : log[q].occurredAt \in Nat
  BY RowTimes
<1>2. \A q, s \in Rows : ByTime(q, s) <=> q < s
  BY <1>1 DEF ByTime, RowsInOrder
<1>3. m \in Rows /\ m > cursor /\ Cardinality(Earlier(cursor, m)) < PageSize
  BY DEF Page, From
<1>4. Earlier(cursor, m) \in SUBSET Rows /\ IsFiniteSet(Rows)
  BY <1>1, FS_Interval DEF Earlier, From
<1>5. IsFiniteSet(Earlier(cursor, m))
  BY <1>4, FS_Subset
<1>6. Earlier(cursor, r) \subseteq Earlier(cursor, m)
  BY <1>1, <1>2, <1>3 DEF Earlier, From
<1>7. Cardinality(Earlier(cursor, r)) <= Cardinality(Earlier(cursor, m))
  BY <1>5, <1>6, FS_Subset
<1>8. Cardinality(Earlier(cursor, r)) \in Nat /\ Cardinality(Earlier(cursor, m)) \in Nat
  BY <1>5, <1>6, FS_Subset, FS_CardinalityType
<1> QED
  BY <1>3, <1>7, <1>8, FeedBounds DEF Page, From

\* ... and one that is not full is all of them.
LEMMA ShortPageIsLast ==
    ASSUME FeedShaped, RowsInOrder, NEW cursor \in 0 .. Len(log),
           Cardinality(Page(cursor)) # PageSize
    PROVE  Page(cursor) = From(cursor)
<1> SUFFICES ASSUME NEW r \in From(cursor), r \notin Page(cursor) PROVE FALSE
  BY DEF Page
<1>1. /\ Rows = 1 .. Len(log) /\ Len(log) \in Nat
      /\ \A q \in Rows : log[q].occurredAt \in Nat
  BY RowTimes
<1>2. \A q, s \in Rows : ByTime(q, s) <=> q < s
  BY <1>1 DEF ByTime, RowsInOrder
<1>3. From(cursor) = (cursor + 1) .. Len(log)
  BY <1>1 DEF From
<1>4. ASSUME NEW s \in From(cursor)
      PROVE  Cardinality(Earlier(cursor, s)) = (s - 1) - cursor
  <2>1. s \in (cursor + 1) .. Len(log) /\ s \in Rows
    BY <1>1, <1>3
  <2>2. Earlier(cursor, s) = (cursor + 1) .. (s - 1)
    BY <1>1, <1>2, <1>3, <2>1 DEF Earlier
  <2>3. cursor + 1 \in Int /\ s - 1 \in Int
    BY <2>1
  <2>4. Cardinality((cursor + 1) .. (s - 1)) =
           IF cursor + 1 > s - 1 THEN 0 ELSE (s - 1) - (cursor + 1) + 1
    BY <2>3, FS_Interval
  <2> QED
    BY <2>1, <2>2, <2>4
<1>5. PageSize \in Nat \ {0} /\ (r - 1) - cursor >= PageSize
  BY <1>3, <1>4, FeedBounds DEF Page
<1>6. Page(cursor) = (cursor + 1) .. (cursor + PageSize)
  <2>1. Page(cursor) = {s \in From(cursor) : (s - 1) - cursor < PageSize}
    BY <1>4 DEF Page
  <2> QED
    BY <1>1, <1>3, <1>5, <2>1
<1>7. Cardinality((cursor + 1) .. (cursor + PageSize)) =
         IF cursor + 1 > cursor + PageSize THEN 0 ELSE (cursor + PageSize) - (cursor + 1) + 1
  BY <1>5, FS_Interval
<1> QED
  BY <1>5, <1>6, <1>7

LEMMA ReadsPageKeeps == ASSUME FeedInv, ReadsPage PROVE FeedInv'
<1> DEFINE page == Page(reader.cursor)
           Full == Cardinality(page) = PageSize
<1>1. /\ reader.at = "reading"
      /\ UNCHANGED <<log, clock, stamped, publish, subscribers, server, browser, frames, seen,
                     feedLeft, due>>
  BY DEF ReadsPage
<1>2. /\ reader'.at = IF Full THEN "reading" ELSE "done"
      /\ reader'.cursor = IF page = {} THEN reader.cursor ELSE LastOf(page)
      /\ reader'.got = reader.got \cup page /\ reader'.wanted = reader.wanted
      /\ reader' = [at |-> reader'.at, cursor |-> reader'.cursor, got |-> reader'.got,
                    wanted |-> reader'.wanted]
  BY DEF ReadsPage
<1>3. /\ FeedShaped /\ WalkIsWhole /\ Rows = 1 .. Len(log) /\ Len(log) \in Nat
      /\ reader.cursor \in 0 .. Len(log) /\ reader.wanted \subseteq Rows
  BY DEF FeedInv, FeedShaped, Rows
<1>4. page \in SUBSET Rows
  BY DEF Page, From
<1>5. page # {} => /\ LastOf(page) \in page
                   /\ \A q \in page \ {LastOf(page)} : ByTime(q, LastOf(page))
  <2> HIDE DEF page
  <2> QED
    BY <1>3, <1>4, LastOfPage
<1>6. reader'.cursor \in 0 .. Len(log) /\ reader'.at \in {"reading", "done"}
  <2> HIDE DEF page, Full
  <2> QED
    BY <1>2, <1>3, <1>4, <1>5
<1>7. FeedShaped'
  BY <1>1, <1>2, <1>3, <1>6 DEF FeedShaped, Rows
<1>8. SocketsInOrder' /\ SubscribedOnce'
  BY <1>1, SocketsStay, SubscribersStay DEF FeedInv
<1>9. OnItsWayIsLogged' /\ DueIsComing'
  BY <1>1 DEF FeedInv, OnItsWayIsLogged, Logged, Rows, DueIsComing, InFrame, IsToCome
<1>10. WalkIsWhole'
  <2> SUFFICES ASSUME RowsInOrder
               PROVE  /\ \A r \in reader.wanted : r <= reader'.cursor => r \in reader'.got
                      /\ reader'.at = "done" => reader.wanted \subseteq reader'.got
    BY <1>1, <1>2 DEF WalkIsWhole, RowsInOrder, Rows
  <2>1. \A r \in reader.wanted : r <= reader.cursor => r \in reader.got
    BY <1>3 DEF WalkIsWhole
  <2>2. ASSUME NEW r \in reader.wanted, r <= reader'.cursor PROVE r \in reader'.got
    <3>1. CASE r <= reader.cursor
      BY <1>2, <2>1, <3>1
    <3>2. CASE ~(r <= reader.cursor)
      <4>1. r \in Rows /\ reader.cursor < r
        BY <1>3, <3>2
      <4>2. page # {} /\ reader'.cursor \in page
        BY <1>2, <1>5, <2>2, <3>2
      <4>3. r \in page
        BY <1>3, <2>2, <4>1, <4>2, PageIsWhole
      <4> QED
        BY <1>2, <4>3
    <3> QED
      BY <3>1, <3>2
  <2>3. ASSUME reader'.at = "done", NEW r \in reader.wanted PROVE r \in reader'.got
    <3>1. page = From(reader.cursor)
      BY <1>2, <1>3, <2>3, ShortPageIsLast
    <3> QED
      BY <1>2, <1>3, <2>1, <3>1 DEF From
  <2> QED
    BY <2>2, <2>3
<1> QED
  BY <1>7, <1>8, <1>9, <1>10 DEF FeedInv

------------------------------------------------------------------------------
LEMMA FeedStep == FeedInv /\ [FeedNext]_feedVars => FeedInv'
<1> SUFFICES ASSUME FeedInv, [FeedNext]_feedVars PROVE FeedInv'
  OBVIOUS
<1>1. ASSUME NEW p \in Producers,
             Stamps(p) \/ Appends(p) \/ AppendFails(p) \/ FansOut(p) \/ HandsOn(p) \/ Published(p)
      PROVE  FeedInv'
  BY <1>1, StampsKeeps, AppendsKeeps, AppendFailsKeeps, FansOutKeeps, HandsOnKeeps,
     PublishedKeeps
<1>2. CASE Connects \/ IsOpen \/ SocketCloses
  BY <1>2, ConnectsKeeps, OthersKeep, SocketClosesKeeps
<1>3. ASSUME NEW f \in Feeds,
             Subscribes(f) \/ Refused4401(f) \/ Receives1(f) \/ Unsubscribes(f)
      PROVE  FeedInv'
  BY <1>3, SubscribesKeeps, RefusedKeeps, ReceivesKeeps, UnsubscribesKeeps
<1>4. CASE WalkStarts \/ ReadsPage
  BY <1>4, WalkStartsKeeps, ReadsPageKeeps
<1>5. CASE TimePasses \/ ClockStepsBack \/ UNCHANGED feedVars
  BY <1>5, OthersKeep
<1>6. CASE ServerRestarts
  BY <1>6, ServerRestartsKeeps
<1> QED
  BY <1>1, <1>2, <1>3, <1>4, <1>5, <1>6 DEF FeedNext

LEMMA FeedServes == FeedInv => FeedKept
<1> SUFFICES ASSUME FeedInv PROVE FeedKept
  OBVIOUS
<1>1. FeedTypeOK
  <2>1. \A p \in Producers : publish[p].at \in {"idle", "append", "fanout", "handing"}
    BY DEF FeedInv, FeedShaped, Publications, NotPublishing, Appending, FanningOut, HandingRound
  <2> QED
    BY <2>1 DEF FeedInv, FeedShaped, FeedTypeOK, LogRows, Receivers
<1>2. LoggedFirst
  BY DEF FeedInv, OnItsWayIsLogged, LoggedFirst
<1>3. FeedWhole
  <2> SUFFICES ASSUME \A p \in Producers : publish[p] = NotPublishing,
                      \A f \in Feeds : frames[f] = <<>>
               PROVE  due \subseteq seen
    BY DEF FeedWhole
  <2>1. \A s \in Feeds, id \in due : ~InFrame(s, id) /\ ~IsToCome(s, id)
    BY DEF InFrame, IsToCome, NotPublishing
  <2> QED
    BY <2>1 DEF FeedInv, DueIsComing
<1>4. PagesComplete
  BY DEF FeedInv, WalkIsWhole, RowsInOrder, PagesComplete
<1> QED
  BY <1>1, <1>2, <1>3, <1>4 DEF FeedKept

\* What a page shows is in the log; with nothing on its way it has shown what was
\* published since its socket subscribed; and a walk over the pages returns every
\* event that was there when it began, while rows come in the order of their times:
\* whatever the publications in progress, the sockets and the size of a page
\* (events.ts publish, subscribe and read, and live-event-feed.ts).
THEOREM FeedIsKept == FeedSpec => []FeedKept
<1>1. FeedSpec => []FeedInv
  <2>1. FeedInit => FeedInv
    BY FeedStarts
  <2>2. FeedInv /\ [FeedNext]_feedVars => FeedInv'
    BY FeedStep
  <2> QED
    BY <2>1, <2>2, PTL DEF FeedSpec
<1> QED
  BY <1>1, FeedServes, PTL

------------------------------------------------------------------------------
(* The channel of a plugin: the inductive invariant *)

Calling   == [is : {"request"}, id : Ids, of : 0 .. MaxCalls]
Answering == [is : {"answer"}, id : AskIds, of : Procs, ok : BOOLEAN]
Replying  == [is : {"answer"}, id : Ids, of : 0 .. MaxCalls]
Asking    == [is : {"request"}, id : AskIds, kind : Kinds]
CoreLines   == Calling \cup Answering
PluginLines == Replying \cup Asking
PluginAsks == [kind : Kinds, at : {"unsent", "waiting", "told", "refused", "late"}]
Pipes(S)  == [Procs -> Seq(S)]
ChannelShaped ==
    /\ phase \in {"starting", "healthy", "restarting", "unmounting"}
    /\ spawned \in 0 .. MaxProcs /\ proc \in 0 .. spawned
    /\ alive \subseteq 1 .. spawned /\ exits \subseteq (1 .. spawned) \ alive
    /\ stdin \in Pipes(CoreLines)
    /\ stdout \in Pipes(PluginLines)
    /\ seq \in 0 .. MaxProcs + MaxCalls /\ pending \in [Ids -> Calls \cup {Starting, Nobody}]
    /\ call \in [Calls -> {"unsent", "waiting", "answered", "failed", "void", "cut"}]
    /\ answered \in [Calls -> 0 .. MaxCalls]
    /\ working \in [Procs -> SUBSET [id : Ids, of : Calls]]
    /\ ask \in [Procs -> [AskIds -> PluginAsks]]
    /\ serving \subseteq [of : Procs, id : AskIds, kind : Kinds]
    /\ kept \subseteq Procs \X AskIds /\ crossed \subseteq Procs \X AskIds
    /\ keepFails \in Nat /\ room \in Rooms

\* Calls are made one after the other, and a number is given to a process that is
\* started or to a call.
NumbersSuffice ==
    /\ \E k \in 0 .. MaxCalls : /\ \A n \in Calls : call[n] # "unsent" <=> n <= k
                                /\ seq <= spawned + k
    /\ \A i \in Ids : pending[i] \in Calls => call[pending[i]] # "unsent"

\* Whatever carries a number that a call waits for was written for this call.
LinesIn(s) == {s[n] : n \in DOMAIN s}
CarriesOwn(line) ==
    /\ line.id \in Ids /\ line.id <= seq
    /\ pending[line.id] \in Calls => line.of = pending[line.id]
NumbersMatch ==
    /\ \A i \in Ids : pending[i] # Nobody => i <= seq
    /\ \A p \in Procs : \A line \in LinesIn(stdin[p]) : line.is = "request" => CarriesOwn(line)
    /\ \A p \in Procs : \A line \in LinesIn(stdout[p]) : line.is = "answer" => CarriesOwn(line)
    /\ \A p \in Procs : \A w \in working[p] : CarriesOwn(w)
    /\ OwnAnswers

\* A request on its way is the one the plugin made, and an answer says that what
\* was asked to be kept has been stored, as long as no query failed.
AsAsked(p, a, kind) == ask[p][a].at # "unsent" /\ ask[p][a].kind = kind
SaysTrue(line) ==
    /\ ask[line.of][line.id].at # "unsent"
    /\ keepFails = 0 /\ ask[line.of][line.id].kind = "blind" => <<line.of, line.id>> \in kept
AnswersMatch ==
    /\ \A p \in Procs : \A line \in LinesIn(stdout[p]) :
          line.is = "request" => AsAsked(p, line.id, line.kind)
    /\ \A r \in serving : AsAsked(r.of, r.id, r.kind)
    /\ \A p \in Procs : \A line \in LinesIn(stdin[p]) : line.is = "answer" => SaysTrue(line)
    /\ ToldIsKept

ChannelInv == ChannelShaped /\ NumbersSuffice /\ NumbersMatch /\ AnswersMatch

------------------------------------------------------------------------------
\* The lines of a pipe to which one is added, or from which the first is taken.
LEMMA LineAdded ==
    ASSUME NEW S, NEW f \in Pipes(S), NEW p \in Procs, NEW x \in S,
           NEW g \in Pipes(S), g[p] = Append(f[p], x)
    PROVE  \A line \in LinesIn(g[p]) : line \in LinesIn(f[p]) \/ line = x
<1>0. f[p] \in Seq(S) /\ g[p] = Append(f[p], x)
  BY DEF Pipes
<1>1. /\ Len(f[p]) \in Nat /\ DOMAIN g[p] = 1 .. (Len(f[p]) + 1)
      /\ DOMAIN f[p] = 1 .. Len(f[p])
      /\ g[p][Len(f[p]) + 1] = x /\ \A n \in DOMAIN f[p] : g[p][n] = f[p][n]
  BY <1>0
<1> QED
  BY <1>1 DEF LinesIn

LEMMA LineTaken ==
    ASSUME NEW S, NEW f \in Pipes(S), NEW p \in Procs, f[p] # <<>>,
           NEW g \in Pipes(S), g[p] = Tail(f[p]), \A q \in Procs \ {p} : g[q] = f[q]
    PROVE  /\ \A q \in Procs : \A line \in LinesIn(g[q]) : line \in LinesIn(f[q])
           /\ Head(f[p]) \in LinesIn(f[p]) /\ Head(f[p]) \in S
<1>1. /\ Len(f[p]) \in Nat /\ Len(f[p]) > 0 /\ DOMAIN f[p] = 1 .. Len(f[p])
      /\ DOMAIN g[p] = 1 .. (Len(f[p]) - 1)
      /\ \A n \in 1 .. (Len(f[p]) - 1) : g[p][n] = f[p][n + 1]
      /\ Head(f[p]) = f[p][1] /\ f[p][1] \in S
  BY DEF Pipes
<1>2. \A line \in LinesIn(g[p]) : line \in LinesIn(f[p])
  <2> SUFFICES ASSUME NEW n \in DOMAIN g[p] PROVE g[p][n] \in LinesIn(f[p])
    BY DEF LinesIn
  <2>1. n + 1 \in DOMAIN f[p] /\ g[p][n] = f[p][n + 1]
    BY <1>1
  <2> QED
    BY <2>1 DEF LinesIn
<1>3. Head(f[p]) \in LinesIn(f[p])
  <2>1. 1 \in DOMAIN f[p] /\ Head(f[p]) = f[p][1]
    BY <1>1
  <2> QED
    BY <2>1 DEF LinesIn
<1> QED
  BY <1>1, <1>2, <1>3

\* The kind of a line tells its fields.
LEMMA LineKinds ==
    /\ \A line \in CoreLines :
          /\ line.is = "request" => line \in Calling
          /\ line.is = "answer" => line \in Answering
    /\ \A line \in PluginLines :
          /\ line.is = "request" => line \in Asking
          /\ line.is = "answer" => line \in Replying
BY DEF CoreLines, PluginLines, Calling, Answering, Replying, Asking

\* Who waits is told from who does not.
LEMMA ChannelSizes ==
    /\ MaxProcs \in Nat /\ MaxCalls \in Nat /\ MaxAsks \in Nat
    /\ \A r \in Rooms : r.procs \in 0 .. MaxProcs /\ r.calls \in 0 .. MaxCalls
BY ChannelBounds

LEMMA NotCalls == Starting \notin Calls /\ Nobody \notin Calls
BY ChannelBounds DEF Calls

\* No number is given out, and waiting only ends.
LEMMA NumbersStay ==
    ASSUME NumbersMatch, seq' = seq, \A i \in Ids : pending'[i] \in {pending[i], Nobody},
           \A p \in Procs : \A line \in LinesIn(stdin'[p]) :
              line.is = "request" => line \in LinesIn(stdin[p]),
           \A p \in Procs : \A line \in LinesIn(stdout'[p]) :
              line.is = "answer" => CarriesOwn(line),
           \A p \in Procs : \A w \in working'[p] : CarriesOwn(w),
           OwnAnswers'
    PROVE  NumbersMatch'
<1>1. \A line : CarriesOwn(line) => CarriesOwn(line)'
  BY NotCalls DEF CarriesOwn
<1> QED
  BY <1>1 DEF NumbersMatch

\* Nothing new is asked or answered.
LEMMA AnswersStay ==
    ASSUME AnswersMatch, UNCHANGED <<ask, kept, keepFails, crossed>>, serving' \subseteq serving,
           \A p \in Procs : \A line \in LinesIn(stdin'[p]) :
              line.is = "answer" => line \in LinesIn(stdin[p]),
           \A p \in Procs : \A line \in LinesIn(stdout'[p]) :
              line.is = "request" => line \in LinesIn(stdout[p])
    PROVE  AnswersMatch'
<1>1. \A line : SaysTrue(line) => SaysTrue(line)'
  BY DEF SaysTrue
<1>2. ToldIsKept' 
  BY DEF AnswersMatch, ToldIsKept
<1>3. \A p, a, kind : AsAsked(p, a, kind) => AsAsked(p, a, kind)'
  BY DEF AsAsked
<1> QED
  BY <1>1, <1>2, <1>3 DEF AnswersMatch

LEMMA ChannelStarts == ChannelInit => ChannelInv
<1> SUFFICES ASSUME ChannelInit PROVE ChannelInv
  OBVIOUS
<1> USE ChannelBounds DEF ChannelInit
<1>1. ChannelShaped
  BY DEF ChannelShaped, PluginAsks, Unsent, Kinds, Pipes
<1>2. NumbersSuffice
  <2>1. 0 \in 0 .. MaxCalls /\ \A n \in Calls : call[n] = "unsent" /\ ~(n <= 0)
    BY DEF Calls
  <2> QED
    BY <2>1, NotCalls DEF NumbersSuffice
<1>3. NumbersMatch
  BY DEF NumbersMatch, LinesIn, OwnAnswers
<1>4. AnswersMatch
  BY DEF AnswersMatch, LinesIn, ToldIsKept, Unsent
<1> QED
  BY <1>1, <1>2, <1>3, <1>4 DEF ChannelInv

\* A request is written under a number that nothing carries yet.
LEMMA RequestsKeep ==
    ASSUME ChannelInv, NEW p, NEW who \in Calls \cup {Starting}, NEW of \in 0 .. MaxCalls,
           who \in Calls => of = who,
           seq + 1 \in Ids, Requests(p, who, of),
           UNCHANGED <<stdout, answered, working, ask, serving, kept, keepFails, crossed>>,
           \A n \in Calls : call'[n] = "answered" => call[n] = "answered"
    PROVE  /\ stdin' \in Pipes(CoreLines)
           /\ pending' \in [Ids -> Calls \cup {Starting, Nobody}]
           /\ NumbersMatch' /\ AnswersMatch'
<1>0. PICK line0 : line0 = [is |-> "request", id |-> seq + 1, of |-> of]
  OBVIOUS
<1>1. /\ seq' = seq + 1 /\ pending' = [pending EXCEPT ![seq + 1] = who]
      /\ stdin' = [stdin EXCEPT ![p] = Append(stdin[p], line0)]
  BY <1>0 DEF Requests, NextId
<1>2. line0 \in CoreLines /\ line0.is = "request" /\ line0.id = seq + 1
      /\ line0.of = of
  BY <1>0 DEF CoreLines, Calling
<1>3. /\ stdin' \in Pipes(CoreLines)
      /\ \A q \in Procs : \A line \in LinesIn(stdin'[q]) :
            line \in LinesIn(stdin[q]) \/ (q = p /\ line = line0)
  <2>1. stdin \in Pipes(CoreLines) /\ line0 \in CoreLines
    BY <1>2 DEF ChannelInv, ChannelShaped
  <2>2. /\ stdin' \in Pipes(CoreLines)
        /\ p \in Procs => stdin'[p] = Append(stdin[p], line0)
        /\ \A q \in Procs \ {p} : stdin'[q] = stdin[q]
    <3>1. CASE p \in Procs
      <4>1. Append(stdin[p], line0) \in Seq(CoreLines)
        BY <2>1, <3>1 DEF Pipes
      <4> QED
        BY <1>1, <2>1, <3>1, <4>1 DEF Pipes
    <3>2. CASE p \notin Procs
      BY <1>1, <2>1, <3>2 DEF Pipes
    <3> QED
      BY <3>1, <3>2
  <2>3. \A q \in Procs : \A line \in LinesIn(stdin'[q]) :
           line \in LinesIn(stdin[q]) \/ (q = p /\ line = line0)
    <3>1. CASE p \in Procs
      <4>1. \A line \in LinesIn(stdin'[p]) : line \in LinesIn(stdin[p]) \/ line = line0
        BY ONLY <2>1, <2>2, <3>1, LineAdded
      <4> QED
        BY <2>2, <4>1
    <3>2. CASE p \notin Procs
      BY <2>2, <3>2
    <3> QED
      BY <3>1, <3>2
  <2> QED
    BY <2>2, <2>3
<1>4. /\ pending'[seq + 1] = who /\ \A i \in Ids : i # seq + 1 => pending'[i] = pending[i]
      /\ pending' \in [Ids -> Calls \cup {Starting, Nobody}] /\ seq \in Nat
  BY <1>1, ChannelBounds DEF ChannelInv, ChannelShaped
<1>5. \A line : CarriesOwn(line) => CarriesOwn(line)'
  BY <1>1, <1>4 DEF CarriesOwn, Ids
<1>6. CarriesOwn(line0)'
  BY <1>1, <1>2, <1>4 DEF CarriesOwn, Ids
<1>7. NumbersMatch'
  <2>1. \A i \in Ids : pending'[i] # Nobody => i <= seq'
    BY <1>1, <1>4 DEF ChannelInv, NumbersMatch, Ids
  <2>2. \A q \in Procs : \A line \in LinesIn(stdin'[q]) :
           line.is = "request" => CarriesOwn(line)'
    BY <1>3, <1>5, <1>6 DEF ChannelInv, NumbersMatch
  <2>3. OwnAnswers'
    BY DEF ChannelInv, NumbersMatch, OwnAnswers
  <2> QED
    BY <1>5, <2>1, <2>2, <2>3 DEF ChannelInv, NumbersMatch
<1>8. AnswersMatch'
  <2>1. \A q \in Procs : \A line \in LinesIn(stdin'[q]) :
           line.is = "answer" => line \in LinesIn(stdin[q])
    BY <1>2, <1>3
  <2> QED
    BY <2>1, AnswersStay DEF ChannelInv
<1> QED
  BY <1>3, <1>4, <1>7, <1>8

LEMMA SpawnsKeeps == ASSUME ChannelInv, Spawns PROVE ChannelInv'
<1>1. /\ spawned < room.procs /\ phase' = "starting" /\ spawned' = spawned + 1
      /\ proc' = spawned + 1 /\ alive' = alive \cup {spawned + 1}
      /\ Requests(spawned + 1, Starting, 0)
      /\ UNCHANGED <<exits, stdout, call, answered, working, ask, serving, kept, keepFails, room,
                     crossed>>
  BY DEF Spawns, pluginVars, coreVars, Requests
<1>2. spawned + 1 \in Procs /\ spawned \in Nat
  BY <1>1, ChannelSizes DEF ChannelInv, ChannelShaped, Procs
<1>3. PICK k \in 0 .. MaxCalls : /\ \A n \in Calls : call[n] # "unsent" <=> n <= k
                                 /\ seq <= spawned + k
  BY DEF ChannelInv, NumbersSuffice
<1>4. seq' = seq + 1 /\ seq + 1 \in Ids /\ seq' \in 0 .. MaxProcs + MaxCalls
  BY <1>1, <1>2, <1>3, ChannelSizes DEF Requests, ChannelInv, ChannelShaped, Ids, Procs
<1>5. /\ stdin' \in Pipes(CoreLines)
      /\ pending' \in [Ids -> Calls \cup {Starting, Nobody}]
      /\ NumbersMatch' /\ AnswersMatch'
  <2>1. /\ spawned + 1 \in Nat /\ Starting \in Calls \cup {Starting} /\ 0 \in 0 .. MaxCalls
        /\ \A n \in Calls : call'[n] = "answered" => call[n] = "answered"
    BY <1>1, <1>2, ChannelSizes
  <2> QED
    BY <1>1, <1>4, <2>1, NotCalls, RequestsKeep
<1>6. ChannelShaped'
  <2>1. /\ alive' \subseteq 1 .. spawned' /\ exits' \subseteq (1 .. spawned') \ alive'
        /\ spawned' \in 0 .. MaxProcs /\ proc' \in 0 .. spawned'
    BY <1>1, <1>2, ChannelSizes DEF ChannelInv, ChannelShaped, Procs
  <2> QED
    BY <1>1, <1>4, <1>5, <2>1 DEF ChannelInv, ChannelShaped
<1>7. NumbersSuffice'
  <2>1. seq' <= spawned' + k
    BY <1>1, <1>2, <1>3, <1>4, ChannelSizes DEF ChannelInv, ChannelShaped
  <2>2. \A i \in Ids : pending'[i] \in Calls => call[pending'[i]] # "unsent"
    BY <1>1, <1>4, NotCalls DEF Requests, NextId, ChannelInv, ChannelShaped, NumbersSuffice
  <2> QED
    BY <1>1, <1>3, <2>1, <2>2 DEF NumbersSuffice
<1> QED
  BY <1>5, <1>6, <1>7 DEF ChannelInv

LEMMA InvokesKeeps == ASSUME ChannelInv, NEW n \in Calls, Invokes(n) PROVE ChannelInv'
<1>1. /\ n <= room.calls /\ call[n] = "unsent" /\ \A m \in Calls : m < n => call[m] # "unsent"
      /\ call' = [call EXCEPT ![n] = "waiting"] /\ Requests(proc, n, n)
      /\ UNCHANGED <<phase, proc, spawned, alive, exits, stdout, answered, working, ask, serving,
                     kept, keepFails, room, crossed>>
  BY DEF Invokes, NextCall, processes, pluginVars, coreVars
<1>2. PICK k \in 0 .. MaxCalls : /\ \A m \in Calls : call[m] # "unsent" <=> m <= k
                                 /\ seq <= spawned + k
  BY DEF ChannelInv, NumbersSuffice
<1>3. n = k + 1 /\ k + 1 \in 0 .. MaxCalls
  <2>1. n > k
    BY <1>1, <1>2, ChannelSizes DEF Calls
  <2>2. ASSUME n # k + 1 PROVE FALSE
    <3>1. k + 1 \in Calls /\ k + 1 < n
      BY <2>1, <2>2, ChannelSizes DEF Calls
    <3> QED
      BY <1>1, <1>2, <3>1
  <2> QED
    BY <2>2, ChannelSizes DEF Calls
<1>4. /\ seq' = seq + 1 /\ seq + 1 \in Ids /\ spawned \in Nat /\ proc \in Nat /\ seq \in Nat
      /\ seq' \in 0 .. MaxProcs + MaxCalls
  BY <1>1, <1>2, <1>3, ChannelSizes DEF Requests, ChannelInv, ChannelShaped, Ids
<1>5. call'[n] = "waiting" /\ \A m \in Calls \ {n} : call'[m] = call[m]
  BY <1>1 DEF ChannelInv, ChannelShaped
<1>6. /\ stdin' \in Pipes(CoreLines)
      /\ pending' \in [Ids -> Calls \cup {Starting, Nobody}]
      /\ NumbersMatch' /\ AnswersMatch'
  <2>1. n \in 0 .. MaxCalls
    BY ChannelSizes DEF Calls
  <2> QED
    BY <1>1, <1>4, <1>5, <2>1, RequestsKeep
<1>7. ChannelShaped'
  BY <1>1, <1>4, <1>6 DEF ChannelInv, ChannelShaped
<1>8. NumbersSuffice'
  <2>1. seq' <= spawned' + (k + 1)
    BY <1>1, <1>2, <1>4
  <2>2. \A m \in Calls : call'[m] # "unsent" <=> m <= k + 1
    BY <1>2, <1>3, <1>5, ChannelSizes DEF Calls
  <2>3. \A i \in Ids : pending'[i] \in Calls => call'[pending'[i]] # "unsent"
    BY <1>1, <1>4, <1>5 DEF Requests, NextId, ChannelInv, ChannelShaped, NumbersSuffice
  <2> QED
    BY <1>3, <2>1, <2>2, <2>3 DEF NumbersSuffice
<1> QED
  BY <1>6, <1>7, <1>8 DEF ChannelInv

\* What waits goes on; lines are taken or lost; nothing is written.
LEMMA NothingWritten ==
    ASSUME ChannelInv, ChannelShaped', NumbersSuffice', seq' = seq,
           \A i \in Ids : pending'[i] \in {pending[i], Nobody},
           UNCHANGED <<stdin, working, ask, kept, keepFails, crossed>>,
           serving' \subseteq serving,
           \A p \in Procs : \A line \in LinesIn(stdout'[p]) : line \in LinesIn(stdout[p]),
           OwnAnswers'
    PROVE  ChannelInv'
<1>1. NumbersMatch'
  <2>1. NumbersMatch
    BY DEF ChannelInv
  <2>2. \A p \in Procs : \A line \in LinesIn(stdout'[p]) : line.is = "answer" => CarriesOwn(line)
    BY <2>1 DEF NumbersMatch
  <2>3. \A p \in Procs : \A w \in working'[p] : CarriesOwn(w)
    BY <2>1 DEF NumbersMatch
  <2> QED
    BY <2>1, <2>2, <2>3, NumbersStay
<1>2. AnswersMatch'
  BY AnswersStay DEF ChannelInv
<1> QED
  BY <1>1, <1>2 DEF ChannelInv

\* The numbers are as they were.
LEMMA NumbersSufficeStill ==
    ASSUME NumbersSuffice, seq' = seq, spawned' = spawned,
           \A i \in Ids : pending'[i] \in {pending[i], Nobody},
           \A n \in Calls : call'[n] # "unsent" <=> call[n] # "unsent"
    PROVE  NumbersSuffice'
<1>1. \A i \in Ids : pending'[i] \in Calls => call'[pending'[i]] # "unsent"
  BY NotCalls DEF NumbersSuffice
<1> QED
  BY <1>1 DEF NumbersSuffice

LEMMA StartTimesOutKeeps == ASSUME ChannelInv, StartTimesOut PROVE ChannelInv'
<1>1. PICK i \in Ids :
         /\ phase = "starting" /\ pending' = [pending EXCEPT ![i] = Nobody]
         /\ phase' = (IF spawned = 1 THEN "unmounting" ELSE "restarting") /\ proc' = 0
         /\ UNCHANGED <<spawned, alive, exits, stdin, stdout, seq, call, answered, working, ask,
                        serving, kept, keepFails, room, crossed>>
  BY DEF StartTimesOut, pluginVars, coreVars
<1>2. ChannelShaped'
  BY <1>1, ChannelSizes DEF ChannelInv, ChannelShaped
<1>3. \A j \in Ids : pending'[j] \in {pending[j], Nobody}
  BY <1>1 DEF ChannelInv, ChannelShaped
<1>4. NumbersSuffice' /\ OwnAnswers'
  BY <1>1, <1>3, NumbersSufficeStill DEF ChannelInv, NumbersMatch, OwnAnswers
<1> QED
  BY <1>1, <1>2, <1>3, <1>4, NothingWritten

LEMMA InvokeFailsKeeps == ASSUME ChannelInv, NEW n \in Calls, InvokeFails(n) PROVE ChannelInv'
<1>1. /\ n <= room.calls /\ call[n] = "unsent" /\ \A m \in Calls : m < n => call[m] # "unsent"
      /\ call' = [call EXCEPT ![n] = "failed"]
      /\ UNCHANGED <<phase, proc, spawned, alive, exits, stdin, stdout, seq, pending, answered,
                     working, ask, serving, kept, keepFails, room, crossed>>
  BY DEF InvokeFails, NextCall, processes, pluginVars, coreVars
<1>2. PICK k \in 0 .. MaxCalls : /\ \A m \in Calls : call[m] # "unsent" <=> m <= k
                                 /\ seq <= spawned + k
  BY DEF ChannelInv, NumbersSuffice
<1>3. n = k + 1 /\ k + 1 \in 0 .. MaxCalls
  <2>1. n > k
    BY <1>1, <1>2, ChannelSizes DEF Calls
  <2>2. ASSUME n # k + 1 PROVE FALSE
    <3>1. k + 1 \in Calls /\ k + 1 < n
      BY <2>1, <2>2, ChannelSizes DEF Calls
    <3> QED
      BY <1>1, <1>2, <3>1
  <2> QED
    BY <2>2, ChannelSizes DEF Calls
<1>4. call'[n] = "failed" /\ \A m \in Calls \ {n} : call'[m] = call[m]
  BY <1>1 DEF ChannelInv, ChannelShaped
<1>5. ChannelShaped'
  BY <1>1 DEF ChannelInv, ChannelShaped
<1>6. NumbersSuffice'
  <2>1. \A m \in Calls : call'[m] # "unsent" <=> m <= k + 1
    BY <1>2, <1>3, <1>4, ChannelSizes DEF Calls
  <2>2. seq' <= spawned' + (k + 1)
    BY <1>1, <1>2, ChannelSizes DEF ChannelInv, ChannelShaped
  <2>3. \A i \in Ids : pending'[i] \in Calls => call'[pending'[i]] # "unsent"
    BY <1>1, <1>4 DEF ChannelInv, NumbersSuffice
  <2> QED
    BY <1>3, <2>1, <2>2, <2>3 DEF NumbersSuffice
<1>7. OwnAnswers'
  BY <1>1, <1>4 DEF ChannelInv, NumbersMatch, OwnAnswers
<1> QED
  BY <1>1, <1>5, <1>6, <1>7, NothingWritten

LEMMA CallTimesOutKeeps == ASSUME ChannelInv, NEW n \in Calls, CallTimesOut(n) PROVE ChannelInv'
<1>1. PICK i \in Ids :
         /\ pending[i] = n /\ pending' = [pending EXCEPT ![i] = Nobody]
         /\ call' = [call EXCEPT ![n] = "failed"]
         /\ UNCHANGED <<phase, proc, spawned, alive, exits, stdin, stdout, seq, answered, working,
                        ask, serving, kept, keepFails, room, crossed>>
  BY DEF CallTimesOut, processes, pluginVars, coreVars
<1>2. call[n] # "unsent" /\ call'[n] = "failed" /\ \A m \in Calls \ {n} : call'[m] = call[m]
  BY <1>1 DEF ChannelInv, ChannelShaped, NumbersSuffice
<1>3. ChannelShaped'
  BY <1>1 DEF ChannelInv, ChannelShaped
<1>4. \A j \in Ids : pending'[j] \in {pending[j], Nobody}
  BY <1>1 DEF ChannelInv, ChannelShaped
<1>5. NumbersSuffice' /\ OwnAnswers'
  BY <1>1, <1>2, <1>4, NumbersSufficeStill DEF ChannelInv, NumbersMatch, OwnAnswers
<1> QED
  BY <1>1, <1>3, <1>4, <1>5, NothingWritten

\* Who waits for the number of an answer is the one it was written for.
LEMMA HearsAnswerKeeps == ASSUME ChannelInv, NEW p \in Procs, HearsAnswer(p) PROVE ChannelInv'
<1>1. PICK line, who : line = Head(stdout[p]) /\ who = pending[line.id]
  OBVIOUS
<1>2. /\ stdout[p] # <<>> /\ line.is = "answer" /\ stdout' = [stdout EXCEPT ![p] = Tail(stdout[p])]
      /\ pending' = [pending EXCEPT ![line.id] = Nobody]
      /\ phase' = IF who = Starting /\ phase = "starting" THEN "healthy" ELSE phase
      /\ call' = IF who \in Calls THEN [call EXCEPT ![who] = "answered"] ELSE call
      /\ answered' = IF who \in Calls THEN [answered EXCEPT ![who] = line.of] ELSE answered
      /\ UNCHANGED <<proc, spawned, alive, exits, stdin, seq, working, ask, serving, kept,
                     keepFails, room, crossed>>
  BY <1>1 DEF HearsAnswer, Heard, processes, pluginVars, coreVars
<1>3. /\ stdout' \in Pipes(PluginLines)
      /\ \A q \in Procs : \A l \in LinesIn(stdout'[q]) : l \in LinesIn(stdout[q])
      /\ line \in LinesIn(stdout[p]) /\ line \in PluginLines
  <2>1. stdout \in Pipes(PluginLines)
    BY DEF ChannelInv, ChannelShaped
  <2>2. /\ stdout' \in Pipes(PluginLines) /\ stdout'[p] = Tail(stdout[p])
        /\ \A q \in Procs \ {p} : stdout'[q] = stdout[q]
    BY <1>2, <2>1 DEF Pipes
  <2>3. stdout[p] # <<>> /\ stdout \in Pipes(PluginLines)
    BY <1>2, <2>1
  <2>4. \A q \in Procs : \A l \in LinesIn(stdout'[q]) : l \in LinesIn(stdout[q])
    BY ONLY p \in Procs, <2>3, <2>2, LineTaken
  <2>5. Head(stdout[p]) \in LinesIn(stdout[p])
    BY ONLY p \in Procs, <2>3, <2>2, LineTaken
  <2>6. Head(stdout[p]) \in PluginLines
    BY ONLY p \in Procs, <2>3, <2>2, LineTaken
  <2> QED
    BY <1>1, <2>2, <2>4, <2>5, <2>6
<1>4. line.id \in Ids /\ line.of \in 0 .. MaxCalls /\ (who \in Calls => line.of = who)
  BY <1>1, <1>2, <1>3, LineKinds DEF Replying, ChannelInv, NumbersMatch, CarriesOwn
<1>5. ChannelShaped'
  BY <1>2, <1>3, <1>4 DEF ChannelInv, ChannelShaped
<1>6. \A j \in Ids : pending'[j] \in {pending[j], Nobody}
  BY <1>2 DEF ChannelInv, ChannelShaped
<1>7. /\ OwnAnswers'
      /\ \A n \in Calls : call'[n] # "unsent" <=> call[n] # "unsent"
  <2>1. OwnAnswers /\ (who \in Calls => call[who] # "unsent")
    BY <1>1, <1>4 DEF ChannelInv, NumbersMatch, NumbersSuffice
  <2> QED
    BY <1>2, <1>4, <2>1 DEF ChannelInv, ChannelShaped, OwnAnswers
<1>8. NumbersSuffice'
  BY <1>2, <1>6, <1>7, NumbersSufficeStill DEF ChannelInv
<1> QED
  BY <1>2, <1>3, <1>5, <1>6, <1>7, <1>8, NothingWritten

LEMMA EndsKeeps == ASSUME ChannelInv, NEW p \in Procs, Ends(p) PROVE ChannelInv'
<1>1. /\ p \in alive /\ alive' = alive \ {p} /\ exits' = exits \cup {p}
      /\ UNCHANGED <<phase, proc, spawned, stdin, stdout, seq, pending, call, answered, working,
                     ask, serving, kept, keepFails, room, crossed>>
  BY DEF Ends, pluginVars, coreVars
<1>2. ChannelShaped'
  BY <1>1 DEF ChannelInv, ChannelShaped
<1>3. NumbersSuffice' /\ OwnAnswers'
  BY <1>1 DEF ChannelInv, NumbersSuffice, NumbersMatch, OwnAnswers
<1> QED
  BY <1>1, <1>2, <1>3, NothingWritten

LEMMA HandlesExitKeeps == ASSUME ChannelInv, NEW p \in Procs, HandlesExit(p) PROVE ChannelInv'
<1>1. /\ p \in exits /\ exits' = exits \ {p} /\ stdout' = [stdout EXCEPT ![p] = <<>>]
      /\ call' = [n \in Calls |-> IF ~Waits(n) THEN call[n]
                                  ELSE IF phase = "unmounting" THEN "cut" ELSE "void"]
      /\ pending' = [i \in Ids |-> Nobody]
      /\ phase' = IF phase # "unmounting" /\ (proc = p \/ Waits(Starting))
                  THEN "restarting" ELSE phase
      /\ proc' = IF Waits(Starting) THEN 0 ELSE proc
      /\ UNCHANGED <<spawned, alive, stdin, seq, answered, working, ask, serving, kept, keepFails,
                     room, crossed>>
  BY DEF HandlesExit, pluginVars, coreVars
<1>2. /\ stdout' \in Pipes(PluginLines)
      /\ \A q \in Procs : \A line \in LinesIn(stdout'[q]) : line \in LinesIn(stdout[q])
  BY <1>1 DEF ChannelInv, ChannelShaped, LinesIn, Pipes
<1>3. \A n \in Calls : /\ call'[n] \in {call[n], "cut", "void"}
                       /\ call'[n] # "unsent" <=> call[n] # "unsent"
  <2> SUFFICES ASSUME NEW n \in Calls PROVE /\ call'[n] \in {call[n], "cut", "void"}
                                            /\ call'[n] # "unsent" <=> call[n] # "unsent"
    OBVIOUS
  <2>1. Waits(n) => call[n] # "unsent"
    BY DEF Waits, ChannelInv, NumbersSuffice
  <2> QED
    BY <1>1, <2>1
<1>4. ChannelShaped'
  <2>1. proc' \in 0 .. spawned
    BY <1>1, ChannelSizes DEF ChannelInv, ChannelShaped
  <2>2. call' \in [Calls -> {"unsent", "waiting", "answered", "failed", "void", "cut"}]
    BY <1>1 DEF ChannelInv, ChannelShaped
  <2> QED
    BY <1>1, <1>2, <2>1, <2>2 DEF ChannelInv, ChannelShaped
<1>5. NumbersSuffice' /\ OwnAnswers'
  BY <1>1, <1>3, NumbersSufficeStill DEF ChannelInv, NumbersMatch, OwnAnswers
<1> QED
  BY <1>1, <1>2, <1>4, <1>5, NothingWritten

LEMMA UnmountsKeeps == ASSUME ChannelInv, Unmounts \/ UNCHANGED channelVars PROVE ChannelInv'
<1>1. /\ phase' \in {phase, "unmounting"} /\ proc' \in {proc, 0}
      /\ UNCHANGED <<spawned, alive, exits, stdin, stdout, seq, pending, call, answered, working,
                     ask, serving, kept, keepFails, room, crossed>>
  BY DEF Unmounts, channelVars, pluginVars, coreVars
<1>2. ChannelShaped'
  <2>1. proc' \in 0 .. spawned
    BY <1>1, ChannelSizes DEF ChannelInv, ChannelShaped
  <2> QED
    BY <1>1, <2>1 DEF ChannelInv, ChannelShaped
<1>3. NumbersSuffice' /\ OwnAnswers'
  BY <1>1 DEF ChannelInv, NumbersSuffice, NumbersMatch, OwnAnswers
<1> QED
  BY <1>1, <1>2, <1>3, NothingWritten

------------------------------------------------------------------------------
\* The requests of the plugin.  The core takes one up ...
LEMMA HearsRequestKeeps == ASSUME ChannelInv, NEW p \in Procs, HearsRequest(p) PROVE ChannelInv'
<1>1. PICK line, r : line = Head(stdout[p]) /\ r = [of |-> p, id |-> line.id, kind |-> line.kind]
  OBVIOUS
<1>2. /\ stdout[p] # <<>> /\ line.is = "request"
      /\ stdout' = [stdout EXCEPT ![p] = Tail(stdout[p])] /\ serving' = serving \cup {r}
      /\ UNCHANGED <<phase, proc, spawned, alive, exits, stdin, seq, pending, call, answered,
                     working, ask, kept, keepFails, room, crossed>>
  BY <1>1 DEF HearsRequest, Heard, processes, pluginVars
<1>3. /\ stdout' \in Pipes(PluginLines)
      /\ \A q \in Procs : \A l \in LinesIn(stdout'[q]) : l \in LinesIn(stdout[q])
      /\ line \in LinesIn(stdout[p]) /\ line \in PluginLines
  <2>1. stdout \in Pipes(PluginLines) /\ stdout[p] # <<>>
    BY <1>2 DEF ChannelInv, ChannelShaped
  <2>2. /\ stdout' \in Pipes(PluginLines) /\ stdout'[p] = Tail(stdout[p])
        /\ \A q \in Procs \ {p} : stdout'[q] = stdout[q]
    BY <1>2, <2>1 DEF Pipes
  <2>3. \A q \in Procs : \A l \in LinesIn(stdout'[q]) : l \in LinesIn(stdout[q])
    BY ONLY p \in Procs, <2>1, <2>2, LineTaken
  <2>4. Head(stdout[p]) \in LinesIn(stdout[p])
    BY ONLY p \in Procs, <2>1, <2>2, LineTaken
  <2>5. Head(stdout[p]) \in PluginLines
    BY ONLY p \in Procs, <2>1, <2>2, LineTaken
  <2> QED
    BY <1>1, <2>2, <2>3, <2>4, <2>5
<1>4. /\ r \in [of : Procs, id : AskIds, kind : Kinds] /\ r.of = p /\ r.id = line.id
      /\ r.kind = line.kind
  BY <1>1, <1>2, <1>3, LineKinds DEF Asking
<1>5. AsAsked(r.of, r.id, r.kind)
  BY <1>2, <1>3, <1>4 DEF ChannelInv, AnswersMatch
<1>6. ChannelShaped'
  BY <1>2, <1>3, <1>4 DEF ChannelInv, ChannelShaped
<1>7. NumbersSuffice'
  BY <1>2 DEF ChannelInv, NumbersSuffice
<1>8. NumbersMatch'
  BY <1>2, <1>3 DEF ChannelInv, NumbersMatch, CarriesOwn, OwnAnswers
<1>9. AnswersMatch'
  BY <1>2, <1>3, <1>5 DEF ChannelInv, AnswersMatch, AsAsked, SaysTrue, ToldIsKept
<1> QED
  BY <1>6, <1>7, <1>8, <1>9 DEF ChannelInv

\* ... and answers it, whatever process the plugin has by then.
LEMMA ServesKeeps == ASSUME ChannelInv, NEW r \in serving, Serves(r) PROVE ChannelInv'
<1>1. PICK ok \in BOOLEAN :
         /\ keepFails' = IF ok THEN keepFails ELSE keepFails + 1
         /\ kept' = IF ok /\ r.kind = "blind" THEN kept \cup {<<r.of, r.id>>} ELSE kept
         /\ stdin' = IF proc = 0 THEN stdin
                     ELSE [stdin EXCEPT ![proc] = Append(stdin[proc],
                              [is |-> "answer", id |-> r.id, of |-> r.of, ok |-> ok])]
  <2>1. (IF keepFails < MaxKeepFails THEN BOOLEAN ELSE {TRUE}) \subseteq BOOLEAN
    OBVIOUS
  <2> QED
    BY <2>1 DEF Serves
<1>2. /\ serving' = serving \ {r}
      /\ UNCHANGED <<phase, proc, spawned, alive, exits, stdout, seq, pending, call, answered,
                     working, ask, room, crossed>>
  BY DEF Serves, processes, pluginVars
<1>3. PICK line0 : line0 = [is |-> "answer", id |-> r.id, of |-> r.of, ok |-> ok]
  OBVIOUS
<1>4. /\ line0 \in CoreLines /\ line0.is = "answer" /\ line0.id = r.id /\ line0.of = r.of
      /\ r.of \in Procs /\ r.id \in AskIds
  BY <1>1, <1>3 DEF CoreLines, Answering, ChannelInv, ChannelShaped
<1>5. /\ stdin' \in Pipes(CoreLines)
      /\ \A q \in Procs : \A line \in LinesIn(stdin'[q]) : line \in LinesIn(stdin[q]) \/ line = line0
  <2>1. stdin \in Pipes(CoreLines) /\ proc \in 0 .. MaxProcs
    BY ChannelSizes DEF ChannelInv, ChannelShaped
  <2>2. CASE proc = 0
    BY <1>1, <2>1, <2>2
  <2>3. CASE proc # 0
    <3>1. proc \in Procs /\ stdin' = [stdin EXCEPT ![proc] = Append(stdin[proc], line0)]
      BY <1>1, <1>3, <2>1, <2>3, ChannelSizes DEF Procs
    <3>2. Append(stdin[proc], line0) \in Seq(CoreLines)
      BY <1>4, <2>1, <3>1 DEF Pipes
    <3>3. /\ stdin' \in Pipes(CoreLines) /\ stdin'[proc] = Append(stdin[proc], line0)
          /\ \A q \in Procs \ {proc} : stdin'[q] = stdin[q]
      BY <2>1, <3>1, <3>2 DEF Pipes
    <3>4. PICK p : p = proc
      OBVIOUS
    <3>5. /\ stdin'[p] = Append(stdin[p], line0) /\ line0 \in CoreLines /\ p \in Procs
          /\ stdin \in Pipes(CoreLines) /\ stdin' \in Pipes(CoreLines)
      BY <1>4, <2>1, <3>1, <3>3, <3>4
    <3>6. \A line \in LinesIn(stdin'[p]) : line \in LinesIn(stdin[p]) \/ line = line0
      BY ONLY <3>5, LineAdded
    <3> QED
      BY <3>3, <3>4, <3>6
  <2> QED
    BY <2>2, <2>3
<1>6. /\ keepFails' \in Nat /\ (keepFails' = 0 => keepFails = 0 /\ ok)
      /\ kept \subseteq kept' /\ kept' \subseteq Procs \X AskIds
      /\ ok /\ r.kind = "blind" => <<r.of, r.id>> \in kept'
  <2>1. keepFails \in Nat /\ kept \subseteq Procs \X AskIds
    BY DEF ChannelInv, ChannelShaped
  <2>2. CASE ok
    BY <1>1, <1>4, <2>1, <2>2
  <2>3. CASE ~ok
    BY <1>1, <2>1, <2>3
  <2> QED
    BY <2>2, <2>3
<1>7. ChannelShaped'
  BY <1>2, <1>5, <1>6 DEF ChannelInv, ChannelShaped
<1>8. NumbersSuffice'
  BY <1>2 DEF ChannelInv, NumbersSuffice
<1>9. NumbersMatch'
  BY <1>2, <1>4, <1>5 DEF ChannelInv, NumbersMatch, CarriesOwn, OwnAnswers
<1>10. AnswersMatch'
  <2>1. AnswersMatch /\ AsAsked(r.of, r.id, r.kind)
    BY DEF ChannelInv, AnswersMatch
  <2>2. \A line : SaysTrue(line) => SaysTrue(line)'
    BY <1>2, <1>6 DEF SaysTrue
  <2>3. SaysTrue(line0)'
    BY <1>2, <1>4, <1>6, <2>1 DEF SaysTrue, AsAsked
  <2>4. ToldIsKept'
    BY <1>2, <1>6, <2>1 DEF AnswersMatch, ToldIsKept
  <2>5. \A p \in Procs : \A line \in LinesIn(stdin'[p]) : line.is = "answer" => SaysTrue(line)'
    BY <1>5, <2>1, <2>2, <2>3 DEF AnswersMatch
  <2>6. /\ \A p \in Procs : \A line \in LinesIn(stdout'[p]) :
              line.is = "request" => AsAsked(p, line.id, line.kind)'
        /\ \A s \in serving' : AsAsked(s.of, s.id, s.kind)'
    BY <1>2, <2>1 DEF AnswersMatch, AsAsked
  <2> QED
    BY <2>4, <2>5, <2>6 DEF AnswersMatch
<1> QED
  BY <1>7, <1>8, <1>9, <1>10 DEF ChannelInv

------------------------------------------------------------------------------
\* The plugin reads a line.
LEMMA LineRead ==
    ASSUME ChannelInv, NEW p \in Procs, Reads(p)
    PROVE  /\ stdin' \in Pipes(CoreLines)
           /\ \A q \in Procs : \A line \in LinesIn(stdin'[q]) : line \in LinesIn(stdin[q])
           /\ Head(stdin[p]) \in LinesIn(stdin[p]) /\ Head(stdin[p]) \in CoreLines
<1>1. stdin \in Pipes(CoreLines) /\ stdin[p] # <<>>
  BY DEF Reads, ChannelInv, ChannelShaped
<1>2. /\ stdin' \in Pipes(CoreLines) /\ stdin'[p] = Tail(stdin[p])
      /\ \A q \in Procs \ {p} : stdin'[q] = stdin[q]
  BY <1>1 DEF Reads, Pipes
<1>3. \A q \in Procs : \A line \in LinesIn(stdin'[q]) : line \in LinesIn(stdin[q])
  BY ONLY p \in Procs, <1>1, <1>2, LineTaken
<1>4. Head(stdin[p]) \in LinesIn(stdin[p])
  BY ONLY p \in Procs, <1>1, <1>2, LineTaken
<1>5. Head(stdin[p]) \in CoreLines
  BY ONLY p \in Procs, <1>1, <1>2, LineTaken
<1> QED
  BY <1>2, <1>3, <1>4, <1>5

\* The plugin writes a line.
LEMMA LineWritten ==
    ASSUME ChannelInv, NEW p \in Procs, NEW x \in PluginLines,
           stdout' = [stdout EXCEPT ![p] = Append(stdout[p], x)]
    PROVE  /\ stdout' \in Pipes(PluginLines)
           /\ \A q \in Procs : \A line \in LinesIn(stdout'[q]) :
                 line \in LinesIn(stdout[q]) \/ (q = p /\ line = x)
<1>1. stdout \in Pipes(PluginLines)
  BY DEF ChannelInv, ChannelShaped
<1>2. Append(stdout[p], x) \in Seq(PluginLines)
  BY <1>1 DEF Pipes
<1>3. /\ stdout' \in Pipes(PluginLines) /\ stdout'[p] = Append(stdout[p], x)
      /\ \A q \in Procs \ {p} : stdout'[q] = stdout[q]
  BY <1>1, <1>2 DEF Pipes
<1>4. \A line \in LinesIn(stdout'[p]) : line \in LinesIn(stdout[p]) \/ line = x
  BY ONLY p \in Procs, x \in PluginLines, <1>1, <1>3, LineAdded
<1> QED
  BY <1>3, <1>4

LEMMA ReadsRequestKeeps == ASSUME ChannelInv, NEW p \in Procs, ReadsRequest(p) PROVE ChannelInv'
<1>1. PICK line : line = Head(stdin[p])
  OBVIOUS
<1>2. /\ Reads(p) /\ line.is = "request"
      /\ IF line.of = 0
           THEN /\ stdout' = [stdout EXCEPT ![p] =
                                 Append(stdout[p], [is |-> "answer", id |-> line.id, of |-> 0])]
                /\ UNCHANGED working
           ELSE /\ working' = [working EXCEPT ![p] =
                                 working[p] \cup {[id |-> line.id, of |-> line.of]}]
                /\ UNCHANGED stdout
      /\ UNCHANGED <<phase, proc, spawned, alive, exits, seq, pending, call, answered, ask,
                     serving, kept, keepFails, room, crossed>>
  BY <1>1 DEF ReadsRequest, Reads, processes
<1>3. /\ stdin' \in Pipes(CoreLines) /\ line \in LinesIn(stdin[p]) /\ line \in CoreLines
      /\ \A q \in Procs : \A l \in LinesIn(stdin'[q]) : l \in LinesIn(stdin[q])
  BY <1>1, <1>2, LineRead
<1>4. CarriesOwn(line) /\ line.id \in Ids /\ line.of \in 0 .. MaxCalls
  BY <1>2, <1>3, LineKinds DEF Calling, ChannelInv, NumbersMatch
<1>5. PICK reply : reply = [is |-> "answer", id |-> line.id, of |-> 0]
  OBVIOUS
<1>6. /\ stdout' \in Pipes(PluginLines)
      /\ \A q \in Procs : \A l \in LinesIn(stdout'[q]) :
            l \in LinesIn(stdout[q]) \/ (l = reply /\ line.of = 0)
  <2>1. CASE line.of = 0
    <3>1. reply \in PluginLines
      BY <1>4, <1>5, <2>1 DEF PluginLines, Replying
    <3>2. stdout' = [stdout EXCEPT ![p] = Append(stdout[p], reply)]
      BY <1>2, <1>5, <2>1
    <3> QED
      BY <2>1, <3>1, <3>2, LineWritten
  <2>2. CASE line.of # 0
    BY <1>2, <2>2 DEF ChannelInv, ChannelShaped
  <2> QED
    BY <2>1, <2>2
<1>7. /\ working' \in [Procs -> SUBSET [id : Ids, of : Calls]]
      /\ \A q \in Procs : \A w \in working'[q] : CarriesOwn(w)
  <2>1. /\ working \in [Procs -> SUBSET [id : Ids, of : Calls]]
        /\ \A q \in Procs : \A w \in working[q] : CarriesOwn(w)
    BY DEF ChannelInv, ChannelShaped, NumbersMatch
  <2>2. CASE line.of = 0
    BY <1>2, <2>1, <2>2
  <2>3. CASE line.of # 0
    <3>1. PICK w0 : w0 = [id |-> line.id, of |-> line.of]
      OBVIOUS
    <3>2. w0 \in [id : Ids, of : Calls] /\ w0.id = line.id /\ w0.of = line.of
      BY <1>4, <2>3, <3>1, ChannelSizes DEF Calls
    <3>3. CarriesOwn(w0)
      BY <1>4, <3>2 DEF CarriesOwn
    <3>4. working' = [working EXCEPT ![p] = working[p] \cup {w0}]
      BY <1>2, <2>3, <3>1
    <3> QED
      BY <2>1, <3>2, <3>3, <3>4
  <2> QED
    BY <2>2, <2>3
<1>8. ChannelShaped'
  BY <1>2, <1>3, <1>6, <1>7 DEF ChannelInv, ChannelShaped
<1>9. NumbersSuffice'
  BY <1>2 DEF ChannelInv, NumbersSuffice
<1>10. NumbersMatch'
  <2>1. line.of = 0 => CarriesOwn(reply)
    BY <1>4, <1>5 DEF CarriesOwn
  <2>2. \A q \in Procs : \A l \in LinesIn(stdout'[q]) : l.is = "answer" => CarriesOwn(l)
    BY <1>6, <2>1 DEF ChannelInv, NumbersMatch
  <2>3. NumbersMatch /\ OwnAnswers' /\ \A i \in Ids : pending'[i] \in {pending[i], Nobody}
    BY <1>2 DEF ChannelInv, NumbersMatch, OwnAnswers
  <2> QED
    BY <1>2, <1>3, <1>7, <2>2, <2>3, NumbersStay
<1>11. AnswersMatch'
  <2>1. reply.is = "answer"
    BY <1>5
  <2>2. \A q \in Procs : \A l \in LinesIn(stdout'[q]) : l.is = "request" => l \in LinesIn(stdout[q])
    BY <1>6, <2>1
  <2> QED
    BY <1>2, <1>3, <2>2, AnswersStay DEF ChannelInv
<1> QED
  BY <1>8, <1>9, <1>10, <1>11 DEF ChannelInv

LEMMA RepliesKeeps == ASSUME ChannelInv, NEW p \in Procs, Replies(p) PROVE ChannelInv'
<1>1. PICK w \in working[p] :
         /\ working' = [working EXCEPT ![p] = working[p] \ {w}]
         /\ stdout' = [stdout EXCEPT ![p] =
                          Append(stdout[p], [is |-> "answer", id |-> w.id, of |-> w.of])]
         /\ UNCHANGED <<phase, proc, spawned, alive, exits, stdin, seq, pending, call, answered,
                        ask, serving, kept, keepFails, room, crossed>>
  BY DEF Replies, processes, coreVars
<1>2. PICK reply : reply = [is |-> "answer", id |-> w.id, of |-> w.of]
  OBVIOUS
<1>3. CarriesOwn(w) /\ w.id \in Ids /\ w.of \in 0 .. MaxCalls
  BY ChannelSizes DEF ChannelInv, ChannelShaped, NumbersMatch, Calls
<1>4. reply \in PluginLines /\ reply.is = "answer" /\ CarriesOwn(reply)
  BY <1>2, <1>3 DEF PluginLines, Replying, CarriesOwn
<1>5. /\ stdout' \in Pipes(PluginLines)
      /\ \A q \in Procs : \A l \in LinesIn(stdout'[q]) :
            l \in LinesIn(stdout[q]) \/ (q = p /\ l = reply)
  <2>1. stdout' = [stdout EXCEPT ![p] = Append(stdout[p], reply)] /\ reply \in PluginLines
    BY <1>1, <1>2, <1>4
  <2> QED
    BY ONLY ChannelInv, p \in Procs, <2>1, LineWritten
<1>6. /\ working' \in [Procs -> SUBSET [id : Ids, of : Calls]]
      /\ \A q \in Procs : working'[q] \subseteq working[q]
  BY <1>1 DEF ChannelInv, ChannelShaped
<1>7. ChannelShaped'
  BY <1>1, <1>5, <1>6 DEF ChannelInv, ChannelShaped
<1>8. NumbersSuffice'
  BY <1>1 DEF ChannelInv, NumbersSuffice
<1>9. NumbersMatch'
  <2>1. \A q \in Procs : \A l \in LinesIn(stdout'[q]) : l.is = "answer" => CarriesOwn(l)
    BY <1>4, <1>5 DEF ChannelInv, NumbersMatch
  <2>2. /\ NumbersMatch /\ OwnAnswers' /\ \A i \in Ids : pending'[i] \in {pending[i], Nobody}
        /\ \A q \in Procs : \A v \in working'[q] : CarriesOwn(v)
    BY <1>1, <1>6 DEF ChannelInv, NumbersMatch, OwnAnswers
  <2> QED
    BY <1>1, <2>1, <2>2, NumbersStay
<1>10. AnswersMatch'
  <2>1. \A q \in Procs : \A l \in LinesIn(stdout'[q]) : l.is = "request" => l \in LinesIn(stdout[q])
    BY <1>4, <1>5
  <2> QED
    BY <1>1, <2>1, AnswersStay DEF ChannelInv
<1> QED
  BY <1>7, <1>8, <1>9, <1>10 DEF ChannelInv

------------------------------------------------------------------------------
\* A request of the plugin goes on; what was asked stays what was asked.
LEMMA AskGoesOn ==
    ASSUME ChannelShaped, NEW p \in Procs, NEW a \in AskIds, NEW x \in PluginAsks,
           ask' = [ask EXCEPT ![p] = [ask[p] EXCEPT ![a] = x]], x.at # "unsent",
           ask[p][a].at # "unsent" => x.kind = ask[p][a].kind, UNCHANGED <<kept, keepFails>>
    PROVE  /\ ask' \in [Procs -> [AskIds -> PluginAsks]] /\ ask'[p][a] = x
           /\ \A q \in Procs, b \in AskIds : <<q, b>> # <<p, a>> => ask'[q][b] = ask[q][b]
           /\ \A q \in Procs, b \in AskIds, kind \in Kinds :
                 AsAsked(q, b, kind) => AsAsked(q, b, kind)'
           /\ \A line \in Answering : SaysTrue(line) => SaysTrue(line)'
<1>1. ask \in [Procs -> [AskIds -> PluginAsks]]
  BY DEF ChannelShaped
<1>2. /\ ask' \in [Procs -> [AskIds -> PluginAsks]] /\ ask'[p][a] = x
      /\ \A q \in Procs, b \in AskIds : <<q, b>> # <<p, a>> => ask'[q][b] = ask[q][b]
  BY <1>1
<1>3. ASSUME NEW q \in Procs, NEW b \in AskIds, NEW kind \in Kinds, AsAsked(q, b, kind)
      PROVE  AsAsked(q, b, kind)'
  BY <1>2, <1>3 DEF AsAsked
<1>4. ASSUME NEW line \in Answering, SaysTrue(line) PROVE SaysTrue(line)'
  <2>1. line.of \in Procs /\ line.id \in AskIds
    BY DEF Answering
  <2>2. CASE <<line.of, line.id>> = <<p, a>>
    BY <1>2, <1>4, <2>2 DEF SaysTrue
  <2>3. CASE <<line.of, line.id>> # <<p, a>>
    BY <1>2, <1>4, <2>1, <2>3 DEF SaysTrue
  <2> QED
    BY <2>2, <2>3
<1> QED
  BY <1>2, <1>3, <1>4

\* The lines a pipe holds are lines of its kind.
LEMMA LinesAreLines ==
    ASSUME ChannelShaped, NEW p \in Procs
    PROVE  /\ \A line \in LinesIn(stdin[p]) : line \in CoreLines
           /\ \A line \in LinesIn(stdout[p]) : line \in PluginLines
<1>1. stdin[p] \in Seq(CoreLines) /\ stdout[p] \in Seq(PluginLines)
  BY DEF ChannelShaped, Pipes
<1> QED
  BY <1>1 DEF LinesIn

LEMMA AsksCoreKeeps == ASSUME ChannelInv, NEW p \in Procs, AsksCore(p) PROVE ChannelInv'
<1>1. PICK a \in AskIds, kind \in Kinds :
         /\ ask[p][a] = Unsent
         /\ ask' = [ask EXCEPT ![p] = [ask[p] EXCEPT ![a] = [kind |-> kind, at |-> "waiting"]]]
         /\ stdout' = [stdout EXCEPT ![p] =
                          Append(stdout[p], [is |-> "request", id |-> a, kind |-> kind])]
         /\ UNCHANGED <<phase, proc, spawned, alive, exits, stdin, seq, pending, call, answered,
                        working, serving, kept, keepFails, room, crossed>>
  BY DEF AsksCore, processes, coreVars
<1>2. PICK x, line0 : /\ x = [kind |-> kind, at |-> "waiting"]
                      /\ line0 = [is |-> "request", id |-> a, kind |-> kind]
  OBVIOUS
<1>3. /\ x \in PluginAsks /\ x.at = "waiting" /\ x.kind = kind
      /\ line0 \in PluginLines /\ line0.is = "request" /\ line0.id = a /\ line0.kind = kind
  BY <1>2 DEF PluginAsks, PluginLines, Asking
<1>4. ask[p][a].at = "unsent"
  BY <1>1 DEF Unsent
<1>5. /\ ask' = [ask EXCEPT ![p] = [ask[p] EXCEPT ![a] = x]]
      /\ stdout' = [stdout EXCEPT ![p] = Append(stdout[p], line0)]
  BY <1>1, <1>2
<1>6. /\ ask' \in [Procs -> [AskIds -> PluginAsks]] /\ ask'[p][a] = x
      /\ \A q \in Procs, b \in AskIds : <<q, b>> # <<p, a>> => ask'[q][b] = ask[q][b]
      /\ \A q \in Procs, b \in AskIds, k \in Kinds : AsAsked(q, b, k) => AsAsked(q, b, k)'
      /\ \A line \in Answering : SaysTrue(line) => SaysTrue(line)'
  <2>1. /\ ChannelShaped /\ x \in PluginAsks /\ x.at # "unsent" /\ UNCHANGED <<kept, keepFails>>
        /\ ask' = [ask EXCEPT ![p] = [ask[p] EXCEPT ![a] = x]]
        /\ ask[p][a].at # "unsent" => x.kind = ask[p][a].kind
    BY <1>1, <1>3, <1>4, <1>5 DEF ChannelInv
  <2> QED
    BY ONLY p \in Procs, a \in AskIds, <2>1, AskGoesOn
<1>7. /\ stdout' \in Pipes(PluginLines)
      /\ \A q \in Procs : \A l \in LinesIn(stdout'[q]) :
            l \in LinesIn(stdout[q]) \/ (q = p /\ l = line0)
  BY <1>3, <1>5, LineWritten
<1>8. ChannelShaped'
  BY <1>1, <1>6, <1>7 DEF ChannelInv, ChannelShaped
<1>9. NumbersSuffice'
  BY <1>1 DEF ChannelInv, NumbersSuffice
<1>10. NumbersMatch'
  <2>1. \A q \in Procs : \A l \in LinesIn(stdout'[q]) : l.is = "answer" => CarriesOwn(l)
    BY <1>3, <1>7 DEF ChannelInv, NumbersMatch
  <2>2. /\ NumbersMatch /\ OwnAnswers' /\ \A i \in Ids : pending'[i] \in {pending[i], Nobody}
        /\ \A q \in Procs : \A w \in working'[q] : CarriesOwn(w)
    BY <1>1 DEF ChannelInv, NumbersMatch, OwnAnswers
  <2> QED
    BY <1>1, <2>1, <2>2, NumbersStay
<1>11. AnswersMatch'
  <2>1. AnswersMatch /\ ChannelShaped
    BY DEF ChannelInv
  <2>2. ASSUME NEW q \in Procs, NEW l \in LinesIn(stdout'[q]), l.is = "request"
        PROVE  AsAsked(q, l.id, l.kind)'
    <3>1. CASE q = p /\ l = line0
      BY <1>3, <1>6, <3>1 DEF AsAsked
    <3>2. CASE l \in LinesIn(stdout[q])
      <4>1. AsAsked(q, l.id, l.kind) /\ l.id \in AskIds /\ l.kind \in Kinds
        BY <2>1, <2>2, <3>2, LinesAreLines, LineKinds DEF AnswersMatch, Asking
      <4> QED
        BY <1>6, <4>1
    <3> QED
      BY <1>7, <3>1, <3>2
  <2>3. ASSUME NEW r \in serving' PROVE AsAsked(r.of, r.id, r.kind)'
    <3>1. r \in serving /\ r.of \in Procs /\ r.id \in AskIds /\ r.kind \in Kinds
      BY <1>1, <2>1 DEF ChannelShaped
    <3> QED
      BY <1>6, <2>1, <3>1 DEF AnswersMatch
  <2>4. ASSUME NEW q \in Procs, NEW l \in LinesIn(stdin'[q]), l.is = "answer" PROVE SaysTrue(l)'
    <3>1. l \in LinesIn(stdin[q]) /\ l \in Answering
      BY <1>1, <2>1, <2>4, LinesAreLines, LineKinds
    <3> QED
      BY <1>6, <2>1, <2>4, <3>1 DEF AnswersMatch
  <2>5. ToldIsKept'
    <3>1. ASSUME NEW q \in Procs, NEW b \in AskIds, ask'[q][b].at = "told"
          PROVE  ask'[q][b] = ask[q][b]
      BY <1>3, <1>6, <3>1
    <3> QED
      BY <1>1, <2>1, <3>1 DEF AnswersMatch, ToldIsKept
  <2> QED
    BY <2>2, <2>3, <2>4, <2>5 DEF AnswersMatch
<1> QED
  BY <1>8, <1>9, <1>10, <1>11 DEF ChannelInv

\* An answer reaches the request that waits, which may be of another process.
LEMMA ReadsAnswerKeeps == ASSUME ChannelInv, NEW p \in Procs, ReadsAnswer(p) PROVE ChannelInv'
<1>1. PICK line : line = Head(stdin[p])
  OBVIOUS
<1>2. /\ stdin' \in Pipes(CoreLines) /\ line \in LinesIn(stdin[p]) /\ line \in Answering
      /\ \A q \in Procs : \A l \in LinesIn(stdin'[q]) : l \in LinesIn(stdin[q])
  BY <1>1, LineRead, LineKinds DEF ReadsAnswer
<1>3. PICK a \in AskIds : a = line.id
  BY <1>2 DEF Answering
<1>4. /\ Reads(p) /\ line.is = "answer"
      /\ UNCHANGED <<phase, proc, spawned, alive, exits, stdout, working, seq, pending, call,
                     answered, serving, kept, keepFails, room>>
      /\ IF ask[p][a].at = "waiting"
           THEN /\ ask' = [ask EXCEPT ![p][a].at = Answered(line, ask[p][a].kind)]
                /\ crossed' = IF line.of = p THEN crossed ELSE crossed \cup {<<p, a>>}
           ELSE UNCHANGED <<ask, crossed>>
  BY <1>1, <1>3 DEF ReadsAnswer, Reads, processes
<1>5. line.of \in Procs /\ SaysTrue(line)
  BY <1>3, <1>4, <1>2 DEF Answering, ChannelInv, AnswersMatch
<1>6. NumbersSuffice'
  BY <1>4 DEF ChannelInv, NumbersSuffice
<1>7. NumbersMatch'
  <2>1. /\ NumbersMatch /\ OwnAnswers' /\ \A i \in Ids : pending'[i] \in {pending[i], Nobody}
    BY <1>4 DEF ChannelInv, NumbersMatch, OwnAnswers
  <2>2. /\ \A q \in Procs : \A l \in LinesIn(stdout'[q]) : l.is = "answer" => CarriesOwn(l)
        /\ \A q \in Procs : \A w \in working'[q] : CarriesOwn(w)
    BY <1>4 DEF ChannelInv, NumbersMatch
  <2> QED
    BY <1>4, <1>2, <2>1, <2>2, NumbersStay
<1>8. CASE ask[p][a].at # "waiting"
  <2>1. ChannelShaped'
    BY <1>4, <1>2, <1>8 DEF ChannelInv, ChannelShaped
  <2>2. AnswersMatch'
    BY <1>4, <1>2, <1>8, AnswersStay DEF ChannelInv
  <2> QED
    BY <1>6, <1>7, <2>1, <2>2 DEF ChannelInv
<1>9. CASE ask[p][a].at = "waiting"
  <2>1. /\ ask \in [Procs -> [AskIds -> PluginAsks]] /\ crossed \subseteq Procs \X AskIds
        /\ ChannelShaped /\ AnswersMatch
    BY DEF ChannelInv, ChannelShaped
  <2>2. PICK x : x = [kind |-> ask[p][a].kind, at |-> Answered(line, ask[p][a].kind)]
    OBVIOUS
  <2>3. /\ x \in PluginAsks /\ x.at # "unsent" /\ x.kind = ask[p][a].kind
        /\ x.at \in {"told", "refused"}
    BY <1>5, <2>1, <2>2 DEF PluginAsks, Answered
  <2>4. [ask[p][a] EXCEPT !.at = Answered(line, ask[p][a].kind)] = x
    BY <1>5, <2>1, <2>2 DEF PluginAsks
  <2>5. ask' = [ask EXCEPT ![p] = [ask[p] EXCEPT ![a] = x]]
    BY <1>4, <1>9, <2>4
  <2>6. UNCHANGED <<kept, keepFails>>
    BY <1>4
  <2>7. /\ ask' \in [Procs -> [AskIds -> PluginAsks]] /\ ask'[p][a] = x
        /\ \A q \in Procs, b \in AskIds : <<q, b>> # <<p, a>> => ask'[q][b] = ask[q][b]
        /\ \A q \in Procs, b \in AskIds, k \in Kinds : AsAsked(q, b, k) => AsAsked(q, b, k)'
        /\ \A l \in Answering : SaysTrue(l) => SaysTrue(l)'
    BY ONLY p \in Procs, a \in AskIds, <2>1, <2>3, <2>5, <2>6, AskGoesOn
  <2>8. crossed' \subseteq Procs \X AskIds /\ (crossed' = {} => crossed = {} /\ line.of = p)
    <3>1. <<p, a>> \in Procs \X AskIds
      OBVIOUS
    <3>2. crossed' = IF line.of = p THEN crossed ELSE crossed \cup {<<p, a>>}
      BY <1>4, <1>9
    <3> QED
      BY ONLY <2>1, <3>1, <3>2
  <2>9. ChannelShaped'
    BY <1>4, <1>2, <2>7, <2>8 DEF ChannelInv, ChannelShaped
  <2>10. ToldIsKept'
    <3> SUFFICES ASSUME keepFails = 0, crossed' = {}, NEW q \in Procs, NEW b \in AskIds,
                        ask'[q][b].kind = "blind", ask'[q][b].at = "told"
                 PROVE  <<q, b>> \in kept
      BY <2>6 DEF ToldIsKept
    <3>1. CASE <<q, b>> = <<p, a>>
      BY <1>3, <1>5, <2>3, <2>7, <2>8, <3>1 DEF SaysTrue
    <3>2. CASE <<q, b>> # <<p, a>>
      BY <2>1, <2>7, <2>8, <3>2 DEF AnswersMatch, ToldIsKept
    <3> QED
      BY <3>1, <3>2
  <2>11. ASSUME NEW q \in Procs, NEW l \in LinesIn(stdout'[q]), l.is = "request"
        PROVE  AsAsked(q, l.id, l.kind)'
    <3>1. l \in LinesIn(stdout[q])
      BY <1>4
    <3>2. AsAsked(q, l.id, l.kind) /\ l.id \in AskIds /\ l.kind \in Kinds
      BY <2>1, <2>11, <3>1, LinesAreLines, LineKinds DEF AnswersMatch, Asking
    <3> QED
      BY <2>7, <3>2
  <2>12. ASSUME NEW r \in serving' PROVE AsAsked(r.of, r.id, r.kind)'
    <3>1. r \in serving /\ r.of \in Procs /\ r.id \in AskIds /\ r.kind \in Kinds
      BY <1>4, <2>1 DEF ChannelShaped
    <3> QED
      BY <2>1, <2>7, <3>1 DEF AnswersMatch
  <2>13. ASSUME NEW q \in Procs, NEW l \in LinesIn(stdin'[q]), l.is = "answer" PROVE SaysTrue(l)'
    <3>1. l \in LinesIn(stdin[q]) /\ l \in Answering
      BY <1>2, <2>1, <2>13, LinesAreLines, LineKinds
    <3> QED
      BY <2>1, <2>7, <2>13, <3>1 DEF AnswersMatch
  <2>14. AnswersMatch'
    BY <2>10, <2>11, <2>12, <2>13 DEF AnswersMatch
  <2> QED
    BY <1>6, <1>7, <2>9, <2>14 DEF ChannelInv
<1> QED
  BY <1>8, <1>9

LEMMA AskTimesOutKeeps == ASSUME ChannelInv, NEW p \in Procs, AskTimesOut(p) PROVE ChannelInv'
<1>1. PICK a \in AskIds :
         /\ ask[p][a].at = "waiting" /\ ask' = [ask EXCEPT ![p][a].at = "late"]
         /\ UNCHANGED <<phase, proc, spawned, alive, exits, stdin, stdout, seq, pending, call,
                        answered, working, serving, kept, keepFails, room, crossed>>
  BY DEF AskTimesOut, processes, coreVars
<1>2. ask \in [Procs -> [AskIds -> PluginAsks]] /\ ChannelShaped /\ AnswersMatch
  BY DEF ChannelInv, ChannelShaped
<1>3. PICK x : x = [kind |-> ask[p][a].kind, at |-> "late"]
  OBVIOUS
<1>4. x \in PluginAsks /\ x.at = "late" /\ x.at # "unsent" /\ x.kind = ask[p][a].kind
  BY <1>2, <1>3 DEF PluginAsks
<1>5. [ask[p][a] EXCEPT !.at = "late"] = x
  BY <1>2, <1>3 DEF PluginAsks
<1>6. ask' = [ask EXCEPT ![p] = [ask[p] EXCEPT ![a] = x]] /\ UNCHANGED <<kept, keepFails>>
  BY <1>1, <1>5
<1>7. /\ ask' \in [Procs -> [AskIds -> PluginAsks]] /\ ask'[p][a] = x
      /\ \A q \in Procs, b \in AskIds : <<q, b>> # <<p, a>> => ask'[q][b] = ask[q][b]
      /\ \A q \in Procs, b \in AskIds, k \in Kinds : AsAsked(q, b, k) => AsAsked(q, b, k)'
      /\ \A l \in Answering : SaysTrue(l) => SaysTrue(l)'
  BY ONLY p \in Procs, a \in AskIds, <1>2, <1>4, <1>6, AskGoesOn
<1>8. ChannelShaped'
  BY <1>1, <1>7 DEF ChannelInv, ChannelShaped
<1>9. NumbersSuffice'
  BY <1>1 DEF ChannelInv, NumbersSuffice
<1>10. NumbersMatch'
  BY <1>1 DEF ChannelInv, NumbersMatch, CarriesOwn, OwnAnswers
<1>11. AnswersMatch'
  <2>1. ASSUME NEW q \in Procs, NEW l \in LinesIn(stdout'[q]), l.is = "request"
        PROVE  AsAsked(q, l.id, l.kind)'
    <3>1. l \in LinesIn(stdout[q])
      BY <1>1
    <3>2. AsAsked(q, l.id, l.kind) /\ l.id \in AskIds /\ l.kind \in Kinds
      BY <1>2, <2>1, <3>1, LinesAreLines, LineKinds DEF AnswersMatch, Asking
    <3> QED
      BY <1>7, <3>2
  <2>2. ASSUME NEW r \in serving' PROVE AsAsked(r.of, r.id, r.kind)'
    <3>1. r \in serving /\ r.of \in Procs /\ r.id \in AskIds /\ r.kind \in Kinds
      BY <1>1, <1>2 DEF ChannelShaped
    <3> QED
      BY <1>2, <1>7, <3>1 DEF AnswersMatch
  <2>3. ASSUME NEW q \in Procs, NEW l \in LinesIn(stdin'[q]), l.is = "answer" PROVE SaysTrue(l)'
    <3>1. l \in LinesIn(stdin[q]) /\ l \in Answering
      BY <1>1, <1>2, <2>3, LinesAreLines, LineKinds
    <3> QED
      BY <1>2, <1>7, <2>3, <3>1 DEF AnswersMatch
  <2>4. ToldIsKept'
    <3>1. ASSUME NEW q \in Procs, NEW b \in AskIds, ask'[q][b].at = "told"
          PROVE  ask'[q][b] = ask[q][b]
      BY <1>4, <1>7, <3>1
    <3> QED
      BY <1>1, <1>2, <3>1 DEF AnswersMatch, ToldIsKept
  <2> QED
    BY <2>1, <2>2, <2>3, <2>4 DEF AnswersMatch
<1> QED
  BY <1>8, <1>9, <1>10, <1>11 DEF ChannelInv

LEMMA ChannelStep == ChannelInv /\ [ChannelNext]_channelVars => ChannelInv'
<1> SUFFICES ASSUME ChannelInv, [ChannelNext]_channelVars PROVE ChannelInv'
  OBVIOUS
<1>1. CASE Spawns
  BY <1>1, SpawnsKeeps
<1>2. CASE StartTimesOut
  BY <1>2, StartTimesOutKeeps
<1>3. CASE Unmounts
  BY <1>3, UnmountsKeeps
<1>4. ASSUME NEW n \in Calls, Invokes(n) \/ InvokeFails(n) \/ CallTimesOut(n)
      PROVE  ChannelInv'
  BY <1>4, InvokesKeeps, InvokeFailsKeeps, CallTimesOutKeeps
<1>5. ASSUME NEW p \in Procs,
             \/ HearsAnswer(p) \/ HearsRequest(p) \/ ReadsRequest(p) \/ ReadsAnswer(p)
             \/ Replies(p) \/ AsksCore(p) \/ AskTimesOut(p) \/ Ends(p) \/ HandlesExit(p)
      PROVE  ChannelInv'
  BY <1>5, HearsAnswerKeeps, HearsRequestKeeps, ReadsRequestKeeps, ReadsAnswerKeeps, RepliesKeeps,
     AsksCoreKeeps, AskTimesOutKeeps, EndsKeeps, HandlesExitKeeps
<1>6. ASSUME NEW r \in serving, Serves(r) PROVE ChannelInv'
  BY <1>6, ServesKeeps
<1>7. CASE UNCHANGED channelVars
  BY <1>7, UnmountsKeeps
<1> QED
  BY <1>1, <1>2, <1>3, <1>4, <1>5, <1>6, <1>7 DEF ChannelNext

LEMMA ChannelServes == ChannelInv => ChannelKept
<1> SUFFICES ASSUME ChannelInv PROVE ChannelKept
  OBVIOUS
<1>1. OwnAnswers /\ ToldIsKept
  BY DEF ChannelInv, NumbersMatch, AnswersMatch
<1>2. alive \subseteq Procs /\ exits \subseteq Procs \ alive
  BY ChannelSizes DEF ChannelInv, ChannelShaped, Procs
<1>3. ASSUME NEW p \in Procs
      PROVE  /\ stdin[p] \in Seq(CoreLines) /\ stdout[p] \in Seq(PluginLines)
  BY DEF ChannelInv, ChannelShaped, Pipes
<1>4. ChannelTypeOK
  BY <1>2, <1>3 DEF ChannelInv, ChannelShaped, ChannelTypeOK, CoreLines, PluginLines, Calling,
     Answering, Replying, Asking, PluginAsks
<1> QED
  BY <1>1, <1>4 DEF ChannelKept

\* For every number of processes, calls and requests a call that is answered was
\* given the answer to this call (PluginSupervisor.#request), and a plugin that
\* was told that a value is kept has it stored, unless a query failed or an
\* answer went to a process that did not ask (runtime.ts resolves a put on any
\* answer).
THEOREM ChannelIsKept == ChannelSpec => []ChannelKept
<1>1. ChannelInit => ChannelInv
  BY ChannelStarts
<1>2. ChannelInv /\ [ChannelNext]_channelVars => ChannelInv'
  BY ChannelStep
<1>3. ChannelInv => ChannelKept
  BY ChannelServes
<1> QED
  BY <1>1, <1>2, <1>3, PTL DEF ChannelSpec
------------------------------------------------------------------------------
(* NntpPool: what is said of a pool between two awaits, and in the middle of   *)
(* a stretch                                                                    *)

SocketStates == {"new", "connecting", "open", "lost", "destroyed"}
FetchStates  == {"none", "queued", "connecting", "greeting", "answer", "pause"}
FetchRecords == [at : FetchStates, wants : Articles \cup {NoArticle},
                 conn : Conns \cup {NoConn}, tries : 0 .. Retries]
Pools == [socket : [Conns -> SocketStates], owes : [Conns -> Seq(Owed)], idle : Seq(Conns),
          waiters : Seq(Callers), active : Nat, made : 0 .. MaxSockets,
          fetch : [Callers -> FetchRecords]]

\* What is said of a pool in the middle of a stretch leaves out the calls X that
\* the stretch is about.  At work is a call at a connection; one that queues,
\* pauses or finds its socket lost may make one more connection.
AtWorkIn(p, X) == {k \in Callers \ X : p.fetch[k].conn # NoConn}
DueIn(p, X)    == {k \in Callers \ X :
                     \/ p.fetch[k].at \in {"queued", "pause"}
                     \/ p.fetch[k].conn # NoConn /\ p.socket[p.fetch[k].conn] = "lost"}

CallsKnown(p, X) ==
    \A k \in Callers \ X :
       /\ p.fetch[k].at = "none" => p.fetch[k] = NoFetch
       /\ p.fetch[k].at # "none" => p.fetch[k].wants \in Articles
       /\ p.fetch[k].conn # NoConn <=> p.fetch[k].at \in {"connecting", "greeting", "answer"}
InQueue(s, k) == \E n \in DOMAIN s : s[n] = k
WaitersKnown(p, X) ==
    /\ \A k \in Callers \ X : p.fetch[k].at = "queued" <=> InQueue(p.waiters, k)
    /\ \A k \in X : ~InQueue(p.waiters, k)
    /\ \A m, n \in DOMAIN p.waiters : p.waiters[m] = p.waiters[n] => m = n

\* A line that is not the answer to what was asked is a goodbye that came before.
Leaves(s)  == s # <<>> /\ Head(s).says = "goodbye"
Quiet(s)   == s = <<>> \/ Leaves(s)
Greets(s, o) ==
    \/ s = <<>> /\ o \in {<<>>, <<"greeting">>}
    \/ o = <<>> /\ Len(s) = 1 /\ s[1].says = "hello"
    \/ Leaves(s)
RepliesTo(s, o, a) ==
    \/ s = <<>> /\ o \in {<<>>, <<a>>}
    \/ o = <<>> /\ Len(s) = 1 /\ s[1].says \in {"article", "missing"} /\ s[1].of = a
    \/ Leaves(s)
Expects(p, ls, k) ==
    LET c == p.fetch[k].conn IN
    /\ p.fetch[k].at = "connecting" => Quiet(ls[c]) /\ p.owes[c] = <<>>
    /\ p.fetch[k].at = "greeting" => Greets(ls[c], p.owes[c])
    /\ p.fetch[k].at = "answer" => RepliesTo(ls[c], p.owes[c], p.fetch[k].wants)

\* Every connection that is kept open is idle or used by one call.
IsIdle(p, c)    == \E n \in DOMAIN p.idle : p.idle[n] = c
Uses(p, k, c)   == p.fetch[k].conn = c
IdleKnown(p, ls, X) ==
    /\ \A m, n \in DOMAIN p.idle : p.idle[m] = p.idle[n] => m = n
    /\ \A c \in Conns : IsIdle(p, c) =>
          /\ c <= p.made /\ p.owes[c] = <<>> /\ Quiet(ls[c])
          /\ \A k \in Callers \ X : ~Uses(p, k, c)
UsedAlone(p, ls, X) ==
    \A k \in AtWorkIn(p, X) :
       /\ p.fetch[k].conn <= p.made /\ Expects(p, ls, k)
       /\ \A j \in AtWorkIn(p, X) : p.fetch[j].conn = p.fetch[k].conn => j = k
SocketsKnown(p, ls, X) ==
    \A c \in Conns :
       /\ c > p.made => p.socket[c] = "new" /\ ls[c] = <<>>
       /\ p.socket[c] \in {"connecting", "open"} =>
             IsIdle(p, c) \/ \E k \in Callers \ X : Uses(p, k, c)

\* Permits: n of them are held by the stretch itself.
PermitsCount(p, n, X) ==
    /\ p.active = Cardinality(AtWorkIn(p, X)) + n /\ p.active <= Places
    /\ Cardinality(AtWorkIn(p, X)) + Len(p.idle) <= Places

Shut(p, shut, X) ==
    IF shut THEN /\ p.idle = <<>> /\ p.waiters = <<>>
                 /\ \A c \in Conns : p.socket[c] \in {"new", "destroyed"}
    ELSE \A k \in AtWorkIn(p, X) :
            p.socket[p.fetch[k].conn] \in IF p.fetch[k].at = "connecting" THEN {"connecting"}
                                          ELSE {"open", "lost"}

\* There are objects left for the connections that may be made: s calls and
\* faults were spent.
RoomLeft(p, shut, X, s) == ~shut => p.made + Cardinality(DueIn(p, X)) <= s

PoolSound(p, ls, shut, n, X, s) ==
    /\ p \in Pools /\ ls \in [Conns -> Seq(Lines)]
    /\ CallsKnown(p, X) /\ WaitersKnown(p, X) /\ IdleKnown(p, ls, X) /\ UsedAlone(p, ls, X)
    /\ SocketsKnown(p, ls, X) /\ PermitsCount(p, n, X) /\ Shut(p, shut, X)
    /\ RoomLeft(p, shut, X, s)

Spent == MaxArticleCalls + MaxNntpFaults - nntpLeft.calls - nntpLeft.faults
BudgetKnown == nntpLeft \in [calls : 0 .. MaxArticleCalls, faults : 0 .. MaxNntpFaults]
PoolNow == PoolSound(Pool, lines, closed, 0, {}, Spent) /\ BudgetKnown /\ closed \in BOOLEAN
PoolInv ==
    /\ PoolNow /\ AnswersItsOwn
    /\ delivered \in [Callers -> [asked : Articles \cup {NoArticle}, got : Articles \cup {NoArticle}]]

------------------------------------------------------------------------------
LEMMA PoolSizes == /\ Places \in Nat \ {0} /\ MaxArticleCalls \in Nat /\ MaxNntpFaults \in Nat
                   /\ MaxSockets \in Nat /\ MaxSockets >= MaxArticleCalls + MaxNntpFaults
                   /\ IsFiniteSet(Callers) /\ NoConn \notin Conns
BY PoolBounds, PoolMarks DEF Conns

\* Few calls are at work or may still make a connection.
LEMMA FewAtWork ==
    ASSUME NEW p, NEW X
    PROVE  /\ IsFiniteSet(AtWorkIn(p, X)) /\ Cardinality(AtWorkIn(p, X)) \in Nat
           /\ IsFiniteSet(DueIn(p, X)) /\ Cardinality(DueIn(p, X)) \in Nat
<1>1. AtWorkIn(p, X) \in SUBSET Callers /\ DueIn(p, X) \in SUBSET Callers
  BY DEF AtWorkIn, DueIn
<1>2. IsFiniteSet(AtWorkIn(p, X)) /\ IsFiniteSet(DueIn(p, X))
  BY <1>1, PoolSizes, FS_Subset
<1> QED
  BY <1>2, FS_CardinalityType

\* What a call that has its permit changes.
TakenConn(p) == IF p.idle # <<>> THEN p.idle[Len(p.idle)] ELSE p.made + 1
LEMMA TakesFields ==
    ASSUME NEW p \in Pools, NEW k \in Callers, p.idle # <<>> \/ p.made < MaxSockets,
           p.fetch[k].wants \in Articles, NEW c, c = TakenConn(p), NEW q, q = TakesConn(p, k)
    PROVE  /\ c \in Conns /\ q \in Pools
           /\ q.waiters = p.waiters /\ q.active = p.active
           /\ IF p.idle # <<>> THEN q.made = p.made /\ q.idle = SubSeq(p.idle, 1, Len(p.idle) - 1)
                               ELSE q.made = p.made + 1 /\ q.idle = <<>>
           /\ \A d \in Conns \ {c} : q.socket[d] = p.socket[d] /\ q.owes[d] = p.owes[d]
           /\ \A j \in Callers \ {k} : q.fetch[j] = p.fetch[j]
           /\ q.fetch[k].wants = p.fetch[k].wants /\ q.fetch[k].conn = c
           /\ IF p.socket[c] = "open"
                THEN /\ q.socket[c] = "open" /\ q.owes[c] = Append(p.owes[c], p.fetch[k].wants)
                     /\ q.fetch[k].at = "answer"
                ELSE /\ q.socket[c] = "connecting" /\ q.owes[c] = <<>>
                     /\ q.fetch[k].at = "connecting"
<1>1. c \in Conns
  <2>1. p.idle \in Seq(Conns) /\ p.made \in 0 .. MaxSockets
    BY DEF Pools
  <2>2. CASE p.idle # <<>>
    BY <2>1, <2>2 DEF TakenConn
  <2>3. CASE p.idle = <<>>
    BY <2>1, <2>3, PoolSizes DEF TakenConn, Conns
  <2> QED
    BY <2>2, <2>3
<1>2. c = IF MayReuse(p) THEN Last(p.idle) ELSE p.made + 1
  BY DEF TakenConn, MayReuse, Last
<1>3. PICK rest : rest = IF MayReuse(p) THEN [p EXCEPT !.idle = Front(@)]
                                       ELSE [p EXCEPT !.made = @ + 1]
  OBVIOUS
<1>4. /\ rest \in Pools /\ rest.waiters = p.waiters /\ rest.active = p.active
      /\ rest.socket = p.socket /\ rest.owes = p.owes /\ rest.fetch = p.fetch
      /\ IF p.idle # <<>> THEN rest.made = p.made /\ rest.idle = SubSeq(p.idle, 1, Len(p.idle) - 1)
                          ELSE rest.made = p.made + 1 /\ rest.idle = <<>>
  <2>1. CASE p.idle # <<>>
    <3>1. rest = [p EXCEPT !.idle = SubSeq(p.idle, 1, Len(p.idle) - 1)]
      BY <1>3, <2>1 DEF MayReuse, Front
    <3>2. SubSeq(p.idle, 1, Len(p.idle) - 1) \in Seq(Conns)
      BY <2>1 DEF Pools
    <3> QED
      BY <2>1, <3>1, <3>2 DEF Pools
  <2>2. CASE p.idle = <<>>
    <3>1. rest = [p EXCEPT !.made = p.made + 1]
      BY <1>3, <2>2 DEF MayReuse
    <3>2. p.made + 1 \in 0 .. MaxSockets
      BY <2>2, PoolSizes DEF Pools
    <3> QED
      BY <2>2, <3>1, <3>2 DEF Pools
  <2> QED
    BY <2>1, <2>2
<1>5. CASE p.socket[c] = "open"
  <2>1. q = Placed([rest EXCEPT !.owes[c] = Append(@, p.fetch[k].wants)], k, "answer", c)
    BY <1>2, <1>3, <1>5 DEF TakesConn
  <2>2. PICK o : o = [p.owes EXCEPT ![c] = Append(p.owes[c], p.fetch[k].wants)]
    OBVIOUS
  <2>3. PICK a : a = [p.fetch[k] EXCEPT !.at = "answer", !.conn = c]
    OBVIOUS
  <2>4. PICK f : f = [p.fetch EXCEPT ![k] = a]
    OBVIOUS
  <2>5. a \in FetchRecords /\ a.at = "answer" /\ a.conn = c /\ a.wants = p.fetch[k].wants
    BY <1>1, <2>3 DEF Pools, FetchRecords, FetchStates
  <2>6. o \in [Conns -> Seq(Owed)]
    BY <1>1, <2>2 DEF Pools, Owed
  <2>7. f \in [Callers -> FetchRecords]
    BY <2>4, <2>5 DEF Pools
  <2>8. q = [rest EXCEPT !.owes = o, !.fetch = f]
    <3>1. PICK r : r = [rest EXCEPT !.owes[c] = Append(@, p.fetch[k].wants)]
      OBVIOUS
    <3>2. r = [rest EXCEPT !.owes = o]
      BY <1>4, <2>2, <3>1 DEF Pools
    <3>3. r \in Pools /\ r.fetch = p.fetch
      BY <1>4, <2>6, <3>2 DEF Pools
    <3>4. q = Placed(r, k, "answer", c)
      BY ONLY <2>1, <3>1
    <3>5. q = [r EXCEPT !.fetch =
                  [r.fetch EXCEPT ![k] = [r.fetch[k] EXCEPT !.at = "answer", !.conn = c]]]
      BY <3>3, <3>4 DEF Placed, Pools, FetchRecords
    <3>6. q = [r EXCEPT !.fetch = f]
      BY ONLY <2>3, <2>4, <3>3, <3>5
    <3> QED
      BY <1>4, <3>2, <3>6 DEF Pools
  <2>9. q \in Pools /\ q.owes = o /\ q.fetch = f /\ q.socket = p.socket /\ q.waiters = rest.waiters
        /\ q.active = rest.active /\ q.made = rest.made /\ q.idle = rest.idle
    BY <1>4, <2>6, <2>7, <2>8 DEF Pools
  <2> QED
    BY <1>1, <1>4, <1>5, <2>2, <2>4, <2>5, <2>9 DEF Pools
<1>6. CASE p.socket[c] # "open"
  <2>1. q = Placed([rest EXCEPT !.socket[c] = "connecting", !.owes[c] = <<>>],
                   k, "connecting", c)
    BY <1>2, <1>3, <1>6 DEF TakesConn
  <2>2. PICK o : o = [p.owes EXCEPT ![c] = <<>>]
    OBVIOUS
  <2>3. PICK t : t = [p.socket EXCEPT ![c] = "connecting"]
    OBVIOUS
  <2>4. PICK a : a = [p.fetch[k] EXCEPT !.at = "connecting", !.conn = c]
    OBVIOUS
  <2>5. PICK f : f = [p.fetch EXCEPT ![k] = a]
    OBVIOUS
  <2>6. a \in FetchRecords /\ a.at = "connecting" /\ a.conn = c /\ a.wants = p.fetch[k].wants
    BY <1>1, <2>4 DEF Pools, FetchRecords, FetchStates
  <2>7. o \in [Conns -> Seq(Owed)] /\ t \in [Conns -> SocketStates]
    BY <1>1, <2>2, <2>3 DEF Pools, SocketStates
  <2>8. f \in [Callers -> FetchRecords]
    BY <2>5, <2>6 DEF Pools
  <2>9. q = [rest EXCEPT !.socket = t, !.owes = o, !.fetch = f]
    <3>1. PICK r : r = [rest EXCEPT !.socket[c] = "connecting", !.owes[c] = <<>>]
      OBVIOUS
    <3>2. r = [rest EXCEPT !.socket = t, !.owes = o]
      BY <1>4, <2>2, <2>3, <3>1 DEF Pools
    <3>3. r \in Pools /\ r.fetch = p.fetch
      BY <1>4, <2>7, <3>2 DEF Pools
    <3>4. q = Placed(r, k, "connecting", c)
      BY ONLY <2>1, <3>1
    <3>5. q = [r EXCEPT !.fetch =
                  [r.fetch EXCEPT ![k] = [r.fetch[k] EXCEPT !.at = "connecting", !.conn = c]]]
      BY <3>3, <3>4 DEF Placed, Pools, FetchRecords
    <3>6. q = [r EXCEPT !.fetch = f]
      BY ONLY <2>4, <2>5, <3>3, <3>5
    <3> QED
      BY <1>4, <3>2, <3>6 DEF Pools
  <2>10. q \in Pools /\ q.owes = o /\ q.fetch = f /\ q.socket = t /\ q.waiters = rest.waiters
        /\ q.active = rest.active /\ q.made = rest.made /\ q.idle = rest.idle
    BY <1>4, <2>7, <2>8, <2>9 DEF Pools
  <2> QED
    BY <1>1, <1>4, <1>6, <2>2, <2>3, <2>5, <2>6, <2>10 DEF Pools
<1> QED
  BY <1>5, <1>6

LEMMA TakesOthers ==
    ASSUME NEW p \in Pools, NEW k \in Callers, NEW j \in Callers, j # k, NEW q, q = TakesConn(p, k)
    PROVE  q.fetch[j] = p.fetch[j]
BY DEF TakesConn, Placed, Pools

LEMMA TakesKeeps ==
    ASSUME NEW p \in Pools, NEW ls, NEW X \in SUBSET Callers, NEW w \in X, NEW s \in Int,
           s + 1 <= MaxSockets, p.fetch[w].wants \in Articles,
           PoolSound(p, ls, FALSE, 1, X, s), NEW q, q = TakesConn(p, w)
    PROVE  PoolSound(q, ls, FALSE, 0, X \ {w}, s + 1)
<1>1. /\ ls \in [Conns -> Seq(Lines)] /\ w \in Callers
      /\ CallsKnown(p, X) /\ WaitersKnown(p, X) /\ IdleKnown(p, ls, X) /\ UsedAlone(p, ls, X)
      /\ SocketsKnown(p, ls, X) /\ PermitsCount(p, 1, X) /\ Shut(p, FALSE, X)
      /\ RoomLeft(p, FALSE, X, s)
  BY DEF PoolSound
<1>2. /\ IsFiniteSet(AtWorkIn(p, X)) /\ Cardinality(AtWorkIn(p, X)) \in Nat
      /\ IsFiniteSet(DueIn(p, X)) /\ Cardinality(DueIn(p, X)) \in Nat
  BY FewAtWork
<1>3. p.made < MaxSockets /\ p.made \in Nat
  BY <1>1, <1>2, PoolSizes DEF RoomLeft, Pools
<1>4. PICK c : c = TakenConn(p)
  OBVIOUS
<1>5. /\ c \in Conns /\ q \in Pools
      /\ q.waiters = p.waiters /\ q.active = p.active
      /\ IF p.idle # <<>> THEN q.made = p.made /\ q.idle = SubSeq(p.idle, 1, Len(p.idle) - 1)
                          ELSE q.made = p.made + 1 /\ q.idle = <<>>
      /\ \A d \in Conns \ {c} : q.socket[d] = p.socket[d] /\ q.owes[d] = p.owes[d]
      /\ \A j \in Callers \ {w} : q.fetch[j] = p.fetch[j]
      /\ q.fetch[w].wants = p.fetch[w].wants /\ q.fetch[w].conn = c
      /\ IF p.socket[c] = "open"
           THEN /\ q.socket[c] = "open" /\ q.owes[c] = Append(p.owes[c], p.fetch[w].wants)
                /\ q.fetch[w].at = "answer"
           ELSE /\ q.socket[c] = "connecting" /\ q.owes[c] = <<>>
                /\ q.fetch[w].at = "connecting"
  BY <1>1, <1>3, <1>4, TakesFields, SMTT(60)
<1>6. c # NoConn /\ c <= q.made /\ \A j \in Callers \ X : p.fetch[j].conn # c
  <2>1. CASE p.idle # <<>>
    <3>1. Len(p.idle) \in DOMAIN p.idle /\ c = p.idle[Len(p.idle)]
      BY <1>4, <2>1 DEF TakenConn, Pools
    <3> QED
      BY <1>1, <1>5, <3>1, PoolSizes DEF IdleKnown, IsIdle, Uses
  <2>2. CASE p.idle = <<>>
    <3>1. c = p.made + 1
      BY <1>4, <2>2 DEF TakenConn
    <3>2. c # NoConn /\ c <= q.made
      BY <1>3, <1>5, <2>2, <3>1, PoolSizes
    <3>3. ASSUME NEW j \in Callers \ X, p.fetch[j].conn = c
          PROVE  FALSE
      <4>1. j \in AtWorkIn(p, X)
        BY <3>2, <3>3 DEF AtWorkIn
      <4>2. c <= p.made
        BY <1>1, <3>3, <4>1 DEF UsedAlone
      <4> QED
        BY <1>3, <3>1, <4>2
    <3> QED
      BY <3>2, <3>3
  <2> QED
    BY <2>1, <2>2
<1>7. AtWorkIn(q, X \ {w}) = AtWorkIn(p, X) \cup {w} /\ w \notin AtWorkIn(p, X)
  BY <1>1, <1>5, <1>6 DEF AtWorkIn
<1>8. DueIn(q, X \ {w}) = DueIn(p, X)
  <2>1. \A j \in Callers \ X : p.fetch[j].conn \in (Conns \ {c}) \cup {NoConn}
    BY <1>6 DEF Pools, FetchRecords
  <2>2. \A j \in Callers \ X : q.fetch[j] = p.fetch[j]
                               /\ \/ q.fetch[j].conn = NoConn
                                  \/ q.socket[q.fetch[j].conn] = p.socket[p.fetch[j].conn]
    BY <1>5, <2>1
  <2>3. w \notin DueIn(q, X \ {w})
    BY <1>5 DEF DueIn
  <2> QED
    BY <2>2, <2>3 DEF DueIn
<1>9. Cardinality(AtWorkIn(q, X \ {w})) = Cardinality(AtWorkIn(p, X)) + 1
  BY <1>2, <1>7, FS_AddElement
<1>10. CallsKnown(q, X \ {w})
  BY <1>1, <1>5, <1>6 DEF CallsKnown
<1>11. WaitersKnown(q, X \ {w})
  <2>1. q.fetch[w].at # "queued" /\ ~InQueue(q.waiters, w)
    BY <1>1, <1>5 DEF WaitersKnown
  <2>2. \A k \in Callers \ X : q.fetch[k].at = "queued" <=> InQueue(q.waiters, k)
    BY <1>1, <1>5 DEF WaitersKnown
  <2>3. \A m, n \in DOMAIN q.waiters : q.waiters[m] = q.waiters[n] => m = n
    BY <1>1, <1>5 DEF WaitersKnown
  <2>4. \A k \in X : ~InQueue(q.waiters, k)
    BY <1>1, <1>5 DEF WaitersKnown
  <2> QED
    BY <2>1, <2>2, <2>3, <2>4 DEF WaitersKnown
<1>12. /\ p.idle \in Seq(Conns) /\ q.idle \in Seq(Conns) /\ Len(q.idle) <= Len(p.idle)
       /\ \A n \in DOMAIN q.idle : n \in DOMAIN p.idle /\ q.idle[n] = p.idle[n] /\ q.idle[n] # c
       /\ \A n \in DOMAIN p.idle : p.idle[n] # c => n \in DOMAIN q.idle
  <2>1. CASE p.idle # <<>>
    <3>1. Len(p.idle) \in DOMAIN p.idle /\ c = p.idle[Len(p.idle)]
      BY <1>4, <2>1 DEF TakenConn, Pools
    <3>2. p.idle \in Seq(Conns) /\ q.idle = SubSeq(p.idle, 1, Len(p.idle) - 1)
      BY <1>5, <2>1 DEF Pools
    <3>3. \A m, n \in DOMAIN p.idle : p.idle[m] = p.idle[n] => m = n
      BY <1>1 DEF IdleKnown
    <3>4. /\ DOMAIN q.idle = 1 .. Len(p.idle) - 1 /\ Len(q.idle) = Len(p.idle) - 1
          /\ q.idle \in Seq(Conns) /\ DOMAIN p.idle = 1 .. Len(p.idle) /\ Len(p.idle) \in Nat
          /\ \A n \in DOMAIN q.idle : q.idle[n] = p.idle[n]
      BY ONLY <3>1, <3>2
    <3> QED
      BY ONLY <3>1, <3>2, <3>3, <3>4
  <2>2. CASE p.idle = <<>>
    <3>1. q.idle = <<>> /\ DOMAIN p.idle = {} /\ Len(p.idle) = 0
      BY <1>5, <2>2
    <3> QED
      BY <2>2, <3>1
  <2> QED
    BY <2>1, <2>2
<1>13. \A d \in Conns : IsIdle(q, d) <=> IsIdle(p, d) /\ d # c
  BY <1>12 DEF IsIdle
<1>14. IdleKnown(q, ls, X \ {w})
  <2>1. \A m, n \in DOMAIN q.idle : q.idle[m] = q.idle[n] => m = n
    BY <1>1, <1>12 DEF IdleKnown
  <2>2. ASSUME NEW d \in Conns, IsIdle(q, d)
        PROVE  /\ d <= q.made /\ q.owes[d] = <<>> /\ Quiet(ls[d])
               /\ \A k \in Callers \ (X \ {w}) : ~Uses(q, k, d)
    <3>1. IsIdle(p, d) /\ d # c
      BY <1>13, <2>2
    <3>2. /\ d <= p.made /\ p.owes[d] = <<>> /\ Quiet(ls[d])
          /\ \A k \in Callers \ X : ~Uses(p, k, d)
      BY <1>1, <3>1 DEF IdleKnown
    <3>3. d <= q.made
      BY <1>3, <1>5, <3>2 DEF Conns
    <3> QED
      BY <1>5, <3>1, <3>2, <3>3 DEF Uses
  <2> QED
    BY <2>1, <2>2 DEF IdleKnown
<1>15. UsedAlone(q, ls, X \ {w})
  <2>1. \A j \in AtWorkIn(p, X) : /\ j \in Callers \ {w} /\ p.fetch[j].conn \in Conns \ {c}
                                 /\ p.fetch[j].conn <= p.made /\ Expects(p, ls, j)
    BY <1>1, <1>6 DEF AtWorkIn, UsedAlone, Pools, FetchRecords
  <2>2. ASSUME NEW j \in AtWorkIn(p, X)
        PROVE  p.fetch[j].conn <= q.made /\ Expects(q, ls, j)
    <3>1. p.fetch[j].conn <= q.made
      BY <1>3, <1>5, <2>1 DEF Conns
    <3>2. q.fetch[j] = p.fetch[j] /\ Expects(p, ls, j) /\ p.fetch[j].conn \in Conns \ {c}
      BY <1>5, <2>1
    <3> QED
      BY <1>5, <3>1, <3>2 DEF Expects
  <2>3. Expects(q, ls, w)
    <3>1. CASE p.idle # <<>>
      <4>1. IsIdle(p, c)
        BY <1>4, <3>1 DEF TakenConn, IsIdle, Pools
      <4>2. p.owes[c] = <<>> /\ Quiet(ls[c])
        BY <1>1, <1>5, <4>1 DEF IdleKnown
      <4>3. CASE p.socket[c] = "open"
        <5>1. q.fetch[w].at = "answer" /\ q.fetch[w].conn = c
          BY <1>5, <4>3
        <5>2. q.owes[c] = Append(<<>>, p.fetch[w].wants)
          BY <1>5, <4>2, <4>3
        <5>3. q.owes[c] = <<q.fetch[w].wants>>
          BY <1>5, <5>2
        <5> QED
          BY <4>2, <5>1, <5>3 DEF Expects, Quiet, RepliesTo
      <4>4. CASE p.socket[c] # "open"
        BY <1>5, <4>2, <4>4 DEF Expects
      <4> QED
        BY <4>3, <4>4
    <3>2. CASE p.idle = <<>>
      <4>1. c > p.made
        BY <1>3, <1>4, <3>2 DEF TakenConn
      <4>2. p.socket[c] = "new" /\ ls[c] = <<>>
        BY <1>1, <1>5, <4>1 DEF SocketsKnown
      <4> QED
        BY <1>5, <4>2 DEF Expects, Quiet
    <3> QED
      BY <3>1, <3>2
  <2>4. q.fetch[w].conn = c /\ c <= q.made
    BY <1>5, <1>6
  <2>5. \A j \in AtWorkIn(p, X) : q.fetch[j] = p.fetch[j]
    BY <1>5, <2>1
  <2> QED
    BY <1>1, <1>7, <2>1, <2>2, <2>3, <2>4, <2>5 DEF UsedAlone
<1>16. SocketsKnown(q, ls, X \ {w})
  <2>1. ASSUME NEW d \in Conns, d > q.made
        PROVE  q.socket[d] = "new" /\ ls[d] = <<>>
    <3>1. d > p.made /\ d # c
      BY <1>3, <1>5, <1>6, <2>1 DEF Conns
    <3> QED
      BY <1>1, <1>5, <3>1 DEF SocketsKnown
  <2>2. ASSUME NEW d \in Conns, q.socket[d] \in {"connecting", "open"}
        PROVE  IsIdle(q, d) \/ \E k \in Callers \ (X \ {w}) : Uses(q, k, d)
    <3>1. CASE d = c
      BY <1>1, <1>5, <3>1 DEF Uses
    <3>2. CASE d # c
      <4>1. IsIdle(p, d) \/ \E k \in Callers \ X : Uses(p, k, d)
        BY <1>1, <1>5, <2>2, <3>2 DEF SocketsKnown
      <4> QED
        BY <1>5, <1>13, <3>2, <4>1 DEF Uses
    <3> QED
      BY <3>1, <3>2
  <2> QED
    BY <2>1, <2>2 DEF SocketsKnown
<1>17. PermitsCount(q, 0, X \ {w})
  <2>1. CASE p.idle # <<>>
    <3>1. Len(q.idle) = Len(p.idle) - 1
      BY <1>5, <1>12, <2>1
    <3>2. Len(p.idle) \in Nat /\ q.active = p.active
      BY <1>5, <1>12
    <3>3. /\ p.active = Cardinality(AtWorkIn(p, X)) + 1 /\ p.active <= Places
          /\ Cardinality(AtWorkIn(p, X)) + Len(p.idle) <= Places
      BY <1>1 DEF PermitsCount
    <3> QED
      BY <1>2, <1>9, <3>1, <3>2, <3>3, PoolSizes DEF PermitsCount
  <2>2. CASE p.idle = <<>>
    <3>1. Len(q.idle) = 0
      BY <1>5, <2>2
    <3> QED
      BY <1>1, <1>2, <1>5, <1>9, <3>1, PoolSizes DEF PermitsCount
  <2> QED
    BY <2>1, <2>2
<1>18. Shut(q, FALSE, X \ {w})
  <2>1. \A j \in AtWorkIn(p, X) : /\ j \in Callers \ {w} /\ p.fetch[j].conn \in Conns \ {c}
                                 /\ p.socket[p.fetch[j].conn] \in
                                       IF p.fetch[j].at = "connecting" THEN {"connecting"}
                                       ELSE {"open", "lost"}
    BY <1>1, <1>6 DEF AtWorkIn, Shut, Pools, FetchRecords
  <2>2. \A j \in AtWorkIn(p, X) : /\ q.fetch[j] = p.fetch[j]
                                 /\ q.socket[q.fetch[j].conn] = p.socket[p.fetch[j].conn]
    BY <1>5, <2>1
  <2>3. q.socket[q.fetch[w].conn] \in IF q.fetch[w].at = "connecting" THEN {"connecting"}
                                       ELSE {"open", "lost"}
    BY <1>5
  <2>4. \A j \in AtWorkIn(q, X \ {w}) :
           q.socket[q.fetch[j].conn] \in IF q.fetch[j].at = "connecting" THEN {"connecting"}
                                         ELSE {"open", "lost"}
    BY <1>7, <2>1, <2>2, <2>3
  <2> QED
    BY <2>4 DEF Shut
<1>19. RoomLeft(q, FALSE, X \ {w}, s + 1)
  BY <1>1, <1>2, <1>3, <1>5, <1>8 DEF RoomLeft
<1> QED
  BY <1>1, <1>5, <1>10, <1>11, <1>14, <1>15, <1>16, <1>17, <1>18, <1>19 DEF PoolSound

Untouched(p, q, X) == \A j \in X : q.fetch[j] = p.fetch[j]
LEMMA ReleasedKeeps ==
    ASSUME NEW p \in Pools, NEW ls, NEW shut \in BOOLEAN, NEW X \in SUBSET Callers,
           NEW s \in Int, s <= MaxSockets, PoolSound(p, ls, shut, 1, X, s),
           NEW q, q = Released(p)
    PROVE  q \in Pools /\ PoolSound(q, ls, shut, 0, X, s) /\ Untouched(p, q, X)
<1>1. /\ ls \in [Conns -> Seq(Lines)]
      /\ CallsKnown(p, X) /\ WaitersKnown(p, X) /\ IdleKnown(p, ls, X) /\ UsedAlone(p, ls, X)
      /\ SocketsKnown(p, ls, X) /\ PermitsCount(p, 1, X) /\ Shut(p, shut, X)
      /\ RoomLeft(p, shut, X, s)
  BY DEF PoolSound
<1>2. /\ IsFiniteSet(AtWorkIn(p, X)) /\ Cardinality(AtWorkIn(p, X)) \in Nat
      /\ IsFiniteSet(DueIn(p, X)) /\ Cardinality(DueIn(p, X)) \in Nat
  BY FewAtWork
<1>3. CASE p.waiters = <<>>
  <2>1. q = [p EXCEPT !.active = p.active - 1]
    BY <1>3 DEF Released
  <2>2. p.active \in Nat /\ p.active - 1 = Cardinality(AtWorkIn(p, X)) /\ p.active - 1 \in Nat
    BY <1>1, <1>2 DEF PermitsCount, Pools
  <2>3. /\ q \in Pools /\ q.socket = p.socket /\ q.owes = p.owes /\ q.idle = p.idle
        /\ q.waiters = p.waiters /\ q.made = p.made /\ q.fetch = p.fetch
        /\ q.active = p.active - 1
    BY <2>1, <2>2 DEF Pools
  <2>4. AtWorkIn(q, X) = AtWorkIn(p, X) /\ DueIn(q, X) = DueIn(p, X)
    BY <2>3 DEF AtWorkIn, DueIn
  <2>5. CallsKnown(q, X) /\ WaitersKnown(q, X)
    BY <1>1, <2>3 DEF CallsKnown, WaitersKnown
  <2>6. IdleKnown(q, ls, X) /\ SocketsKnown(q, ls, X)
    BY <1>1, <2>3 DEF IdleKnown, SocketsKnown, IsIdle, Uses
  <2>7. UsedAlone(q, ls, X)
    BY <1>1, <2>3, <2>4 DEF UsedAlone, Expects
  <2>8. PermitsCount(q, 0, X)
    BY <1>1, <1>2, <2>2, <2>3, <2>4, PoolSizes DEF PermitsCount
  <2>9. Shut(q, shut, X) /\ RoomLeft(q, shut, X, s)
    BY <1>1, <2>3, <2>4 DEF Shut, RoomLeft
  <2> QED
    BY <1>1, <2>3, <2>5, <2>6, <2>7, <2>8, <2>9 DEF PoolSound, Untouched
<1>4. CASE p.waiters # <<>>
  <2>1. p.waiters \in Seq(Callers) /\ Len(p.waiters) >= 1
    BY <1>4 DEF Pools
  <2>2. PICK w : w = Head(p.waiters)
    OBVIOUS
  <2>3. w \in Callers /\ 1 \in DOMAIN p.waiters /\ p.waiters[1] = w
    BY <1>4, <2>1, <2>2
  <2>4. ~shut
    BY <1>1, <1>4 DEF Shut
  <2>5. w \notin X /\ p.fetch[w].at = "queued"
    BY <1>1, <2>3 DEF WaitersKnown, InQueue
  <2>6. p.fetch[w].conn = NoConn /\ p.fetch[w].wants \in Articles
    BY <1>1, <2>3, <2>5 DEF CallsKnown
  <2>7. PICK r : r = [p EXCEPT !.waiters = Tail(p.waiters)]
    OBVIOUS
  <2>8. PICK Y : Y = X \cup {w}
    OBVIOUS
  <2>9. /\ r \in Pools /\ r.socket = p.socket /\ r.owes = p.owes /\ r.idle = p.idle
        /\ r.waiters = Tail(p.waiters) /\ r.made = p.made /\ r.fetch = p.fetch
        /\ r.active = p.active
    <3>1. Tail(p.waiters) \in Seq(Callers)
      BY <1>4, <2>1
    <3> QED
      BY <2>7, <3>1 DEF Pools
  <2>10. AtWorkIn(r, Y) = AtWorkIn(p, X)
    <3>1. \A j \in Callers : j \in Callers \ Y /\ r.fetch[j].conn # NoConn
                          <=> j \in Callers \ X /\ p.fetch[j].conn # NoConn
      BY <2>5, <2>6, <2>8, <2>9
    <3> QED
      BY <3>1 DEF AtWorkIn
  <2>11. DueIn(r, Y) = DueIn(p, X) \ {w} /\ w \in DueIn(p, X)
    BY <2>3, <2>5, <2>8, <2>9 DEF DueIn
  <2>12. Cardinality(DueIn(r, Y)) = Cardinality(DueIn(p, X)) - 1
    <3>1. Cardinality(DueIn(p, X) \ {w}) =
             IF w \in DueIn(p, X) THEN Cardinality(DueIn(p, X)) - 1 ELSE Cardinality(DueIn(p, X))
      BY <1>2, FS_RemoveElement
    <3> QED
      BY <2>11, <3>1
  <2>13. \A n \in DOMAIN r.waiters : /\ n + 1 \in DOMAIN p.waiters /\ n + 1 # 1
                                     /\ r.waiters[n] = p.waiters[n + 1]
    BY <1>4, <2>1, <2>9
  <2>14. \A n \in DOMAIN p.waiters : n # 1 => n - 1 \in DOMAIN r.waiters
    BY <1>4, <2>1, <2>9
  <2>15. CallsKnown(r, Y)
    BY <1>1, <2>8, <2>9 DEF CallsKnown
  <2>16. WaitersKnown(r, Y)
    <3>1. \A j \in Callers : InQueue(r.waiters, j) <=> InQueue(p.waiters, j) /\ j # w
      <4>1. ASSUME NEW j \in Callers, InQueue(r.waiters, j)
            PROVE  InQueue(p.waiters, j) /\ j # w
        BY <1>1, <2>1, <2>3, <2>13, <4>1 DEF InQueue, WaitersKnown
      <4>2. ASSUME NEW j \in Callers, InQueue(p.waiters, j), j # w
            PROVE  InQueue(r.waiters, j)
        <5>1. PICK n \in DOMAIN p.waiters : p.waiters[n] = j
          BY <4>2 DEF InQueue
        <5>2. n \in Nat /\ n - 1 \in DOMAIN r.waiters
          BY <2>1, <2>3, <2>14, <4>2, <5>1
        <5>3. r.waiters[n - 1] = p.waiters[(n - 1) + 1]
          BY <2>13, <5>2
        <5>4. (n - 1) + 1 = n
          BY <5>2
        <5> QED
          BY <5>1, <5>2, <5>3, <5>4 DEF InQueue
      <4> QED
        BY <4>1, <4>2
    <3>2. \A m, n \in DOMAIN r.waiters : r.waiters[m] = r.waiters[n] => m = n
      <4>1. \A m \in DOMAIN r.waiters : m \in Nat
        BY <2>1, <2>9
      <4>2. \A m, n \in DOMAIN p.waiters : p.waiters[m] = p.waiters[n] => m = n
        BY <1>1 DEF WaitersKnown
      <4> QED
        BY <2>13, <4>1, <4>2
    <3>3. \A k \in Callers \ Y : r.fetch[k].at = "queued" <=> InQueue(r.waiters, k)
      BY <1>1, <2>8, <2>9, <3>1 DEF WaitersKnown
    <3>4. \A k \in Y : ~InQueue(r.waiters, k)
      BY <1>1, <2>3, <2>8, <3>1 DEF WaitersKnown
    <3> QED
      BY <3>2, <3>3, <3>4 DEF WaitersKnown
  <2>17. IdleKnown(r, ls, Y)
    BY <1>1, <2>8, <2>9 DEF IdleKnown, IsIdle, Uses
  <2>18. UsedAlone(r, ls, Y)
    BY <1>1, <2>9, <2>10 DEF UsedAlone, Expects
  <2>19. SocketsKnown(r, ls, Y)
    BY <1>1, <2>6, <2>8, <2>9, PoolSizes DEF SocketsKnown, IsIdle, Uses
  <2>20. PermitsCount(r, 1, Y)
    BY <1>1, <2>9, <2>10 DEF PermitsCount
  <2>21. Shut(r, FALSE, Y)
    BY <1>1, <2>4, <2>9, <2>10 DEF Shut
  <2>22. PICK s1 \in Int : s1 = s - 1
    OBVIOUS
  <2>23. RoomLeft(r, FALSE, Y, s1)
    BY <1>1, <1>2, <2>4, <2>9, <2>12, <2>22 DEF RoomLeft, Pools
  <2>24. PoolSound(r, ls, FALSE, 1, Y, s1)
    BY <1>1, <2>9, <2>15, <2>16, <2>17, <2>18, <2>19, <2>20, <2>21, <2>23 DEF PoolSound
  <2>25. q = TakesConn(r, w)
    BY <1>4, <2>2, <2>7 DEF Released
  <2>26. /\ Y \in SUBSET Callers /\ w \in Y /\ s1 + 1 <= MaxSockets
         /\ r.fetch[w].wants \in Articles /\ r \in Pools
    BY <2>3, <2>6, <2>8, <2>9, <2>22, PoolSizes
  <2>27. PoolSound(q, ls, FALSE, 0, Y \ {w}, s1 + 1)
    BY <2>22, <2>24, <2>25, <2>26, TakesKeeps
  <2>28. s1 + 1 = s /\ Y \ {w} = X
    BY <2>5, <2>8, <2>22
  <2>29. \A j \in X : q.fetch[j] = p.fetch[j]
    BY <2>3, <2>5, <2>9, <2>25, TakesOthers
  <2> QED
    BY <2>4, <2>27, <2>28, <2>29 DEF PoolSound, Untouched
<1> QED
  BY <1>3, <1>4

\* A call that has no connection is put back: it is over, pauses or queues.
SameButCalls(p, q) == /\ q.socket = p.socket /\ q.owes = p.owes /\ q.idle = p.idle
                      /\ q.active = p.active /\ q.made = p.made
LEMMA SettlesKeeps ==
    ASSUME NEW p \in Pools, NEW ls, NEW shut \in BOOLEAN, NEW k \in Callers, NEW s \in Int,
           PoolSound(p, ls, shut, 0, {k}, s), NEW q \in Pools, SameButCalls(p, q),
           \A j \in Callers \ {k} : q.fetch[j] = p.fetch[j], NEW t \in Int,
           \/ q.fetch[k] = NoFetch /\ q.waiters = p.waiters /\ t >= s
           \/ /\ q.fetch[k].at = "pause" /\ q.waiters = p.waiters /\ t >= s + 1
              /\ q.fetch[k].wants \in Articles /\ q.fetch[k].conn = NoConn
           \/ /\ q.fetch[k].at = "queued" /\ q.waiters = Append(p.waiters, k) /\ t >= s + 1
              /\ q.fetch[k].wants \in Articles /\ q.fetch[k].conn = NoConn /\ ~shut
    PROVE  PoolSound(q, ls, shut, 0, {}, t)
<1>1. /\ ls \in [Conns -> Seq(Lines)]
      /\ CallsKnown(p, {k}) /\ WaitersKnown(p, {k}) /\ IdleKnown(p, ls, {k})
      /\ UsedAlone(p, ls, {k}) /\ SocketsKnown(p, ls, {k}) /\ PermitsCount(p, 0, {k})
      /\ Shut(p, shut, {k}) /\ RoomLeft(p, shut, {k}, s)
  BY DEF PoolSound
<1>2. /\ IsFiniteSet(AtWorkIn(p, {k})) /\ Cardinality(AtWorkIn(p, {k})) \in Nat
      /\ IsFiniteSet(DueIn(p, {k})) /\ Cardinality(DueIn(p, {k})) \in Nat
      /\ IsFiniteSet(DueIn(q, {})) /\ Cardinality(DueIn(q, {})) \in Nat
  BY FewAtWork
<1>3. q.fetch[k].conn = NoConn /\ q.fetch[k].at \notin {"connecting", "greeting", "answer"}
  BY DEF NoFetch
<1>4. AtWorkIn(q, {}) = AtWorkIn(p, {k})
  BY <1>3 DEF AtWorkIn
<1>5. \A j \in Callers \ {k} : j \in DueIn(q, {}) <=> j \in DueIn(p, {k})
  BY DEF DueIn, SameButCalls
<1>6. k \notin DueIn(p, {k}) /\ DueIn(p, {k}) \subseteq Callers /\ DueIn(q, {}) \subseteq Callers
  BY DEF DueIn
<1>7. q.fetch[k] = NoFetch => k \notin DueIn(q, {})
  BY <1>3 DEF DueIn, NoFetch
<1>8. /\ Cardinality(DueIn(q, {})) <= Cardinality(DueIn(p, {k})) + 1
      /\ q.fetch[k] = NoFetch => Cardinality(DueIn(q, {})) = Cardinality(DueIn(p, {k}))
  <2>1. CASE k \in DueIn(q, {})
    <3>1. DueIn(q, {}) = DueIn(p, {k}) \cup {k}
      BY <1>5, <1>6, <2>1
    <3>2. Cardinality(DueIn(p, {k}) \cup {k}) =
             IF k \in DueIn(p, {k}) THEN Cardinality(DueIn(p, {k}))
             ELSE Cardinality(DueIn(p, {k})) + 1
      BY <1>2, FS_AddElement
    <3>3. Cardinality(DueIn(q, {})) = Cardinality(DueIn(p, {k})) + 1
      BY <1>6, <3>1, <3>2
    <3> QED
      BY <1>2, <1>7, <2>1, <3>3
  <2>2. CASE k \notin DueIn(q, {})
    <3>1. \A j : j \in DueIn(q, {}) <=> j \in DueIn(p, {k})
      BY <1>5, <1>6, <2>2
    <3>2. DueIn(q, {}) = DueIn(p, {k})
      BY <3>1
    <3> QED
      BY <1>2, <3>2
  <2> QED
    BY <2>1, <2>2
<1>9. CallsKnown(q, {})
  <2>1. /\ q.fetch[k].at = "none" => q.fetch[k] = NoFetch
        /\ q.fetch[k].at # "none" => q.fetch[k].wants \in Articles
    BY DEF NoFetch
  <2> QED
    BY <1>1, <1>3, <2>1 DEF CallsKnown
<1>10. WaitersKnown(q, {})
  <2>1. CASE q.waiters = p.waiters /\ q.fetch[k].at # "queued"
    <3>1. ~InQueue(q.waiters, k)
      BY <1>1, <2>1 DEF WaitersKnown
    <3> QED
      BY <1>1, <2>1, <3>1 DEF WaitersKnown
  <2>2. CASE q.waiters = Append(p.waiters, k) /\ q.fetch[k].at = "queued"
    <3>1. /\ p.waiters \in Seq(Callers) /\ Len(q.waiters) = Len(p.waiters) + 1
          /\ Len(p.waiters) \in Nat /\ q.waiters \in Seq(Callers)
          /\ q.waiters[Len(p.waiters) + 1] = k
          /\ \A n \in DOMAIN p.waiters : n \in DOMAIN q.waiters /\ q.waiters[n] = p.waiters[n]
      BY <2>2 DEF Pools
    <3>2. \A n \in DOMAIN q.waiters : n \in DOMAIN p.waiters \/ n = Len(p.waiters) + 1
      BY <3>1
    <3>3. \A n \in DOMAIN p.waiters : p.waiters[n] # k
      BY <1>1 DEF WaitersKnown, InQueue
    <3>4. \A j \in Callers : InQueue(q.waiters, j) <=> InQueue(p.waiters, j) \/ j = k
      <4>1. Len(p.waiters) + 1 \in DOMAIN q.waiters
        BY <3>1
      <4> QED
        BY <3>1, <3>2, <4>1 DEF InQueue
    <3>5. \A m, n \in DOMAIN q.waiters : q.waiters[m] = q.waiters[n] => m = n
      <4>1. \A m, n \in DOMAIN p.waiters : p.waiters[m] = p.waiters[n] => m = n
        BY <1>1 DEF WaitersKnown
      <4> QED
        BY <3>1, <3>2, <3>3, <4>1
    <3>6. \A j \in Callers : q.fetch[j].at = "queued" <=> InQueue(q.waiters, j)
      BY <1>1, <2>2, <3>4 DEF WaitersKnown
    <3> QED
      BY <3>5, <3>6 DEF WaitersKnown
  <2> QED
    BY <2>1, <2>2 DEF NoFetch
<1>11. IdleKnown(q, ls, {})
  <2>1. \A c \in Conns : ~Uses(q, k, c)
    BY <1>3, PoolSizes DEF Uses
  <2>2. \A c \in Conns : IsIdle(q, c) <=> IsIdle(p, c)
    BY DEF IsIdle, SameButCalls
  <2>3. \A c \in Conns : \A j \in Callers \ {k} : Uses(q, j, c) <=> Uses(p, j, c)
    BY DEF Uses
  <2> QED
    BY <1>1, <2>1, <2>2, <2>3 DEF IdleKnown, SameButCalls
<1>12. UsedAlone(q, ls, {})
  BY <1>1, <1>4 DEF UsedAlone, AtWorkIn, Expects, SameButCalls
<1>13. SocketsKnown(q, ls, {})
  <2>1. \A c \in Conns : IsIdle(q, c) <=> IsIdle(p, c)
    BY DEF IsIdle, SameButCalls
  <2>2. \A c \in Conns : \A j \in Callers \ {k} : Uses(q, j, c) <=> Uses(p, j, c)
    BY DEF Uses
  <2> QED
    BY <1>1, <2>1, <2>2 DEF SocketsKnown, SameButCalls
<1>14. PermitsCount(q, 0, {})
  BY <1>1, <1>4 DEF PermitsCount, SameButCalls
<1>15. Shut(q, shut, {})
  BY <1>1, <1>4 DEF Shut, AtWorkIn, SameButCalls
<1>16. RoomLeft(q, shut, {}, t)
  <2>1. p.made \in Nat /\ q.made = p.made
    BY DEF Pools, SameButCalls
  <2> QED
    BY <1>1, <1>2, <1>8, <2>1 DEF RoomLeft
<1> QED
  BY <1>1, <1>9, <1>10, <1>11, <1>12, <1>13, <1>14, <1>15, <1>16 DEF PoolSound

\* A call without a connection is taken out of its pause or of the queue.
TakenOut(k, p, q, shut) ==
    /\ SameButCalls(p, q) /\ p.fetch[k].at \in {"none", "pause", "queued"}
    /\ \A j \in Callers \ {k} : q.fetch[j] = p.fetch[j]
    /\ \A j \in Callers : InQueue(q.waiters, j) <=> InQueue(p.waiters, j) /\ j # k
    /\ \A m, n \in DOMAIN q.waiters : q.waiters[m] = q.waiters[n] => m = n
    /\ shut => q.waiters = <<>>
LEMMA ExemptKeeps ==
    ASSUME NEW p \in Pools, NEW ls, NEW shut \in BOOLEAN, NEW k \in Callers, NEW s \in Int,
           PoolSound(p, ls, shut, 0, {}, s), NEW q \in Pools, TakenOut(k, p, q, shut),
           NEW t \in Int, t >= IF p.fetch[k].at = "none" THEN s ELSE s - 1
    PROVE  PoolSound(q, ls, shut, 0, {k}, t)
<1> USE DEF TakenOut
<1>1. /\ ls \in [Conns -> Seq(Lines)]
      /\ CallsKnown(p, {}) /\ WaitersKnown(p, {}) /\ IdleKnown(p, ls, {})
      /\ UsedAlone(p, ls, {}) /\ SocketsKnown(p, ls, {}) /\ PermitsCount(p, 0, {})
      /\ Shut(p, shut, {}) /\ RoomLeft(p, shut, {}, s)
  BY DEF PoolSound
<1>2. /\ IsFiniteSet(DueIn(p, {})) /\ Cardinality(DueIn(p, {})) \in Nat
      /\ IsFiniteSet(DueIn(q, {k})) /\ Cardinality(DueIn(q, {k})) \in Nat
  BY FewAtWork
<1>3. p.fetch[k].conn = NoConn
  BY <1>1 DEF CallsKnown
<1>4. AtWorkIn(q, {k}) = AtWorkIn(p, {})
  <2>1. \A j \in Callers : j \in Callers \ {k} /\ q.fetch[j].conn # NoConn
                       <=> p.fetch[j].conn # NoConn
    BY <1>3
  <2> QED
    BY <2>1 DEF AtWorkIn
<1>5. DueIn(q, {k}) = DueIn(p, {}) \ {k}
  BY DEF DueIn, SameButCalls
<1>6. k \in DueIn(p, {}) <=> p.fetch[k].at # "none"
  BY <1>3 DEF DueIn
<1>7. Cardinality(DueIn(q, {k})) = IF p.fetch[k].at # "none" THEN Cardinality(DueIn(p, {})) - 1
                                   ELSE Cardinality(DueIn(p, {}))
  <2>1. Cardinality(DueIn(p, {}) \ {k}) =
           IF k \in DueIn(p, {}) THEN Cardinality(DueIn(p, {})) - 1 ELSE Cardinality(DueIn(p, {}))
    BY <1>2, FS_RemoveElement
  <2> QED
    BY <1>5, <1>6, <2>1
<1>8. CallsKnown(q, {k})
  BY <1>1 DEF CallsKnown
<1>9. WaitersKnown(q, {k})
  BY <1>1 DEF WaitersKnown
<1>10. \A c \in Conns : /\ IsIdle(q, c) <=> IsIdle(p, c)
                        /\ ~Uses(p, k, c)
                        /\ \A j \in Callers \ {k} : Uses(q, j, c) <=> Uses(p, j, c)
  BY <1>3, PoolSizes DEF IsIdle, Uses, SameButCalls
<1>11. IdleKnown(q, ls, {k})
  BY <1>1, <1>10 DEF IdleKnown, SameButCalls
<1>12. UsedAlone(q, ls, {k})
  BY <1>1, <1>4 DEF UsedAlone, AtWorkIn, Expects, SameButCalls
<1>13. SocketsKnown(q, ls, {k})
  <2>1. \A c \in Conns : (\E j \in Callers : Uses(p, j, c)) => \E j \in Callers \ {k} : Uses(q, j, c)
    BY <1>10
  <2> QED
    BY <1>1, <1>10, <2>1 DEF SocketsKnown, SameButCalls
<1>14. PermitsCount(q, 0, {k})
  BY <1>1, <1>4 DEF PermitsCount, SameButCalls
<1>15. Shut(q, shut, {k})
  BY <1>1, <1>4 DEF Shut, AtWorkIn, SameButCalls
<1>16. RoomLeft(q, shut, {k}, t)
  <2>1. p.made \in Nat /\ q.made = p.made
    BY DEF Pools, SameButCalls
  <2> QED
    BY <1>1, <1>2, <1>7, <2>1 DEF RoomLeft
<1> QED
  BY <1>1, <1>8, <1>9, <1>11, <1>12, <1>13, <1>14, <1>15, <1>16 DEF PoolSound

\* A call that is new or tries again takes its place, or queues for one.
LEMMA AcquiresKeeps ==
    ASSUME NEW p \in Pools, NEW ls, NEW k \in Callers, NEW s \in Int, s + 1 <= MaxSockets,
           PoolSound(p, ls, FALSE, 0, {k}, s), p.fetch[k].wants \in Articles,
           p.fetch[k].conn = NoConn, NEW q, q = Acquires(p, k)
    PROVE  q \in Pools /\ PoolSound(q, ls, FALSE, 0, {}, s + 1)
<1>1. /\ ls \in [Conns -> Seq(Lines)]
      /\ CallsKnown(p, {k}) /\ WaitersKnown(p, {k}) /\ IdleKnown(p, ls, {k})
      /\ UsedAlone(p, ls, {k}) /\ SocketsKnown(p, ls, {k}) /\ PermitsCount(p, 0, {k})
      /\ Shut(p, FALSE, {k}) /\ RoomLeft(p, FALSE, {k}, s)
  BY DEF PoolSound
<1>2. Cardinality(AtWorkIn(p, {k})) \in Nat
  BY FewAtWork
<1>3. CASE p.active < Places
  <2>1. PICK r : r = [p EXCEPT !.active = p.active + 1]
    OBVIOUS
  <2>2. /\ r \in Pools /\ r.socket = p.socket /\ r.owes = p.owes /\ r.idle = p.idle
        /\ r.waiters = p.waiters /\ r.made = p.made /\ r.fetch = p.fetch
        /\ r.active = p.active + 1
    <3>1. p.active + 1 \in Nat
      BY DEF Pools
    <3> QED
      BY <2>1, <3>1 DEF Pools
  <2>3. AtWorkIn(r, {k}) = AtWorkIn(p, {k}) /\ DueIn(r, {k}) = DueIn(p, {k})
    BY <2>2 DEF AtWorkIn, DueIn
  <2>4. CallsKnown(r, {k}) /\ WaitersKnown(r, {k})
    BY <1>1, <2>2 DEF CallsKnown, WaitersKnown
  <2>5. IdleKnown(r, ls, {k}) /\ SocketsKnown(r, ls, {k})
    BY <1>1, <2>2 DEF IdleKnown, SocketsKnown, IsIdle, Uses
  <2>6. UsedAlone(r, ls, {k})
    BY <1>1, <2>2, <2>3 DEF UsedAlone, Expects
  <2>7. PermitsCount(r, 1, {k})
    BY <1>1, <1>2, <1>3, <2>2, <2>3, PoolSizes DEF PermitsCount
  <2>8. Shut(r, FALSE, {k}) /\ RoomLeft(r, FALSE, {k}, s)
    BY <1>1, <2>2, <2>3 DEF Shut, RoomLeft
  <2>9. PoolSound(r, ls, FALSE, 1, {k}, s)
    BY <1>1, <2>2, <2>4, <2>5, <2>6, <2>7, <2>8 DEF PoolSound
  <2>10. q = TakesConn(r, k) /\ r.fetch[k].wants \in Articles /\ k \in {k} /\ {k} \in SUBSET Callers
    BY <1>3, <2>1, <2>2 DEF Acquires
  <2>11. PICK X \in SUBSET Callers : X = {k}
    OBVIOUS
  <2>12. PoolSound(q, ls, FALSE, 0, X \ {k}, s + 1)
    BY <2>2, <2>9, <2>10, <2>11, TakesKeeps
  <2>13. X \ {k} = {}
    BY <2>11
  <2> QED
    BY <2>12, <2>13 DEF PoolSound
<1>4. CASE ~(p.active < Places)
  <2>1. PICK a : a = [p.fetch[k] EXCEPT !.at = "queued"]
    OBVIOUS
  <2>2. /\ a \in FetchRecords /\ a.at = "queued" /\ a.wants \in Articles /\ a.conn = NoConn
    BY <2>1 DEF Pools, FetchRecords, FetchStates
  <2>3. PICK f : f = [p.fetch EXCEPT ![k] = a]
    OBVIOUS
  <2>4. f \in [Callers -> FetchRecords] /\ f[k] = a /\ \A j \in Callers \ {k} : f[j] = p.fetch[j]
    BY <2>2, <2>3 DEF Pools
  <2>5. q = [p EXCEPT !.waiters = Append(p.waiters, k), !.fetch = f]
    BY <1>4, <2>1, <2>3 DEF Acquires, Pools
  <2>6. Append(p.waiters, k) \in Seq(Callers)
    BY DEF Pools
  <2>7. q \in Pools /\ q.waiters = Append(p.waiters, k) /\ q.fetch = f /\ SameButCalls(p, q)
    BY <2>4, <2>5, <2>6 DEF Pools, SameButCalls
  <2>8. /\ q.fetch[k].at = "queued" /\ q.waiters = Append(p.waiters, k) /\ s + 1 >= s + 1
        /\ q.fetch[k].wants \in Articles /\ q.fetch[k].conn = NoConn /\ ~FALSE
        /\ \A j \in Callers \ {k} : q.fetch[j] = p.fetch[j] /\ s + 1 \in Int
    BY <2>2, <2>4, <2>7
  <2>9. PICK t \in Int : t = s + 1
    OBVIOUS
  <2>10. PoolSound(q, ls, FALSE, 0, {}, t)
    BY <2>7, <2>8, <2>9, SettlesKeeps
  <2> QED
    BY <2>7, <2>9, <2>10
<1> QED
  BY <1>3, <1>4

LEMMA OverKeeps ==
    ASSUME NEW p \in Pools, NEW ls, NEW shut \in BOOLEAN, NEW k \in Callers, NEW s \in Int,
           NEW t \in Int, t >= s, PoolSound(p, ls, shut, 0, {k}, s), NEW q, q = Over(p, k)
    PROVE  q \in Pools /\ PoolSound(q, ls, shut, 0, {}, t)
<1>1. NoFetch \in FetchRecords
  BY PoolSizes DEF NoFetch, FetchRecords, FetchStates, Retries
<1>2. PICK f : f = [p.fetch EXCEPT ![k] = NoFetch]
  OBVIOUS
<1>3. f \in [Callers -> FetchRecords] /\ f[k] = NoFetch /\ \A j \in Callers \ {k} : f[j] = p.fetch[j]
  BY <1>1, <1>2 DEF Pools
<1>4. q = [p EXCEPT !.fetch = f]
  BY <1>2 DEF Over, Pools
<1>5. q \in Pools /\ q.waiters = p.waiters /\ q.fetch = f /\ SameButCalls(p, q)
  BY <1>3, <1>4 DEF Pools, SameButCalls
<1>6. q.fetch[k] = NoFetch /\ \A j \in Callers \ {k} : q.fetch[j] = p.fetch[j]
  BY <1>3, <1>5
<1> QED
  BY <1>5, <1>6, SettlesKeeps

LEMMA AgainKeeps ==
    ASSUME NEW p \in Pools, NEW ls, NEW k \in Callers, NEW s \in Int, NEW t \in Int,
           t >= IF closed THEN s ELSE s + 1,
           closed \in BOOLEAN, PoolSound(p, ls, closed, 0, {k}, s),
           p.fetch[k].wants \in Articles, NEW q, q = Again(p, k)
    PROVE  q \in Pools /\ PoolSound(q, ls, closed, 0, {}, t)
<1>1. CASE closed \/ p.fetch[k].tries = Retries
  <2>1. q = Over(p, k) /\ t >= s
    BY <1>1 DEF Again
  <2> QED
    BY <2>1, OverKeeps
<1>2. CASE ~closed /\ p.fetch[k].tries # Retries
  <2>1. q = [p EXCEPT !.fetch[k] = [p.fetch[k] EXCEPT !.at = "pause",
                                      !.tries = p.fetch[k].tries + 1, !.conn = NoConn]]
    BY <1>2 DEF Again
  <2>2. PICK a : a = [p.fetch[k] EXCEPT !.at = "pause", !.tries = p.fetch[k].tries + 1,
                                        !.conn = NoConn]
    OBVIOUS
  <2>3. a \in FetchRecords /\ a.at = "pause" /\ a.wants \in Articles /\ a.conn = NoConn
    <3>1. p.fetch[k] \in FetchRecords
      BY DEF Pools
    <3>2. p.fetch[k].tries + 1 \in 0 .. Retries
      BY <1>2, <3>1 DEF FetchRecords, Retries
    <3> QED
      BY <2>2, <3>1, <3>2 DEF FetchRecords, FetchStates
  <2>4. PICK f : f = [p.fetch EXCEPT ![k] = a]
    OBVIOUS
  <2>5. f \in [Callers -> FetchRecords] /\ f[k] = a /\ \A j \in Callers \ {k} : f[j] = p.fetch[j]
    BY <2>3, <2>4 DEF Pools
  <2>6. q = [p EXCEPT !.fetch = f]
    BY <2>1, <2>2, <2>4 DEF Pools
  <2>7. q \in Pools /\ q.waiters = p.waiters /\ q.fetch = f /\ SameButCalls(p, q)
    BY <2>5, <2>6 DEF Pools, SameButCalls
  <2>8. /\ q.fetch[k].at = "pause" /\ q.fetch[k].wants \in Articles /\ q.fetch[k].conn = NoConn
        /\ \A j \in Callers \ {k} : q.fetch[j] = p.fetch[j]
    BY <2>3, <2>5, <2>7
  <2>9. t >= s + 1
    BY <1>2
  <2> QED
    BY <2>7, <2>8, <2>9, SettlesKeeps
<1> QED
  BY <1>1, <1>2

\* A call leaves its connection, which is kept for the next one or is not.
OnlyAt(c, f, g) == \A d \in Conns \ {c} : g[d] = f[d]
LeftAt(c, p, q, ls, shut) ==
    /\ q.waiters = p.waiters /\ q.active = p.active /\ q.made = p.made /\ q.fetch = p.fetch
    /\ q.owes = p.owes /\ OnlyAt(c, p.socket, q.socket)
    /\ \/ /\ q.idle = p.idle /\ q.socket[c] \notin {"connecting", "open"}
          /\ shut => q.socket[c] \in {"new", "destroyed"}
       \/ /\ q.idle = Append(p.idle, c) /\ q.socket[c] = p.socket[c] /\ ~shut
          /\ q.owes[c] = <<>> /\ Quiet(ls[c])
LEMMA LeavesKeeps ==
    ASSUME NEW p \in Pools, NEW ks, NEW ls \in [Conns -> Seq(Lines)], NEW shut \in BOOLEAN,
           NEW k \in Callers, NEW s \in Int, PoolSound(p, ks, shut, 0, {}, s),
           NEW c \in Conns, p.fetch[k].conn = c, OnlyAt(c, ks, ls),
           NEW q \in Pools, LeftAt(c, p, q, ls, shut),
           NEW t \in Int, t >= IF p.socket[c] = "lost" THEN s - 1 ELSE s
    PROVE  PoolSound(q, ls, shut, 1, {k}, t)
<1> USE DEF OnlyAt, LeftAt
<1>1. /\ CallsKnown(p, {}) /\ WaitersKnown(p, {}) /\ IdleKnown(p, ks, {})
      /\ UsedAlone(p, ks, {}) /\ SocketsKnown(p, ks, {}) /\ PermitsCount(p, 0, {})
      /\ Shut(p, shut, {}) /\ RoomLeft(p, shut, {}, s)
  BY DEF PoolSound
<1>2. /\ IsFiniteSet(AtWorkIn(p, {})) /\ Cardinality(AtWorkIn(p, {})) \in Nat
      /\ IsFiniteSet(DueIn(p, {})) /\ Cardinality(DueIn(p, {})) \in Nat
      /\ IsFiniteSet(DueIn(q, {k})) /\ Cardinality(DueIn(q, {k})) \in Nat
  BY FewAtWork
<1>3. /\ c # NoConn /\ k \in AtWorkIn(p, {}) /\ c <= p.made
      /\ p.fetch[k].at \in {"connecting", "greeting", "answer"}
  BY <1>1, PoolSizes DEF AtWorkIn, UsedAlone, CallsKnown
<1>4. \A j \in Callers \ {k} : p.fetch[j].conn \in (Conns \ {c}) \cup {NoConn}
  BY <1>1, <1>3 DEF UsedAlone, AtWorkIn, Pools, FetchRecords
<1>5. AtWorkIn(q, {k}) = AtWorkIn(p, {}) \ {k}
  BY DEF AtWorkIn
<1>6. DueIn(q, {k}) = DueIn(p, {}) \ {k}
  BY <1>4 DEF DueIn
<1>7. k \in DueIn(p, {}) <=> p.socket[c] = "lost"
  BY <1>3 DEF DueIn
<1>8. Cardinality(DueIn(q, {k})) = IF p.socket[c] = "lost" THEN Cardinality(DueIn(p, {})) - 1
                                   ELSE Cardinality(DueIn(p, {}))
  <2>1. Cardinality(DueIn(p, {}) \ {k}) =
           IF k \in DueIn(p, {}) THEN Cardinality(DueIn(p, {})) - 1 ELSE Cardinality(DueIn(p, {}))
    BY <1>2, FS_RemoveElement
  <2> QED
    BY <1>6, <1>7, <2>1
<1>9. Cardinality(AtWorkIn(q, {k})) = Cardinality(AtWorkIn(p, {})) - 1
  <2>1. Cardinality(AtWorkIn(p, {}) \ {k}) =
           IF k \in AtWorkIn(p, {}) THEN Cardinality(AtWorkIn(p, {})) - 1
           ELSE Cardinality(AtWorkIn(p, {}))
    BY <1>2, FS_RemoveElement
  <2> QED
    BY <1>3, <1>5, <2>1
<1>10. CallsKnown(q, {k})
  BY <1>1 DEF CallsKnown
<1>11. WaitersKnown(q, {k})
  BY <1>1, <1>3 DEF WaitersKnown
<1>12. ~IsIdle(p, c) /\ \A j \in Callers \ {k} : ~Uses(q, j, c)
  BY <1>1, <1>3, <1>4 DEF IdleKnown, Uses
<1>13. /\ p.idle \in Seq(Conns) /\ Len(p.idle) \in Nat
       /\ \A n \in DOMAIN p.idle : /\ n \in Nat /\ n <= Len(p.idle) /\ p.idle[n] # c
                                   /\ n \in DOMAIN q.idle /\ q.idle[n] = p.idle[n]
       /\ \A n \in DOMAIN q.idle : n \in DOMAIN p.idle \/ (q.idle[n] = c /\ n = Len(p.idle) + 1)
       /\ Len(q.idle) <= Len(p.idle) + 1
  <2>1. p.idle \in Seq(Conns) /\ \A n \in DOMAIN p.idle : p.idle[n] # c
    BY <1>12 DEF IsIdle, Pools
  <2>2. /\ Len(p.idle) \in Nat /\ DOMAIN p.idle = 1 .. Len(p.idle)
        /\ \A n \in DOMAIN p.idle : n \in Nat /\ n <= Len(p.idle)
    BY <2>1
  <2>3. CASE q.idle = p.idle
    <3>1. \A n \in DOMAIN q.idle : n \in DOMAIN p.idle
      BY <2>3
    <3>2. Len(q.idle) <= Len(p.idle) + 1
      BY <2>2, <2>3
    <3> QED
      BY <2>1, <2>2, <2>3, <3>1, <3>2
  <2>4. CASE q.idle = Append(p.idle, c)
    <3>1. /\ Len(q.idle) = Len(p.idle) + 1 /\ DOMAIN q.idle = 1 .. Len(p.idle) + 1
          /\ q.idle[Len(p.idle) + 1] = c
          /\ \A n \in DOMAIN p.idle : q.idle[n] = p.idle[n]
      BY <2>1, <2>2, <2>4
    <3>2. \A n \in DOMAIN q.idle : n \in DOMAIN p.idle \/ (q.idle[n] = c /\ n = Len(p.idle) + 1)
      BY <2>2, <3>1
    <3>3. \A n \in DOMAIN p.idle : n \in DOMAIN q.idle
      BY <2>2, <3>1
    <3>4. Len(q.idle) <= Len(p.idle) + 1
      BY <2>2, <3>1
    <3> QED
      BY <2>1, <2>2, <3>1, <3>2, <3>3, <3>4
  <2> QED
    BY <2>3, <2>4
<1>14. \A d \in Conns \ {c} : /\ IsIdle(q, d) <=> IsIdle(p, d)
                              /\ \A j \in Callers \ {k} : Uses(q, j, d) <=> Uses(p, j, d)
  BY <1>13 DEF IsIdle, Uses
<1>15. IdleKnown(q, ls, {k})
  <2>1. \A m, n \in DOMAIN q.idle : q.idle[m] = q.idle[n] => m = n
    <3>1. \A m, n \in DOMAIN p.idle : p.idle[m] = p.idle[n] => m = n
      BY <1>1 DEF IdleKnown
    <3> QED
      BY <1>13, <3>1
  <2>2. ASSUME NEW d \in Conns, IsIdle(q, d)
        PROVE  /\ d <= q.made /\ q.owes[d] = <<>> /\ Quiet(ls[d])
               /\ \A j \in Callers \ {k} : ~Uses(q, j, d)
    <3>1. CASE d = c
      <4>1. q.owes[c] = <<>> /\ Quiet(ls[c])
        BY <1>12, <2>2, <3>1 DEF IsIdle
      <4> QED
        BY <1>3, <1>12, <3>1, <4>1
    <3>2. CASE d # c
      <4>1. IsIdle(p, d)
        BY <1>14, <2>2, <3>2
      <4>2. d <= p.made /\ p.owes[d] = <<>> /\ Quiet(ks[d]) /\ \A j \in Callers : ~Uses(p, j, d)
        BY <1>1, <4>1 DEF IdleKnown
      <4> QED
        BY <1>14, <3>2, <4>2
    <3> QED
      BY <3>1, <3>2
  <2> QED
    BY <2>1, <2>2 DEF IdleKnown
<1>16. UsedAlone(q, ls, {k})
  <2>1. \A j \in AtWorkIn(q, {k}) : /\ j \in AtWorkIn(p, {}) /\ p.fetch[j].conn \in Conns \ {c}
                                    /\ p.fetch[j].conn <= p.made /\ Expects(p, ks, j)
    BY <1>1, <1>4, <1>5 DEF UsedAlone, AtWorkIn
  <2>2. \A j \in AtWorkIn(q, {k}) : Expects(q, ls, j)
    BY <2>1 DEF Expects
  <2> QED
    BY <1>1, <2>1, <2>2 DEF UsedAlone
<1>17. SocketsKnown(q, ls, {k})
  <2>1. ASSUME NEW d \in Conns, d > q.made
        PROVE  q.socket[d] = "new" /\ ls[d] = <<>>
    <3>1. d # c
      BY <1>3, <2>1 DEF Conns, Pools
    <3> QED
      BY <1>1, <2>1, <3>1 DEF SocketsKnown
  <2>2. ASSUME NEW d \in Conns, q.socket[d] \in {"connecting", "open"}
        PROVE  IsIdle(q, d) \/ \E j \in Callers \ {k} : Uses(q, j, d)
    <3>1. CASE d = c
      <4>1. q.idle = Append(p.idle, c)
        BY <2>2, <3>1
      <4>2. Len(p.idle) + 1 \in DOMAIN q.idle /\ q.idle[Len(p.idle) + 1] = c
        BY <1>13, <4>1
      <4> QED
        BY <3>1, <4>2 DEF IsIdle
    <3>2. CASE d # c
      <4>1. IsIdle(p, d) \/ \E j \in Callers : Uses(p, j, d)
        BY <1>1, <2>2, <3>2 DEF SocketsKnown
      <4>2. ~Uses(p, k, d)
        BY <3>2 DEF Uses
      <4> QED
        BY <1>14, <3>2, <4>1, <4>2
    <3> QED
      BY <3>1, <3>2
  <2> QED
    BY <2>1, <2>2 DEF SocketsKnown
<1>18. PermitsCount(q, 1, {k})
  <2>1. /\ p.active = Cardinality(AtWorkIn(p, {})) /\ p.active <= Places
        /\ Cardinality(AtWorkIn(p, {})) + Len(p.idle) <= Places
    BY <1>1, <1>2 DEF PermitsCount
  <2>2. Len(q.idle) \in Nat
    BY DEF Pools
  <2>3. PICK m : m = Cardinality(AtWorkIn(p, {}))
    OBVIOUS
  <2>4. /\ Cardinality(AtWorkIn(q, {k})) = m - 1 /\ m \in Nat
        /\ p.active = m /\ p.active <= Places /\ m + Len(p.idle) <= Places
    BY <1>2, <1>9, <2>1, <2>3
  <2>5. /\ q.active = (m - 1) + 1 /\ q.active <= Places /\ (m - 1) + Len(q.idle) <= Places
    <3>1. Len(p.idle) \in Nat /\ Places \in Nat /\ q.active = p.active
      BY PoolSizes DEF Pools
    <3>2. Len(q.idle) <= Len(p.idle) + 1
      BY <1>13
    <3>3. p.active = m /\ m \in Nat /\ p.active <= Places /\ m + Len(p.idle) <= Places
      BY <2>4
    <3> QED
      BY ONLY <2>2, <3>1, <3>2, <3>3
  <2> QED
    BY ONLY <2>4, <2>5 DEF PermitsCount
<1>19. Shut(q, shut, {k})
  <2>1. CASE shut
    BY <1>1, <2>1 DEF Shut
  <2>2. CASE ~shut
    <3>1. \A j \in AtWorkIn(q, {k}) : j \in AtWorkIn(p, {}) /\ p.fetch[j].conn \in Conns \ {c}
      BY <1>4, <1>5 DEF AtWorkIn
    <3>2. \A j \in AtWorkIn(p, {}) :
             p.socket[p.fetch[j].conn] \in IF p.fetch[j].at = "connecting" THEN {"connecting"}
                                           ELSE {"open", "lost"}
      BY <1>1, <2>2 DEF Shut
    <3>3. \A j \in AtWorkIn(q, {k}) :
             q.socket[q.fetch[j].conn] \in IF q.fetch[j].at = "connecting" THEN {"connecting"}
                                           ELSE {"open", "lost"}
      BY <3>1, <3>2
    <3> QED
      BY <2>2, <3>3 DEF Shut
  <2> QED
    BY <2>1, <2>2
<1>20. RoomLeft(q, shut, {k}, t)
  <2>1. p.made \in Nat
    BY DEF Pools
  <2> QED
    BY <1>1, <1>2, <1>8, <2>1 DEF RoomLeft
<1> QED
  BY <1>10, <1>11, <1>15, <1>16, <1>17, <1>18, <1>19, <1>20 DEF PoolSound

\* A call leaves a connection that is destroyed, and releases its permit.
LEMMA DropKeeps ==
    ASSUME NEW p \in Pools, NEW ks, NEW ls \in [Conns -> Seq(Lines)], closed \in BOOLEAN,
           NEW k \in Callers, NEW s \in Int, PoolSound(p, ks, closed, 0, {}, s),
           NEW c \in Conns, p.fetch[k].conn = c, OnlyAt(c, ks, ls),
           NEW t \in Int, t >= IF p.socket[c] = "lost" THEN s - 1 ELSE s, t <= MaxSockets,
           NEW q, q = Returned(Destroyed(p, c), k)
    PROVE  q \in Pools /\ PoolSound(q, ls, closed, 0, {k}, t) /\ Untouched(p, q, {k})
<1>1. PICK u : u = [p.socket EXCEPT ![c] = "destroyed"]
  OBVIOUS
<1>2. /\ u \in [Conns -> SocketStates] /\ u[c] = "destroyed"
      /\ \A d \in Conns \ {c} : u[d] = p.socket[d]
  BY <1>1 DEF Pools, SocketStates
<1>3. PICK r : r = Destroyed(p, c)
  OBVIOUS
<1>4. r = [p EXCEPT !.socket = u]
  BY <1>1, <1>3 DEF Destroyed, Pools
<1>5. /\ r \in Pools /\ r.socket = u /\ r.owes = p.owes /\ r.idle = p.idle
      /\ r.waiters = p.waiters /\ r.made = p.made /\ r.fetch = p.fetch
      /\ r.active = p.active
  BY <1>2, <1>4 DEF Pools
<1>6. LeftAt(c, p, r, ls, closed) /\ r.fetch[k].conn = c /\ r.socket[c] # "open"
  BY <1>2, <1>5 DEF LeftAt, OnlyAt
<1>7. PoolSound(r, ls, closed, 1, {k}, t)
  BY <1>5, <1>6, LeavesKeeps
<1>8. q = Released(r)
  BY <1>3, <1>5, <1>6 DEF Returned
<1>9. PICK X \in SUBSET Callers : X = {k}
  OBVIOUS
<1>10. q \in Pools /\ PoolSound(q, ls, closed, 0, X, t) /\ Untouched(r, q, X)
  BY <1>5, <1>7, <1>8, <1>9, ReleasedKeeps
<1> QED
  BY <1>5, <1>9, <1>10 DEF Untouched

\* A call leaves a connection that has answered it, and releases its permit.
LEMMA GiveBackKeeps ==
    ASSUME NEW p \in Pools, NEW ks, NEW ls \in [Conns -> Seq(Lines)], closed \in BOOLEAN,
           NEW k \in Callers, NEW s \in Int, PoolSound(p, ks, closed, 0, {}, s),
           NEW c \in Conns, p.fetch[k].conn = c, OnlyAt(c, ks, ls),
           p.fetch[k].at = "answer", p.owes[c] = <<>>, Quiet(ls[c]),
           NEW t \in Int, t >= IF p.socket[c] = "lost" THEN s - 1 ELSE s, t <= MaxSockets,
           NEW q, q = Returned(p, k)
    PROVE  q \in Pools /\ PoolSound(q, ls, closed, 0, {k}, t) /\ Untouched(p, q, {k})
<1>1. PICK r : r = IF p.socket[c] = "open" /\ ~closed THEN [p EXCEPT !.idle = Append(p.idle, c)]
                   ELSE p
  OBVIOUS
<1>2. /\ r \in Pools /\ r.socket = p.socket /\ r.owes = p.owes
      /\ r.waiters = p.waiters /\ r.made = p.made /\ r.fetch = p.fetch /\ r.active = p.active
      /\ r.idle = IF p.socket[c] = "open" /\ ~closed THEN Append(p.idle, c) ELSE p.idle
  <2>1. CASE p.socket[c] = "open" /\ ~closed
    <3>1. Append(p.idle, c) \in Seq(Conns)
      BY DEF Pools
    <3>2. r = [p EXCEPT !.idle = Append(p.idle, c)]
      BY <1>1, <2>1
    <3> QED
      BY <2>1, <3>1, <3>2 DEF Pools
  <2>2. CASE ~(p.socket[c] = "open" /\ ~closed)
    BY <1>1, <2>2
  <2> QED
    BY <2>1, <2>2
<1>3. Shut(p, closed, {}) /\ k \in AtWorkIn(p, {})
  BY PoolSizes DEF PoolSound, AtWorkIn
<1>4. closed => p.socket[c] \in {"new", "destroyed"}
  BY <1>3 DEF Shut
<1>5. ~closed => p.socket[c] \in {"open", "lost"}
  BY <1>3 DEF Shut
<1>6. PoolSound(r, ls, closed, 1, {k}, t)
  <2>1. CASE p.socket[c] = "open" /\ ~closed
    <3>1. LeftAt(c, p, r, ls, closed)
      BY <1>2, <2>1 DEF LeftAt, OnlyAt
    <3> QED
      BY <1>2, <2>1, <3>1, LeavesKeeps
  <2>2. CASE ~(p.socket[c] = "open" /\ ~closed)
    <3>1. LeftAt(c, p, r, ls, closed)
      BY <1>2, <1>4, <1>5, <2>2 DEF LeftAt, OnlyAt
    <3> QED
      BY <1>2, <3>1, LeavesKeeps
  <2> QED
    BY <2>1, <2>2
<1>7. q = Released(r)
  BY <1>1 DEF Returned
<1>8. PICK X \in SUBSET Callers : X = {k}
  OBVIOUS
<1>9. q \in Pools /\ PoolSound(q, ls, closed, 0, X, t) /\ Untouched(r, q, X)
  BY <1>2, <1>6, <1>7, <1>8, ReleasedKeeps
<1> QED
  BY <1>2, <1>8, <1>9 DEF Untouched

\* Something happens to a connection in use, which its call keeps.
StaysAt(c, k, p, q, ls) ==
    /\ p.fetch[k].conn = c
    /\ q.waiters = p.waiters /\ q.active = p.active /\ q.made = p.made /\ q.idle = p.idle
    /\ OnlyAt(c, p.socket, q.socket) /\ OnlyAt(c, p.owes, q.owes)
    /\ \A j \in Callers \ {k} : q.fetch[j] = p.fetch[j]
    /\ q.fetch[k].conn = c /\ q.fetch[k].wants = p.fetch[k].wants
    /\ q.fetch[k].at \in {"connecting", "greeting", "answer"} /\ Expects(q, ls, k)
    /\ q.socket[c] \in IF q.fetch[k].at = "connecting" THEN {"connecting"} ELSE {"open", "lost"}
LEMMA StaysKeeps ==
    ASSUME NEW p \in Pools, NEW ks, NEW ls \in [Conns -> Seq(Lines)],
           NEW k \in Callers, NEW s \in Int, PoolSound(p, ks, FALSE, 0, {}, s),
           NEW c \in Conns, OnlyAt(c, ks, ls),
           NEW q \in Pools, StaysAt(c, k, p, q, ls),
           NEW t \in Int, t >= s, t >= s + 1 \/ q.socket[c] # "lost"
    PROVE  PoolSound(q, ls, FALSE, 0, {}, t)
<1> USE DEF OnlyAt, StaysAt
<1>1. /\ CallsKnown(p, {}) /\ WaitersKnown(p, {}) /\ IdleKnown(p, ks, {})
      /\ UsedAlone(p, ks, {}) /\ SocketsKnown(p, ks, {}) /\ PermitsCount(p, 0, {})
      /\ Shut(p, FALSE, {}) /\ RoomLeft(p, FALSE, {}, s)
  BY DEF PoolSound
<1>2. /\ IsFiniteSet(DueIn(p, {})) /\ Cardinality(DueIn(p, {})) \in Nat
      /\ IsFiniteSet(DueIn(q, {})) /\ Cardinality(DueIn(q, {})) \in Nat
  BY FewAtWork
<1>3. /\ c # NoConn /\ k \in AtWorkIn(p, {}) /\ c <= p.made
      /\ p.fetch[k].at \in {"connecting", "greeting", "answer"}
  BY <1>1, PoolSizes DEF AtWorkIn, UsedAlone, CallsKnown
<1>4. \A j \in Callers \ {k} : p.fetch[j].conn \in (Conns \ {c}) \cup {NoConn}
  BY <1>1, <1>3 DEF UsedAlone, AtWorkIn, Pools, FetchRecords
<1>5. AtWorkIn(q, {}) = AtWorkIn(p, {})
  BY <1>3 DEF AtWorkIn
<1>6. \A j \in Callers \ {k} : j \in DueIn(q, {}) <=> j \in DueIn(p, {})
  BY <1>4 DEF DueIn
<1>7. (k \in DueIn(p, {}) <=> p.socket[c] = "lost") /\ (k \in DueIn(q, {}) <=> q.socket[c] = "lost")
  BY <1>3 DEF DueIn
<1>8. Cardinality(DueIn(q, {})) <= IF q.socket[c] = "lost" THEN Cardinality(DueIn(p, {})) + 1
                                   ELSE Cardinality(DueIn(p, {}))
  <2>1. DueIn(p, {}) \subseteq Callers /\ DueIn(q, {}) \subseteq Callers
    BY DEF DueIn
  <2>2. CASE q.socket[c] = "lost" /\ p.socket[c] # "lost"
    <3>1. DueIn(q, {}) = DueIn(p, {}) \cup {k}
      BY <1>6, <1>7, <2>1, <2>2
    <3>2. Cardinality(DueIn(p, {}) \cup {k}) =
             IF k \in DueIn(p, {}) THEN Cardinality(DueIn(p, {}))
             ELSE Cardinality(DueIn(p, {})) + 1
      BY <1>2, FS_AddElement
    <3>3. Cardinality(DueIn(q, {})) = Cardinality(DueIn(p, {})) + 1
      BY <1>7, <2>2, <3>1, <3>2
    <3> QED
      BY <1>2, <2>2, <3>3
  <2>3. CASE ~(q.socket[c] = "lost" /\ p.socket[c] # "lost")
    <3>1. DueIn(q, {}) \subseteq DueIn(p, {})
      BY <1>6, <1>7, <2>1, <2>3
    <3>2. Cardinality(DueIn(q, {})) <= Cardinality(DueIn(p, {}))
      BY <1>2, <3>1, FS_Subset
    <3> QED
      BY <1>2, <3>2
  <2> QED
    BY <2>2, <2>3
<1>9. CallsKnown(q, {})
  BY <1>1, <1>3 DEF CallsKnown
<1>10. WaitersKnown(q, {})
  BY <1>1, <1>3 DEF WaitersKnown
<1>11. ~IsIdle(p, c)
  BY <1>1, <1>3 DEF IdleKnown, Uses
<1>12. \A d \in Conns : /\ IsIdle(q, d) <=> IsIdle(p, d)
                        /\ \A j \in Callers : Uses(q, j, d) <=> Uses(p, j, d)
  BY DEF IsIdle, Uses
<1>13. IdleKnown(q, ls, {})
  BY <1>1, <1>11, <1>12 DEF IdleKnown
<1>14. UsedAlone(q, ls, {})
  <2>1. \A j \in AtWorkIn(p, {}) \ {k} : /\ p.fetch[j].conn \in Conns \ {c}
                                        /\ p.fetch[j].conn <= p.made /\ Expects(p, ks, j)
    BY <1>1, <1>4 DEF UsedAlone, AtWorkIn
  <2>2. \A j \in AtWorkIn(p, {}) \ {k} : Expects(q, ls, j) /\ q.fetch[j] = p.fetch[j]
    BY <2>1 DEF Expects, AtWorkIn
  <2>3. q.fetch[k].conn = p.fetch[k].conn
    OBVIOUS
  <2>4. ASSUME NEW j \in AtWorkIn(q, {})
        PROVE  /\ q.fetch[j].conn = p.fetch[j].conn /\ j \in AtWorkIn(p, {})
               /\ q.fetch[j].conn <= q.made /\ Expects(q, ls, j)
    <3>1. CASE j = k
      BY <1>3, <3>1
    <3>2. CASE j # k
      BY <1>5, <2>1, <2>2, <3>2
    <3> QED
      BY <3>1, <3>2
  <2>5. \A i, j \in AtWorkIn(p, {}) : p.fetch[i].conn = p.fetch[j].conn => i = j
    BY <1>1 DEF UsedAlone
  <2>6. \A i, j \in AtWorkIn(q, {}) : q.fetch[i].conn = q.fetch[j].conn => i = j
    BY <2>4, <2>5
  <2> QED
    BY <2>4, <2>6 DEF UsedAlone
<1>15. SocketsKnown(q, ls, {})
  <2>1. ASSUME NEW d \in Conns, d > q.made
        PROVE  q.socket[d] = "new" /\ ls[d] = <<>>
    <3>1. d # c
      BY <1>3, <2>1 DEF Conns, Pools
    <3> QED
      BY <1>1, <2>1, <3>1 DEF SocketsKnown
  <2>2. ASSUME NEW d \in Conns, q.socket[d] \in {"connecting", "open"}
        PROVE  IsIdle(q, d) \/ \E j \in Callers : Uses(q, j, d)
    <3>1. CASE d = c
      BY <3>1 DEF Uses
    <3>2. CASE d # c
      BY <1>1, <1>12, <2>2, <3>2 DEF SocketsKnown
    <3> QED
      BY <3>1, <3>2
  <2> QED
    BY <2>1, <2>2 DEF SocketsKnown
<1>16. PermitsCount(q, 0, {})
  BY <1>1, <1>5 DEF PermitsCount
<1>17. Shut(q, FALSE, {})
  <2>1. \A j \in AtWorkIn(p, {}) \ {k} :
           /\ p.fetch[j].conn \in Conns \ {c} /\ q.fetch[j] = p.fetch[j]
           /\ p.socket[p.fetch[j].conn] \in IF p.fetch[j].at = "connecting" THEN {"connecting"}
                                           ELSE {"open", "lost"}
    BY <1>1, <1>4 DEF Shut, AtWorkIn
  <2>2. \A j \in AtWorkIn(q, {}) :
           q.socket[q.fetch[j].conn] \in IF q.fetch[j].at = "connecting" THEN {"connecting"}
                                         ELSE {"open", "lost"}
    BY <1>5, <2>1
  <2> QED
    BY <2>2 DEF Shut
<1>18. RoomLeft(q, FALSE, {}, t)
  <2>1. p.made \in Nat
    BY DEF Pools
  <2> QED
    BY <1>1, <1>2, <1>8, <2>1 DEF RoomLeft
<1> QED
  BY <1>9, <1>10, <1>13, <1>14, <1>15, <1>16, <1>17, <1>18 DEF PoolSound

\* Something happens to a connection nobody uses.
IdlesAt(c, p, q, ls) ==
    /\ q.waiters = p.waiters /\ q.active = p.active /\ q.made = p.made /\ q.idle = p.idle
    /\ q.fetch = p.fetch /\ OnlyAt(c, p.socket, q.socket) /\ OnlyAt(c, p.owes, q.owes)
    /\ q.owes[c] = <<>> /\ Quiet(ls[c])
LEMMA IdlesKeeps ==
    ASSUME NEW p \in Pools, NEW ks, NEW ls \in [Conns -> Seq(Lines)],
           NEW s \in Int, PoolSound(p, ks, FALSE, 0, {}, s),
           NEW c \in Conns, IsIdle(p, c), OnlyAt(c, ks, ls),
           NEW q \in Pools, IdlesAt(c, p, q, ls), NEW t \in Int, t >= s
    PROVE  PoolSound(q, ls, FALSE, 0, {}, t)
<1> USE DEF OnlyAt, IdlesAt
<1>1. /\ CallsKnown(p, {}) /\ WaitersKnown(p, {}) /\ IdleKnown(p, ks, {})
      /\ UsedAlone(p, ks, {}) /\ SocketsKnown(p, ks, {}) /\ PermitsCount(p, 0, {})
      /\ Shut(p, FALSE, {}) /\ RoomLeft(p, FALSE, {}, s)
  BY DEF PoolSound
<1>2. Cardinality(DueIn(p, {})) \in Nat
  BY FewAtWork
<1>3. c <= p.made /\ \A j \in Callers : p.fetch[j].conn \in (Conns \ {c}) \cup {NoConn}
  BY <1>1 DEF IdleKnown, Uses, Pools, FetchRecords
<1>4. AtWorkIn(q, {}) = AtWorkIn(p, {})
  BY DEF AtWorkIn
<1>5. DueIn(q, {}) = DueIn(p, {})
  BY <1>3 DEF DueIn
<1>6. CallsKnown(q, {}) /\ WaitersKnown(q, {})
  BY <1>1 DEF CallsKnown, WaitersKnown
<1>7. \A d \in Conns : /\ IsIdle(q, d) <=> IsIdle(p, d)
                       /\ \A j \in Callers : Uses(q, j, d) <=> Uses(p, j, d)
  BY DEF IsIdle, Uses
<1>8. IdleKnown(q, ls, {})
  BY <1>1, <1>7 DEF IdleKnown
<1>9. UsedAlone(q, ls, {})
  <2>1. \A j \in AtWorkIn(p, {}) : /\ p.fetch[j].conn \in Conns \ {c}
                                   /\ p.fetch[j].conn <= p.made /\ Expects(p, ks, j)
    BY <1>1, <1>3 DEF UsedAlone, AtWorkIn
  <2>2. \A j \in AtWorkIn(p, {}) : Expects(q, ls, j)
    BY <2>1 DEF Expects, AtWorkIn
  <2> QED
    BY <1>1, <1>4, <2>1, <2>2 DEF UsedAlone
<1>10. SocketsKnown(q, ls, {})
  <2>1. ASSUME NEW d \in Conns, d > q.made
        PROVE  q.socket[d] = "new" /\ ls[d] = <<>>
    <3>1. d # c
      BY <1>3, <2>1 DEF Conns, Pools
    <3> QED
      BY <1>1, <2>1, <3>1 DEF SocketsKnown
  <2>2. ASSUME NEW d \in Conns, q.socket[d] \in {"connecting", "open"}
        PROVE  IsIdle(q, d) \/ \E j \in Callers : Uses(q, j, d)
    <3>1. CASE d = c
      BY <1>7, <3>1
    <3>2. CASE d # c
      BY <1>1, <1>7, <2>2, <3>2 DEF SocketsKnown
    <3> QED
      BY <3>1, <3>2
  <2> QED
    BY <2>1, <2>2 DEF SocketsKnown
<1>11. PermitsCount(q, 0, {})
  BY <1>1, <1>4 DEF PermitsCount
<1>12. Shut(q, FALSE, {})
  <2>1. \A j \in AtWorkIn(p, {}) : p.fetch[j].conn \in Conns \ {c}
    BY <1>3 DEF AtWorkIn
  <2> QED
    BY <1>1, <1>4, <2>1 DEF Shut
<1>13. RoomLeft(q, FALSE, {}, t)
  <2>1. p.made \in Nat
    BY DEF Pools
  <2> QED
    BY <1>1, <1>2, <1>5, <2>1 DEF RoomLeft
<1> QED
  BY <1>6, <1>8, <1>9, <1>10, <1>11, <1>12, <1>13 DEF PoolSound

------------------------------------------------------------------------------
LEMMA SettlesIs ==
    ASSUME NEW r \in Pools, Settles(r)
    PROVE  Pool' = r
BY DEF Settles, Pool, Pools

LEMMA SpendsOne ==
    ASSUME BudgetKnown, NEW what \in {"calls", "faults"}, Spends(what)
    PROVE  Spent' = Spent + 1 /\ BudgetKnown' /\ Spent \in Int /\ Spent + 1 <= MaxSockets
<1>1. /\ nntpLeft.calls \in 0 .. MaxArticleCalls /\ nntpLeft.faults \in 0 .. MaxNntpFaults
      /\ nntpLeft \in [calls : 0 .. MaxArticleCalls, faults : 0 .. MaxNntpFaults]
  BY DEF BudgetKnown
<1>2. CASE what = "calls"
  <2>1. /\ nntpLeft' = [nntpLeft EXCEPT !.calls = nntpLeft.calls - 1] /\ nntpLeft.calls > 0
    BY <1>2 DEF Spends
  <2>2. /\ nntpLeft'.calls = nntpLeft.calls - 1 /\ nntpLeft'.faults = nntpLeft.faults
        /\ nntpLeft.calls - 1 \in 0 .. MaxArticleCalls
    BY <1>1, <2>1, PoolSizes
  <2>3. BudgetKnown'
    BY <1>1, <2>1, <2>2 DEF BudgetKnown
  <2> QED
    BY <1>1, <2>1, <2>2, <2>3, PoolSizes DEF Spent
<1>3. CASE what = "faults"
  <2>1. /\ nntpLeft' = [nntpLeft EXCEPT !.faults = nntpLeft.faults - 1] /\ nntpLeft.faults > 0
    BY <1>3 DEF Spends
  <2>2. /\ nntpLeft'.faults = nntpLeft.faults - 1 /\ nntpLeft'.calls = nntpLeft.calls
        /\ nntpLeft.faults - 1 \in 0 .. MaxNntpFaults
    BY <1>1, <2>1, PoolSizes
  <2>3. BudgetKnown'
    BY <1>1, <2>1, <2>2 DEF BudgetKnown
  <2> QED
    BY <1>1, <2>1, <2>2, <2>3, PoolSizes DEF Spent
<1> QED
  BY <1>2, <1>3

LEMMA SpendsNone ==
    ASSUME BudgetKnown, UNCHANGED nntpLeft
    PROVE  Spent' = Spent /\ BudgetKnown' /\ Spent \in Int /\ Spent <= MaxSockets
BY PoolSizes DEF BudgetKnown, Spent

\* A call that works at a connection.
LEMMA AtConnection ==
    ASSUME NEW p \in Pools, NEW ls, NEW shut \in BOOLEAN, NEW s, NEW k \in Callers,
           PoolSound(p, ls, shut, 0, {}, s),
           p.fetch[k].at \in {"connecting", "greeting", "answer"}
    PROVE  /\ p.fetch[k].conn \in Conns /\ p.fetch[k].wants \in Articles /\ Expects(p, ls, k)
           /\ shut => p.socket[p.fetch[k].conn] \in {"new", "destroyed"}
           /\ ~shut => p.socket[p.fetch[k].conn] \in
                          IF p.fetch[k].at = "connecting" THEN {"connecting"} ELSE {"open", "lost"}
<1>1. CallsKnown(p, {}) /\ UsedAlone(p, ls, {}) /\ Shut(p, shut, {})
  BY DEF PoolSound
<1>2. p.fetch[k].conn # NoConn /\ p.fetch[k].wants \in Articles
  BY <1>1 DEF CallsKnown
<1>3. p.fetch[k].conn \in Conns /\ k \in AtWorkIn(p, {})
  BY <1>2 DEF AtWorkIn, Pools, FetchRecords
<1> QED
  BY <1>1, <1>2, <1>3 DEF UsedAlone, Shut

LEMMA PoolIs ==
    ASSUME PoolNow
    PROVE  /\ Pool \in Pools /\ Pool.fetch = fetch /\ Pool.socket = socket /\ Pool.owes = owes
           /\ Pool.idle = idle /\ Pool.waiters = waiters /\ Pool.active = active /\ Pool.made = made
           /\ lines \in [Conns -> Seq(Lines)] /\ closed \in BOOLEAN
           /\ PoolSound(Pool, lines, closed, 0, {}, Spent) /\ BudgetKnown
BY DEF PoolNow, PoolSound, Pool

LEMMA FetchesStep ==
    ASSUME PoolNow, NEW k \in Callers, Fetches(k)
    PROVE  PoolNow'
<1>1. /\ fetch[k] = NoFetch /\ ~closed /\ Spends("calls") /\ lines' = lines /\ closed' = closed
      /\ BudgetKnown
  BY DEF Fetches, PoolNow
<1>2. PICK a \in Articles :
         Settles(Acquires([Pool EXCEPT !.fetch[k] = [NoFetch EXCEPT !.wants = a]], k))
  BY DEF Fetches
<1>3. Spent' = Spent + 1 /\ BudgetKnown' /\ Spent \in Int /\ Spent + 1 <= MaxSockets
  BY <1>1, SpendsOne
<1>4. PICK p : p = Pool
  OBVIOUS
<1>5. PICK s \in Int : s = Spent
  BY <1>3
<1>6. /\ p \in Pools /\ p.fetch[k] = NoFetch /\ PoolSound(p, lines, FALSE, 0, {}, s)
      /\ lines \in [Conns -> Seq(Lines)]
  BY <1>1, <1>4, <1>5, PoolIs
<1>7. PICK f : f = [p.fetch EXCEPT ![k] = [NoFetch EXCEPT !.wants = a]]
  OBVIOUS
<1>8. /\ f \in [Callers -> FetchRecords] /\ f[k].wants = a /\ f[k].conn = NoConn
      /\ \A j \in Callers \ {k} : f[j] = p.fetch[j]
  BY <1>2, <1>6, <1>7, PoolSizes DEF Pools, FetchRecords, FetchStates, NoFetch, Retries
<1>9. PICK r : r = [p EXCEPT !.fetch[k] = [NoFetch EXCEPT !.wants = a]]
  OBVIOUS
<1>10. r = [p EXCEPT !.fetch = f]
  BY <1>6, <1>7, <1>9 DEF Pools
<1>11. r \in Pools /\ r.fetch = f /\ r.waiters = p.waiters /\ SameButCalls(p, r)
  BY <1>6, <1>8, <1>10 DEF Pools, SameButCalls
<1>12. WaitersKnown(p, {})
  BY <1>6 DEF PoolSound
<1>13. /\ TakenOut(k, p, r, FALSE) /\ s >= IF p.fetch[k].at = "none" THEN s ELSE s - 1
       /\ r.fetch[k].wants \in Articles /\ r.fetch[k].conn = NoConn
  BY <1>2, <1>6, <1>8, <1>11, <1>12 DEF WaitersKnown, NoFetch, TakenOut
<1>14. PoolSound(r, lines, FALSE, 0, {k}, s)
  BY <1>5, <1>6, <1>11, <1>13, ExemptKeeps
<1>15. PICK q : q = Acquires(r, k)
  OBVIOUS
<1>16. q \in Pools /\ PoolSound(q, lines, FALSE, 0, {}, s + 1)
  BY <1>3, <1>5, <1>11, <1>13, <1>14, <1>15, AcquiresKeeps
<1>17. Pool' = q
  BY <1>2, <1>4, <1>9, <1>15, <1>16, SettlesIs
<1>18. PoolSound(Pool', lines', closed', 0, {}, Spent')
  <2>1. closed = FALSE /\ s + 1 = Spent'
    BY <1>1, <1>3, <1>5, PoolIs
  <2> QED
    BY <1>1, <1>16, <1>17, <2>1
<1> QED
  BY <1>1, <1>3, <1>18 DEF PoolNow

LEMMA TriesAgainFetchStep ==
    ASSUME PoolNow, NEW k \in Callers, TriesAgainFetch(k)
    PROVE  PoolNow'
<1>1. /\ fetch[k].at = "pause" /\ lines' = lines /\ closed' = closed /\ UNCHANGED nntpLeft
      /\ Settles(IF ~closed THEN Acquires(Pool, k) ELSE Over(Pool, k))
  BY DEF TriesAgainFetch
<1>2. Spent' = Spent /\ BudgetKnown' /\ Spent \in Int /\ Spent <= MaxSockets
  BY <1>1, SpendsNone DEF PoolNow
<1>3. PICK p : p = Pool
  OBVIOUS
<1>4. PICK s \in Int : s = Spent
  BY <1>2
<1>5. PICK t \in Int : t = s - 1
  OBVIOUS
<1>6. /\ p \in Pools /\ p.fetch[k].at = "pause" /\ PoolSound(p, lines, closed, 0, {}, s)
      /\ closed \in BOOLEAN
  BY <1>1, <1>3, <1>4, PoolIs
<1>7. WaitersKnown(p, {}) /\ CallsKnown(p, {}) /\ Shut(p, closed, {})
  BY <1>6 DEF PoolSound
<1>8. TakenOut(k, p, p, closed) /\ t >= IF p.fetch[k].at = "none" THEN s ELSE s - 1
  BY <1>5, <1>6, <1>7 DEF WaitersKnown, TakenOut, SameButCalls, Shut
<1>9. PoolSound(p, lines, closed, 0, {k}, t)
  BY <1>4, <1>5, <1>6, <1>8, ExemptKeeps
<1>10. p.fetch[k].wants \in Articles /\ p.fetch[k].conn = NoConn
  BY <1>6, <1>7 DEF CallsKnown
<1>11. CASE ~closed
  <2>1. closed = FALSE /\ t + 1 = s /\ t + 1 <= MaxSockets
    BY <1>2, <1>4, <1>5, <1>6, <1>11
  <2>2. PICK q : q = Acquires(p, k)
    OBVIOUS
  <2>3. q \in Pools /\ PoolSound(q, lines, FALSE, 0, {}, t + 1)
    BY <1>5, <1>6, <1>9, <1>10, <2>1, <2>2, AcquiresKeeps
  <2>4. Pool' = q
    BY <1>1, <1>3, <1>11, <2>2, <2>3, SettlesIs
  <2>5. PoolSound(Pool', lines', closed', 0, {}, Spent')
    BY <1>1, <1>2, <1>4, <2>1, <2>3, <2>4
  <2> QED
    BY <1>1, <1>2, <1>6, <2>5 DEF PoolNow
<1>12. CASE closed
  <2>1. PICK q : q = Over(p, k)
    OBVIOUS
  <2>2. t <= s
    BY <1>5
  <2>3. q \in Pools /\ PoolSound(q, lines, closed, 0, {}, s)
    BY <1>4, <1>5, <1>6, <1>9, <2>1, <2>2, OverKeeps
  <2>4. Pool' = q
    BY <1>1, <1>3, <1>12, <2>1, <2>3, SettlesIs
  <2>5. PoolSound(Pool', lines', closed', 0, {}, Spent')
    BY <1>1, <1>2, <1>4, <2>3, <2>4
  <2> QED
    BY <1>1, <1>2, <1>6, <2>5 DEF PoolNow
<1> QED
  BY <1>11, <1>12

\* A queue that one call leaves.
LEMMA LeavesQueue ==
    ASSUME NEW u \in Seq(Callers), NEW i \in DOMAIN u, NEW v, v = RemoveAt(u, i),
           \A m, n \in DOMAIN u : u[m] = u[n] => m = n
    PROVE  /\ v \in Seq(Callers) /\ \A m, n \in DOMAIN v : v[m] = v[n] => m = n
           /\ \A j \in Callers : InQueue(v, j) <=> InQueue(u, j) /\ j # u[i]
<1>1. /\ Len(u) \in Nat /\ i \in 1 .. Len(u) /\ DOMAIN u = 1 .. Len(u)
      /\ SubSeq(u, 1, i - 1) \in Seq(Callers) /\ SubSeq(u, i + 1, Len(u)) \in Seq(Callers)
      /\ Len(SubSeq(u, 1, i - 1)) = i - 1 /\ Len(SubSeq(u, i + 1, Len(u))) = Len(u) - i
  OBVIOUS
<1>2. v = SubSeq(u, 1, i - 1) \o SubSeq(u, i + 1, Len(u))
  BY DEF RemoveAt
<1>3. v \in Seq(Callers) /\ Len(v) = Len(u) - 1 /\ DOMAIN v = 1 .. Len(u) - 1
  <2>1. PICK x \in Seq(Callers) : x = SubSeq(u, 1, i - 1)
    BY <1>1
  <2>2. PICK y \in Seq(Callers) : y = SubSeq(u, i + 1, Len(u))
    BY <1>1
  <2>3. v = x \o y /\ Len(x) = i - 1 /\ Len(y) = Len(u) - i
    BY <1>1, <1>2, <2>1, <2>2
  <2>4. v \in Seq(Callers) /\ Len(v) = Len(x) + Len(y)
    BY <2>1, <2>2, <2>3, SMTT(60)
  <2>5. Len(v) = Len(u) - 1
    BY <1>1, <2>3, <2>4
  <2> QED
    BY <2>4, <2>5
<1>4. \A n \in 1 .. Len(u) - 1 : v[n] = IF n < i THEN u[n] ELSE u[n + 1]
  <2>1. ASSUME NEW n \in 1 .. Len(u) - 1, n < i
        PROVE  v[n] = u[n]
    BY <1>1, <1>2, <2>1
  <2>2. ASSUME NEW n \in 1 .. Len(u) - 1, ~(n < i)
        PROVE  v[n] = u[n + 1]
    <3>1. v[n] = SubSeq(u, i + 1, Len(u))[n - (i - 1)]
      BY <1>1, <1>2, <2>2, SMTT(60)
    <3>2. n - (i - 1) \in 1 .. Len(u) - i
      BY <1>1, <2>2
    <3>3. SubSeq(u, i + 1, Len(u))[n - (i - 1)] = u[(i + 1) + (n - (i - 1)) - 1]
      BY <1>1, <3>2, SMTT(60)
    <3>4. (i + 1) + (n - (i - 1)) - 1 = n + 1
      BY <1>1
    <3> QED
      BY <3>1, <3>3, <3>4
  <2> QED
    BY <2>1, <2>2
<1>5. \A m, n \in DOMAIN v : v[m] = v[n] => m = n
  <2> SUFFICES ASSUME NEW m \in DOMAIN v, NEW n \in DOMAIN v, v[m] = v[n]
               PROVE  m = n
    OBVIOUS
  <2>1. PICK a : a = IF m < i THEN m ELSE m + 1
    OBVIOUS
  <2>2. PICK b : b = IF n < i THEN n ELSE n + 1
    OBVIOUS
  <2>3. a \in DOMAIN u /\ v[m] = u[a]
    BY <1>1, <1>3, <1>4, <2>1
  <2>4. b \in DOMAIN u /\ v[n] = u[b]
    BY <1>1, <1>3, <1>4, <2>2, SMTT(60)
  <2>5. a = b
    BY <2>3, <2>4
  <2> QED
    BY <1>1, <1>3, <2>1, <2>2, <2>5
<1>6. ASSUME NEW j \in Callers, InQueue(v, j)
      PROVE  InQueue(u, j) /\ j # u[i]
  <2>1. PICK n \in DOMAIN v : v[n] = j
    BY <1>6 DEF InQueue
  <2>2. PICK a : a = IF n < i THEN n ELSE n + 1
    OBVIOUS
  <2>3. a \in DOMAIN u /\ u[a] = j /\ a # i
    BY <1>1, <1>3, <1>4, <2>1, <2>2
  <2> QED
    BY <2>3 DEF InQueue
<1>7. ASSUME NEW j \in Callers, InQueue(u, j), j # u[i]
      PROVE  InQueue(v, j)
  <2>1. PICK n \in 1 .. Len(u) : u[n] = j /\ n # i
    BY <1>1, <1>7 DEF InQueue
  <2>2. CASE n < i
    <3>1. n \in DOMAIN v /\ v[n] = j
      BY <1>1, <1>3, <1>4, <2>1, <2>2
    <3> QED
      BY <3>1 DEF InQueue
  <2>3. CASE n > i
    <3>1. n - 1 \in DOMAIN v /\ ~(n - 1 < i) /\ (n - 1) + 1 = n
      BY <1>1, <1>3, <2>1, <2>3
    <3>2. v[n - 1] = j
      BY <1>3, <1>4, <2>1, <3>1
    <3> QED
      BY <3>1, <3>2 DEF InQueue
  <2> QED
    BY <1>1, <2>1, <2>2, <2>3
<1> QED
  BY <1>3, <1>5, <1>6, <1>7

LEMMA GivesUpWaitingStep ==
    ASSUME PoolNow, NEW k \in Callers, GivesUpWaiting(k)
    PROVE  PoolNow'
<1>1. /\ fetch[k].at = "queued" /\ lines' = lines /\ closed' = closed /\ Spends("faults")
      /\ BudgetKnown
  BY DEF GivesUpWaiting, PoolNow
<1>2. PICK i \in DOMAIN waiters :
         /\ waiters[i] = k
         /\ Settles(Again([Pool EXCEPT !.waiters = RemoveAt(@, i)], k))
  BY DEF GivesUpWaiting
<1>3. Spent' = Spent + 1 /\ BudgetKnown' /\ Spent \in Int /\ Spent + 1 <= MaxSockets
  BY <1>1, SpendsOne
<1>4. PICK p : p = Pool
  OBVIOUS
<1>5. PICK s \in Int : s = Spent
  BY <1>3
<1>6. PICK t \in Int : t = s - 1
  OBVIOUS
<1>7. /\ p \in Pools /\ p.fetch[k].at = "queued" /\ PoolSound(p, lines, closed, 0, {}, s)
      /\ closed \in BOOLEAN /\ p.waiters = waiters
  BY <1>1, <1>4, <1>5, PoolIs
<1>8. WaitersKnown(p, {}) /\ CallsKnown(p, {}) /\ Shut(p, closed, {})
  BY <1>7 DEF PoolSound
<1>9. PICK v : v = RemoveAt(p.waiters, i)
  OBVIOUS
<1>10. PICK r : r = [p EXCEPT !.waiters = v]
  OBVIOUS
<1>11. /\ v \in Seq(Callers) /\ \A m, n \in DOMAIN v : v[m] = v[n] => m = n
       /\ \A j \in Callers : InQueue(v, j) <=> InQueue(p.waiters, j) /\ j # k
  <2>1. p.waiters \in Seq(Callers) /\ i \in DOMAIN p.waiters /\ p.waiters[i] = k
        /\ \A m, n \in DOMAIN p.waiters : p.waiters[m] = p.waiters[n] => m = n
    BY <1>2, <1>7, <1>8 DEF Pools, WaitersKnown
  <2> QED
    BY <1>9, <2>1, LeavesQueue
<1>12. /\ r \in Pools /\ r.fetch = p.fetch /\ r.waiters = v /\ SameButCalls(p, r)
  BY <1>7, <1>10, <1>11 DEF Pools, SameButCalls
<1>13. ~closed
  BY <1>2, <1>7, <1>8 DEF Shut
<1>14. TakenOut(k, p, r, closed) /\ t >= IF p.fetch[k].at = "none" THEN s ELSE s - 1
  BY <1>6, <1>7, <1>11, <1>12, <1>13 DEF TakenOut
<1>15. PoolSound(r, lines, closed, 0, {k}, t)
  BY <1>5, <1>6, <1>7, <1>12, <1>14, ExemptKeeps
<1>16. PICK q : q = Again(r, k)
  OBVIOUS
<1>17. PICK e \in Int : e = s + 1
  OBVIOUS
<1>18. r.fetch[k].wants \in Articles /\ e >= IF closed THEN t ELSE t + 1
  BY <1>6, <1>7, <1>8, <1>12, <1>17 DEF CallsKnown
<1>19. q \in Pools /\ PoolSound(q, lines, closed, 0, {}, e)
  BY <1>6, <1>7, <1>12, <1>15, <1>16, <1>17, <1>18, AgainKeeps
<1>20. r = [Pool EXCEPT !.waiters = RemoveAt(@, i)]
  BY <1>4, <1>9, <1>10
<1>21. Pool' = q
  BY <1>2, <1>16, <1>19, <1>20, SettlesIs
<1>22. PoolSound(Pool', lines', closed', 0, {}, Spent')
  BY <1>1, <1>3, <1>5, <1>17, <1>19, <1>21
<1> QED
  BY <1>1, <1>3, <1>7, <1>22 DEF PoolNow

LEMMA OpensStep ==
    ASSUME PoolNow, NEW k \in Callers, Opens(k)
    PROVE  PoolNow'
<1>1. /\ fetch[k].at = "connecting" /\ socket[fetch[k].conn] = "connecting"
      /\ lines' = lines /\ closed' = closed /\ UNCHANGED nntpLeft
      /\ Settles(Placed([Pool EXCEPT !.socket[fetch[k].conn] = "open",
                                     !.owes[fetch[k].conn] = <<"greeting">>],
                        k, "greeting", fetch[k].conn))
  BY DEF Opens
<1>2. Spent' = Spent /\ BudgetKnown' /\ Spent \in Int /\ Spent <= MaxSockets
  BY <1>1, SpendsNone DEF PoolNow
<1>3. PICK p : p = Pool
  OBVIOUS
<1>4. PICK s \in Int : s = Spent
  BY <1>2
<1>5. PICK c : c = fetch[k].conn
  OBVIOUS
<1>6. /\ p \in Pools /\ p.fetch[k].at = "connecting" /\ PoolSound(p, lines, closed, 0, {}, s)
      /\ closed \in BOOLEAN /\ p.fetch[k].conn = c /\ p.socket[c] = "connecting"
      /\ lines \in [Conns -> Seq(Lines)]
  BY <1>1, <1>3, <1>4, <1>5, PoolIs
<1>7. c \in Conns /\ Expects(p, lines, k) /\ closed = FALSE
  BY <1>6, AtConnection
<1>8. PICK o : o = [p.owes EXCEPT ![c] = <<"greeting">>]
  OBVIOUS
<1>9. PICK u : u = [p.socket EXCEPT ![c] = "open"]
  OBVIOUS
<1>10. PICK a : a = [p.fetch[k] EXCEPT !.at = "greeting", !.conn = c]
  OBVIOUS
<1>11. PICK f : f = [p.fetch EXCEPT ![k] = a]
  OBVIOUS
<1>12. /\ a \in FetchRecords /\ a.at = "greeting" /\ a.conn = c /\ a.wants = p.fetch[k].wants
  BY <1>6, <1>7, <1>10 DEF Pools, FetchRecords, FetchStates
<1>13. o \in [Conns -> Seq(Owed)] /\ u \in [Conns -> SocketStates] /\ f \in [Callers -> FetchRecords]
  BY <1>6, <1>7, <1>8, <1>9, <1>11, <1>12 DEF Pools, SocketStates, Owed
<1>14. PICK r : r = [p EXCEPT !.socket[c] = "open", !.owes[c] = <<"greeting">>]
  OBVIOUS
<1>15. r = [p EXCEPT !.socket = u, !.owes = o]
  BY <1>6, <1>8, <1>9, <1>14 DEF Pools
<1>16. r \in Pools /\ r.fetch = p.fetch
  BY <1>6, <1>13, <1>15 DEF Pools
<1>17. PICK q : q = Placed(r, k, "greeting", c)
  OBVIOUS
<1>18. q = [r EXCEPT !.fetch = [r.fetch EXCEPT ![k] =
              [r.fetch[k] EXCEPT !.at = "greeting", !.conn = c]]]
  BY <1>16, <1>17 DEF Placed, Pools, FetchRecords
<1>19. q = [r EXCEPT !.fetch = f]
  BY ONLY <1>10, <1>11, <1>16, <1>18
<1>20. /\ q \in Pools /\ q.socket = u /\ q.owes = o /\ q.fetch = f /\ q.waiters = p.waiters
       /\ q.active = p.active /\ q.made = p.made /\ q.idle = p.idle
  BY <1>6, <1>13, <1>15, <1>16, <1>19 DEF Pools
<1>21. /\ q.socket[c] = "open" /\ q.owes[c] = <<"greeting">> /\ q.fetch[k] = a
       /\ OnlyAt(c, p.socket, q.socket) /\ OnlyAt(c, p.owes, q.owes) /\ OnlyAt(c, lines, lines)
       /\ \A j \in Callers \ {k} : q.fetch[j] = p.fetch[j]
  BY <1>6, <1>7, <1>8, <1>9, <1>11, <1>20 DEF OnlyAt, Pools
<1>22. Expects(q, lines, k)
  BY <1>6, <1>7, <1>12, <1>21 DEF Expects, Quiet, Greets
<1>23. StaysAt(c, k, p, q, lines)
  BY <1>6, <1>12, <1>20, <1>21, <1>22 DEF StaysAt
<1>24. s >= s /\ q.socket[c] # "lost"
  BY <1>4, <1>21
<1>25. PoolSound(q, lines, FALSE, 0, {}, s)
  <2>1. PoolSound(p, lines, FALSE, 0, {}, s)
    BY <1>6, <1>7
  <2> QED
    BY <1>4, <1>6, <1>7, <1>20, <1>21, <1>23, <1>24, <2>1, StaysKeeps
<1>26. Pool' = q
  BY <1>1, <1>3, <1>5, <1>14, <1>17, <1>20, SettlesIs
<1>27. PoolSound(Pool', lines', closed', 0, {}, Spent')
  BY <1>1, <1>2, <1>4, <1>7, <1>25, <1>26
<1> QED
  BY <1>1, <1>2, <1>6, <1>27 DEF PoolNow

\* The end of an attempt whose connection is destroyed.
LEMMA FetchEndsKeeps ==
    ASSUME PoolNow, NEW k \in Callers, fetch[k].at \in {"connecting", "greeting", "answer"},
           NEW ls \in [Conns -> Seq(Lines)], OnlyAt(fetch[k].conn, lines, ls),
           NEW e \in Int, e >= Spent,
           \/ BadResponse(k)
           \/ NextAttempt(k) /\ (closed \/ socket[fetch[k].conn] = "lost" \/ e >= Spent + 1)
    PROVE  PoolSound(Pool', ls, closed, 0, {}, e)
<1>1. PICK c : c = fetch[k].conn
  OBVIOUS
<1>2. PICK q : q = Returned(Destroyed(Pool, c), k)
  OBVIOUS
<1>3. PICK p : p = Pool
  OBVIOUS
<1>4. PICK s : s = Spent
  OBVIOUS
<1>5. /\ p \in Pools /\ p.fetch = fetch /\ PoolSound(p, lines, closed, 0, {}, s)
      /\ closed \in BOOLEAN /\ p.fetch[k].conn = c /\ p.socket = socket
      /\ lines \in [Conns -> Seq(Lines)] /\ BudgetKnown
  BY <1>1, <1>3, <1>4, PoolIs
<1>6. s \in Int /\ s <= MaxSockets
  BY <1>4, <1>5, PoolSizes DEF BudgetKnown, Spent
<1>7. /\ c \in Conns /\ p.fetch[k].wants \in Articles
      /\ closed => p.socket[c] \in {"new", "destroyed"}
  BY <1>5, AtConnection
<1>8. PICK t \in Int : t = IF p.socket[c] = "lost" THEN s - 1 ELSE s
  BY <1>6
<1>9. /\ t >= IF p.socket[c] = "lost" THEN s - 1 ELSE s
      /\ t <= MaxSockets /\ OnlyAt(c, lines, ls) /\ q = Returned(Destroyed(p, c), k)
  <2>1. t <= MaxSockets /\ t >= IF p.socket[c] = "lost" THEN s - 1 ELSE s
    BY <1>6, <1>8, PoolSizes
  <2> QED
    BY <1>1, <1>2, <1>3, <2>1
<1>10. q \in Pools /\ PoolSound(q, ls, closed, 0, {k}, t) /\ Untouched(p, q, {k})
  BY <1>5, <1>6, <1>7, <1>8, <1>9, DropKeeps
<1>11. q.fetch[k].wants \in Articles
  BY <1>7, <1>10 DEF Untouched
<1>12. CASE BadResponse(k)
  <2>1. PICK r : r = Over(q, k)
    OBVIOUS
  <2>2. t <= e
    BY <1>4, <1>6, <1>8
  <2>3. r \in Pools /\ PoolSound(r, ls, closed, 0, {}, e)
    BY <1>5, <1>8, <1>10, <2>1, <2>2, OverKeeps
  <2>4. Settles(r)
    BY <1>1, <1>2, <1>12, <2>1 DEF BadResponse
  <2> QED
    BY <2>3, <2>4, SettlesIs
<1>13. CASE NextAttempt(k) /\ (closed \/ socket[fetch[k].conn] = "lost" \/ e >= Spent + 1)
  <2>1. PICK r : r = Again(q, k)
    OBVIOUS
  <2>2. e >= IF closed THEN t ELSE t + 1
    BY <1>1, <1>4, <1>5, <1>6, <1>8, <1>13
  <2>3. r \in Pools /\ PoolSound(r, ls, closed, 0, {}, e)
    BY <1>5, <1>8, <1>10, <1>11, <2>1, <2>2, AgainKeeps
  <2>4. Settles(r)
    BY <1>1, <1>2, <1>13, <2>1 DEF NextAttempt
  <2> QED
    BY <2>3, <2>4, SettlesIs
<1> QED
  BY <1>12, <1>13

\* What an attempt that works finds, and what it spends.
LEMMA WorksAt ==
    ASSUME PoolNow, NEW k \in Callers, fetch[k].at \in {"connecting", "greeting", "answer"}
    PROVE  /\ fetch[k].conn \in Conns /\ fetch[k].wants \in Articles /\ Expects(Pool, lines, k)
           /\ closed => socket[fetch[k].conn] \in {"new", "destroyed"}
           /\ ~closed => socket[fetch[k].conn] \in IF fetch[k].at = "connecting" THEN {"connecting"}
                                                   ELSE {"open", "lost"}
<1>1. PICK p : p = Pool
  OBVIOUS
<1>2. PICK s : s = Spent
  OBVIOUS
<1>3. /\ p \in Pools /\ PoolSound(p, lines, closed, 0, {}, s) /\ closed \in BOOLEAN
      /\ p.fetch = fetch /\ p.socket = socket
  BY <1>1, <1>2, PoolIs
<1>4. /\ p.fetch[k].conn \in Conns /\ p.fetch[k].wants \in Articles /\ Expects(p, lines, k)
      /\ closed => p.socket[p.fetch[k].conn] \in {"new", "destroyed"}
      /\ ~closed => p.socket[p.fetch[k].conn] \in
                       IF p.fetch[k].at = "connecting" THEN {"connecting"} ELSE {"open", "lost"}
  BY <1>3, AtConnection
<1> QED
  BY <1>1, <1>3, <1>4

LEMMA CannotOpenStep ==
    ASSUME PoolNow, NEW k \in Callers, CannotOpen(k)
    PROVE  PoolNow'
<1>1. /\ fetch[k].at = "connecting" /\ lines' = lines /\ closed' = closed /\ BudgetKnown
      /\ closed \in BOOLEAN /\ (NextAttempt(k) \/ BadResponse(k))
      /\ IF socket[fetch[k].conn] = "connecting" THEN Spends("faults") ELSE UNCHANGED nntpLeft
  BY DEF CannotOpen, PoolNow, NextAttempt, BadResponse
<1>2. /\ closed => socket[fetch[k].conn] # "connecting"
      /\ ~closed => socket[fetch[k].conn] = "connecting"
  BY <1>1, WorksAt
<1>3. PICK e : e = Spent'
  OBVIOUS
<1>4. e \in Int /\ e >= Spent /\ (closed \/ e >= Spent + 1) /\ BudgetKnown'
  <2>1. CASE closed
    BY <1>1, <1>2, <1>3, <2>1, SpendsNone
  <2>2. CASE ~closed
    BY <1>1, <1>2, <1>3, <2>2, SpendsOne
  <2> QED
    BY <2>1, <2>2
<1>5. lines \in [Conns -> Seq(Lines)] /\ OnlyAt(fetch[k].conn, lines, lines)
  BY PoolIs DEF OnlyAt
<1>6. PoolSound(Pool', lines, closed, 0, {}, e)
  BY <1>1, <1>4, <1>5, FetchEndsKeeps
<1>7. PoolSound(Pool', lines', closed', 0, {}, Spent')
  BY <1>1, <1>3, <1>6
<1> QED
  BY <1>1, <1>4, <1>7 DEF PoolNow

LEMMA LineLostStep ==
    ASSUME PoolNow, NEW k \in Callers, LineLost(k)
    PROVE  PoolNow'
<1>1. /\ fetch[k].at \in {"greeting", "answer"} /\ lines' = lines /\ closed' = closed
      /\ BudgetKnown /\ closed \in BOOLEAN /\ NextAttempt(k) /\ UNCHANGED nntpLeft
      /\ socket[fetch[k].conn] \in {"lost", "destroyed"}
  BY DEF LineLost, Waiting, PoolNow
<1>2. closed \/ socket[fetch[k].conn] = "lost"
  BY <1>1, WorksAt
<1>3. Spent' = Spent /\ Spent \in Int /\ BudgetKnown'
  BY <1>1, SpendsNone
<1>4. lines \in [Conns -> Seq(Lines)] /\ OnlyAt(fetch[k].conn, lines, lines)
  BY PoolIs DEF OnlyAt
<1>5. PICK e \in Int : e = Spent
  BY <1>3
<1>6. PoolSound(Pool', lines, closed, 0, {}, e)
  BY <1>1, <1>2, <1>4, <1>5, FetchEndsKeeps
<1>7. PoolSound(Pool', lines', closed', 0, {}, Spent')
  BY <1>1, <1>3, <1>5, <1>6
<1> QED
  BY <1>1, <1>3, <1>7 DEF PoolNow

LEMMA LineTimesOutStep ==
    ASSUME PoolNow, NEW k \in Callers, LineTimesOut(k)
    PROVE  PoolNow'
<1>1. /\ fetch[k].at \in {"greeting", "answer"} /\ lines' = lines /\ closed' = closed
      /\ BudgetKnown /\ closed \in BOOLEAN /\ NextAttempt(k) /\ Spends("faults")
  BY DEF LineTimesOut, Waiting, PoolNow
<1>2. Spent' = Spent + 1 /\ Spent \in Int /\ BudgetKnown'
  BY <1>1, SpendsOne
<1>3. lines \in [Conns -> Seq(Lines)] /\ OnlyAt(fetch[k].conn, lines, lines)
  BY PoolIs DEF OnlyAt
<1>4. PICK e \in Int : e = Spent + 1
  BY <1>2
<1>5. e >= Spent /\ e >= Spent + 1
  BY <1>2, <1>4
<1>6. PoolSound(Pool', lines, closed, 0, {}, e)
  BY <1>1, <1>3, <1>4, <1>5, FetchEndsKeeps
<1>7. PoolSound(Pool', lines', closed', 0, {}, Spent')
  BY <1>1, <1>2, <1>4, <1>6
<1> QED
  BY <1>1, <1>2, <1>7 DEF PoolNow

\* The line a call reads leaves its connection's lines.
LEMMA ConsumedLine ==
    ASSUME PoolNow, NEW k \in Callers, NEW at \in {"greeting", "answer"}, Receives(k, at), Consumed(k)
    PROVE  /\ fetch[k].at = at /\ lines' \in [Conns -> Seq(Lines)]
           /\ OnlyAt(fetch[k].conn, lines, lines') /\ lines[fetch[k].conn] # <<>>
           /\ lines'[fetch[k].conn] = Tail(lines[fetch[k].conn])
<1>1. PICK c : c = fetch[k].conn
  OBVIOUS
<1>2. c \in Conns /\ lines \in [Conns -> Seq(Lines)] /\ fetch[k].at = at /\ lines[c] # <<>>
  BY <1>1, WorksAt, PoolIs DEF Receives
<1>3. lines' = [lines EXCEPT ![c] = Tail(lines[c])] /\ Tail(lines[c]) \in Seq(Lines)
  BY <1>1, <1>2 DEF Consumed
<1> QED
  BY <1>1, <1>2, <1>3 DEF OnlyAt

LEMMA ReadsGreetingStep ==
    ASSUME PoolNow, NEW k \in Callers, ReadsGreeting(k)
    PROVE  PoolNow'
<1>1. /\ Receives(k, "greeting") /\ Consumed(k) /\ closed' = closed /\ UNCHANGED nntpLeft
      /\ BudgetKnown /\ closed \in BOOLEAN
  BY DEF ReadsGreeting, PoolNow
<1>2. PICK c : c = fetch[k].conn
  OBVIOUS
<1>3. PICK ls : ls = lines'
  OBVIOUS
<1>4. /\ fetch[k].at = "greeting" /\ ls \in [Conns -> Seq(Lines)] /\ OnlyAt(c, lines, ls)
      /\ lines[c] # <<>> /\ ls[c] = Tail(lines[c])
  BY <1>1, <1>2, <1>3, ConsumedLine
<1>5. PICK e \in Int : e = Spent
  BY <1>1, SpendsNone
<1>6. Spent' = e /\ BudgetKnown'
  BY <1>1, <1>5, SpendsNone
<1>7. /\ c \in Conns /\ fetch[k].wants \in Articles /\ Expects(Pool, lines, k)
      /\ (closed => socket[c] \in {"new", "destroyed"})
      /\ (~closed => socket[c] \in {"open", "lost"})
  BY <1>2, <1>4, WorksAt
<1>8. CASE BadResponse(k)
  <2>1. PoolSound(Pool', ls, closed, 0, {}, e)
    BY <1>2, <1>4, <1>5, <1>8, FetchEndsKeeps
  <2> QED
    BY <1>1, <1>3, <1>6, <2>1 DEF PoolNow
<1>9. CASE NextAttempt(k) /\ socket[c] # "open"
  <2>1. closed \/ socket[fetch[k].conn] = "lost"
    BY <1>2, <1>7, <1>9
  <2>2. PoolSound(Pool', ls, closed, 0, {}, e)
    BY <1>2, <1>4, <1>5, <1>9, <2>1, FetchEndsKeeps
  <2> QED
    BY <1>1, <1>3, <1>6, <2>2 DEF PoolNow
<1>10. CASE /\ NextLine(k).says = "hello" /\ socket[c] = "open"
            /\ Settles(Placed([Pool EXCEPT !.owes[c] = Append(@, fetch[k].wants)], k, "answer", c))
  <2>1. PICK p : p = Pool
    OBVIOUS
  <2>2. /\ p \in Pools /\ PoolSound(p, lines, closed, 0, {}, e) /\ p.fetch = fetch
        /\ p.socket = socket /\ lines \in [Conns -> Seq(Lines)]
    BY <1>5, <2>1, PoolIs
  <2>3. closed = FALSE
    BY <1>1, <1>7, <1>10
  <2>4. PICK a : a = [p.fetch[k] EXCEPT !.at = "answer", !.conn = c]
    OBVIOUS
  <2>5. PICK f : f = [p.fetch EXCEPT ![k] = a]
    OBVIOUS
  <2>6. PICK o : o = [p.owes EXCEPT ![c] = Append(p.owes[c], fetch[k].wants)]
    OBVIOUS
  <2>7. a \in FetchRecords /\ a.at = "answer" /\ a.conn = c /\ a.wants = p.fetch[k].wants
    BY <1>7, <2>2, <2>4 DEF Pools, FetchRecords, FetchStates
  <2>8. o \in [Conns -> Seq(Owed)] /\ f \in [Callers -> FetchRecords]
    BY <1>7, <2>2, <2>5, <2>6, <2>7 DEF Pools, Owed
  <2>9. PICK r : r = [p EXCEPT !.owes[c] = Append(@, fetch[k].wants)]
    OBVIOUS
  <2>10. r = [p EXCEPT !.owes = o]
    BY <1>7, <2>2, <2>6, <2>9 DEF Pools
  <2>11. r \in Pools /\ r.fetch = p.fetch
    BY <2>2, <2>8, <2>10 DEF Pools
  <2>12. PICK q : q = Placed(r, k, "answer", c)
    OBVIOUS
  <2>13. q = [r EXCEPT !.fetch = [r.fetch EXCEPT ![k] =
                [r.fetch[k] EXCEPT !.at = "answer", !.conn = c]]]
    BY <2>11, <2>12 DEF Placed, Pools, FetchRecords
  <2>14. q = [r EXCEPT !.fetch = f]
    BY ONLY <2>4, <2>5, <2>11, <2>13
  <2>15. /\ q \in Pools /\ q.socket = p.socket /\ q.owes = o /\ q.fetch = f
         /\ q.waiters = p.waiters /\ q.active = p.active /\ q.made = p.made /\ q.idle = p.idle
    BY <2>2, <2>8, <2>10, <2>11, <2>14 DEF Pools
  <2>16. /\ q.socket[c] = "open" /\ q.owes[c] = Append(p.owes[c], fetch[k].wants)
         /\ q.fetch[k] = a /\ OnlyAt(c, p.socket, q.socket) /\ OnlyAt(c, p.owes, q.owes)
         /\ \A j \in Callers \ {k} : q.fetch[j] = p.fetch[j]
    BY <1>7, <1>10, <2>2, <2>5, <2>6, <2>15 DEF OnlyAt, Pools
  <2>17. ls[c] = <<>> /\ p.owes[c] = <<>>
    <3>1. Greets(lines[c], p.owes[c]) /\ Head(lines[c]).says = "hello"
      BY <1>2, <1>4, <1>7, <1>10, <2>1, <2>2 DEF Expects, NextLine
    <3>2. p.owes[c] = <<>> /\ Len(lines[c]) = 1
      BY <1>4, <3>1 DEF Greets, Leaves
    <3>3. Tail(lines[c]) = <<>>
      BY <1>4, <1>7, <2>2, <3>2
    <3> QED
      BY <1>4, <3>2, <3>3
  <2>18. q.owes[c] = <<q.fetch[k].wants>>
    BY <2>2, <2>7, <2>16, <2>17
  <2>19. Expects(q, ls, k)
    BY <2>7, <2>16, <2>17, <2>18 DEF Expects, RepliesTo
  <2>20. StaysAt(c, k, p, q, ls)
    BY <1>2, <2>2, <2>7, <2>15, <2>16, <2>19 DEF StaysAt
  <2>21. e >= e /\ q.socket[c] # "lost"
    BY <1>5, <2>16
  <2>22. PoolSound(q, ls, FALSE, 0, {}, e)
    <3>1. PoolSound(p, lines, FALSE, 0, {}, e)
      BY <2>2, <2>3
    <3> QED
      BY <1>4, <1>5, <1>7, <2>2, <2>15, <2>20, <2>21, <3>1, StaysKeeps
  <2>23. Pool' = q
    BY <1>10, <2>1, <2>9, <2>12, <2>15, SettlesIs
  <2>24. PoolSound(Pool', lines', closed', 0, {}, Spent')
    BY <1>1, <1>3, <1>6, <2>3, <2>22, <2>23
  <2> QED
    BY <1>1, <1>6, <2>24 DEF PoolNow
<1> QED
  BY <1>2, <1>8, <1>9, <1>10 DEF ReadsGreeting

LEMMA ReadsArticleStep ==
    ASSUME PoolNow, NEW k \in Callers, ReadsArticle(k)
    PROVE  /\ PoolNow'
           /\ \/ delivered' = delivered
              \/ \E a \in Articles : delivered' = [delivered EXCEPT ![k] = [asked |-> a, got |-> a]]
<1>1. /\ Receives(k, "answer") /\ Consumed(k) /\ closed' = closed /\ UNCHANGED nntpLeft
      /\ BudgetKnown /\ closed \in BOOLEAN
  BY DEF ReadsArticle, PoolNow
<1>2. PICK c : c = fetch[k].conn
  OBVIOUS
<1>3. PICK ls : ls = lines'
  OBVIOUS
<1>4. /\ fetch[k].at = "answer" /\ ls \in [Conns -> Seq(Lines)] /\ OnlyAt(c, lines, ls)
      /\ lines[c] # <<>> /\ ls[c] = Tail(lines[c])
  BY <1>1, <1>2, <1>3, ConsumedLine
<1>5. PICK e \in Int : e = Spent
  BY <1>1, SpendsNone
<1>6. Spent' = e /\ BudgetKnown' /\ e <= MaxSockets
  BY <1>1, <1>5, SpendsNone
<1>7. c \in Conns /\ fetch[k].wants \in Articles /\ Expects(Pool, lines, k)
  BY <1>2, <1>4, WorksAt
<1>8. CASE BadResponse(k) /\ UNCHANGED delivered
  <2>1. PoolSound(Pool', ls, closed, 0, {}, e)
    BY <1>2, <1>4, <1>5, <1>8, FetchEndsKeeps
  <2> QED
    BY <1>1, <1>3, <1>6, <1>8, <2>1 DEF PoolNow
<1>9. CASE /\ NextLine(k).says \in {"article", "missing"}
           /\ Settles(Over(Returned(Pool, k), k))
           /\ delivered' = [delivered EXCEPT ![k] =
                              [asked |-> fetch[k].wants, got |-> NextLine(k).of]]
  <2>1. PICK p : p = Pool
    OBVIOUS
  <2>2. /\ p \in Pools /\ PoolSound(p, lines, closed, 0, {}, e) /\ p.fetch = fetch
        /\ p.socket = socket /\ lines \in [Conns -> Seq(Lines)]
    BY <1>5, <2>1, PoolIs
  <2>3. /\ ls[c] = <<>> /\ p.owes[c] = <<>> /\ NextLine(k).of = fetch[k].wants
    <3>1. /\ RepliesTo(lines[c], p.owes[c], fetch[k].wants)
          /\ NextLine(k) = Head(lines[c]) /\ Head(lines[c]).says # "goodbye"
      BY <1>2, <1>4, <1>7, <1>9, <2>1, <2>2 DEF Expects, NextLine
    <3>2. p.owes[c] = <<>> /\ Len(lines[c]) = 1 /\ lines[c][1].of = fetch[k].wants
      BY <1>4, <3>1 DEF RepliesTo, Leaves
    <3>3. Tail(lines[c]) = <<>> /\ Head(lines[c]) = lines[c][1]
      BY <1>4, <1>7, <2>2, <3>2
    <3> QED
      BY <1>4, <3>1, <3>2, <3>3
  <2>4. PICK t \in Int : t = IF p.socket[c] = "lost" THEN e - 1 ELSE e
    BY <1>5
  <2>5. /\ t >= IF p.socket[c] = "lost" THEN e - 1 ELSE e
        /\ t <= MaxSockets /\ t <= e
    BY <1>5, <1>6, <2>4, PoolSizes
  <2>6. PICK q : q = Returned(p, k)
    OBVIOUS
  <2>7. p.fetch[k].conn = c /\ p.fetch[k].at = "answer" /\ Quiet(ls[c])
    BY <1>2, <1>4, <2>2, <2>3 DEF Quiet
  <2>8. q \in Pools /\ PoolSound(q, ls, closed, 0, {k}, t)
    <3>1. /\ p \in Pools /\ ls \in [Conns -> Seq(Lines)] /\ closed \in BOOLEAN
          /\ e \in Int /\ PoolSound(p, lines, closed, 0, {}, e) /\ c \in Conns
          /\ p.fetch[k].conn = c /\ OnlyAt(c, lines, ls) /\ p.fetch[k].at = "answer"
          /\ p.owes[c] = <<>> /\ Quiet(ls[c]) /\ t \in Int /\ t <= MaxSockets
          /\ t >= IF p.socket[c] = "lost" THEN e - 1 ELSE e
      BY <1>1, <1>4, <1>5, <1>7, <2>2, <2>3, <2>4, <2>5, <2>7
    <3> QED
      BY <2>6, <3>1, GiveBackKeeps
  <2>9. PICK r : r = Over(q, k)
    OBVIOUS
  <2>10. r \in Pools /\ PoolSound(r, ls, closed, 0, {}, e)
    BY <1>1, <1>5, <2>4, <2>5, <2>8, <2>9, OverKeeps
  <2>11. Pool' = r
    BY <1>9, <2>1, <2>6, <2>9, <2>10, SettlesIs
  <2>12. PoolSound(Pool', lines', closed', 0, {}, Spent')
    BY <1>1, <1>3, <1>6, <2>10, <2>11
  <2>13. PoolNow'
    BY <1>1, <1>6, <2>12 DEF PoolNow
  <2> QED
    BY <1>7, <1>9, <2>3, <2>13
<1> QED
  BY <1>8, <1>9 DEF ReadsArticle

LEMMA ServerSendsStep ==
    ASSUME PoolNow, NEW c \in Conns, ServerSends(c)
    PROVE  PoolNow'
<1>1. /\ socket[c] = "open" /\ owes[c] # <<>> /\ closed' = closed /\ UNCHANGED nntpLeft
      /\ owes' = [owes EXCEPT ![c] = Tail(owes[c])] /\ BudgetKnown /\ closed \in BOOLEAN
      /\ UNCHANGED <<socket, idle, waiters, active, fetch, made>>
  BY DEF ServerSends, PoolNow
<1>2. PICK what : what = Head(owes[c])
  OBVIOUS
<1>3. PICK line : /\ line \in IF what = "greeting" THEN {Word("hello"), Word("goodbye")}
                              ELSE {[says |-> "article", of |-> what],
                                    [says |-> "missing", of |-> what]}
                  /\ lines' = [lines EXCEPT ![c] = Append(lines[c], line)]
  BY <1>2 DEF ServerSends
<1>4. PICK e \in Int : e = Spent
  BY <1>1, SpendsNone
<1>5. Spent' = e /\ BudgetKnown'
  BY <1>1, <1>4, SpendsNone
<1>6. PICK p : p = Pool
  OBVIOUS
<1>7. /\ p \in Pools /\ PoolSound(p, lines, closed, 0, {}, e) /\ p.fetch = fetch /\ p.idle = idle
      /\ p.socket = socket /\ p.owes = owes /\ lines \in [Conns -> Seq(Lines)]
  BY <1>4, <1>6, PoolIs
<1>8. SocketsKnown(p, lines, {}) /\ IdleKnown(p, lines, {}) /\ Shut(p, closed, {})
  BY <1>7 DEF PoolSound
<1>9. closed = FALSE
  BY <1>1, <1>7, <1>8 DEF Shut
<1>10. ~IsIdle(p, c)
  BY <1>1, <1>7, <1>8 DEF IdleKnown
<1>11. PICK k \in Callers : fetch[k].conn = c
  BY <1>1, <1>7, <1>8, <1>10 DEF SocketsKnown, Uses
<1>12. CallsKnown(p, {}) /\ c # NoConn
  BY <1>7, PoolSizes DEF PoolSound
<1>13. fetch[k].at \in {"connecting", "greeting", "answer"}
  BY <1>7, <1>11, <1>12 DEF CallsKnown
<1>14. /\ fetch[k].at \in {"greeting", "answer"} /\ fetch[k].wants \in Articles
       /\ Expects(p, lines, k)
  BY <1>1, <1>6, <1>9, <1>11, <1>13, WorksAt
<1>15. owes[c] \in Seq(Owed) /\ what \in Owed /\ Tail(owes[c]) \in Seq(Owed) /\ lines[c] \in Seq(Lines)
  BY <1>1, <1>2, <1>7 DEF Pools
<1>16. line \in Lines
  BY <1>3, <1>15 DEF Lines, Owed, Word
<1>17. PICK ls : ls = lines'
  OBVIOUS
<1>18. ls \in [Conns -> Seq(Lines)] /\ OnlyAt(c, lines, ls) /\ ls[c] = Append(lines[c], line)
  BY <1>3, <1>7, <1>15, <1>16, <1>17 DEF OnlyAt
<1>19. PICK q : q = Pool'
  OBVIOUS
<1>20. /\ q.socket = p.socket /\ q.owes = owes' /\ q.fetch = p.fetch /\ q.waiters = p.waiters
       /\ q.active = p.active /\ q.made = p.made /\ q.idle = p.idle
  BY <1>1, <1>6, <1>19 DEF Pool
<1>21. owes' \in [Conns -> Seq(Owed)] /\ owes'[c] = Tail(owes[c]) /\ OnlyAt(c, p.owes, owes')
  BY <1>1, <1>7, <1>15 DEF OnlyAt, Pools
<1>22. q \in Pools
  BY <1>1, <1>6, <1>7, <1>19, <1>21 DEF Pool, Pools
<1>23. Leaves(lines[c]) => Leaves(ls[c])
  BY <1>15, <1>16, <1>18 DEF Leaves
<1>24. Expects(q, ls, k)
  <2>1. CASE Leaves(lines[c])
    BY <1>7, <1>11, <1>14, <1>20, <1>23, <2>1 DEF Expects, Greets, RepliesTo
  <2>2. CASE ~Leaves(lines[c]) /\ fetch[k].at = "greeting"
    <3>1. lines[c] = <<>> /\ owes[c] = <<"greeting">>
      BY <1>1, <1>7, <1>11, <1>14, <2>2 DEF Expects, Greets
    <3>2. line.says \in {"hello", "goodbye"} /\ owes'[c] = <<>> /\ ls[c] = <<line>>
      BY <1>2, <1>3, <1>18, <1>21, <3>1 DEF Word
    <3>3. Greets(ls[c], owes'[c])
      BY <3>2 DEF Greets, Leaves
    <3> QED
      BY <1>7, <1>11, <1>20, <2>2, <3>3 DEF Expects
  <2>3. CASE ~Leaves(lines[c]) /\ fetch[k].at = "answer"
    <3>1. lines[c] = <<>> /\ owes[c] = <<fetch[k].wants>>
      BY <1>1, <1>7, <1>11, <1>14, <2>3 DEF Expects, RepliesTo
    <3>2. what = fetch[k].wants /\ what # "greeting"
      BY <1>2, <1>14, <3>1, PoolMarks
    <3>3. /\ line.says \in {"article", "missing"} /\ line.of = fetch[k].wants
          /\ owes'[c] = <<>> /\ ls[c] = <<line>>
      BY <1>3, <1>18, <1>21, <3>1, <3>2
    <3>4. RepliesTo(ls[c], owes'[c], fetch[k].wants)
      BY <3>3 DEF RepliesTo
    <3> QED
      BY <1>7, <1>11, <1>20, <2>3, <3>4 DEF Expects
  <2> QED
    BY <1>14, <2>1, <2>2, <2>3
<1>25. StaysAt(c, k, p, q, ls)
  BY <1>1, <1>7, <1>11, <1>14, <1>20, <1>21, <1>24 DEF StaysAt, OnlyAt
<1>26. e >= e /\ q.socket[c] # "lost"
  BY <1>1, <1>4, <1>7, <1>20
<1>27. PoolSound(q, ls, FALSE, 0, {}, e)
  <2>1. PoolSound(p, lines, FALSE, 0, {}, e)
    BY <1>7, <1>9
  <2> QED
    BY <1>4, <1>7, <1>11, <1>18, <1>22, <1>25, <1>26, <2>1, StaysKeeps
<1>28. PoolSound(Pool', lines', closed', 0, {}, Spent')
  BY <1>1, <1>5, <1>9, <1>17, <1>19, <1>27
<1> QED
  BY <1>1, <1>5, <1>28 DEF PoolNow

LEMMA SaysGoodbyeStep ==
    ASSUME PoolNow, NEW c \in Conns, SaysGoodbye(c)
    PROVE  PoolNow'
<1>1. /\ socket[c] = "open" /\ owes[c] = <<>> /\ c \in ToSet(idle) /\ Spends("faults")
      /\ lines' = [lines EXCEPT ![c] = Append(lines[c], Word("goodbye"))] /\ closed' = closed
      /\ BudgetKnown /\ closed \in BOOLEAN
      /\ UNCHANGED <<socket, owes, idle, waiters, active, fetch, made>>
  BY DEF SaysGoodbye, PoolNow
<1>2. PICK s \in Int : s = Spent
  BY <1>1, SpendsOne
<1>3. PICK e \in Int : e = Spent'
  BY <1>1, SpendsOne
<1>4. e >= s /\ BudgetKnown'
  BY <1>1, <1>2, <1>3, SpendsOne
<1>5. PICK p : p = Pool
  OBVIOUS
<1>6. /\ p \in Pools /\ PoolSound(p, lines, closed, 0, {}, s) /\ p.idle = idle
      /\ p.socket = socket /\ p.owes = owes /\ lines \in [Conns -> Seq(Lines)]
  BY <1>2, <1>5, PoolIs
<1>7. IdleKnown(p, lines, {}) /\ Shut(p, closed, {})
  BY <1>6 DEF PoolSound
<1>8. closed = FALSE
  BY <1>1, <1>6, <1>7 DEF Shut
<1>9. IsIdle(p, c) /\ Quiet(lines[c])
  BY <1>1, <1>6, <1>7 DEF IdleKnown, IsIdle, ToSet
<1>10. PICK ls : ls = lines'
  OBVIOUS
<1>11. Word("goodbye") \in Lines /\ Word("goodbye").says = "goodbye" /\ lines[c] \in Seq(Lines)
  BY <1>6 DEF Word, Lines
<1>12. ls \in [Conns -> Seq(Lines)] /\ OnlyAt(c, lines, ls) /\ ls[c] = Append(lines[c], Word("goodbye"))
  BY <1>1, <1>6, <1>10, <1>11 DEF OnlyAt
<1>13. Quiet(ls[c])
  BY <1>9, <1>11, <1>12 DEF Quiet, Leaves
<1>14. Pool' = p
  BY <1>1, <1>5 DEF Pool
<1>15. IdlesAt(c, p, p, ls)
  BY <1>1, <1>6, <1>13 DEF IdlesAt, OnlyAt
<1>16. PoolSound(p, lines, FALSE, 0, {}, s)
  BY <1>6, <1>8
<1>17. PoolSound(p, ls, FALSE, 0, {}, e)
  BY <1>2, <1>3, <1>4, <1>6, <1>9, <1>12, <1>15, <1>16, IdlesKeeps
<1>18. PoolSound(Pool', lines', closed', 0, {}, Spent')
  BY <1>1, <1>3, <1>8, <1>10, <1>14, <1>17
<1> QED
  BY <1>1, <1>4, <1>18 DEF PoolNow

LEMMA SocketLostStep ==
    ASSUME PoolNow, NEW c \in Conns, SocketLost(c)
    PROVE  PoolNow'
<1>1. /\ socket[c] = "open" /\ Spends("faults") /\ closed' = closed /\ lines' = lines
      /\ socket' = [socket EXCEPT ![c] = "lost"] /\ owes' = [owes EXCEPT ![c] = <<>>]
      /\ BudgetKnown /\ closed \in BOOLEAN
      /\ UNCHANGED <<idle, waiters, active, fetch, made>>
  BY DEF SocketLost, PoolNow
<1>2. PICK s \in Int : s = Spent
  BY <1>1, SpendsOne
<1>3. PICK e \in Int : e = Spent'
  BY <1>1, SpendsOne
<1>4. e = s + 1 /\ BudgetKnown'
  BY <1>1, <1>2, <1>3, SpendsOne
<1>5. PICK p : p = Pool
  OBVIOUS
<1>6. /\ p \in Pools /\ PoolSound(p, lines, closed, 0, {}, s) /\ p.idle = idle /\ p.fetch = fetch
      /\ p.socket = socket /\ p.owes = owes /\ lines \in [Conns -> Seq(Lines)]
  BY <1>2, <1>5, PoolIs
<1>7. /\ IdleKnown(p, lines, {}) /\ Shut(p, closed, {}) /\ SocketsKnown(p, lines, {})
      /\ CallsKnown(p, {})
  BY <1>6 DEF PoolSound
<1>8. closed = FALSE
  BY <1>1, <1>6, <1>7 DEF Shut
<1>9. PoolSound(p, lines, FALSE, 0, {}, s) /\ OnlyAt(c, lines, lines)
  BY <1>6, <1>8 DEF OnlyAt
<1>10. PICK q : q = Pool'
  OBVIOUS
<1>11. /\ q.socket = socket' /\ q.owes = owes' /\ q.fetch = p.fetch /\ q.waiters = p.waiters
       /\ q.active = p.active /\ q.made = p.made /\ q.idle = p.idle
  BY <1>1, <1>5, <1>10 DEF Pool
<1>12. /\ owes' \in [Conns -> Seq(Owed)] /\ owes'[c] = <<>> /\ OnlyAt(c, p.owes, owes')
       /\ socket' \in [Conns -> SocketStates] /\ socket'[c] = "lost" /\ OnlyAt(c, p.socket, socket')
  BY <1>1, <1>6 DEF OnlyAt, Pools, SocketStates
<1>13. q \in Pools
  BY <1>1, <1>5, <1>6, <1>10, <1>12 DEF Pool, Pools
<1>14. PoolSound(q, lines, FALSE, 0, {}, e)
  <2>1. CASE IsIdle(p, c)
    <3>1. IdlesAt(c, p, q, lines) /\ e >= s
      BY <1>4, <1>7, <1>11, <1>12, <2>1 DEF IdlesAt, IdleKnown
    <3> QED
      BY <1>2, <1>3, <1>6, <1>9, <1>13, <2>1, <3>1, IdlesKeeps
  <2>2. CASE ~IsIdle(p, c)
    <3>1. PICK k \in Callers : p.fetch[k].conn = c
      BY <1>1, <1>6, <1>7, <2>2 DEF SocketsKnown, Uses
    <3>2. p.fetch[k].at \in {"connecting", "greeting", "answer"}
      BY <1>7, <3>1, PoolSizes DEF CallsKnown
    <3>3. p.fetch[k].at \in {"greeting", "answer"} /\ Expects(p, lines, k)
      BY <1>1, <1>5, <1>6, <1>8, <3>1, <3>2, WorksAt
    <3>4. Expects(q, lines, k)
      BY <1>11, <1>12, <3>1, <3>3 DEF Expects, Greets, RepliesTo
    <3>5. StaysAt(c, k, p, q, lines)
      BY <1>11, <1>12, <3>1, <3>3, <3>4 DEF StaysAt
    <3>6. e >= s /\ e >= s + 1
      BY <1>2, <1>4
    <3> QED
      BY <1>2, <1>3, <1>6, <1>9, <1>13, <3>1, <3>5, <3>6, StaysKeeps
  <2> QED
    BY <2>1, <2>2
<1>15. PoolSound(Pool', lines', closed', 0, {}, Spent')
  BY <1>1, <1>3, <1>8, <1>10, <1>14
<1> QED
  BY <1>1, <1>4, <1>15 DEF PoolNow

LEMMA ClosesTransportStep ==
    ASSUME PoolNow, ClosesTransport
    PROVE  PoolNow'
<1>1. /\ closed' = TRUE /\ waiters' = <<>> /\ idle' = <<>> /\ BudgetKnown
      /\ socket' = [c \in Conns |-> IF socket[c] = "new" THEN "new" ELSE "destroyed"]
      /\ fetch' = [k \in Callers |-> IF fetch[k].at = "queued" THEN NoFetch ELSE fetch[k]]
      /\ UNCHANGED <<lines, owes, active, made, nntpLeft>>
  BY DEF ClosesTransport, PoolNow
<1>2. Spent' = Spent /\ BudgetKnown'
  BY <1>1, SpendsNone
<1>3. PICK p : p = Pool
  OBVIOUS
<1>4. /\ p \in Pools /\ PoolSound(p, lines, closed, 0, {}, Spent) /\ p.idle = idle
      /\ p.fetch = fetch /\ p.socket = socket /\ p.owes = owes /\ p.active = active
      /\ p.made = made /\ lines \in [Conns -> Seq(Lines)]
  BY <1>3, PoolIs
<1>5. /\ CallsKnown(p, {}) /\ UsedAlone(p, lines, {}) /\ SocketsKnown(p, lines, {})
      /\ PermitsCount(p, 0, {})
  BY <1>4 DEF PoolSound
<1>6. PICK q : q = Pool'
  OBVIOUS
<1>7. /\ q.socket = socket' /\ q.owes = p.owes /\ q.fetch = fetch' /\ q.waiters = <<>>
      /\ q.active = p.active /\ q.made = p.made /\ q.idle = <<>>
  BY <1>1, <1>4, <1>6 DEF Pool
<1>8. \A k \in Callers : \/ p.fetch[k].at # "queued" /\ q.fetch[k] = p.fetch[k]
                         \/ /\ p.fetch[k].at = "queued" /\ q.fetch[k] = NoFetch
                            /\ p.fetch[k].conn = NoConn
  BY <1>1, <1>4, <1>5, <1>7 DEF CallsKnown
<1>9. \A c \in Conns : /\ q.socket[c] \in {"new", "destroyed"}
                       /\ p.socket[c] = "new" => q.socket[c] = "new"
  BY <1>1, <1>4, <1>7
<1>10. q \in Pools
  <2>1. NoFetch \in FetchRecords
    BY PoolSizes DEF NoFetch, FetchRecords, FetchStates, Retries
  <2>2. fetch' \in [Callers -> FetchRecords]
    BY <1>1, <1>4, <2>1 DEF Pools
  <2>3. socket' \in [Conns -> SocketStates]
    BY <1>1 DEF SocketStates
  <2>4. /\ p.owes \in [Conns -> Seq(Owed)] /\ p.active \in Nat /\ p.made \in 0 .. MaxSockets
        /\ idle' \in Seq(Conns) /\ waiters' \in Seq(Callers)
    BY <1>1, <1>4 DEF Pools
  <2> QED
    BY <1>1, <1>4, <1>6, <2>2, <2>3, <2>4 DEF Pool, Pools
<1>11. AtWorkIn(q, {}) = AtWorkIn(p, {})
  BY <1>8 DEF AtWorkIn, NoFetch
<1>12. \A k \in AtWorkIn(p, {}) : k \in Callers /\ q.fetch[k] = p.fetch[k]
  BY <1>8 DEF AtWorkIn
<1>13. CallsKnown(q, {})
  BY <1>5, <1>8 DEF CallsKnown, NoFetch
<1>14. WaitersKnown(q, {})
  BY <1>7, <1>8 DEF WaitersKnown, InQueue, NoFetch
<1>15. IdleKnown(q, lines, {})
  BY <1>7 DEF IdleKnown, IsIdle
<1>16. UsedAlone(q, lines, {})
  BY <1>5, <1>7, <1>11, <1>12 DEF UsedAlone, Expects
<1>17. SocketsKnown(q, lines, {})
  BY <1>5, <1>7, <1>9 DEF SocketsKnown
<1>18. PermitsCount(q, 0, {})
  <2>1. Cardinality(AtWorkIn(p, {})) \in Nat
    BY FewAtWork
  <2>2. Len(q.idle) = 0
    BY <1>7
  <2> QED
    BY <1>5, <1>7, <1>11, <2>1, <2>2, PoolSizes DEF PermitsCount
<1>19. Shut(q, TRUE, {}) /\ RoomLeft(q, TRUE, {}, Spent)
  BY <1>7, <1>9 DEF Shut, RoomLeft
<1>20. PoolSound(q, lines, TRUE, 0, {}, Spent)
  BY <1>4, <1>10, <1>13, <1>14, <1>15, <1>16, <1>17, <1>18, <1>19 DEF PoolSound
<1>21. PoolSound(Pool', lines', closed', 0, {}, Spent')
  BY <1>1, <1>2, <1>6, <1>20
<1> QED
  BY <1>1, <1>2, <1>21 DEF PoolNow

LEMMA PoolStarts == PoolInit => PoolInv
<1> SUFFICES ASSUME PoolInit PROVE PoolInv
  OBVIOUS
<1>1. BudgetKnown /\ Spent = 0 /\ closed \in BOOLEAN /\ closed = FALSE
  <2>1. nntpLeft = [calls |-> MaxArticleCalls, faults |-> MaxNntpFaults] /\ closed = FALSE
    BY DEF PoolInit
  <2>2. nntpLeft.calls = MaxArticleCalls /\ nntpLeft.faults = MaxNntpFaults
    BY <2>1
  <2>3. BudgetKnown
    BY <2>1, PoolSizes DEF BudgetKnown
  <2>4. Spent = 0
    BY <2>2, PoolSizes DEF Spent
  <2> QED
    BY <2>1, <2>3, <2>4
<1>2. PICK p : p = Pool
  OBVIOUS
<1>3. /\ p.socket = [c \in Conns |-> "new"] /\ p.owes = [c \in Conns |-> <<>>] /\ p.idle = <<>>
      /\ p.waiters = <<>> /\ p.active = 0 /\ p.made = 0 /\ p.fetch = [k \in Callers |-> NoFetch]
      /\ lines = [c \in Conns |-> <<>>]
  BY <1>2 DEF PoolInit, Pool
<1>4. p \in Pools /\ lines \in [Conns -> Seq(Lines)]
  <2>1. NoFetch \in FetchRecords
    BY PoolSizes DEF NoFetch, FetchRecords, FetchStates, Retries
  <2>2. /\ p.socket \in [Conns -> SocketStates] /\ p.fetch \in [Callers -> FetchRecords]
        /\ p.owes \in [Conns -> Seq(Owed)] /\ p.idle \in Seq(Conns) /\ p.waiters \in Seq(Callers)
        /\ p.active \in Nat /\ p.made \in 0 .. MaxSockets /\ lines \in [Conns -> Seq(Lines)]
    BY <1>3, <2>1, PoolSizes DEF SocketStates
  <2> QED
    BY <1>2, <2>2 DEF Pool, Pools
<1>5. AtWorkIn(p, {}) = {} /\ DueIn(p, {}) = {}
  BY <1>3 DEF AtWorkIn, DueIn, NoFetch
<1>6. Cardinality(AtWorkIn(p, {})) = 0 /\ Cardinality(DueIn(p, {})) = 0
  BY <1>5, FS_EmptySet
<1>7. CallsKnown(p, {}) /\ WaitersKnown(p, {})
  BY <1>3 DEF CallsKnown, WaitersKnown, InQueue, NoFetch
<1>8. IdleKnown(p, lines, {}) /\ SocketsKnown(p, lines, {})
  BY <1>3 DEF IdleKnown, SocketsKnown, IsIdle
<1>9. UsedAlone(p, lines, {}) /\ Shut(p, FALSE, {})
  BY <1>5 DEF UsedAlone, Shut
<1>10. PermitsCount(p, 0, {}) /\ RoomLeft(p, FALSE, {}, 0)
  BY <1>3, <1>6, PoolSizes DEF PermitsCount, RoomLeft
<1>11. PoolSound(p, lines, FALSE, 0, {}, 0)
  BY <1>4, <1>7, <1>8, <1>9, <1>10 DEF PoolSound
<1>12. PoolNow
  BY <1>1, <1>2, <1>11 DEF PoolNow
<1> QED
  BY <1>12 DEF PoolInv, PoolInit, AnswersItsOwn

\* The inductive invariant of the pool is kept by every step.
LEMMA PoolSteps == PoolInv /\ [PoolNext]_poolVars => PoolInv'
<1> SUFFICES ASSUME PoolInv, [PoolNext]_poolVars PROVE PoolInv'
  OBVIOUS
<1> DEFINE Told == [Callers -> [asked : Articles \cup {NoArticle}, got : Articles \cup {NoArticle}]]
<1>1. PoolNow /\ AnswersItsOwn /\ delivered \in Told
  BY DEF PoolInv
<1>2. PoolNow' /\ delivered' = delivered => PoolInv'
  BY <1>1 DEF PoolInv, AnswersItsOwn
<1>3. ASSUME NEW k \in Callers, ReadsArticle(k)
      PROVE  PoolInv'
  <2>1. PoolNow'
    BY <1>1, <1>3, ReadsArticleStep
  <2>2. CASE delivered' = delivered
    BY <1>2, <2>1, <2>2
  <2>3. ASSUME NEW a \in Articles, delivered' = [delivered EXCEPT ![k] = [asked |-> a, got |-> a]]
        PROVE  PoolInv'
    <3>1. delivered' \in Told
      BY <1>1, <2>3
    <3>2. AnswersItsOwn'
      BY <1>1, <2>3 DEF AnswersItsOwn
    <3> QED
      BY <2>1, <3>1, <3>2 DEF PoolInv
  <2> QED
    BY <1>1, <1>3, <2>2, <2>3, ReadsArticleStep
<1>4. CASE UNCHANGED poolVars
  <2>1. Pool' = Pool /\ lines' = lines /\ closed' = closed /\ Spent' = Spent
    BY <1>4 DEF poolVars, Pool, Spent
  <2>2. BudgetKnown'
    BY <1>1, <1>4 DEF poolVars, BudgetKnown, PoolNow
  <2>3. PoolNow'
    BY <1>1, <2>1, <2>2 DEF PoolNow
  <2> QED
    BY <1>2, <1>4, <2>3 DEF poolVars
<1>5. ASSUME NEW k \in Callers, Fetches(k) PROVE PoolInv'
  BY <1>1, <1>2, <1>5, FetchesStep DEF Fetches
<1>6. ASSUME NEW k \in Callers, TriesAgainFetch(k) PROVE PoolInv'
  BY <1>1, <1>2, <1>6, TriesAgainFetchStep DEF TriesAgainFetch
<1>7. ASSUME NEW k \in Callers, GivesUpWaiting(k) PROVE PoolInv'
  BY <1>1, <1>2, <1>7, GivesUpWaitingStep DEF GivesUpWaiting
<1>8. ASSUME NEW k \in Callers, Opens(k) PROVE PoolInv'
  BY <1>1, <1>2, <1>8, OpensStep DEF Opens
<1>9. ASSUME NEW k \in Callers, CannotOpen(k) PROVE PoolInv'
  BY <1>1, <1>2, <1>9, CannotOpenStep DEF CannotOpen
<1>10. ASSUME NEW k \in Callers, ReadsGreeting(k) PROVE PoolInv'
  BY <1>1, <1>2, <1>10, ReadsGreetingStep DEF ReadsGreeting
<1>11. ASSUME NEW k \in Callers, LineLost(k) PROVE PoolInv'
  BY <1>1, <1>2, <1>11, LineLostStep DEF LineLost
<1>12. ASSUME NEW k \in Callers, LineTimesOut(k) PROVE PoolInv'
  BY <1>1, <1>2, <1>12, LineTimesOutStep DEF LineTimesOut
<1>13. CASE ClosesTransport
  BY <1>1, <1>2, <1>13, ClosesTransportStep DEF ClosesTransport
<1>14. ASSUME NEW c \in Conns, ServerSends(c) PROVE PoolInv'
  BY <1>1, <1>2, <1>14, ServerSendsStep DEF ServerSends
<1>15. ASSUME NEW c \in Conns, SaysGoodbye(c) PROVE PoolInv'
  BY <1>1, <1>2, <1>15, SaysGoodbyeStep DEF SaysGoodbye
<1>16. ASSUME NEW c \in Conns, SocketLost(c) PROVE PoolInv'
  BY <1>1, <1>2, <1>16, SocketLostStep DEF SocketLost
<1> QED
  BY <1>3, <1>4, <1>5, <1>6, <1>7, <1>8, <1>9, <1>10, <1>11, <1>12, <1>13, <1>14, <1>15, <1>16
     DEF PoolNext

\* The connections that are kept are those of the calls at work and the idle ones.
LEMMA PoolHolds == PoolInv => PoolKept
<1> SUFFICES ASSUME PoolInv PROVE PoolKept
  OBVIOUS
<1>1. PICK p : p = Pool
  OBVIOUS
<1>2. /\ p \in Pools /\ PoolSound(p, lines, closed, 0, {}, Spent) /\ p.idle = idle
      /\ p.fetch = fetch /\ p.socket = socket /\ p.owes = owes /\ p.active = active
      /\ p.waiters = waiters /\ p.made = made
      /\ lines \in [Conns -> Seq(Lines)] /\ closed \in BOOLEAN /\ AnswersItsOwn
  BY <1>1, PoolIs DEF PoolInv
<1>3. /\ CallsKnown(p, {}) /\ UsedAlone(p, lines, {}) /\ SocketsKnown(p, lines, {})
      /\ PermitsCount(p, 0, {}) /\ IdleKnown(p, lines, {}) /\ Shut(p, closed, {})
  BY <1>2 DEF PoolSound
<1> DEFINE AtWork == {k \in Callers : fetch[k].conn # NoConn}
           Kept   == {c \in Conns : socket[c] \in {"connecting", "open"}}
           Used   == {fetch[k].conn : k \in AtWork}
           Idle   == {idle[n] : n \in 1 .. Len(idle)}
<1>4. AtWork = AtWorkIn(p, {})
  BY <1>2 DEF AtWorkIn
<1>5. IsFiniteSet(AtWork) /\ Cardinality(AtWork) \in Nat
  BY <1>4, FewAtWork
<1>6. active = Cardinality(AtWork) /\ active <= Places /\ Cardinality(AtWork) + Len(idle) <= Places
  <2>1. PICK m : m = Cardinality(AtWorkIn(p, {}))
    OBVIOUS
  <2>2. m \in Nat /\ m = Cardinality(AtWork)
    BY <1>4, <1>5, <2>1
  <2>3. p.active = m /\ m <= Places /\ m + Len(p.idle) <= Places
    BY <1>3, <2>1, <2>2, PoolSizes DEF PermitsCount
  <2> QED
    BY <1>2, <2>2, <2>3
<1>7. PoolTypeOK
  <2>1. active \in 0 .. Places
    BY <1>5, <1>6, PoolSizes
  <2>2. /\ socket \in [Conns -> SocketStates] /\ fetch \in [Callers -> FetchRecords]
        /\ owes \in [Conns -> Seq(Owed)] /\ idle \in Seq(Conns) /\ waiters \in Seq(Callers)
        /\ made \in 0 .. MaxSockets
    BY <1>2 DEF Pools
  <2> QED
    BY <1>2, <2>1, <2>2 DEF PoolTypeOK, SocketStates, FetchRecords, FetchStates
<1>8. Len(idle) \in Nat /\ idle \in Seq(Conns)
  BY <1>2 DEF Pools
<1>9. IsFiniteSet(Used) /\ Cardinality(Used) <= Cardinality(AtWork)
  <2>1. [k \in AtWork |-> fetch[k].conn] \in Surjection(AtWork, Used)
    BY DEF Surjection
  <2> QED
    BY <1>5, <2>1, FS_Surjection
<1>10. IsFiniteSet(Idle) /\ Cardinality(Idle) <= Len(idle)
  <2>1. IsFiniteSet(1 .. Len(idle)) /\ Cardinality(1 .. Len(idle)) = Len(idle)
    BY <1>8, FS_Interval
  <2>2. [n \in 1 .. Len(idle) |-> idle[n]] \in Surjection(1 .. Len(idle), Idle)
    BY DEF Surjection
  <2> QED
    BY <2>1, <2>2, FS_Surjection
<1>11. Kept \subseteq Used \cup Idle
  <2> SUFFICES ASSUME NEW c \in Kept PROVE c \in Used \cup Idle
    OBVIOUS
  <2>1. IsIdle(p, c) \/ \E k \in Callers : Uses(p, k, c)
    BY <1>2, <1>3 DEF SocketsKnown
  <2>2. CASE IsIdle(p, c)
    BY <1>2, <1>8, <2>2 DEF IsIdle
  <2>3. ASSUME NEW k \in Callers, Uses(p, k, c) PROVE c \in Used
    BY <1>2, <2>3, PoolSizes DEF Uses
  <2> QED
    BY <2>1, <2>2, <2>3
<1>12. Cardinality(Kept) <= Places
  <2>1. /\ IsFiniteSet(Used \cup Idle)
        /\ Cardinality(Used \cup Idle) =
              Cardinality(Used) + Cardinality(Idle) - Cardinality(Used \cap Idle)
    BY <1>9, <1>10, FS_Union
  <2>2. IsFiniteSet(Used \cap Idle)
    BY <1>9, FS_Intersection
  <2>3. /\ Cardinality(Used \cap Idle) \in Nat /\ Cardinality(Used) \in Nat
        /\ Cardinality(Idle) \in Nat
    BY <1>9, <1>10, <2>2, FS_CardinalityType
  <2>4. IsFiniteSet(Kept) /\ Cardinality(Kept) <= Cardinality(Used \cup Idle)
    BY <1>11, <2>1, FS_Subset
  <2>5. Cardinality(Kept) \in Nat /\ Cardinality(Used \cup Idle) \in Nat
    BY <2>1, <2>4, FS_CardinalityType
  <2> QED
    BY <1>5, <1>6, <1>8, <1>9, <1>10, <2>1, <2>3, <2>4, <2>5, PoolSizes
<1>13. \A j, k \in AtWork : j # k => fetch[j].conn # fetch[k].conn
  BY <1>2, <1>3, <1>4 DEF UsedAlone
<1>14. \A k \in AtWork : fetch[k].conn \notin ToSet(idle)
  <2> SUFFICES ASSUME NEW k \in AtWork, fetch[k].conn \in ToSet(idle) PROVE FALSE
    OBVIOUS
  <2>1. IsIdle(p, fetch[k].conn) /\ fetch[k].conn \in Conns
    BY <1>2, <1>8 DEF IsIdle, ToSet
  <2> QED
    BY <1>2, <1>3, <2>1 DEF IdleKnown, Uses
<1>15. WithinPlaces
  BY <1>6, <1>12, <1>13, <1>14 DEF WithinPlaces
<1>16. ClosedForGood
  BY <1>2, <1>3 DEF Shut, ClosedForGood
<1> QED
  BY <1>2, <1>7, <1>15, <1>16 DEF PoolKept

\* Calls get the article they asked for, permits and connections stay within the
\* places, and a closed transport stays closed, whatever is lost or late.
THEOREM PoolIsKept == PoolSpec => []PoolKept
<1>1. PoolInit => PoolInv
  BY PoolStarts
<1>2. PoolInv /\ [PoolNext]_poolVars => PoolInv'
  BY PoolSteps
<1>3. PoolInv => PoolKept
  BY PoolHolds
<1> QED
  BY <1>1, <1>2, <1>3, PTL DEF PoolSpec

------------------------------------------------------------------------------
(* MCServices: the five services together                                      *)

LEMMA ServicesStart ==
    ServicesInit => /\ IndexerInit /\ PoolInit /\ FeedInit /\ ChannelInit /\ AccountInit
BY DEF ServicesInit

\* One of them takes a step, the others stay as they are.
LEMMA ServicesSteps ==
    [ServicesNext]_servicesVars =>
       /\ [IndexerNext]_indexerVars /\ [PoolNext]_poolVars /\ [FeedNext]_feedVars
       /\ [ChannelNext]_channelVars /\ [AccountNext]_accountVars
BY DEF ServicesNext, servicesVars

\* A behaviour of the five together is one of each: whatever is proved of a
\* service holds where they are composed.
THEOREM ServicesAreMadeOfParts ==
    ServicesSpec => /\ IndexerSpec /\ PoolSpec /\ FeedSpec /\ ChannelSpec /\ AccountSpec
BY ServicesStart, ServicesSteps, PTL DEF ServicesSpec, IndexerSpec, PoolSpec, FeedSpec,
   ChannelSpec, AccountSpec

\* What is promised of each service is kept where they are composed.
THEOREM ServicesAreKept ==
    ServicesSpec => /\ []IndexersKept /\ []PoolKept /\ []FeedKept /\ []ChannelKept
                    /\ []AccountsKept
BY ServicesAreMadeOfParts, IndexersAreKept, PoolIsKept, FeedIsKept, ChannelIsKept,
   AccountsAreKept, PTL

==============================================================================
