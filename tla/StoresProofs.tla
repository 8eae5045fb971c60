---------------------------- MODULE StoresProofs ----------------------------
(* Machine-checked theorems about LibraryImport and ManagedTitles, for any set *)
(* of files, titles and observers, any number of imports, renames, scans,      *)
(* crashes and damages, refreshes, edits and lost writes; and about MCStores,  *)
(* the components whose promises are about what survives, together.            *)
EXTENDS MCStores, TransferProofs, ConfigurationProofs


\* The rows are told apart by their ids, and those of the rescan by their hash.
AreRows(s) ==
    /\ s \in Seq(Row)
    /\ \A m, n \in DOMAIN s : s[m].id = s[n].id => m = n
    /\ \A n \in DOMAIN s : s[n].named <=> s[n].version # 0
\* A preview names two paths and a row of an item.
Moves == [id : Nat, from : Paths, to : Paths, content : Contents]
MoveShaped ==
    /\ move \in Moves \cup {None}
    /\ move # None => move.from # move.to
    /\ move # None => \A r \in Rows : r.id = move.id => r.named

LEMMA RowsNext == Rows' = {rows'[n] : n \in DOMAIN rows'}
BY DEF Rows

LEMMA FreshIdIsFresh ==
    ASSUME AreRows(rows), MoveShaped
    PROVE  /\ FreshId \in Nat
           /\ \A r \in Rows : r.id # FreshId
           /\ move # None => move.id # FreshId
<1> DEFINE N == Len(rows) + 1
           last == IF move = None THEN 0 ELSE move.id
           f == [n \in 1 .. N |-> IF n \in DOMAIN rows THEN rows[n].id ELSE last]
           used == {f[n] : n \in 1 .. N}
<1>1. N \in Nat /\ DOMAIN rows = 1 .. Len(rows) /\ Len(rows) \in Nat
  BY DEF AreRows
<1>2. f \in Surjection(1 .. N, used)
  BY DEF Surjection
<1>3. IsFiniteSet(1 .. N) /\ Cardinality(1 .. N) = N
  BY <1>1, FS_Interval
<1>4. IsFiniteSet(used) /\ Cardinality(used) <= N
  <2> HIDE DEF f, used, N
  <2> QED
    BY <1>2, <1>3, FS_Surjection
<1>5. IsFiniteSet(0 .. N) /\ Cardinality(0 .. N) = N + 1
  <2> HIDE DEF N
  <2> QED
    BY <1>1, FS_Interval
<1>6. ~(0 .. N \subseteq used)
  <2> HIDE DEF f, used, N
  <2>1. SUFFICES ASSUME 0 .. N \subseteq used PROVE FALSE
    OBVIOUS
  <2>2. Cardinality(0 .. N) <= Cardinality(used)
    BY <2>1, <1>4, FS_Subset
  <2> QED
    BY <2>2, <1>1, <1>4, <1>5, FS_CardinalityType
<1>7. PICK id \in 0 .. N : id \notin used
  BY <1>6
<1>8. \A r \in Rows : r.id \in used
  <2> SUFFICES ASSUME NEW n \in DOMAIN rows PROVE rows[n].id \in used
    BY DEF Rows
  <2>1. n \in 1 .. N /\ f[n] = rows[n].id
    BY <1>1
  <2> QED
    BY <2>1
<1>9. move # None => move.id \in used
  <2>1. N \in 1 .. N /\ f[N] = last
    BY <1>1
  <2> QED
    BY <2>1
<1>10. ~Has(id) /\ (move # None => move.id # id)
  BY <1>7, <1>8, <1>9 DEF Has
<1>11. FreshId \in 0 .. Len(rows) + 1 /\ ~Has(FreshId) /\ (move # None => move.id # FreshId)
  BY <1>7, <1>10 DEF FreshId
<1> QED
  BY <1>11, <1>1 DEF Has

\* Removing a row keeps the others in their order.
LEMMA WithoutOne ==
    ASSUME AreRows(rows), NEW id
    PROVE  /\ AreRows(Without(id))
           /\ {Without(id)[n] : n \in DOMAIN Without(id)} = {r \in Rows : r.id # id}
<1>1. DOMAIN rows = 1 .. Len(rows) /\ Len(rows) \in Nat
      /\ \A n \in DOMAIN rows : rows[n] \in Row
  BY DEF AreRows
<1>2. CASE ~Has(id)
  <2>1. Without(id) = rows
    BY <1>2 DEF Without
  <2>2. \A r \in Rows : r.id # id
    BY <1>2 DEF Has
  <2> QED
    BY <2>1, <2>2 DEF Rows
<1>3. CASE Has(id)
  <2> DEFINE gone == CHOOSE n \in DOMAIN rows : rows[n].id = id
             s == [n \in 1 .. Len(rows) - 1 |-> rows[IF n < gone THEN n ELSE n + 1]]
  <2>1. gone \in 1 .. Len(rows) /\ rows[gone].id = id
    BY <1>1, <1>3 DEF Has, Rows
  <2>2. Without(id) = s
    BY <1>3 DEF Without
  <2> HIDE DEF gone
  <2>3. \A n \in 1 .. Len(rows) - 1 :
           LET m == IF n < gone THEN n ELSE n + 1 IN
           m \in DOMAIN rows /\ m # gone /\ s[n] = rows[m]
    BY <1>1, <2>1
  <2>4. s \in Seq(Row) /\ DOMAIN s = 1 .. Len(rows) - 1
    <3>1. s \in [1 .. Len(rows) - 1 -> Row]
      BY <1>1, <2>3
    <3>2. Len(rows) - 1 \in Nat
      BY <1>1, <2>1
    <3> QED
      BY <3>1, <3>2
  <2>5. ASSUME NEW m \in 1 .. Len(rows) - 1, NEW n \in 1 .. Len(rows) - 1, s[m].id = s[n].id
        PROVE  m = n
    <3> DEFINE k == IF m < gone THEN m ELSE m + 1
               l == IF n < gone THEN n ELSE n + 1
    <3>1. /\ k \in DOMAIN rows /\ k # gone /\ s[m] = rows[k]
          /\ l \in DOMAIN rows /\ l # gone /\ s[n] = rows[l]
      BY <2>3
    <3>2. k = l
      <4> HIDE DEF k, l, s
      <4> QED
        BY <3>1, <2>5 DEF AreRows
    <3> HIDE DEF s
    <3> QED
      BY <3>2, <2>1, <1>1
  <2>6. \A n \in DOMAIN s : s[n].named <=> s[n].version # 0
    BY <2>3, <2>4 DEF AreRows
  <2>7. AreRows(s)
    <3> HIDE DEF s
    <3> QED
      BY <2>4, <2>5, <2>6 DEF AreRows
  <2>8. ASSUME NEW n \in DOMAIN s PROVE s[n] \in Rows /\ s[n].id # id
    BY <2>3, <2>4, <2>1, <1>1 DEF AreRows, Rows
  <2>9. ASSUME NEW m \in DOMAIN rows, rows[m].id # id PROVE \E n \in DOMAIN s : s[n] = rows[m]
    <3>1. m # gone
      BY <2>9, <2>1
    <3>2. CASE m < gone
      BY <3>2, <2>3, <2>4, <2>1, <1>1
    <3>3. CASE m > gone
      <4>1. m - 1 \in 1 .. Len(rows) - 1 /\ ~(m - 1 < gone)
        BY <3>3, <2>1, <1>1
      <4>2. s[m - 1] = rows[m]
        BY <4>1, <2>1, <1>1
      <4> QED
        BY <4>1, <4>2, <2>4
    <3> QED
      BY <3>1, <3>2, <3>3, <2>1, <1>1
  <2>10. {s[n] : n \in DOMAIN s} = {r \in Rows : r.id # id}
    <3> HIDE DEF s
    <3> QED
      BY <2>8, <2>9 DEF Rows
  <2> QED
    <3> HIDE DEF s
    <3> QED
      BY <2>2, <2>7, <2>10
<1> QED
  BY <1>2, <1>3

\* Appending a row under an id of its own.
LEMMA AppendOne ==
    ASSUME NEW s, AreRows(s), NEW r \in Row, r.named <=> r.version # 0,
           \A n \in DOMAIN s : s[n].id # r.id
    PROVE  /\ AreRows(Append(s, r))
           /\ Len(Append(s, r)) > 0 /\ Append(s, r)[Len(Append(s, r))] = r
           /\ {Append(s, r)[n] : n \in DOMAIN Append(s, r)} = {s[n] : n \in DOMAIN s} \cup {r}
<1> DEFINE a == Append(s, r)
<1>1. s \in Seq(Row) /\ Len(s) \in Nat /\ DOMAIN s = 1 .. Len(s)
  BY DEF AreRows
<1>2. a \in Seq(Row) /\ Len(a) = Len(s) + 1 /\ DOMAIN a = 1 .. Len(s) + 1
  BY <1>1
<1>3. a[Len(s) + 1] = r /\ \A n \in DOMAIN s : a[n] = s[n]
  BY <1>1
<1>4. \A n \in DOMAIN a : n \in DOMAIN s \/ n = Len(s) + 1
  BY <1>1, <1>2
<1>5. DOMAIN s \subseteq DOMAIN a /\ Len(s) + 1 \in DOMAIN a
  BY <1>1, <1>2
<1> HIDE DEF a
<1>6. AreRows(a)
  BY <1>2, <1>3, <1>4 DEF AreRows
<1>7. {a[n] : n \in DOMAIN a} = {s[n] : n \in DOMAIN s} \cup {r}
  BY <1>3, <1>4, <1>5
<1> QED
  BY <1>1, <1>2, <1>3, <1>6, <1>7 DEF a

LEMMA RowsAppended ==
    ASSUME NEW s, AreRows(s), NEW r \in Row, r.named <=> r.version # 0,
           \A n \in DOMAIN s : s[n].id # r.id, rows' = Append(s, r)
    PROVE  AreRows(rows') /\ Rows' = {s[n] : n \in DOMAIN s} \cup {r}
BY AppendOne, RowsNext

\* put ends with the row it wrote as the latest: one that was there, or a new one.
LEMMA PutAdds ==
    ASSUME AreRows(rows), MoveShaped, NEW named \in BOOLEAN,
           NEW version \in Versions \cup {0}, NEW path \in Paths, named <=> version # 0,
           PutRow(named, version, path)
    PROVE  /\ AreRows(rows') /\ Len(rows') > 0
           /\ LET r == rows'[Len(rows')] IN
              /\ r \in Row /\ r.named = named /\ r.path = path
              /\ Rows' = Rows \cup {r}
              /\ r \in Rows \/ (move # None => move.id # r.id)
<1> DEFINE same == {n \in DOMAIN rows : rows[n].version = version /\ rows[n].path = path}
           new == [id |-> FreshId, named |-> named, version |-> version, path |-> path]
           row == IF same # {} THEN rows[CHOOSE n \in same : TRUE] ELSE new
<1>1. rows' = Append(Without(row.id), row)
  BY DEF PutRow
<1>2. /\ row \in Row /\ (row.named <=> row.version # 0)
      /\ row.named = named /\ row.path = path
      /\ row \in Rows \/ (/\ \A r \in Rows : r.id # row.id
                          /\ move # None => move.id # row.id)
  <2>1. CASE same # {}
    <3> DEFINE k == CHOOSE n \in same : TRUE
    <3>1. k \in DOMAIN rows /\ rows[k].version = version /\ rows[k].path = path
      BY <2>1
    <3>2. row = rows[k]
      BY <2>1
    <3> HIDE DEF k, row
    <3>3. rows[k] \in Row /\ (rows[k].named <=> rows[k].version # 0)
      BY <3>1 DEF AreRows
    <3>4. rows[k] \in Rows
      BY <3>1 DEF Rows
    <3>5. rows[k].named \in BOOLEAN
      BY <3>3 DEF Row
    <3> QED
      BY <3>1, <3>2, <3>3, <3>4, <3>5
  <2>2. CASE same = {}
    <3>1. row = new
      BY <2>2
    <3>2. new \in Row /\ new.id = FreshId /\ new.named = named /\ new.path = path
          /\ new.version = version
      BY FreshIdIsFresh DEF Row
    <3> HIDE DEF row, new
    <3> QED
      BY <3>1, <3>2, FreshIdIsFresh
  <2> QED
    BY <2>1, <2>2
<1> HIDE DEF row
<1>3. /\ AreRows(Without(row.id))
      /\ {Without(row.id)[n] : n \in DOMAIN Without(row.id)} = {r \in Rows : r.id # row.id}
  BY WithoutOne
<1>4. \A n \in DOMAIN Without(row.id) : Without(row.id)[n].id # row.id
  BY <1>3
<1>5. /\ AreRows(rows') /\ Len(rows') > 0 /\ rows'[Len(rows')] = row
      /\ Rows' = {r \in Rows : r.id # row.id} \cup {row}
  <2> DEFINE s == Without(row.id)
  <2> HIDE DEF s
  <2>1. AreRows(s) /\ (\A n \in DOMAIN s : s[n].id # row.id) /\ rows' = Append(s, row)
        /\ {s[n] : n \in DOMAIN s} = {r \in Rows : r.id # row.id}
    BY <1>1, <1>3, <1>4 DEF s
  <2>2. Rows' = {rows'[n] : n \in DOMAIN rows'}
    BY DEF Rows
  <2> QED
    BY <2>1, <2>2, <1>2, AppendOne
<1>6. {r \in Rows : r.id # row.id} \cup {row} = Rows \cup {row}
  BY <1>2 DEF Rows, AreRows
<1> QED
  BY <1>2, <1>5, <1>6

LibraryShaped ==
    /\ disk \in [Paths -> Contents \cup {None}] /\ staged \in Contents \cup {None}
    /\ importer \in Memory /\ kept \in Memory
    /\ AreRows(rows) /\ MoveShaped
    /\ job \in Jobs \cup {None}
    /\ job # None => job.step \in {"register", "plan"} \/ job.dest \in Paths
    /\ moving \in {"none", "start", "link", "unlink", "recall", "row"}

\* An import, a rescan and a rename hold the library, one of them at a time.
OneAtWork ==
    /\ job # None => busy /\ scan = None /\ moving = "none"
    /\ scan # None => busy /\ job = None /\ moving = "none"
    /\ moving # "none" => busy /\ job = None /\ scan = None

\* What the import has seen to by each of its steps.
JobSound ==
    /\ job # None /\ job.step \in {"verify", "preserve", "swap"} => staged # None
    /\ job # None /\ job.step \in {"preserve", "swap"} /\ importer.current # None =>
          staged.damage = "none"
    /\ At("preserve") => importer.current # None
    /\ job # None /\ job.step \notin {"register", "remember", "catalog", "retire"}
          /\ job.old # None => importer.current # None
    /\ At("drop") => /\ OnDisk(job.dest)
                     /\ importer.current # None => disk[job.dest].damage = "none"

\* What the rename has seen to by each of its steps.
MoveInFlight ==
    /\ moving # "none" => move # None
    /\ moving \in {"link", "unlink", "recall", "row"} => Has(move.id)
    /\ moving \in {"link", "unlink"} => disk[move.from] = move.content
    /\ moving = "unlink" => disk[move.to] = move.content

\* While no work was cut short, the library holds one file, and the one named
\* row says where; the step under way knows which of the two it has changed.
NamedRows == {r \in Rows : r.named}
RowsSettled ==
    /\ ~At("retire") => \A q, r \in NamedRows : q = r
    /\ job # None /\ ~At("retire") => NamedRows = {job.old} \ {None}
    /\ At("retire") => /\ Len(rows) > 0 /\ rows[Len(rows)].path = job.dest
                       /\ rows[Len(rows)].named
                       /\ \A r \in NamedRows : r \in {job.old, rows[Len(rows)]}
    /\ moving \in {"link", "unlink", "recall", "row"} =>
          \E r \in NamedRows : r.id = move.id /\ r.path \in {move.from, move.to}
Replaced(p) == importer.current # None /\ importer.current.path = p /\ disk[p] \in bin
FilesSettled ==
    /\ ~Placed => \A p \in Paths : OnDisk(p) <=> \E r \in NamedRows : r.path = p
    /\ At("swap") => \A p \in Paths : OnDisk(p) => Replaced(p)
    /\ At("drop") => \A p \in Paths : OnDisk(p) => p = job.dest \/ Replaced(p)
    /\ At("remember") \/ At("retire") => \A p \in Paths : OnDisk(p) <=> p = job.dest
    /\ At("catalog") => \A p, q \in Paths : OnDisk(p) /\ OnDisk(q) => p = q
    /\ moving = "unlink" => \A p \in Paths : OnDisk(p) => p \in {move.from, move.to}
    /\ moving \in {"recall", "row"} => \A p \in Paths : OnDisk(p) <=> p = move.to
AllSettled == ~stray => RowsSettled /\ FilesSettled

LibraryInv == LibraryShaped /\ OneAtWork /\ JobSound /\ MoveInFlight /\ AllSettled

LEMMA InstalledRow ==
    ASSUME AreRows(rows)
    PROVE  /\ Installed \in ItemRow \cup {None}
           /\ (\A q, r \in NamedRows : q = r) => NamedRows = {Installed} \ {None}
<1>1. \A n \in DOMAIN rows : rows[n] \in Row /\ (rows[n].named <=> rows[n].version # 0)
  BY DEF AreRows
<1>2. Latest # {} => /\ Installed \in ItemRow /\ Installed \in NamedRows
                     /\ Installed # None
  BY <1>1, LibraryAssumption DEF Installed, Latest, ItemRow, NamedRows, Rows
<1>3. Latest = {} => Installed = None
  BY DEF Installed
<1>4. ASSUME \A q, r \in NamedRows : q = r, NEW r \in NamedRows PROVE Latest # {}
  <2>1. PICK n \in DOMAIN rows : r = rows[n] /\ rows[n].named
    BY DEF NamedRows, Rows
  <2>2. ASSUME NEW m \in DOMAIN rows, rows[m].named PROVE m = n
    <3>1. rows[m] \in NamedRows
      BY <2>2 DEF NamedRows, Rows
    <3>2. rows[m] = rows[n]
      BY <3>1, <2>1, <1>4
    <3> QED
      BY <3>2 DEF AreRows
  <2>3. n \in Nat
    BY DEF AreRows
  <2>4. n \in Latest
    BY <2>1, <2>2, <2>3 DEF Latest
  <2> QED
    BY <2>4
<1> QED
  BY <1>2, <1>3, <1>4

LEMMA DeliverKeeps ==
    ASSUME LibraryInv, NEW v \in Versions, Deliver(v)
    PROVE  LibraryInv'
<1> USE LibraryAssumption DEF LibraryInv, Deliver, catalogVars, inputVars, Persists, Admits,
           At, Goes, Steps, Intact, Contents
<1>1. Rows' = Rows /\ NamedRows' = NamedRows
  BY DEF Rows, NamedRows
<1>2. LibraryShaped'
  BY <1>1 DEF LibraryShaped, Jobs, Memory, Record, Moves, MoveShaped, OneAtWork
<1>3. OneAtWork'
  BY <1>1 DEF OneAtWork, LibraryShaped, Jobs
<1>4. JobSound'
  BY <1>1 DEF JobSound, OnDisk, OneAtWork, LibraryShaped, Jobs
<1>5. MoveInFlight'
  BY <1>1 DEF MoveInFlight, Has, OneAtWork, LibraryShaped, Jobs
<1>6. ~stray' => RowsSettled'
  BY <1>1 DEF AllSettled, RowsSettled, Placed, OneAtWork, OnDisk, LibraryShaped, Jobs
<1>7. ~stray' => FilesSettled'
  BY <1>1 DEF AllSettled, RowsSettled, FilesSettled, Placed, Replaced, OnDisk, OneAtWork,
              JobSound, MoveInFlight, LibraryShaped, Jobs
<1> QED
  BY <1>2, <1>3, <1>4, <1>5, <1>6, <1>7 DEF AllSettled

LEMMA ImportStartsKeeps ==
    ASSUME LibraryInv, NEW v \in Versions, ImportStarts(v)
    PROVE  LibraryInv'
<1> USE LibraryAssumption DEF LibraryInv, ImportStarts, catalogVars, inputVars, Persists, Admits,
           At, Goes, Steps, Intact, Contents
<1>1. Rows' = Rows /\ NamedRows' = NamedRows
  BY DEF Rows, NamedRows
<1>2. LibraryShaped'
  BY <1>1, InstalledRow DEF LibraryShaped, Jobs, Memory, Record, Moves, MoveShaped, OneAtWork
<1>3. OneAtWork'
  BY <1>1 DEF OneAtWork, LibraryShaped, Jobs
<1>4. JobSound'
  BY <1>1 DEF JobSound, OnDisk, OneAtWork, LibraryShaped, Jobs
<1>5. MoveInFlight'
  BY <1>1 DEF MoveInFlight, Has, OneAtWork, LibraryShaped, Jobs
<1>6. ~stray' => RowsSettled'
  BY <1>1, InstalledRow DEF AllSettled, RowsSettled, Placed, OneAtWork, OnDisk, LibraryShaped,
              Jobs
<1>7. ~stray' => FilesSettled'
  BY <1>1 DEF AllSettled, RowsSettled, FilesSettled, Placed, Replaced, OnDisk, OneAtWork,
              JobSound, MoveInFlight, LibraryShaped, Jobs
<1> QED
  BY <1>2, <1>3, <1>4, <1>5, <1>6, <1>7 DEF AllSettled

LEMMA RegistersKeeps ==
    ASSUME LibraryInv, Registers
    PROVE  LibraryInv'
<1> USE LibraryAssumption DEF LibraryInv, Registers, catalogVars, inputVars, Persists, Admits,
           At, Goes, Steps, Intact, Contents
<1>1. Rows' = Rows /\ NamedRows' = NamedRows
  BY DEF Rows, NamedRows
<1>2. LibraryShaped'
  <2>1. job.old # None => [version |-> job.old.version, path |-> job.old.path] \in Record
    BY DEF LibraryShaped, Jobs, ItemRow, Row, Record
  <2>2. importer' \in Memory /\ kept' \in Memory
    BY <2>1 DEF LibraryShaped, Memory
  <2> QED
    BY <1>1, <2>2 DEF LibraryShaped, Jobs, MoveShaped
<1>3. OneAtWork'
  BY <1>1 DEF OneAtWork, LibraryShaped, Jobs
<1>4. JobSound'
  <2>1. job.old # None => [version |-> job.old.version, path |-> job.old.path] \in Record
    BY DEF LibraryShaped, Jobs, ItemRow, Row, Record
  <2>2. job.old # None => importer'.current # None
    BY <2>1 DEF LibraryShaped, Memory
  <2> QED
    BY <2>2 DEF JobSound, LibraryShaped, Jobs
<1>5. MoveInFlight'
  BY <1>1 DEF MoveInFlight, Has, OneAtWork, LibraryShaped, Jobs
<1>6. ~stray' => RowsSettled'
  BY <1>1 DEF AllSettled, RowsSettled, Placed, OneAtWork, OnDisk, LibraryShaped, Jobs
<1>7. ~stray' => FilesSettled'
  BY <1>1 DEF AllSettled, RowsSettled, FilesSettled, Placed, Replaced, OnDisk, OneAtWork,
              JobSound, MoveInFlight, LibraryShaped, Jobs
<1> QED
  BY <1>2, <1>3, <1>4, <1>5, <1>6, <1>7 DEF AllSettled

LEMMA PlansKeeps ==
    ASSUME LibraryInv, Plans
    PROVE  LibraryInv'
<1> USE LibraryAssumption DEF LibraryInv, Plans, catalogVars, inputVars, Persists, Admits,
           At, Goes, Steps, Intact, Contents
<1>1. Rows' = Rows /\ NamedRows' = NamedRows
  BY DEF Rows, NamedRows
<1>2. LibraryShaped'
  <2>1. Destination(job.version) \in Paths
    BY DEF Destination, Prior, LibraryShaped, Memory, Record, Jobs
  <2>2. importer' \in Memory /\ kept' \in Memory
    BY <2>1 DEF LibraryShaped, Memory, Record, Jobs
  <2>3. /\ job' \in Jobs
        /\ job'.step \in {"register", "plan"} \/ job'.dest \in Paths
    BY <2>1 DEF LibraryShaped, Jobs
  <2> QED
    BY <1>1, <2>2, <2>3 DEF LibraryShaped, MoveShaped
<1>3. OneAtWork'
  BY <1>1 DEF OneAtWork, LibraryShaped, Jobs
<1>4. JobSound'
  BY <1>1 DEF JobSound, OnDisk, OneAtWork, LibraryShaped, Jobs
<1>5. MoveInFlight'
  BY <1>1 DEF MoveInFlight, Has, OneAtWork, LibraryShaped, Jobs
<1>6. ~stray' => RowsSettled'
  <2> SUFFICES ASSUME ~stray' PROVE RowsSettled'
    OBVIOUS
  <2>1. /\ \A q, r \in NamedRows : q = r
        /\ NamedRows = {job.old} \ {None}
        /\ moving' = "none"
    BY DEF AllSettled, RowsSettled, OneAtWork
  <2>2. Destination(job.version) \in Paths
    BY DEF Destination, Prior, LibraryShaped, Memory, Record, Jobs
  <2>3. job' \in Jobs
    BY <2>2 DEF LibraryShaped, Jobs
  <2>4. job'.step \in {"catalog", "stage"} /\ job'.old = job.old
    BY DEF LibraryShaped, Jobs
  <2>5. job' # None
    BY <2>3
  <2> QED
    BY <1>1, <2>1, <2>4, <2>5 DEF RowsSettled
<1>7. ~stray' => FilesSettled'
  <2> SUFFICES ASSUME ~stray' PROVE FilesSettled'
    OBVIOUS
  <2>1. /\ \A p \in Paths : OnDisk(p) <=> \E r \in NamedRows : r.path = p
        /\ \A q, r \in NamedRows : q = r
    BY DEF AllSettled, RowsSettled, FilesSettled, Placed, OneAtWork
  <2>2. \A p, q \in Paths : OnDisk(p) /\ OnDisk(q) => p = q
    BY <2>1
  <2>3. job' # None => job'.step \in {"catalog", "stage"}
    BY DEF LibraryShaped, Jobs
  <2> QED
    BY <1>1, <2>1, <2>2, <2>3 DEF FilesSettled, Placed, OnDisk, OneAtWork
<1> QED
  BY <1>2, <1>3, <1>4, <1>5, <1>6, <1>7 DEF AllSettled

LEMMA StagesKeeps ==
    ASSUME LibraryInv, Stages
    PROVE  LibraryInv'
<1> USE LibraryAssumption DEF LibraryInv, Stages, catalogVars, inputVars, Persists, Admits,
           At, Goes, Steps, Intact, Contents
<1>1. Rows' = Rows /\ NamedRows' = NamedRows
  BY DEF Rows, NamedRows
<1>2. LibraryShaped'
  BY <1>1 DEF LibraryShaped, Jobs, Memory, Record, Moves, MoveShaped, OneAtWork
<1>3. OneAtWork'
  BY <1>1 DEF OneAtWork, LibraryShaped, Jobs
<1>4. JobSound'
  BY <1>1 DEF JobSound, OnDisk, OneAtWork, LibraryShaped, Jobs
<1>5. MoveInFlight'
  BY <1>1 DEF MoveInFlight, Has, OneAtWork, LibraryShaped, Jobs
<1>6. ~stray' => RowsSettled'
  BY <1>1 DEF AllSettled, RowsSettled, Placed, OneAtWork, OnDisk, LibraryShaped, Jobs
<1>7. ~stray' => FilesSettled'
  BY <1>1 DEF AllSettled, RowsSettled, FilesSettled, Placed, Replaced, OnDisk, OneAtWork,
              JobSound, MoveInFlight, LibraryShaped, Jobs
<1> QED
  BY <1>2, <1>3, <1>4, <1>5, <1>6, <1>7 DEF AllSettled

LEMMA VerifiesKeeps ==
    ASSUME LibraryInv, Verifies
    PROVE  LibraryInv'
<1> USE LibraryAssumption DEF LibraryInv, Verifies, catalogVars, inputVars, Persists, Admits,
           At, Goes, Steps, Intact, Contents
<1>1. Rows' = Rows /\ NamedRows' = NamedRows
  BY DEF Rows, NamedRows
<1>2. LibraryShaped'
  BY <1>1 DEF LibraryShaped, Jobs, Memory, Record, Moves, MoveShaped, OneAtWork
<1>3. OneAtWork'
  BY <1>1 DEF OneAtWork, LibraryShaped, Jobs
<1>4. JobSound'
  <2>1. Passes(staged, importer.current) /\ staged # None
    BY DEF JobSound
  <2>2. importer.current # None => staged.damage = "none"
    BY <2>1 DEF Passes
  <2> QED
    BY <2>1, <2>2 DEF JobSound, LibraryShaped, Jobs
<1>5. MoveInFlight'
  BY <1>1 DEF MoveInFlight, Has, OneAtWork, LibraryShaped, Jobs
<1>6. ~stray' => RowsSettled'
  BY <1>1 DEF AllSettled, RowsSettled, Placed, OneAtWork, OnDisk, LibraryShaped, Jobs
<1>7. ~stray' => FilesSettled'
  BY <1>1 DEF AllSettled, RowsSettled, FilesSettled, Placed, Replaced, OnDisk, OneAtWork,
              JobSound, MoveInFlight, LibraryShaped, Jobs
<1> QED
  BY <1>2, <1>3, <1>4, <1>5, <1>6, <1>7 DEF AllSettled

LEMMA PreservesKeeps ==
    ASSUME LibraryInv, Preserves
    PROVE  LibraryInv'
<1> USE LibraryAssumption DEF LibraryInv, Preserves, catalogVars, inputVars, Persists, Admits,
           At, Goes, Steps, Intact, Contents
<1>1. Rows' = Rows /\ NamedRows' = NamedRows
  BY DEF Rows, NamedRows
<1>2. LibraryShaped'
  BY <1>1 DEF LibraryShaped, Jobs, Memory, Record, Moves, MoveShaped, OneAtWork
<1>3. OneAtWork'
  BY <1>1 DEF OneAtWork, LibraryShaped, Jobs
<1>4. JobSound'
  BY <1>1 DEF JobSound, OnDisk, OneAtWork, LibraryShaped, Jobs
<1>5. MoveInFlight'
  BY <1>1 DEF MoveInFlight, Has, OneAtWork, LibraryShaped, Jobs
<1>6. ~stray' => RowsSettled'
  BY <1>1 DEF AllSettled, RowsSettled, Placed, OneAtWork, OnDisk, LibraryShaped, Jobs
<1>7. ~stray' => FilesSettled'
  <2> SUFFICES ASSUME ~stray' PROVE FilesSettled'
    OBVIOUS
  <2>1. /\ \A p \in Paths : OnDisk(p) <=> \E r \in NamedRows : r.path = p
        /\ \A q, r \in NamedRows : q = r
    BY DEF AllSettled, RowsSettled, FilesSettled, Placed, OneAtWork
  <2>2. importer.current # None /\ importer.current.path \in Paths
    BY DEF JobSound, LibraryShaped, Memory, Record
  <2>3. \A p \in Paths : OnDisk(p) => p = importer.current.path
    BY <2>1, <2>2
  <2>4. \A p \in Paths : OnDisk(p)' => Replaced(p)'
    BY <2>2, <2>3 DEF OnDisk, Replaced
  <2>5. job' # None /\ job'.step = "swap" /\ moving' = "none"
    BY DEF LibraryShaped, Jobs, OneAtWork
  <2> QED
    BY <1>1, <2>1, <2>4, <2>5 DEF FilesSettled, Placed, OnDisk
<1> QED
  BY <1>2, <1>3, <1>4, <1>5, <1>6, <1>7 DEF AllSettled

LEMMA SwapsKeeps ==
    ASSUME LibraryInv, Swaps
    PROVE  LibraryInv'
<1> USE LibraryAssumption DEF LibraryInv, Swaps, catalogVars, inputVars, Persists, Admits,
           At, Goes, Steps, Intact, Contents
<1>1. Rows' = Rows /\ NamedRows' = NamedRows
  BY DEF Rows, NamedRows
<1>2. LibraryShaped'
  BY <1>1 DEF LibraryShaped, Jobs, Memory, Record, Moves, MoveShaped, OneAtWork
<1>3. OneAtWork'
  BY <1>1 DEF OneAtWork, LibraryShaped, Jobs
<1>4. JobSound'
  BY <1>1 DEF JobSound, OnDisk, OneAtWork, LibraryShaped, Jobs
<1>5. MoveInFlight'
  BY <1>1 DEF MoveInFlight, Has, OneAtWork, LibraryShaped, Jobs
<1>6. ~stray' => RowsSettled'
  BY <1>1 DEF AllSettled, RowsSettled, Placed, OneAtWork, OnDisk, LibraryShaped, Jobs
<1>7. ~stray' => FilesSettled'
  <2> SUFFICES ASSUME ~stray' PROVE FilesSettled'
    OBVIOUS
  <2>1. \A p \in Paths : OnDisk(p) => Replaced(p)
    BY DEF AllSettled, FilesSettled
  <2>2. \A p \in Paths : p # job.dest => disk'[p] = disk[p]
    BY DEF LibraryShaped
  <2>3. job' # None /\ job'.step = "drop" /\ job'.dest = job.dest /\ moving' = "none"
    BY DEF LibraryShaped, Jobs, OneAtWork
  <2>4. \A p \in Paths : OnDisk(p)' => p = job'.dest \/ Replaced(p)'
    BY <2>1, <2>2, <2>3 DEF OnDisk, Replaced
  <2> QED
    BY <2>3, <2>4 DEF FilesSettled, Placed
<1> QED
  BY <1>2, <1>3, <1>4, <1>5, <1>6, <1>7 DEF AllSettled

LEMMA DropsKeeps ==
    ASSUME LibraryInv, Drops
    PROVE  LibraryInv'
<1> USE LibraryAssumption DEF LibraryInv, Drops, catalogVars, inputVars, Persists, Admits,
           At, Goes, Steps, Intact, Contents
<1>1. Rows' = Rows /\ NamedRows' = NamedRows
  BY DEF Rows, NamedRows
<1>2. LibraryShaped'
  BY <1>1 DEF LibraryShaped, Jobs, Memory, Record, Moves, MoveShaped, OneAtWork
<1>3. OneAtWork'
  BY <1>1 DEF OneAtWork, LibraryShaped, Jobs
<1>4. JobSound'
  BY <1>1 DEF JobSound, OnDisk, OneAtWork, LibraryShaped, Jobs
<1>5. MoveInFlight'
  BY <1>1 DEF MoveInFlight, Has, OneAtWork, LibraryShaped, Jobs
<1>6. ~stray' => RowsSettled'
  BY <1>1 DEF AllSettled, RowsSettled, Placed, OneAtWork, OnDisk, LibraryShaped, Jobs
<1>7. ~stray' => FilesSettled'
  <2> SUFFICES ASSUME ~stray' PROVE FilesSettled'
    OBVIOUS
  <2>1. \A p \in Paths : OnDisk(p) => p = job.dest \/ Replaced(p)
    BY DEF AllSettled, FilesSettled
  <2>2. job.dest \in Paths /\ OnDisk(job.dest)
    BY DEF LibraryShaped, JobSound
  <2>3. job' # None /\ job'.step = "remember" /\ job'.dest = job.dest /\ moving' = "none"
    BY DEF LibraryShaped, Jobs, OneAtWork
  <2>4. disk' = IF importer.current # None /\ importer.current.path # job.dest
                THEN [disk EXCEPT ![importer.current.path] = None] ELSE disk
    OBVIOUS
  <2>5. \A p \in Paths : OnDisk(p)' <=> p = job'.dest
    BY <2>1, <2>2, <2>3, <2>4 DEF OnDisk, Replaced, LibraryShaped
  <2> QED
    BY <2>3, <2>5 DEF FilesSettled, Placed
<1> QED
  BY <1>2, <1>3, <1>4, <1>5, <1>6, <1>7 DEF AllSettled

LEMMA RemembersKeeps ==
    ASSUME LibraryInv, Remembers
    PROVE  LibraryInv'
<1> USE LibraryAssumption DEF LibraryInv, Remembers, catalogVars, inputVars, Persists, Admits,
           At, Goes, Steps, Intact, Contents
<1>1. Rows' = Rows /\ NamedRows' = NamedRows
  BY DEF Rows, NamedRows
<1>2. LibraryShaped'
  BY <1>1 DEF LibraryShaped, Jobs, Memory, Record, Moves, MoveShaped, OneAtWork
<1>3. OneAtWork'
  BY <1>1 DEF OneAtWork, LibraryShaped, Jobs
<1>4. JobSound'
  BY <1>1 DEF JobSound, OnDisk, OneAtWork, LibraryShaped, Jobs
<1>5. MoveInFlight'
  BY <1>1 DEF MoveInFlight, Has, OneAtWork, LibraryShaped, Jobs
<1>6. ~stray' => RowsSettled'
  BY <1>1 DEF AllSettled, RowsSettled, Placed, OneAtWork, OnDisk, LibraryShaped, Jobs
<1>7. ~stray' => FilesSettled'
  <2> SUFFICES ASSUME ~stray' PROVE FilesSettled'
    OBVIOUS
  <2>1. \A p \in Paths : OnDisk(p) <=> p = job.dest
    BY DEF AllSettled, FilesSettled
  <2>2. job' # None /\ job'.step = "catalog" /\ moving' = "none"
    BY DEF LibraryShaped, Jobs, OneAtWork
  <2>3. \A p, q \in Paths : OnDisk(p)' /\ OnDisk(q)' => p = q
    BY <2>1 DEF OnDisk
  <2> QED
    BY <2>2, <2>3 DEF FilesSettled, Placed
<1> QED
  BY <1>2, <1>3, <1>4, <1>5, <1>6, <1>7 DEF AllSettled

LEMMA ImportFailsKeeps ==
    ASSUME LibraryInv, ImportFails
    PROVE  LibraryInv'
<1> USE LibraryAssumption DEF LibraryInv, ImportFails, catalogVars, inputVars, Persists, Admits,
           At, Goes, Steps, Intact, Contents
<1>1. Rows' = Rows /\ NamedRows' = NamedRows
  BY DEF Rows, NamedRows
<1>2. LibraryShaped'
  BY <1>1 DEF LibraryShaped, Jobs, Memory, Record, Moves, MoveShaped, OneAtWork
<1>3. OneAtWork'
  BY <1>1 DEF OneAtWork, LibraryShaped, Jobs
<1>4. JobSound'
  BY <1>1 DEF JobSound, OnDisk, OneAtWork, LibraryShaped, Jobs
<1>5. MoveInFlight'
  BY <1>1 DEF MoveInFlight, Has, OneAtWork, LibraryShaped, Jobs
<1>6. ~stray' => RowsSettled'
  BY <1>1 DEF AllSettled, RowsSettled, Placed, OneAtWork, OnDisk, LibraryShaped, Jobs
<1>7. ~stray' => FilesSettled'
  BY <1>1 DEF AllSettled, RowsSettled, FilesSettled, Placed, Replaced, OnDisk, OneAtWork,
              JobSound, MoveInFlight, LibraryShaped, Jobs
<1> QED
  BY <1>2, <1>3, <1>4, <1>5, <1>6, <1>7 DEF AllSettled

LEMMA ImporterDiesKeeps ==
    ASSUME LibraryInv, ImporterDies
    PROVE  LibraryInv'
<1> USE LibraryAssumption DEF LibraryInv, ImporterDies, catalogVars, inputVars, Persists, Admits,
           At, Goes, Steps, Intact, Contents
<1>1. Rows' = Rows /\ NamedRows' = NamedRows
  BY DEF Rows, NamedRows
<1>2. LibraryShaped'
  BY <1>1 DEF LibraryShaped, Jobs, Memory, Record, Moves, MoveShaped, OneAtWork
<1>3. OneAtWork'
  BY <1>1 DEF OneAtWork, LibraryShaped, Jobs
<1>4. JobSound'
  BY <1>1 DEF JobSound, OnDisk, OneAtWork, LibraryShaped, Jobs
<1>5. MoveInFlight'
  BY <1>1 DEF MoveInFlight, Has, OneAtWork, LibraryShaped, Jobs
<1>6. ~stray' => RowsSettled'
  BY <1>1 DEF AllSettled, RowsSettled, Placed, OneAtWork, OnDisk, LibraryShaped, Jobs
<1>7. ~stray' => FilesSettled'
  BY <1>1 DEF AllSettled, RowsSettled, FilesSettled, Placed, Replaced, OnDisk, OneAtWork,
              JobSound, MoveInFlight, LibraryShaped, Jobs
<1> QED
  BY <1>2, <1>3, <1>4, <1>5, <1>6, <1>7 DEF AllSettled

LEMMA CrashKeeps ==
    ASSUME LibraryInv, Crash
    PROVE  LibraryInv'
<1> USE LibraryAssumption DEF LibraryInv, Crash, catalogVars, inputVars, Persists, Admits,
           At, Goes, Steps, Intact, Contents
<1>1. Rows' = Rows /\ NamedRows' = NamedRows
  BY DEF Rows, NamedRows
<1>2. LibraryShaped'
  BY <1>1 DEF LibraryShaped, Jobs, Memory, Record, Moves, MoveShaped, OneAtWork
<1>3. OneAtWork'
  BY <1>1 DEF OneAtWork, LibraryShaped, Jobs
<1>4. JobSound'
  BY <1>1 DEF JobSound, OnDisk, OneAtWork, LibraryShaped, Jobs
<1>5. MoveInFlight'
  BY <1>1 DEF MoveInFlight, Has, OneAtWork, LibraryShaped, Jobs
<1>6. ~stray' => RowsSettled'
  BY <1>1 DEF AllSettled, RowsSettled, Placed, OneAtWork, OnDisk, LibraryShaped, Jobs
<1>7. ~stray' => FilesSettled'
  BY <1>1 DEF AllSettled, RowsSettled, FilesSettled, Placed, Replaced, OnDisk, OneAtWork,
              JobSound, MoveInFlight, LibraryShaped, Jobs
<1> QED
  BY <1>2, <1>3, <1>4, <1>5, <1>6, <1>7 DEF AllSettled

LEMMA ScanStartsKeeps ==
    ASSUME LibraryInv, ScanStarts
    PROVE  LibraryInv'
<1> USE LibraryAssumption DEF LibraryInv, ScanStarts, catalogVars, inputVars, Persists, Admits,
           At, Goes, Steps, Intact, Contents
<1>1. Rows' = Rows /\ NamedRows' = NamedRows
  BY DEF Rows, NamedRows
<1>2. LibraryShaped'
  BY <1>1 DEF LibraryShaped, Jobs, Memory, Record, Moves, MoveShaped, OneAtWork
<1>3. OneAtWork'
  BY <1>1 DEF OneAtWork, LibraryShaped, Jobs
<1>4. JobSound'
  BY <1>1 DEF JobSound, OnDisk, OneAtWork, LibraryShaped, Jobs
<1>5. MoveInFlight'
  BY <1>1 DEF MoveInFlight, Has, OneAtWork, LibraryShaped, Jobs
<1>6. ~stray' => RowsSettled'
  BY <1>1 DEF AllSettled, RowsSettled, Placed, OneAtWork, OnDisk, LibraryShaped, Jobs
<1>7. ~stray' => FilesSettled'
  BY <1>1 DEF AllSettled, RowsSettled, FilesSettled, Placed, Replaced, OnDisk, OneAtWork,
              JobSound, MoveInFlight, LibraryShaped, Jobs
<1> QED
  BY <1>2, <1>3, <1>4, <1>5, <1>6, <1>7 DEF AllSettled

LEMMA ScanWalksKeeps ==
    ASSUME LibraryInv, ScanWalks
    PROVE  LibraryInv'
<1> USE LibraryAssumption DEF LibraryInv, ScanWalks, catalogVars, inputVars, Persists, Admits,
           At, Goes, Steps, Intact, Contents
<1>1. Rows' = Rows /\ NamedRows' = NamedRows
  BY DEF Rows, NamedRows
<1>2. LibraryShaped'
  BY <1>1 DEF LibraryShaped, Jobs, Memory, Record, Moves, MoveShaped, OneAtWork
<1>3. OneAtWork'
  BY <1>1 DEF OneAtWork, LibraryShaped, Jobs
<1>4. JobSound'
  BY <1>1 DEF JobSound, OnDisk, OneAtWork, LibraryShaped, Jobs
<1>5. MoveInFlight'
  BY <1>1 DEF MoveInFlight, Has, OneAtWork, LibraryShaped, Jobs
<1>6. ~stray' => RowsSettled'
  BY <1>1 DEF AllSettled, RowsSettled, Placed, OneAtWork, OnDisk, LibraryShaped, Jobs
<1>7. ~stray' => FilesSettled'
  BY <1>1 DEF AllSettled, RowsSettled, FilesSettled, Placed, Replaced, OnDisk, OneAtWork,
              JobSound, MoveInFlight, LibraryShaped, Jobs
<1> QED
  BY <1>2, <1>3, <1>4, <1>5, <1>6, <1>7 DEF AllSettled

LEMMA ScanEndsKeeps ==
    ASSUME LibraryInv, ScanEnds
    PROVE  LibraryInv'
<1> USE LibraryAssumption DEF LibraryInv, ScanEnds, catalogVars, inputVars, Persists, Admits,
           At, Goes, Steps, Intact, Contents
<1>1. Rows' = Rows /\ NamedRows' = NamedRows
  BY DEF Rows, NamedRows
<1>2. LibraryShaped'
  BY <1>1 DEF LibraryShaped, Jobs, Memory, Record, Moves, MoveShaped, OneAtWork
<1>3. OneAtWork'
  BY <1>1 DEF OneAtWork, LibraryShaped, Jobs
<1>4. JobSound'
  BY <1>1 DEF JobSound, OnDisk, OneAtWork, LibraryShaped, Jobs
<1>5. MoveInFlight'
  BY <1>1 DEF MoveInFlight, Has, OneAtWork, LibraryShaped, Jobs
<1>6. ~stray' => RowsSettled'
  BY <1>1 DEF AllSettled, RowsSettled, Placed, OneAtWork, OnDisk, LibraryShaped, Jobs
<1>7. ~stray' => FilesSettled'
  BY <1>1 DEF AllSettled, RowsSettled, FilesSettled, Placed, Replaced, OnDisk, OneAtWork,
              JobSound, MoveInFlight, LibraryShaped, Jobs
<1> QED
  BY <1>2, <1>3, <1>4, <1>5, <1>6, <1>7 DEF AllSettled

LEMMA PreviewsKeeps ==
    ASSUME LibraryInv, NEW n \in DOMAIN rows, NEW to \in Paths, Previews(n, to)
    PROVE  LibraryInv'
<1> USE LibraryAssumption DEF LibraryInv, Previews, catalogVars, inputVars, Persists, Admits,
           At, Goes, Steps, Intact, Contents
<1>1. Rows' = Rows /\ NamedRows' = NamedRows
  BY DEF Rows, NamedRows
<1>2. LibraryShaped'
  <2>1. rows[n] \in Row /\ rows[n] \in Rows
    BY DEF LibraryShaped, AreRows, Rows
  <2>2. disk[rows[n].path] \in Contents
    BY <2>1 DEF LibraryShaped, Row, OnDisk
  <2>3. /\ move' = [id |-> rows[n].id, from |-> rows[n].path, to |-> to,
                    content |-> disk[rows[n].path]]
        /\ rows[n].named /\ rows[n].path # to
    OBVIOUS
  <2>4. move' \in Moves /\ move'.from # move'.to /\ move'.id = rows[n].id
    BY <2>1, <2>2, <2>3 DEF Moves, Row
  <2>5. \A r \in Rows : r.id = rows[n].id => r = rows[n]
    BY DEF LibraryShaped, AreRows, Rows
  <2>6. MoveShaped'
    BY <1>1, <2>3, <2>4, <2>5 DEF MoveShaped
  <2> QED
    BY <2>6 DEF LibraryShaped, Jobs
<1>3. OneAtWork'
  BY <1>1 DEF OneAtWork, LibraryShaped, Jobs
<1>4. JobSound'
  BY <1>1 DEF JobSound, OnDisk, OneAtWork, LibraryShaped, Jobs
<1>5. MoveInFlight'
  BY <1>1 DEF MoveInFlight, Has, OneAtWork, LibraryShaped, Jobs
<1>6. ~stray' => RowsSettled'
  BY <1>1 DEF AllSettled, RowsSettled, Placed, OneAtWork, OnDisk, LibraryShaped, Jobs
<1>7. ~stray' => FilesSettled'
  BY <1>1 DEF AllSettled, RowsSettled, FilesSettled, Placed, Replaced, OnDisk, OneAtWork,
              JobSound, MoveInFlight, LibraryShaped, Jobs
<1> QED
  BY <1>2, <1>3, <1>4, <1>5, <1>6, <1>7 DEF AllSettled

LEMMA RenameStartsKeeps ==
    ASSUME LibraryInv, RenameStarts
    PROVE  LibraryInv'
<1> USE LibraryAssumption DEF LibraryInv, RenameStarts, catalogVars, inputVars, Persists, Admits,
           At, Goes, Steps, Intact, Contents
<1>1. Rows' = Rows /\ NamedRows' = NamedRows
  BY DEF Rows, NamedRows
<1>2. LibraryShaped'
  BY <1>1 DEF LibraryShaped, Jobs, Memory, Record, Moves, MoveShaped, OneAtWork
<1>3. OneAtWork'
  BY <1>1 DEF OneAtWork, LibraryShaped, Jobs
<1>4. JobSound'
  BY <1>1 DEF JobSound, OnDisk, OneAtWork, LibraryShaped, Jobs
<1>5. MoveInFlight'
  BY <1>1 DEF MoveInFlight, Has, OneAtWork, LibraryShaped, Jobs
<1>6. ~stray' => RowsSettled'
  BY <1>1 DEF AllSettled, RowsSettled, Placed, OneAtWork, OnDisk, LibraryShaped, Jobs
<1>7. ~stray' => FilesSettled'
  BY <1>1 DEF AllSettled, RowsSettled, FilesSettled, Placed, Replaced, OnDisk, OneAtWork,
              JobSound, MoveInFlight, LibraryShaped, Jobs
<1> QED
  BY <1>2, <1>3, <1>4, <1>5, <1>6, <1>7 DEF AllSettled

LEMMA RenameChecksKeeps ==
    ASSUME LibraryInv, RenameChecks
    PROVE  LibraryInv'
<1> USE LibraryAssumption DEF LibraryInv, RenameChecks, catalogVars, inputVars, Persists, Admits,
           At, Goes, Steps, Intact, Contents
<1>1. Rows' = Rows /\ NamedRows' = NamedRows
  BY DEF Rows, NamedRows
<1>2. LibraryShaped'
  BY <1>1 DEF LibraryShaped, Jobs, Memory, Record, Moves, MoveShaped, OneAtWork
<1>3. OneAtWork'
  BY <1>1 DEF OneAtWork, LibraryShaped, Jobs
<1>4. JobSound'
  BY <1>1 DEF JobSound, OnDisk, OneAtWork, LibraryShaped, Jobs
<1>5. MoveInFlight'
  <2>1. Has(move.id) /\ disk[Chosen] = move.content /\ moving = "start"
    OBVIOUS
  <2>2. moving' = "link" => disk[move.from] = move.content
    BY <2>1 DEF Chosen
  <2>3. moving' \in {"link", "recall"} /\ move' = move /\ disk' = disk
    BY <2>1
  <2> QED
    BY <1>1, <2>1, <2>2, <2>3 DEF MoveInFlight, Has
<1>6. ~stray' => RowsSettled'
  <2> SUFFICES ASSUME ~stray' PROVE RowsSettled'
    OBVIOUS
  <2>1. \A q, r \in NamedRows : q = r
    BY DEF AllSettled, RowsSettled, OneAtWork
  <2>2. RowAt(move.id) \in NamedRows /\ RowAt(move.id).id = move.id
    BY DEF RowAt, Has, NamedRows, LibraryShaped, MoveShaped, MoveInFlight
  <2>3. job = None /\ moving' \in {"link", "recall"}
    BY DEF OneAtWork
  <2> QED
    BY <1>1, <2>1, <2>2, <2>3 DEF RowsSettled
<1>7. ~stray' => FilesSettled'
  <2> SUFFICES ASSUME ~stray' PROVE FilesSettled'
    OBVIOUS
  <2>1. /\ \A p \in Paths : OnDisk(p) <=> \E r \in NamedRows : r.path = p
        /\ \A q, r \in NamedRows : q = r
    BY DEF AllSettled, RowsSettled, FilesSettled, Placed, OneAtWork
  <2>2. move.to \in Paths /\ move.content # None
    BY DEF LibraryShaped, MoveShaped, MoveInFlight, Moves
  <2>3. CASE OnDisk(move.from)
    <3>1. job' = None /\ moving' = "link"
      BY <2>3 DEF OneAtWork
    <3> QED
      BY <1>1, <2>1, <3>1 DEF FilesSettled, Placed, OnDisk
  <2>4. CASE ~OnDisk(move.from)
    <3>1. job' = None /\ moving' = "recall" /\ move' = move
      BY <2>4 DEF OneAtWork
    <3>2. OnDisk(move.to)
      BY <2>2, <2>4 DEF Chosen, OnDisk
    <3>3. \A p \in Paths : OnDisk(p) <=> p = move.to
      BY <2>1, <2>2, <3>2
    <3> QED
      BY <3>1, <3>3 DEF FilesSettled, Placed, OnDisk
  <2> QED
    BY <2>3, <2>4
<1> QED
  BY <1>2, <1>3, <1>4, <1>5, <1>6, <1>7 DEF AllSettled

LEMMA RenameLinksKeeps ==
    ASSUME LibraryInv, RenameLinks
    PROVE  LibraryInv'
<1> USE LibraryAssumption DEF LibraryInv, RenameLinks, catalogVars, inputVars, Persists, Admits,
           At, Goes, Steps, Intact, Contents
<1>1. Rows' = Rows /\ NamedRows' = NamedRows
  BY DEF Rows, NamedRows
<1>2. LibraryShaped'
  <2>1. move \in Moves
    BY DEF LibraryShaped, MoveShaped, MoveInFlight
  <2>2. disk' \in [Paths -> Contents \cup {None}]
    BY <2>1 DEF LibraryShaped, Moves
  <2> QED
    BY <1>1, <2>2 DEF LibraryShaped, MoveShaped, Jobs
<1>3. OneAtWork'
  BY <1>1 DEF OneAtWork, LibraryShaped, Jobs
<1>4. JobSound'
  BY <1>1 DEF JobSound, OnDisk, OneAtWork, LibraryShaped, Jobs
<1>5. MoveInFlight'
  <2>1. /\ move # None /\ move.from # move.to /\ move.from \in Paths /\ move.to \in Paths
        /\ disk[move.from] = move.content /\ Has(move.id)
    BY DEF LibraryShaped, MoveShaped, MoveInFlight, Moves
  <2>2. disk'[move.from] = move.content /\ disk'[move.to] = move.content
    BY <2>1 DEF LibraryShaped
  <2> QED
    BY <1>1, <2>1, <2>2 DEF MoveInFlight, Has
<1>6. ~stray' => RowsSettled'
  BY <1>1 DEF AllSettled, RowsSettled, Placed, OneAtWork, OnDisk, LibraryShaped, Jobs
<1>7. ~stray' => FilesSettled'
  BY <1>1 DEF AllSettled, RowsSettled, FilesSettled, Placed, Replaced, OnDisk, OneAtWork,
              JobSound, MoveInFlight, LibraryShaped, Jobs
<1> QED
  BY <1>2, <1>3, <1>4, <1>5, <1>6, <1>7 DEF AllSettled

LEMMA RenameUnlinksKeeps ==
    ASSUME LibraryInv, RenameUnlinks
    PROVE  LibraryInv'
<1> USE LibraryAssumption DEF LibraryInv, RenameUnlinks, catalogVars, inputVars, Persists, Admits,
           At, Goes, Steps, Intact, Contents
<1>1. Rows' = Rows /\ NamedRows' = NamedRows
  BY DEF Rows, NamedRows
<1>2. LibraryShaped'
  BY <1>1 DEF LibraryShaped, Jobs, Memory, Record, Moves, MoveShaped, OneAtWork
<1>3. OneAtWork'
  BY <1>1 DEF OneAtWork, LibraryShaped, Jobs
<1>4. JobSound'
  BY <1>1 DEF JobSound, OnDisk, OneAtWork, LibraryShaped, Jobs
<1>5. MoveInFlight'
  BY <1>1 DEF MoveInFlight, Has, OneAtWork, LibraryShaped, Jobs
<1>6. ~stray' => RowsSettled'
  BY <1>1 DEF AllSettled, RowsSettled, Placed, OneAtWork, OnDisk, LibraryShaped, Jobs
<1>7. ~stray' => FilesSettled'
  <2> SUFFICES ASSUME ~stray' PROVE FilesSettled'
    OBVIOUS
  <2>1. \A p \in Paths : OnDisk(p) => p \in {move.from, move.to}
    BY DEF AllSettled, FilesSettled
  <2>2. /\ move.from # move.to /\ move.from \in Paths /\ move.to \in Paths
        /\ move.content # None /\ disk[move.to] = move.content
    BY DEF LibraryShaped, MoveShaped, MoveInFlight, Moves
  <2>3. \A p \in Paths : OnDisk(p)' <=> p = move.to
    BY <2>1, <2>2 DEF OnDisk, LibraryShaped
  <2>4. job' = None /\ moving' = "recall" /\ move' = move
    BY DEF OneAtWork
  <2> QED
    BY <2>3, <2>4 DEF FilesSettled, Placed
<1> QED
  BY <1>2, <1>3, <1>4, <1>5, <1>6, <1>7 DEF AllSettled

LEMMA RenameRecallsKeeps ==
    ASSUME LibraryInv, RenameRecalls
    PROVE  LibraryInv'
<1> USE LibraryAssumption DEF LibraryInv, RenameRecalls, catalogVars, inputVars, Persists, Admits,
           At, Goes, Steps, Intact, Contents
<1>1. Rows' = Rows /\ NamedRows' = NamedRows
  BY DEF Rows, NamedRows
<1>2. LibraryShaped'
  <2>1. move \in Moves
    BY DEF LibraryShaped, MoveShaped, MoveInFlight
  <2> DEFINE moved(r) == IF r.path = move.from THEN [r EXCEPT !.path = move.to] ELSE r
  <2>2. \A r \in Record : moved(r) \in Record
    BY <2>1 DEF Record, Moves
  <2> HIDE DEF moved
  <2>3. /\ importer.current \in Record \cup {None}
        /\ importer.ledger \subseteq Record
    BY DEF LibraryShaped, Memory
  <2>4. importer' = [current |-> IF importer.current = None THEN None
                                 ELSE moved(importer.current),
                     ledger  |-> {moved(r) : r \in importer.ledger}]
    BY DEF moved
  <2>5. importer' \in Memory
    BY <2>2, <2>3, <2>4 DEF Memory
  <2>6. kept' \in Memory
    BY <2>5 DEF LibraryShaped
  <2> QED
    BY <1>1, <2>5, <2>6 DEF LibraryShaped, MoveShaped, Jobs
<1>3. OneAtWork'
  BY <1>1 DEF OneAtWork, LibraryShaped, Jobs
<1>4. JobSound'
  BY <1>1 DEF JobSound, OnDisk, OneAtWork, LibraryShaped, Jobs
<1>5. MoveInFlight'
  BY <1>1 DEF MoveInFlight, Has, OneAtWork, LibraryShaped, Jobs
<1>6. ~stray' => RowsSettled'
  BY <1>1 DEF AllSettled, RowsSettled, Placed, OneAtWork, OnDisk, LibraryShaped, Jobs
<1>7. ~stray' => FilesSettled'
  BY <1>1 DEF AllSettled, RowsSettled, FilesSettled, Placed, Replaced, OnDisk, OneAtWork,
              JobSound, MoveInFlight, LibraryShaped, Jobs
<1> QED
  BY <1>2, <1>3, <1>4, <1>5, <1>6, <1>7 DEF AllSettled

LEMMA RenameFailsKeeps ==
    ASSUME LibraryInv, RenameFails
    PROVE  LibraryInv'
<1> USE LibraryAssumption DEF LibraryInv, RenameFails, catalogVars, inputVars, Persists, Admits,
           At, Goes, Steps, Intact, Contents
<1>1. Rows' = Rows /\ NamedRows' = NamedRows
  BY DEF Rows, NamedRows
<1>2. LibraryShaped'
  BY <1>1 DEF LibraryShaped, Jobs, Memory, Record, Moves, MoveShaped, OneAtWork
<1>3. OneAtWork'
  BY <1>1 DEF OneAtWork, LibraryShaped, Jobs
<1>4. JobSound'
  BY <1>1 DEF JobSound, OnDisk, OneAtWork, LibraryShaped, Jobs
<1>5. MoveInFlight'
  BY <1>1 DEF MoveInFlight, Has, OneAtWork, LibraryShaped, Jobs
<1>6. ~stray' => RowsSettled'
  BY <1>1 DEF AllSettled, RowsSettled, Placed, OneAtWork, OnDisk, LibraryShaped, Jobs
<1>7. ~stray' => FilesSettled'
  BY <1>1 DEF AllSettled, RowsSettled, FilesSettled, Placed, Replaced, OnDisk, OneAtWork,
              JobSound, MoveInFlight, LibraryShaped, Jobs
<1> QED
  BY <1>2, <1>3, <1>4, <1>5, <1>6, <1>7 DEF AllSettled

LEMMA ExpiresKeeps ==
    ASSUME LibraryInv, NEW content \in bin, Expires(content)
    PROVE  LibraryInv'
<1> USE LibraryAssumption DEF LibraryInv, Expires, catalogVars, inputVars, Persists, Admits,
           At, Goes, Steps, Intact, Contents
<1>1. Rows' = Rows /\ NamedRows' = NamedRows
  BY DEF Rows, NamedRows
<1>2. LibraryShaped'
  BY <1>1 DEF LibraryShaped, Jobs, Memory, Record, Moves, MoveShaped, OneAtWork
<1>3. OneAtWork'
  BY <1>1 DEF OneAtWork, LibraryShaped, Jobs
<1>4. JobSound'
  BY <1>1 DEF JobSound, OnDisk, OneAtWork, LibraryShaped, Jobs
<1>5. MoveInFlight'
  BY <1>1 DEF MoveInFlight, Has, OneAtWork, LibraryShaped, Jobs
<1>6. ~stray' => RowsSettled'
  BY <1>1 DEF AllSettled, RowsSettled, Placed, OneAtWork, OnDisk, LibraryShaped, Jobs
<1>7. ~stray' => FilesSettled'
  BY <1>1 DEF AllSettled, RowsSettled, FilesSettled, Placed, Replaced, OnDisk, OneAtWork,
              JobSound, MoveInFlight, LibraryShaped, Jobs
<1> QED
  BY <1>2, <1>3, <1>4, <1>5, <1>6, <1>7 DEF AllSettled

LEMMA CatalogsKeeps ==
    ASSUME LibraryInv, Catalogs
    PROVE  LibraryInv'
<1> USE LibraryAssumption DEF LibraryInv, Catalogs, At, Goes
<1> DEFINE r == rows'[Len(rows')]
<1>1. /\ job \in Jobs /\ job.version \in Versions /\ job.dest \in Paths
      /\ scan = None /\ moving = "none"
  BY DEF LibraryShaped, Jobs, OneAtWork
<1>2. /\ AreRows(rows') /\ Len(rows') > 0
      /\ r \in Row /\ r.named /\ r.path = job.dest
      /\ Rows' = Rows \cup {r}
      /\ r \in Rows \/ (move # None => move.id # r.id)
  <2>1. job.version \in Versions \cup {0} /\ (TRUE <=> job.version # 0)
    BY <1>1
  <2> QED
    BY <1>1, <2>1, PutAdds DEF LibraryShaped
<1> HIDE DEF r
<1>3. NamedRows' = NamedRows \cup {r}
  BY <1>2 DEF NamedRows
<1>4. job' \in Jobs /\ job'.step = "retire" /\ job'.dest = job.dest /\ job'.old = job.old
  BY <1>1 DEF Jobs
<1>5. LibraryShaped'
  BY <1>2, <1>4 DEF LibraryShaped, MoveShaped, Jobs
<1>6. OneAtWork'
  BY <1>1 DEF OneAtWork
<1>7. JobSound'
  BY <1>4 DEF JobSound
<1>8. MoveInFlight'
  BY <1>1 DEF MoveInFlight
<1>9. AllSettled'
  <2> SUFFICES ASSUME ~stray' PROVE RowsSettled' /\ FilesSettled'
    BY DEF AllSettled
  <2>1. NamedRows = {job.old} \ {None}
    BY DEF AllSettled, RowsSettled
  <2>2. RowsSettled'
    BY <1>1, <1>2, <1>3, <1>4, <2>1 DEF RowsSettled, r
  <2>3. \A p \in Paths : OnDisk(p) <=> p = job.dest
    BY <1>1 DEF AllSettled, FilesSettled
  <2>4. FilesSettled'
    BY <1>1, <1>4, <2>3 DEF FilesSettled, Placed, OnDisk
  <2> QED
    BY <2>2, <2>4
<1> QED
  BY <1>5, <1>6, <1>7, <1>8, <1>9

LEMMA RetiresKeeps ==
    ASSUME LibraryInv, Retires
    PROVE  LibraryInv'
<1> USE LibraryAssumption DEF LibraryInv, Retires, At
<1> DEFINE last == rows[Len(rows)]
<1>1. /\ job \in Jobs /\ scan = None /\ moving = "none" /\ job' = None /\ scan' = None
      /\ moving' = "none" /\ move' = move
  BY DEF LibraryShaped, OneAtWork
<1>2. CASE job.old # None /\ job.old.id # last.id
  <2>1. rows' = Without(job.old.id)
    BY <1>2
  <2>2. AreRows(rows') /\ Rows' = {r \in Rows : r.id # job.old.id}
    <3>1. /\ AreRows(Without(job.old.id))
          /\ {Without(job.old.id)[n] : n \in DOMAIN Without(job.old.id)}
                = {r \in Rows : r.id # job.old.id}
      BY WithoutOne DEF LibraryShaped
    <3> QED
      BY <2>1, <3>1, RowsNext
  <2>3. NamedRows' = {r \in NamedRows : r.id # job.old.id}
    BY <2>2 DEF NamedRows
  <2>4. LibraryShaped'
    BY <1>1, <2>2 DEF LibraryShaped, MoveShaped
  <2>5. AllSettled'
    <3> SUFFICES ASSUME ~stray' PROVE RowsSettled' /\ FilesSettled'
      BY DEF AllSettled
    <3>1. /\ Len(rows) > 0 /\ last.path = job.dest /\ last.named
          /\ \A r \in NamedRows : r \in {job.old, last}
          /\ \A p \in Paths : OnDisk(p) <=> p = job.dest
      BY DEF AllSettled, RowsSettled, FilesSettled
    <3>2. last \in NamedRows
      BY <3>1 DEF LibraryShaped, AreRows, NamedRows, Rows
    <3> HIDE DEF last
    <3>3. NamedRows' = {last}
      BY <1>2, <2>3, <3>1, <3>2
    <3>4. RowsSettled'
      BY <1>1, <3>3 DEF RowsSettled
    <3>5. FilesSettled'
      BY <1>1, <3>1, <3>3 DEF FilesSettled, Placed, OnDisk
    <3> QED
      BY <3>4, <3>5
  <2> QED
    BY <1>1, <2>4, <2>5 DEF OneAtWork, JobSound, MoveInFlight
<1>3. CASE ~(job.old # None /\ job.old.id # last.id)
  <2>1. rows' = rows
    BY <1>3
  <2>2. Rows' = Rows /\ NamedRows' = NamedRows
    BY <2>1 DEF Rows, NamedRows
  <2>3. LibraryShaped'
    BY <1>1, <2>1, <2>2 DEF LibraryShaped, MoveShaped
  <2>4. AllSettled'
    <3> SUFFICES ASSUME ~stray' PROVE RowsSettled' /\ FilesSettled'
      BY DEF AllSettled
    <3>1. /\ Len(rows) > 0 /\ last.path = job.dest /\ last.named
          /\ \A r \in NamedRows : r \in {job.old, last}
          /\ \A p \in Paths : OnDisk(p) <=> p = job.dest
      BY DEF AllSettled, RowsSettled, FilesSettled
    <3>2. last \in NamedRows
      BY <3>1 DEF LibraryShaped, AreRows, NamedRows, Rows
    <3>3. \A q, r \in NamedRows : q.id = r.id => q = r
      BY DEF LibraryShaped, AreRows, NamedRows, Rows
    <3>4. \A r \in NamedRows : r \in Row
      BY DEF LibraryShaped, AreRows, NamedRows, Rows
    <3> HIDE DEF last
    <3>5. NamedRows' = {last}
      BY <1>3, <2>2, <3>1, <3>2, <3>3, <3>4
    <3>6. RowsSettled'
      BY <1>1, <3>5 DEF RowsSettled
    <3>7. FilesSettled'
      BY <1>1, <3>1, <3>5 DEF FilesSettled, Placed, OnDisk
    <3> QED
      BY <3>6, <3>7
  <2> QED
    BY <1>1, <2>3, <2>4 DEF OneAtWork, JobSound, MoveInFlight
<1> QED
  BY <1>2, <1>3

LEMMA ScanDropsKeeps ==
    ASSUME LibraryInv, NEW n \in DOMAIN rows, ScanDrops(n)
    PROVE  LibraryInv'
<1> USE LibraryAssumption DEF LibraryInv, ScanDrops, At
<1>1. job = None /\ moving = "none" /\ rows[n] \in Rows /\ rows[n] \in Row
  BY DEF LibraryShaped, AreRows, OneAtWork, Rows
<1>2. AreRows(rows') /\ Rows' = {r \in Rows : r.id # rows[n].id}
  BY WithoutOne DEF LibraryShaped, Rows
<1>3. LibraryShaped'
  BY <1>1, <1>2 DEF LibraryShaped, MoveShaped
<1>4. AllSettled'
  <2> SUFFICES ASSUME ~stray' PROVE RowsSettled' /\ FilesSettled'
    BY DEF AllSettled
  <2>1. /\ \A p \in Paths : OnDisk(p) <=> \E r \in NamedRows : r.path = p
        /\ \A q, r \in NamedRows : q = r
    BY <1>1 DEF AllSettled, RowsSettled, FilesSettled, Placed
  <2>2. ~rows[n].named
    BY <1>1, <2>1 DEF NamedRows, Row
  <2>3. \A r \in Rows : r.id = rows[n].id => r = rows[n]
    BY DEF LibraryShaped, AreRows, Rows
  <2>4. NamedRows' = NamedRows
    BY <1>2, <2>2, <2>3 DEF NamedRows
  <2>5. RowsSettled'
    BY <1>1, <2>1, <2>4 DEF RowsSettled
  <2>6. FilesSettled'
    BY <1>1, <2>1, <2>4 DEF FilesSettled, Placed, OnDisk
  <2> QED
    BY <2>5, <2>6
<1> QED
  BY <1>1, <1>3, <1>4 DEF OneAtWork, JobSound, MoveInFlight

LEMMA ScanAdoptsKeeps ==
    ASSUME LibraryInv, NEW p \in Paths, ScanAdopts(p)
    PROVE  LibraryInv'
<1> USE LibraryAssumption DEF LibraryInv, ScanAdopts, At
<1> DEFINE new == rows'[Len(rows')]
<1>1. job = None /\ moving = "none"
  BY DEF OneAtWork
<1>2. /\ AreRows(rows') /\ new \in Row /\ new.named = FALSE /\ Rows' = Rows \cup {new}
      /\ new \in Rows \/ (move # None => move.id # new.id)
  BY PutAdds DEF LibraryShaped
<1> HIDE DEF new
<1>3. NamedRows' = NamedRows
  BY <1>2 DEF NamedRows
<1>4. LibraryShaped'
  BY <1>1, <1>2 DEF LibraryShaped, MoveShaped
<1>5. AllSettled'
  <2> SUFFICES ASSUME ~stray' PROVE RowsSettled' /\ FilesSettled'
    BY DEF AllSettled
  <2>1. RowsSettled'
    BY <1>1, <1>3 DEF AllSettled, RowsSettled
  <2>2. FilesSettled'
    BY <1>1, <1>3 DEF AllSettled, FilesSettled, Placed, OnDisk
  <2> QED
    BY <2>1, <2>2
<1>6. OneAtWork'
  BY <1>1 DEF OneAtWork
<1> QED
  BY <1>1, <1>4, <1>5, <1>6 DEF JobSound, MoveInFlight

LEMMA RenameWritesKeeps ==
    ASSUME LibraryInv, RenameWrites
    PROVE  LibraryInv'
<1> USE LibraryAssumption DEF LibraryInv, RenameWrites, Steps, At
<1> DEFINE was == RowAt(move.id)
           now == [was EXCEPT !.path = move.to]
<1>1. /\ job = None /\ scan = None /\ job' = None /\ scan' = None /\ moving' = "none"
      /\ move' = move /\ move \in Moves /\ AreRows(rows)
  BY DEF LibraryShaped, MoveShaped, MoveInFlight, OneAtWork
<1>2. was \in Rows /\ was.id = move.id /\ was \in Row /\ (was.named <=> was.version # 0)
  BY DEF RowAt, Has, MoveInFlight, LibraryShaped, AreRows, Rows
<1>3. was.named
  BY <1>2 DEF LibraryShaped, MoveShaped, MoveInFlight
<1>4. /\ now \in Row /\ now.named /\ now.version # 0 /\ now.id = move.id
      /\ now.path = move.to
  BY <1>1, <1>2, <1>3 DEF Row, Moves
<1>5. /\ AreRows(Without(move.id))
      /\ {Without(move.id)[n] : n \in DOMAIN Without(move.id)}
            = {r \in Rows : r.id # move.id}
  BY <1>1, WithoutOne
<1>6. AreRows(rows') /\ Rows' = {r \in Rows : r.id # move.id} \cup {now}
  <2> DEFINE s == Without(move.id)
  <2>1. rows' = Append(s, now)
    OBVIOUS
  <2> HIDE DEF s, now
  <2>2. /\ AreRows(s) /\ {s[n] : n \in DOMAIN s} = {r \in Rows : r.id # move.id}
    BY <1>5 DEF s
  <2>3. \A n \in DOMAIN s : s[n] \in {r \in Rows : r.id # move.id}
    BY <2>2
  <2>4. \A n \in DOMAIN s : s[n].id # now.id
    BY <1>4, <2>3
  <2>5. now \in Row /\ (now.named <=> now.version # 0)
    BY <1>4
  <2>6. /\ AreRows(rows')
        /\ Rows' = {s[n] : n \in DOMAIN s} \cup {now}
    BY <2>1, <2>2, <2>4, <2>5, RowsAppended
  <2> QED
    BY <2>2, <2>6
<1> HIDE DEF now, was
<1>7. LibraryShaped'
  BY <1>1, <1>4, <1>6 DEF LibraryShaped, MoveShaped
<1>8. AllSettled'
  <2> SUFFICES ASSUME ~stray' PROVE RowsSettled' /\ FilesSettled'
    BY DEF AllSettled
  <2>1. /\ \A p \in Paths : OnDisk(p) <=> p = move.to
        /\ \A q, r \in NamedRows : q = r
    BY <1>1 DEF AllSettled, RowsSettled, FilesSettled
  <2>2. NamedRows' = {now}
    BY <1>2, <1>3, <1>4, <1>6, <2>1 DEF NamedRows
  <2>3. RowsSettled'
    BY <1>1, <2>2 DEF RowsSettled
  <2>4. FilesSettled'
    BY <1>1, <1>4, <2>1, <2>2 DEF FilesSettled, Placed, OnDisk
  <2> QED
    BY <2>3, <2>4
<1> QED
  BY <1>1, <1>7, <1>8 DEF OneAtWork, JobSound, MoveInFlight

LEMMA LibraryInvStarts == LibraryInit => LibraryInv
<1> SUFFICES ASSUME LibraryInit PROVE LibraryInv
  OBVIOUS
<1>1. rows = <<>> /\ job = None /\ move = None /\ moving = "none" /\ scan = None
  BY DEF LibraryInit
<1>2. AreRows(rows) /\ Rows = {} /\ NamedRows = {}
  BY <1>1 DEF AreRows, Rows, NamedRows
<1>3. MoveShaped
  BY <1>1 DEF MoveShaped
<1>4. LibraryShaped
  BY <1>1, <1>2, <1>3 DEF LibraryInit, LibraryShaped, Forgotten, Memory
<1>5. OneAtWork /\ JobSound /\ MoveInFlight
  BY <1>1 DEF OneAtWork, JobSound, MoveInFlight, At
<1>6. AllSettled
  BY <1>1, <1>2 DEF LibraryInit, AllSettled, RowsSettled, FilesSettled, Placed, At, OnDisk
<1> QED
  BY <1>4, <1>5, <1>6 DEF LibraryInv

LEMMA LibraryInvStutters ==
    ASSUME LibraryInv, UNCHANGED libraryVars
    PROVE  LibraryInv'
<1> USE DEF libraryVars, LibraryInv
<1>1. Rows' = Rows /\ NamedRows' = NamedRows
  BY DEF Rows, NamedRows
<1>2. LibraryShaped'
  BY <1>1 DEF LibraryShaped, MoveShaped
<1>3. OneAtWork' /\ JobSound' /\ MoveInFlight'
  BY <1>1 DEF OneAtWork, JobSound, MoveInFlight, At, OnDisk, Has
<1>4. AllSettled'
  BY <1>1 DEF AllSettled, RowsSettled, FilesSettled, Placed, At, OnDisk, Replaced
<1> QED
  BY <1>2, <1>3, <1>4

LEMMA LibraryInvKept ==
    ASSUME LibraryInv, [LibraryNext]_libraryVars
    PROVE  LibraryInv'
<1>1. CASE UNCHANGED libraryVars
  BY <1>1, LibraryInvStutters
<1>2. CASE \E v \in Versions : Deliver(v) \/ ImportStarts(v)
  BY <1>2, DeliverKeeps, ImportStartsKeeps
<1>3. CASE Registers \/ Plans \/ Stages \/ Verifies \/ Preserves \/ Swaps \/ Drops
  BY <1>3, RegistersKeeps, PlansKeeps, StagesKeeps, VerifiesKeeps, PreservesKeeps,
     SwapsKeeps, DropsKeeps
<1>4. CASE Remembers \/ Catalogs \/ Retires \/ ImportFails \/ ImporterDies \/ Crash
  BY <1>4, RemembersKeeps, CatalogsKeeps, RetiresKeeps, ImportFailsKeeps,
     ImporterDiesKeeps, CrashKeeps
<1>5. CASE ScanStarts \/ ScanWalks \/ ScanEnds
  BY <1>5, ScanStartsKeeps, ScanWalksKeeps, ScanEndsKeeps
<1>6. CASE \E n \in DOMAIN rows : ScanDrops(n) \/ (\E to \in Paths : Previews(n, to))
  BY <1>6, ScanDropsKeeps, PreviewsKeeps
<1>7. CASE \E p \in Paths : ScanAdopts(p)
  BY <1>7, ScanAdoptsKeeps
<1>8. CASE RenameStarts \/ RenameChecks \/ RenameLinks \/ RenameUnlinks
  BY <1>8, RenameStartsKeeps, RenameChecksKeeps, RenameLinksKeeps, RenameUnlinksKeeps
<1>9. CASE RenameRecalls \/ RenameWrites \/ RenameFails
  BY <1>9, RenameRecallsKeeps, RenameWritesKeeps, RenameFailsKeeps
<1>10. CASE \E content \in bin : Expires(content)
  BY <1>10, ExpiresKeeps
<1> QED
  BY <1>1, <1>2, <1>3, <1>4, <1>5, <1>6, <1>7, <1>8, <1>9, <1>10 DEF LibraryNext

\* The inductive invariant of the library holds in every reachable state.
THEOREM LibraryInvariance == LibrarySpec => []LibraryInv
BY LibraryInvStarts, LibraryInvKept, PTL DEF LibrarySpec

\* Four actions write the disk.
LEMMA WhoWrites ==
    ASSUME [LibraryNext]_libraryVars
    PROVE  disk' = disk \/ Swaps \/ Drops \/ RenameLinks \/ RenameUnlinks
BY DEF LibraryNext, libraryVars, Deliver, ImportStarts, Registers, Plans, Stages, Verifies,
       Preserves, Remembers, Catalogs, Retires, ImportFails, ImporterDies, Crash,
       ScanStarts, ScanWalks, ScanEnds, ScanDrops, Previews, ScanAdopts, RenameStarts,
       RenameChecks, RenameRecalls, RenameWrites, RenameFails, Expires

\* The rename leaves the bytes of its file under one of its two names.
LEMMA RenameKeepsBytes ==
    ASSUME LibraryInv, RenameLinks \/ RenameUnlinks, NEW p \in Paths, disk[p] # None
    PROVE  \E q \in Paths : disk'[q] = disk[p]
<1>1. /\ move # None /\ move.from # move.to /\ move.from \in Paths /\ move.to \in Paths
      /\ disk[move.from] = move.content
      /\ moving = "unlink" => disk[move.to] = move.content
      /\ disk \in [Paths -> Contents \cup {None}]
  BY DEF LibraryInv, LibraryShaped, MoveShaped, MoveInFlight, Moves, RenameLinks,
         RenameUnlinks, Steps
<1>2. CASE RenameLinks
  BY <1>1, <1>2 DEF RenameLinks
<1>3. CASE RenameUnlinks
  BY <1>1, <1>3 DEF RenameUnlinks, Steps
<1> QED
  BY <1>2, <1>3

\* No step takes the last whole file of the item from the library, but the
\* placement over a file the importer does not know of, and that only after
\* work was cut short: the importer verifies before it swaps, and knows of the
\* installed file whenever a row names one (plugin.ts:482-533).
THEOREM TheGoodCopyIsKept == LibrarySpec => GoodCopyKept
<1>1. ASSUME LibraryInv, [LibraryNext]_libraryVars, HoldsGoodCopy
      PROVE  HoldsGoodCopy' \/ PlacesUnrecorded
  <2>1. PICK p \in Paths : disk[p] # None /\ disk[p].damage = "none"
    BY <1>1 DEF HoldsGoodCopy, OnDisk
  <2>2. disk \in [Paths -> Contents \cup {None}]
    BY <1>1 DEF LibraryInv, LibraryShaped
  <2>3. CASE disk' = disk
    BY <2>1, <2>3 DEF HoldsGoodCopy, OnDisk
  <2>4. CASE Swaps
    <3>1. At("swap") /\ job.dest \in Paths /\ staged # None
      BY <1>1, <2>4 DEF Swaps, At, LibraryInv, LibraryShaped, JobSound
    <3>2. CASE importer.current # None
      <4>1. staged.damage = "none"
        BY <1>1, <3>1, <3>2 DEF LibraryInv, JobSound, At
      <4>2. disk'[job.dest] = staged
        BY <2>2, <2>4, <3>1 DEF Swaps
      <4> QED
        BY <3>1, <4>1, <4>2 DEF HoldsGoodCopy, OnDisk
    <3>3. CASE importer.current = None
      <4>1. CASE stray
        BY <3>1, <3>3, <4>1 DEF PlacesUnrecorded
      <4>2. CASE ~stray
        <5>1. Replaced(p)
          BY <1>1, <2>1, <3>1, <4>2 DEF LibraryInv, AllSettled, FilesSettled, OnDisk
        <5> QED
          BY <3>3, <5>1 DEF Replaced
      <4> QED
        BY <4>1, <4>2
    <3> QED
      BY <3>2, <3>3
  <2>5. CASE Drops
    <3>1. job.dest \in Paths /\ disk[job.dest] # None
          /\ (importer.current # None => disk[job.dest].damage = "none")
      BY <1>1, <2>5 DEF Drops, At, LibraryInv, LibraryShaped, JobSound, OnDisk
    <3>2. CASE importer.current # None /\ importer.current.path # job.dest
      <4>1. disk'[job.dest] = disk[job.dest]
        BY <2>2, <2>5, <3>1, <3>2 DEF Drops
      <4> QED
        BY <3>1, <3>2, <4>1 DEF HoldsGoodCopy, OnDisk
    <3>3. CASE ~(importer.current # None /\ importer.current.path # job.dest)
      BY <2>1, <2>5, <3>3 DEF Drops, HoldsGoodCopy, OnDisk
    <3> QED
      BY <3>2, <3>3
  <2>6. CASE RenameLinks \/ RenameUnlinks
    BY <1>1, <2>1, <2>6, RenameKeepsBytes DEF HoldsGoodCopy, OnDisk
  <2> QED
    BY <1>1, <2>3, <2>4, <2>5, <2>6, WhoWrites
<1> QED
  BY <1>1, LibraryInvariance, PTL DEF LibrarySpec, GoodCopyKept

\* As long as no work was cut short, whatever leaves the library was linked
\* into the recycle bin first: imports, rescans and renames exclude each other,
\* and the file an import replaces is the one it preserved.
THEOREM TheReplacedIsRecycled == LibrarySpec => ReplacedIsRecycled
<1>1. ASSUME LibraryInv, [LibraryNext]_libraryVars, ~stray
      PROVE  Bytes \ Bytes' \subseteq bin \cup {None}
  <2> SUFFICES ASSUME NEW p \in Paths, disk[p] # None, disk[p] \notin bin
               PROVE  \E q \in Paths : disk'[q] = disk[p]
    BY DEF Bytes
  <2>1. disk \in [Paths -> Contents \cup {None}]
    BY <1>1 DEF LibraryInv, LibraryShaped
  <2>2. CASE disk' = disk
    BY <2>2
  <2>3. CASE Swaps
    BY <1>1, <2>3 DEF Swaps, LibraryInv, AllSettled, FilesSettled, OnDisk, Replaced
  <2>4. CASE Drops
    <3>1. At("drop") /\ job.dest \in Paths
      BY <1>1, <2>4 DEF Drops, At, LibraryInv, LibraryShaped
    <3>2. p = job.dest
      BY <1>1, <3>1 DEF LibraryInv, AllSettled, FilesSettled, OnDisk, Replaced
    <3>3. disk'[job.dest] = disk[job.dest]
      BY <2>1, <2>4, <3>1 DEF Drops
    <3> QED
      BY <3>2, <3>3
  <2>5. CASE RenameLinks \/ RenameUnlinks
    BY <1>1, <2>5, RenameKeepsBytes
  <2> QED
    BY <1>1, <2>2, <2>3, <2>4, <2>5, WhoWrites
<1> QED
  BY <1>1, LibraryInvariance, PTL DEF LibrarySpec, ReplacedIsRecycled

------------------------------------------------------------------------------
(* The types of the library *)

\* What the types say beyond the inductive invariant.
LibraryKinds ==
    /\ bin \subseteq Contents /\ ready \subseteq Versions
    /\ busy \in BOOLEAN /\ stray \in BOOLEAN /\ mishaps \in 0 .. MaxMishaps

LEMMA LibraryIsTyped == LibraryInv /\ LibraryKinds => LibraryTypeOK
<1> SUFFICES ASSUME LibraryInv, LibraryKinds PROVE LibraryTypeOK
  OBVIOUS
<1>1. Rows \subseteq Row
  BY DEF LibraryInv, LibraryShaped, AreRows, Rows
<1> QED
  BY <1>1 DEF LibraryInv, LibraryShaped, LibraryKinds, LibraryTypeOK

\* What goes into the bin was in the library.
LEMMA PreservedIsContent ==
    ASSUME LibraryInv, Preserves
    PROVE  bin' \subseteq bin \cup Contents
<1>1. importer.current # None /\ importer.current.path \in Paths
  BY DEF LibraryInv, JobSound, LibraryShaped, Preserves, Memory, Record
<1>2. disk[importer.current.path] \in Contents
  BY <1>1 DEF LibraryInv, LibraryShaped, Preserves, OnDisk
<1> QED
  BY <1>2 DEF Preserves

\* A mishap is one of those allowed.
LEMMA MishapsCounted ==
    ASSUME mishaps \in 0 .. MaxMishaps, mishaps < MaxMishaps, mishaps' = mishaps + 1
    PROVE  mishaps' \in 0 .. MaxMishaps
  BY MishapBound

LEMMA LibraryKindsKept ==
    ASSUME LibraryInv, LibraryKinds, [LibraryNext]_libraryVars
    PROVE  LibraryKinds'
<1> USE DEF catalogVars, inputVars, Goes, Steps
<1>1. bin' \subseteq Contents
  <2>1. bin' = bin \/ Preserves \/ \E content \in bin : Expires(content)
    BY DEF LibraryNext, libraryVars, Deliver, ImportStarts, Registers, Plans, Stages,
           Verifies, Swaps, Drops, Remembers, Catalogs, Retires, ImportFails, ImporterDies,
           Crash, ScanStarts, ScanWalks, ScanEnds, ScanDrops, Previews, ScanAdopts,
           RenameStarts, RenameChecks, RenameLinks, RenameUnlinks, RenameRecalls,
           RenameWrites, RenameFails
  <2> QED
    BY <2>1, PreservedIsContent DEF LibraryKinds, Expires
<1>2. ready' \subseteq Versions /\ busy' \in BOOLEAN /\ stray' \in BOOLEAN
  BY DEF LibraryKinds,
         LibraryNext, libraryVars, Deliver, ImportStarts, Registers, Plans, Stages,
         Verifies, Preserves, Swaps, Drops, Remembers, Catalogs, Retires, ImportFails,
         ImporterDies, Crash, ScanStarts, ScanWalks, ScanEnds, ScanDrops, Previews,
         ScanAdopts, RenameStarts, RenameChecks, RenameLinks, RenameUnlinks, RenameRecalls,
         RenameWrites, RenameFails, Expires
<1>3. mishaps' = mishaps \/ (mishaps < MaxMishaps /\ mishaps' = mishaps + 1)
  <2>1. CASE Registers \/ Plans \/ Stages \/ Drops \/ Remembers \/ RenameRecalls
    BY <2>1 DEF Registers, Plans, Stages, Drops, Remembers, RenameRecalls, Persists
  <2>2. CASE ImporterDies \/ Crash
    BY <2>2 DEF ImporterDies, Crash
  <2>3. Registers \/ Plans \/ Stages \/ Drops \/ Remembers \/ RenameRecalls \/ ImporterDies
        \/ Crash \/ mishaps' = mishaps
    BY DEF LibraryNext, libraryVars, Deliver, ImportStarts, Verifies, Preserves, Swaps,
           Catalogs, Retires, ImportFails, ScanStarts, ScanWalks, ScanEnds, ScanDrops,
           Previews, ScanAdopts, RenameStarts, RenameChecks, RenameLinks, RenameUnlinks,
           RenameWrites, RenameFails, Expires
  <2> QED
    BY <2>1, <2>2, <2>3
<1> QED
  BY <1>1, <1>2, <1>3, MishapsCounted DEF LibraryKinds

LEMMA LibraryKindsStart == LibraryInit => LibraryKinds
<1> SUFFICES ASSUME LibraryInit PROVE LibraryKinds
  OBVIOUS
<1>1. bin = {} /\ ready = {} /\ busy \in BOOLEAN /\ stray \in BOOLEAN /\ mishaps = 0
  BY DEF LibraryInit
<1>2. mishaps \in 0 .. MaxMishaps
  BY <1>1, MishapBound
<1> QED
  BY <1>1, <1>2 DEF LibraryKinds

\* Every variable of the library has its type, a preserved file that of a file,
\* through every import, rescan, rename, failure and crash.
THEOREM LibraryTypes == LibrarySpec => []LibraryTypeOK
<1>1. LibraryInit => LibraryInv /\ LibraryKinds
  BY LibraryInvStarts, LibraryKindsStart
<1>2. (LibraryInv /\ LibraryKinds) /\ [LibraryNext]_libraryVars => (LibraryInv /\ LibraryKinds)'
  BY LibraryInvKept, LibraryKindsKept
<1> QED
  BY <1>1, <1>2, LibraryIsTyped, PTL DEF LibrarySpec

------------------------------------------------------------------------------
(* A title and its monitoring: the inductive invariant *)

\* What is acquired is an episode of the title.
WholeTitle(rec) == rec \in TitleRecords /\ rec.acquired \subseteq rec.episodes
Refreshing == [at : {"asking", "flagging"}, read : TitleRecords]
RefreshInv(r) ==
    refresh[r] = AtEase \/ (refresh[r] \in Refreshing /\ WholeTitle(refresh[r].read))

TitleInv ==
    /\ title = Gone \/ WholeTitle(title)
    /\ document = Gone \/ WholeTitle(document)
    /\ edit = AtEase \/ edit \in [manual : BOOLEAN]
    /\ DOMAIN refresh = Refreshers /\ refresh = [r \in Refreshers |-> refresh[r]]
    /\ \A r \in Refreshers : RefreshInv(r)

------------------------------------------------------------------------------
(* The record *)

\* A title that is new, or added once more, is a whole record.
LEMMA AddedWhole ==
    ASSUME NEW name \in Names, NEW mode \in TitleModes, NEW episodes \in SUBSET Episodes
    PROVE  /\ WholeTitle(Added(name, mode, episodes))
           /\ WholeTitle(title) => WholeTitle(AddedAgain(name, mode, episodes))
  BY DEF WholeTitle, TitleRecords, Added, AddedAgain

\* The document holds the new record or the one before.
LEMMA StoredWhole ==
    ASSUME TitleInv, Stored, title' = Gone \/ WholeTitle(title')
    PROVE  document' = Gone \/ WholeTitle(document')
  BY DEF TitleInv, Stored

\* A request that ends leaves the others as they are.
LEMMA RequestEnds ==
    ASSUME TitleInv, NEW r \in Refreshers, RequestDone(r)
    PROVE  /\ DOMAIN refresh' = Refreshers /\ refresh' = [q \in Refreshers |-> refresh'[q]]
           /\ \A q \in Refreshers : RefreshInv(q)'
  BY DEF TitleInv, RequestDone, RefreshInv, Refreshing, WholeTitle, TitleRecords

\* The requests that are not touched by a step.
LEMMA RequestsStay ==
    ASSUME TitleInv, UNCHANGED refresh
    PROVE  /\ DOMAIN refresh' = Refreshers /\ refresh' = [q \in Refreshers |-> refresh'[q]]
           /\ \A q \in Refreshers : RefreshInv(q)'
  BY DEF TitleInv, RefreshInv, Refreshing, WholeTitle, TitleRecords

\* What the refresh of a series writes.
LEMMA SeriesWritten ==
    ASSUME TitleInv, NEW r \in Refreshers, Asking(r), kind = "series",
           NEW name \in Names, NEW offered \in SUBSET Episodes
    PROVE  LET read     == refresh[r].read
               episodes == offered \cup Retained(read, offered)
               new      == AddedAgain(RefreshedName(read, name), read.mode, episodes)
           IN  /\ WholeTitle(read) /\ episodes \in SUBSET Episodes
               /\ RefreshedName(read, name) \in Names /\ read.mode \in TitleModes
               /\ Managed =>
                    /\ read.acquired \cap title.acquired \subseteq new.acquired
                    /\ new.manual = title.manual /\ new.mode = read.mode
                    /\ read.manual => new.name = read.name
  <1> DEFINE read     == refresh[r].read
             episodes == offered \cup Retained(read, offered)
             newName  == RefreshedName(read, name)
             new      == AddedAgain(newName, read.mode, episodes)
  <1>1. WholeTitle(read)
    BY DEF TitleInv, Asking, RefreshInv
  <1>2. episodes \in SUBSET Episodes /\ newName \in Names /\ read.mode \in TitleModes
    BY <1>1 DEF WholeTitle, TitleRecords, Retained, RefreshedName
  <1>3. ASSUME Managed
        PROVE  /\ new.acquired = title.acquired \cap episodes
               /\ new.manual = title.manual /\ new.mode = read.mode /\ new.name = newName
    BY <1>3 DEF TitleInv, Managed, WholeTitle, TitleRecords, AddedAgain
  <1>4. read.acquired \subseteq episodes
    BY <1>1 DEF WholeTitle, TitleRecords, Retained
  <1>5. read.manual => newName = read.name
    BY DEF RefreshedName
  <1> QED BY <1>1, <1>2, <1>3, <1>4, <1>5

------------------------------------------------------------------------------
(* The steps *)

LEMMA TitleInitInv == TitleInit => TitleInv
  BY DEF TitleInit, TitleInv, RefreshInv, WholeTitle, TitleRecords, Added

\* A step of a refresh.
LEMMA TitleRefreshStep ==
    ASSUME TitleInv, NEW r \in Refreshers,
           \/ RefreshStarts(r) \/ ReviewAsked(r) \/ SeriesRefreshed(r)
           \/ FlagsRefreshed(r) \/ MovieRefreshed(r) \/ RefreshFails(r)
    PROVE  TitleInv'
  <1>1. CASE RefreshStarts(r)
    <2>1. title = Gone \/ WholeTitle(title)
      BY DEF TitleInv
    <2>2. WholeTitle(title) /\ refresh' = [refresh EXCEPT ![r] = [at |-> "asking", read |-> title]]
      BY <1>1, <2>1 DEF RefreshStarts, Managed
    <2>3. refresh'[r] = [at |-> "asking", read |-> title]
      BY <2>2 DEF TitleInv
    <2>4. RefreshInv(r)'
      BY <2>2, <2>3 DEF RefreshInv, Refreshing, WholeTitle
    <2>5. \A q \in Refreshers \ {r} : RefreshInv(q)'
      BY <2>2 DEF TitleInv, RefreshInv
    <2>6. DOMAIN refresh' = Refreshers /\ refresh' = [q \in Refreshers |-> refresh'[q]]
      BY <2>2 DEF TitleInv
    <2>7. UNCHANGED <<title, document, edit>>
      BY <1>1 DEF RefreshStarts
    <2> QED BY <2>4, <2>5, <2>6, <2>7 DEF TitleInv, WholeTitle
  <1>2. CASE ReviewAsked(r) \/ RefreshFails(r)
    <2>1. RequestDone(r) /\ UNCHANGED <<title, document, edit>>
      BY <1>2 DEF ReviewAsked, RefreshFails
    <2> QED BY <2>1, RequestEnds DEF TitleInv, WholeTitle
  <1>3. CASE SeriesRefreshed(r)
    <2>1. PICK name \in Names, offered \in SUBSET Episodes :
             LET read     == refresh[r].read
                 episodes == offered \cup Retained(read, offered)
                 newName  == RefreshedName(read, name)
             IN IF Managed THEN title' = AddedAgain(newName, read.mode, episodes)
                ELSE title' \in {Gone, Added(newName, read.mode, episodes)}
      BY <1>3 DEF SeriesRefreshed
    <2>2. Asking(r) /\ kind = "series" /\ Stored /\ UNCHANGED edit
          /\ refresh' = [refresh EXCEPT ![r].at = "flagging"]
      BY <1>3 DEF SeriesRefreshed
    <2> DEFINE read     == refresh[r].read
               episodes == offered \cup Retained(read, offered)
               newName  == RefreshedName(read, name)
    <2>3. WholeTitle(read) /\ episodes \in SUBSET Episodes
          /\ newName \in Names /\ read.mode \in TitleModes
      BY <2>2, SeriesWritten
    <2>4. title' = Gone \/ WholeTitle(title')
      <3> HIDE DEF read, episodes, newName
      <3>1. title = Gone \/ WholeTitle(title)
        BY DEF TitleInv
      <3>2. WholeTitle(Added(newName, read.mode, episodes))
            /\ (WholeTitle(title) => WholeTitle(AddedAgain(newName, read.mode, episodes)))
        BY <2>3, AddedWhole
      <3>3. IF Managed THEN title' = AddedAgain(newName, read.mode, episodes)
            ELSE title' \in {Gone, Added(newName, read.mode, episodes)}
        BY <2>1 DEF read, episodes, newName
      <3> QED BY <3>1, <3>2, <3>3 DEF Managed
    <2>5. document' = Gone \/ WholeTitle(document')
      BY <2>2, <2>4, StoredWhole
    <2>6. refresh[r] \in Refreshing
      BY <2>2 DEF TitleInv, RefreshInv, Asking
    <2>7. refresh'[r] = [at |-> "flagging", read |-> read]
      BY <2>2, <2>6 DEF TitleInv, Refreshing
    <2>8. RefreshInv(r)'
      BY <2>3, <2>7 DEF RefreshInv, Refreshing, WholeTitle
    <2>9. \A q \in Refreshers \ {r} : RefreshInv(q)'
      BY <2>2 DEF TitleInv, RefreshInv
    <2>10. DOMAIN refresh' = Refreshers /\ refresh' = [q \in Refreshers |-> refresh'[q]]
      BY <2>2 DEF TitleInv
    <2> QED BY <2>2, <2>4, <2>5, <2>8, <2>9, <2>10 DEF TitleInv
  <1>4. CASE FlagsRefreshed(r) \/ MovieRefreshed(r)
    <2>1. RequestDone(r) /\ Stored /\ UNCHANGED edit /\ Managed
      BY <1>4 DEF FlagsRefreshed, MovieRefreshed
    <2>2. WholeTitle(title) /\ WholeTitle(refresh[r].read)
      BY <1>4, <2>1 DEF TitleInv, Managed, RefreshInv, FlagsRefreshed, MovieRefreshed, Flagging, Asking
    <2>3. WholeTitle(title')
      BY <1>4, <2>2 DEF FlagsRefreshed, MovieRefreshed, WholeTitle, TitleRecords, RefreshedName
    <2> QED BY <2>1, <2>3, StoredWhole, RequestEnds DEF TitleInv
  <1> QED BY <1>1, <1>2, <1>3, <1>4

\* A step of an operator, of an import or of a start.
LEMMA TitleOtherStep ==
    ASSUME TitleInv,
           \/ EditReads \/ EditWrites \/ EditFails \/ TitleDeleted \/ TitleAdded
           \/ MarkAcquired \/ TitleRestored
    PROVE  TitleInv'
  <1>1. CASE EditReads \/ EditFails
    <2>1. UNCHANGED <<title, document, refresh>>
      BY <1>1 DEF EditReads, EditFails
    <2>2. edit' = AtEase \/ edit' \in [manual : BOOLEAN]
      BY <1>1 DEF EditReads, EditFails, TitleInv, Managed, WholeTitle, TitleRecords
    <2> QED BY <2>1, <2>2, RequestsStay DEF TitleInv, WholeTitle
  <1>2. CASE EditWrites
    <2>1. WholeTitle(title) /\ edit \in [manual : BOOLEAN]
      BY <1>2 DEF EditWrites, TitleInv, Managed
    <2>2. WholeTitle(title')
      BY <1>2, <2>1 DEF EditWrites, WholeTitle, TitleRecords
    <2>3. Stored /\ edit' = AtEase /\ UNCHANGED refresh
      BY <1>2 DEF EditWrites
    <2> QED BY <2>2, <2>3, StoredWhole, RequestsStay DEF TitleInv
  <1>3. CASE TitleDeleted
    BY <1>3, StoredWhole, RequestsStay DEF TitleDeleted, TitleInv, inFlight
  <1>4. CASE TitleAdded
    <2>1. Stored /\ UNCHANGED <<edit, refresh>>
      BY <1>4 DEF TitleAdded, inFlight
    <2>2. PICK name \in Names, mode \in TitleModes, episodes \in SUBSET Episodes :
             title' = IF Managed THEN AddedAgain(name, mode, episodes)
                      ELSE Added(name, mode, episodes)
      BY <1>4 DEF TitleAdded
    <2>3. WholeTitle(title')
      BY <2>2, AddedWhole DEF TitleInv, Managed
    <2> QED BY <2>1, <2>3, StoredWhole, RequestsStay DEF TitleInv
  <1>5. CASE MarkAcquired
    <2>1. Stored /\ UNCHANGED <<edit, refresh>>
      BY <1>5 DEF MarkAcquired, inFlight
    <2>2. WholeTitle(title')
      BY <1>5 DEF MarkAcquired, TitleInv, Managed, WholeTitle, TitleRecords
    <2> QED BY <2>1, <2>2, StoredWhole, RequestsStay DEF TitleInv
  <1>6. CASE TitleRestored
    <2>1. title' = document /\ UNCHANGED document
      BY <1>6 DEF TitleRestored
    <2>2. CASE UNCHANGED <<refresh, edit>>
      BY <2>1, <2>2, RequestsStay DEF TitleInv, WholeTitle
    <2>3. CASE refresh' = [r \in Refreshers |-> AtEase] /\ edit' = AtEase
      BY <2>1, <2>3 DEF TitleInv, WholeTitle, RefreshInv
    <2> QED BY <1>6, <2>2, <2>3 DEF TitleRestored
  <1> QED BY <1>1, <1>2, <1>3, <1>4, <1>5, <1>6

LEMMA TitleStepInv == TitleInv /\ [TitleNext]_titleVars => TitleInv'
  <1> SUFFICES ASSUME TitleInv, [TitleNext]_titleVars PROVE TitleInv'
    OBVIOUS
  <1>1. CASE UNCHANGED titleVars
    BY <1>1, RequestsStay DEF titleVars, TitleInv, WholeTitle
  <1>2. CASE TitleNext
    BY <1>2, TitleRefreshStep, TitleOtherStep DEF TitleNext
  <1> QED BY <1>1, <1>2

\* A write of a refresh keeps what it read and what is still so.
LEMMA WriteKeeps ==
    ASSUME TitleInv, NEW r \in Refreshers, Managed, RefreshWrites(r)
    PROVE  KeptBy(r)
  <1>1. WholeTitle(title)
    BY DEF TitleInv, Managed
  <1>2. CASE SeriesRefreshed(r)
    <2>1. Asking(r) /\ kind = "series"
      BY <1>2 DEF SeriesRefreshed
    <2>2. PICK name \in Names, offered \in SUBSET Episodes :
             title' = AddedAgain(RefreshedName(refresh[r].read, name), refresh[r].read.mode,
                                 offered \cup Retained(refresh[r].read, offered))
      BY <1>2 DEF SeriesRefreshed
    <2> DEFINE read == refresh[r].read
               new  == AddedAgain(RefreshedName(read, name), read.mode,
                                  offered \cup Retained(read, offered))
    <2>3. /\ read.acquired \cap title.acquired \subseteq new.acquired
          /\ new.manual = title.manual /\ new.mode = read.mode
          /\ read.manual => new.name = read.name
      BY <2>1, SeriesWritten
    <2>4. title' = new
      BY <2>2
    <2> HIDE DEF new
    <2> QED BY <2>3, <2>4 DEF KeptBy
  <1>3. CASE FlagsRefreshed(r)
    BY <1>1, <1>3 DEF FlagsRefreshed, KeptBy, WholeTitle, TitleRecords
  <1>4. CASE MovieRefreshed(r)
    BY <1>1, <1>4 DEF MovieRefreshed, KeptBy, WholeTitle, TitleRecords, RefreshedName
  <1> QED BY <1>2, <1>3, <1>4 DEF RefreshWrites

------------------------------------------------------------------------------
\* Whatever operators, imports and stops do while the provider is asked, a
\* refresh leaves as they are the acquired episodes, the title set by hand with
\* its mark and the monitor mode that it read and that still stand
\* (managed-metadata-refresh.ts:27-84).
THEOREM RefreshLeavesChoices == TitleSpec => RefreshKeeps
  <1>1. TitleInv /\ [TitleNext]_titleVars => [RefreshKeepsNow]_titleVars
    <2> SUFFICES ASSUME TitleInv, TitleNext PROVE RefreshKeepsNow
      OBVIOUS
    <2> QED BY WriteKeeps DEF RefreshKeepsNow
  <1> QED BY <1>1, TitleInitInv, TitleStepInv, PTL DEF TitleSpec, RefreshKeeps

------------------------------------------------------------------------------
(* The types of a title *)

Reviews == [previous : SUBSET Episodes, proposed : SUBSET Episodes]
TitleKinds == kind \in {"movie", "series"} /\ review \in {NoReview} \cup Reviews

LEMMA TitleIsTyped == TitleInv /\ TitleKinds => TitleTypeOK
  BY DEF TitleInv, TitleKinds, TitleTypeOK, WholeTitle, RefreshInv, Refreshing, Reviews,
         Managed

\* Only a refresh that is turned down shows an operator anything.
LEMMA TitleKindsKept ==
    ASSUME TitleInv, TitleKinds, [TitleNext]_titleVars
    PROVE  TitleKinds'
<1>1. kind' = kind
  BY DEF TitleNext, titleVars, inFlight, RefreshStarts, ReviewAsked, SeriesRefreshed,
         FlagsRefreshed, MovieRefreshed, RefreshFails, EditReads, EditWrites, EditFails,
         TitleDeleted, TitleAdded, MarkAcquired, TitleRestored
<1>2. review' = review \/ \E r \in Refreshers : ReviewAsked(r)
  BY DEF TitleNext, titleVars, inFlight, RefreshStarts, SeriesRefreshed,
         FlagsRefreshed, MovieRefreshed, RefreshFails, EditReads, EditWrites, EditFails,
         TitleDeleted, TitleAdded, MarkAcquired, TitleRestored
<1>3. ASSUME NEW r \in Refreshers, ReviewAsked(r) PROVE review' \in {NoReview} \cup Reviews
  <2>1. refresh[r].read \in TitleRecords
    BY <1>3 DEF ReviewAsked, Asking, TitleInv, RefreshInv, Refreshing
  <2>2. refresh[r].read.episodes \in SUBSET Episodes
    BY <2>1 DEF TitleRecords
  <2> QED
    BY <1>3, <2>2 DEF ReviewAsked, TitleKinds, Reviews
<1> QED
  BY <1>1, <1>2, <1>3 DEF TitleKinds

\* A managed title, its document and what its requests hold have their types,
\* and an acquired episode is one of the title.
THEOREM TitleTypes == TitleSpec => []TitleTypeOK
<1>1. TitleInit => TitleInv /\ TitleKinds
  BY TitleInitInv DEF TitleInit, TitleKinds
<1>2. (TitleInv /\ TitleKinds) /\ [TitleNext]_titleVars => (TitleInv /\ TitleKinds)'
  BY TitleStepInv, TitleKindsKept
<1> QED
  BY <1>1, <1>2, TitleIsTyped, PTL DEF TitleSpec

------------------------------------------------------------------------------
(* The components together *)

\* In the initial states of the composition each component is in one of its own.
LEMMA StoresStarts ==
    StoresInit => /\ UsenetInit /\ VpnInit /\ LibraryInit /\ RestoreInit /\ SetupInit
                  /\ PluginSetInit /\ TitleInit
BY DEF StoresInit

\* One of them takes a step, the others stay as they are.
LEMMA StoresSteps ==
    [StoresNext]_storesVars =>
       /\ [UsenetNext]_usenetVars /\ [VpnNext]_vpnVars /\ [LibraryNext]_libraryVars
       /\ [RestoreNext]_restoreVars /\ [SetupNext]_setupVars /\ [PluginSetNext]_setVars
       /\ [TitleNext]_titleVars
BY DEF StoresNext, storesVars

\* A behaviour of the seven together is one of each: whatever is proved of a
\* component holds where they are composed.
THEOREM StoresIsMadeOfParts ==
    StoresSpec => /\ UsenetSpec /\ VpnSpec /\ LibrarySpec /\ RestoreSpec /\ SetupSpec
                  /\ PluginSetSpec /\ TitleSpec
BY StoresStarts, StoresSteps, PTL DEF StoresSpec, UsenetSpec, VpnSpec, LibrarySpec,
   RestoreSpec, SetupSpec, PluginSetSpec, TitleSpec

\* Every variable of the usenet client, the VPN profiles, the library, the
\* restore, the setup, the plugins and the titles keeps its type.
THEOREM StoresTypes == StoresSpec => []StoresTypeOK
<1>1. UsenetTypeOK /\ VpnTypeOK /\ LibraryTypeOK /\ RestoreTypeOK /\ SetupTypeOK
      /\ PluginSetTypeOK /\ TitleTypeOK => StoresTypeOK
  BY DEF StoresTypeOK
<1> QED
  BY <1>1, StoresIsMadeOfParts, UsenetIsTyped, VpnTypes, LibraryTypes, RestoreTypes,
     SetupTypes, PluginSetTypes, TitleTypes, PTL

\* What is promised of the state of each component is kept where they are
\* composed.
THEOREM StoresAreSound ==
    StoresSpec => /\ []UsenetWhole /\ []Isolated /\ []SetupKept /\ []DownForAReason
                  /\ []McpRunsAsStored
BY StoresIsMadeOfParts, UsenetStaysWhole, BoundClientsAreIsolated, SetupIsKept,
   OrderKeepsNoneDown, McpConsistent, PTL

\* So is what is promised of their steps.
THEOREM StoresAreKept ==
    StoresSpec => UsenetLedger /\ GoodCopyKept /\ ReplacedIsRecycled /\ RestoreIsWhole
                  /\ RefreshKeeps
BY StoresIsMadeOfParts, UsenetKeepsLedger, TheGoodCopyIsKept, TheReplacedIsRecycled,
   RestoreWhole, RefreshLeavesChoices, PTL

==============================================================================
