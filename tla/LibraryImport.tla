----------------------------- MODULE LibraryImport -----------------------------
(* One wanted item of one library: how a finished download becomes its file, *)
(* how a better version replaces it, and the rescan and rename jobs that work *)
(* on the same files and the same catalog rows.                              *)
(* Translated from importCompletedDownload in apps/server/src/kernel.ts, the  *)
(* importer plugins/library/src/plugin.ts, library.ts, file-maintenance.ts    *)
(* and MediaCatalogRepository.put.  A version is its quality rank; its hash   *)
(* is the version itself.  Containment checks and templates are left out.     *)
EXTENDS Naturals, FiniteSets, Sequences

CONSTANTS Versions,     \* 1..n, worse to better
          Paths,        \* file names of the library
          PathOf,       \* [Versions -> Paths]: what the template renders
          Damages,      \* ways a copy goes wrong, of {"short", "flipped"}
          MaxDeliveries, MaxPreviews, MaxMishaps,  \* bounds on the history
          None

VARIABLES disk,       \* [Paths -> content]
          staged,     \* content under the staging or temporary name
          bin,        \* contents in .tantalar-recycle
          importer,   \* the plugin's memory: current record and ledger
          kept,       \* its document in the store
          rows,       \* media_catalog of this library, oldest update first
          busy,       \* the library is in LibraryService.#busy
          job,        \* the import under way, or None
          scan,       \* the rescan under way, or None
          move,       \* the approved rename preview, or None
          moving,     \* step of the rename job
          ready,      \* finished downloads to import
          deliveries, previews, mishaps,
          stray       \* history: a file was left in the library, rows unsettled

libraryVars == <<disk, staged, bin, importer, kept, rows, busy, job, scan, move, moving,
                 ready, deliveries, previews, mishaps, stray>>
catalogVars == <<rows, scan, move, moving>>
inputVars   == <<ready, deliveries, previews>>

Intact(v)   == [version |-> v, damage |-> "none"]
Contents   == [version : Versions, damage : Damages \cup {"none"}]
OnDisk(p)  == disk[p] # None
Record     == [version : Versions, path : Paths]
Memory     == [current : Record \cup {None}, ledger : SUBSET Record]
\* A row the rescan adopted names no item, and has a hash of its own.
Row        == [id : Nat, named : BOOLEAN, version : Versions \cup {0}, path : Paths]
ItemRow    == {r \in Row : r.named /\ r.version # 0}
Jobs       == [version : Versions, old : ItemRow \cup {None}, dest : Paths \cup {None},
               step : {"register", "plan", "stage", "verify", "preserve", "swap", "drop",
                       "remember", "catalog", "retire"}]

ASSUME LibraryAssumption ==
    /\ Versions \subseteq Nat \ {0} /\ PathOf \in [Versions -> Paths]
    /\ None \notin Contents /\ None \notin Record /\ None \notin Row
    /\ None \notin Jobs
ASSUME MishapBound == MaxMishaps \in Nat

Rows       == {rows[n] : n \in DOMAIN rows}
Has(id)    == \E r \in Rows : r.id = id
RowAt(id)  == CHOOSE r \in Rows : r.id = id
Without(id) ==
    LET gone == CHOOSE n \in DOMAIN rows : rows[n].id = id IN
    IF Has(id) THEN [n \in 1 .. Len(rows) - 1 |-> rows[IF n < gone THEN n ELSE n + 1]]
    ELSE rows
\* A file id is a new uuid: never one in use or one a preview still names.
FreshId    == CHOOSE id \in 0 .. Len(rows) + 1 : ~Has(id) /\ (move # None => move.id # id)
\* listByLibrary for the item, latest update first: the installed row.
Latest     == {n \in DOMAIN rows : /\ rows[n].named
                                   /\ \A m \in DOMAIN rows : rows[m].named => m <= n}
Installed  == IF Latest = {} THEN None ELSE rows[CHOOSE n \in Latest : TRUE]

LibraryTypeOK ==
    /\ disk \in [Paths -> Contents \cup {None}] /\ staged \in Contents \cup {None}
    /\ bin \subseteq Contents /\ importer \in Memory /\ kept \in Memory
    /\ Rows \subseteq Row
    /\ busy \in BOOLEAN /\ ready \subseteq Versions
    /\ stray \in BOOLEAN /\ job \in Jobs \cup {None}
    /\ moving \in {"none", "start", "link", "unlink", "recall", "row"}
    /\ mishaps \in 0 .. MaxMishaps

Forgotten == [current |-> None, ledger |-> {}]

LibraryInit ==
    /\ disk = [p \in Paths |-> None] /\ staged = None /\ bin = {}
    /\ importer = Forgotten /\ kept = Forgotten
    /\ rows = <<>> /\ busy = FALSE /\ job = None /\ scan = None
    /\ move = None /\ moving = "none"
    /\ ready = {} /\ deliveries = 0 /\ previews = 0 /\ mishaps = 0
    /\ stray = FALSE

------------------------------------------------------------------------------
\* library.ts exclusive: refuse, or hold the library until the work ends.
AlwaysAdmits == TRUE
Admits == ~busy

\* persist swallows the error of the store.
Persists == \/ kept' = importer' /\ UNCHANGED mishaps
            \/ mishaps < MaxMishaps /\ mishaps' = mishaps + 1 /\ UNCHANGED kept

Deliver(v) ==
    /\ deliveries < MaxDeliveries /\ v \notin ready
    /\ ready' = ready \cup {v} /\ deliveries' = deliveries + 1
    /\ UNCHANGED <<disk, staged, bin, importer, kept, catalogVars, busy, job,
                   previews, mishaps, stray>>

\* importCompletedDownload: the installed row is read once, at the start.
ImportStarts(v) ==
    /\ v \in ready /\ Admits
    /\ busy' = TRUE
    /\ job' = [version |-> v, step |-> "register", old |-> Installed, dest |-> None]
    /\ UNCHANGED <<disk, staged, bin, importer, kept, catalogVars, inputVars,
                   mishaps, stray>>

At(step)   == job # None /\ job.step = step
Goes(step) == job' = [job EXCEPT !.step = step]

\* "register-existing": the importer learns of a file it has no record of.
Registers ==
    /\ At("register") /\ Goes("plan")
    /\ IF job.old = None \/ importer.current # None
       THEN UNCHANGED <<importer, kept, mishaps>>
       ELSE /\ OnDisk(job.old.path)
            /\ importer' = [importer EXCEPT !.current =
                               [version |-> job.old.version, path |-> job.old.path]]
            /\ Persists
    /\ UNCHANGED <<disk, staged, bin, catalogVars, busy, inputVars, stray>>

Prior(v) == {r \in importer.ledger : r.version = v}
Destination(v) == IF Prior(v) = {} THEN PathOf[v] ELSE (CHOOSE r \in Prior(v) : TRUE).path
Duplicate(v) == Prior(v) # {} \/ disk[Destination(v)] = Intact(v)

\* planImport and the head of doImport.  A version that is not better than the
\* current one is refused; the deduplicated one goes straight to the catalog.
Plans ==
    /\ At("plan")
    /\ LET v == job.version IN
       IF Duplicate(v)
       THEN /\ job' = [job EXCEPT !.dest = Destination(v), !.step = "catalog"]
            /\ IF Prior(v) = {}
               THEN /\ importer' = [importer EXCEPT !.ledger =
                                      @ \cup {[version |-> v, path |-> Destination(v)]}]
                    /\ Persists
               ELSE UNCHANGED <<importer, kept, mishaps>>
       ELSE /\ importer.current # None => v > importer.current.version
            /\ job' = [job EXCEPT !.dest = Destination(v), !.step = "stage"]
            /\ UNCHANGED <<importer, kept, mishaps>>
    /\ UNCHANGED <<disk, staged, bin, catalogVars, busy, inputVars, stray>>

\* A hardlink is whole; a copy may be short, or of the right length and wrong.
Stages ==
    /\ At("stage") /\ Goes("verify")
    /\ \/ staged' = Intact(job.version) /\ UNCHANGED mishaps
       \/ /\ mishaps < MaxMishaps /\ mishaps' = mishaps + 1
          /\ \E d \in Damages : staged' = [version |-> job.version, damage |-> d]
    /\ UNCHANGED <<disk, bin, importer, kept, catalogVars, busy, inputVars, stray>>

PassesUnchecked(content, old) == TRUE
\* The size is always compared; the hash only when a file is to be replaced.
Passes(content, old) == /\ content.damage # "short"
                        /\ old # None => content.damage = "none"
Verifies ==
    /\ At("verify") /\ Passes(staged, importer.current)
    /\ Goes(IF importer.current = None THEN "swap" ELSE "preserve")
    /\ UNCHANGED <<disk, staged, bin, importer, kept, catalogVars, busy, inputVars,
                   mishaps, stray>>

\* preserveReplacedFile: a second link to the bytes, or the import fails.
Preserves ==
    /\ At("preserve") /\ Goes("swap")
    /\ OnDisk(importer.current.path)
    /\ bin' = bin \cup {disk[importer.current.path]}
    /\ UNCHANGED <<disk, staged, importer, kept, catalogVars, busy, inputVars,
                   mishaps, stray>>

Swaps ==
    /\ At("swap") /\ Goes("drop")
    /\ disk' = [disk EXCEPT ![job.dest] = staged] /\ staged' = None
    /\ UNCHANGED <<bin, importer, kept, catalogVars, busy, inputVars, mishaps,
                   stray>>

\* The superseded file goes last, and its unlink may fail unnoticed.
Drops ==
    /\ At("drop") /\ Goes("remember")
    /\ \/ /\ disk' = IF importer.current # None /\ importer.current.path # job.dest
                     THEN [disk EXCEPT ![importer.current.path] = None] ELSE disk
          /\ UNCHANGED mishaps
          /\ UNCHANGED stray
       \/ /\ mishaps < MaxMishaps /\ mishaps' = mishaps + 1
          /\ stray' = TRUE /\ UNCHANGED disk
    /\ UNCHANGED <<staged, bin, importer, kept, catalogVars, busy, inputVars>>

Remembers ==
    /\ At("remember") /\ Goes("catalog")
    /\ LET record == [version |-> job.version, path |-> job.dest] IN
       importer' = [current |-> record, ledger |-> importer.ledger \cup {record}]
    /\ Persists
    /\ UNCHANGED <<disk, staged, bin, catalogVars, busy, inputVars, stray>>

\* MediaCatalogRepository.put: the row of this hash and path, updated or new.
PutRow(named, version, path) ==
    LET same == {n \in DOMAIN rows : rows[n].version = version /\ rows[n].path = path}
        row  == IF same # {} THEN rows[CHOOSE n \in same : TRUE]
                ELSE [id |-> FreshId, named |-> named, version |-> version, path |-> path]
    IN rows' = Append(Without(row.id), row)

\* The kernel resolves the file it was told of, then writes its row.
Catalogs ==
    /\ At("catalog") /\ Goes("retire")
    /\ OnDisk(job.dest)
    /\ PutRow(TRUE, job.version, job.dest)
    /\ UNCHANGED <<disk, staged, bin, importer, kept, busy, scan, move, moving,
                   inputVars, mishaps, stray>>

\* Serving and the automation are told, then the replaced row is removed.
Retires ==
    /\ At("retire")
    /\ rows' = IF job.old # None /\ job.old.id # rows[Len(rows)].id
               THEN Without(job.old.id) ELSE rows
    /\ ready' = ready \ {job.version}
    /\ job' = None /\ busy' = FALSE
    /\ UNCHANGED <<disk, staged, bin, importer, kept, scan, move, moving,
                   deliveries, previews, mishaps, stray>>

\* A file has its new name, and the rows do not say so yet.
Placed == \/ job # None /\ job.step \in {"drop", "remember", "catalog", "retire"}
          \/ moving \in {"unlink", "recall", "row"}

\* A step may throw (the item is playing, a refusal, a disk or database error):
\* staged leftovers go, the library is let go, the download stays ready.
\* Between the swap and the record nothing throws.
ImportFails ==
    /\ job # None /\ job.step \notin {"drop", "remember"}
    /\ job' = None /\ busy' = FALSE /\ staged' = None
    /\ stray' = (stray \/ Placed)
    /\ UNCHANGED <<disk, bin, importer, kept, catalogVars, inputVars, mishaps>>

\* The importer's process dies under the import and is mounted again.
ImporterDies ==
    /\ job # None
    /\ mishaps < MaxMishaps /\ mishaps' = mishaps + 1
    /\ importer' = kept /\ stray' = (stray \/ Placed)
    /\ job' = None /\ busy' = FALSE
    /\ UNCHANGED <<disk, staged, bin, kept, catalogVars, inputVars>>

\* The server dies: what was only in memory is gone, the disk stays as it is.
Crash ==
    /\ mishaps < MaxMishaps /\ mishaps' = mishaps + 1
    /\ importer' = kept /\ stray' = (stray \/ Placed)
    /\ busy' = FALSE /\ job' = None /\ scan' = None /\ moving' = "none"
    /\ UNCHANGED <<disk, staged, bin, kept, rows, move, inputVars>>

------------------------------------------------------------------------------
\* The rescan reads the rows, walks the files, drops the rows of missing files
\* and adopts each file that had no row, under an identity of its own.

ScanStarts ==
    /\ Admits /\ busy' = TRUE
    /\ scan' = [known |-> {r.path : r \in Rows}, found |-> None]
    /\ UNCHANGED <<disk, staged, bin, importer, kept, rows, job, move, moving,
                   inputVars, mishaps, stray>>
ScanWalks ==
    /\ scan # None /\ scan.found = None
    /\ scan' = [scan EXCEPT !.found = {p \in Paths : OnDisk(p)}]
    /\ UNCHANGED <<disk, staged, bin, importer, kept, rows, busy, job, move, moving,
                   inputVars, mishaps, stray>>
ScanDrops(n) ==
    /\ scan # None /\ scan.found # None
    /\ rows[n].path \in scan.known /\ ~OnDisk(rows[n].path)
    /\ rows' = Without(rows[n].id)
    /\ UNCHANGED <<disk, staged, bin, importer, kept, busy, job, scan, move, moving,
                   inputVars, mishaps, stray>>
ScanAdopts(p) ==
    /\ scan # None /\ scan.found # None /\ p \in scan.found \ scan.known
    /\ PutRow(FALSE, 0, p)
    /\ scan' = [scan EXCEPT !.found = @ \ {p}]
    /\ UNCHANGED <<disk, staged, bin, importer, kept, busy, job, move, moving,
                   inputVars, mishaps, stray>>
ScanEnds ==
    /\ scan # None
    /\ scan' = None /\ busy' = FALSE
    /\ UNCHANGED <<disk, staged, bin, importer, kept, rows, job, move, moving,
                   inputVars, mishaps, stray>>

------------------------------------------------------------------------------
\* A rename is previewed (the destination must be free), approved, and applied
\* later by a job, which may find that file and row have changed.

Previews(n, to) ==
    /\ previews < MaxPreviews /\ rows[n].named /\ OnDisk(rows[n].path) /\ ~OnDisk(to)
    /\ move' = [id |-> rows[n].id, from |-> rows[n].path, to |-> to,
                content |-> disk[rows[n].path]]
    /\ moving = "none" /\ previews' = previews + 1
    /\ UNCHANGED <<disk, staged, bin, importer, kept, rows, busy, job, scan, moving,
                   ready, deliveries, mishaps, stray>>
RenameStarts ==
    /\ move # None /\ moving = "none" /\ Admits
    /\ busy' = TRUE /\ moving' = "start"
    /\ UNCHANGED <<disk, staged, bin, importer, kept, rows, job, scan, move,
                   inputVars, mishaps, stray>>

Steps(from, to) == moving = from /\ moving' = to

\* The row must still be at either end, the file be the one previewed, and the
\* destination free or another link to it.
Chosen == IF OnDisk(move.from) THEN move.from ELSE move.to
RenameChecks ==
    /\ Steps("start", IF OnDisk(move.from) THEN "link" ELSE "recall")
    /\ Has(move.id) /\ RowAt(move.id).path \in {move.from, move.to}
    /\ disk[Chosen] = move.content
    /\ UNCHANGED <<disk, staged, bin, importer, kept, rows, busy, job, scan, move,
                   inputVars, mishaps, stray>>
RenameLinks ==
    /\ Steps("link", "unlink")
    /\ disk[move.to] \in {None, move.content}
    /\ disk' = [disk EXCEPT ![move.to] = move.content]
    /\ UNCHANGED <<staged, bin, importer, kept, rows, busy, job, scan, move,
                   inputVars, mishaps, stray>>
RenameUnlinks ==
    /\ Steps("unlink", "recall")
    /\ disk' = [disk EXCEPT ![move.from] = None]
    /\ UNCHANGED <<staged, bin, importer, kept, rows, busy, job, scan, move,
                   inputVars, mishaps, stray>>
RenameRecalls ==
    /\ Steps("recall", "row")
    /\ LET moved(r) == IF r.path = move.from THEN [r EXCEPT !.path = move.to] ELSE r IN
       importer' = [current |-> IF importer.current = None THEN None
                                ELSE moved(importer.current),
                    ledger  |-> {moved(r) : r \in importer.ledger}]
    /\ Persists
    /\ UNCHANGED <<disk, staged, bin, rows, busy, job, scan, move, inputVars,
                   stray>>
RenameWrites ==
    /\ Steps("row", "none")
    /\ rows' = Append(Without(move.id), [RowAt(move.id) EXCEPT !.path = move.to])
    /\ busy' = FALSE
    /\ UNCHANGED <<disk, staged, bin, importer, kept, job, scan, move, inputVars,
                   mishaps, stray>>
RenameFails ==
    /\ moving # "none" /\ moving' = "none" /\ busy' = FALSE
    /\ stray' = (stray \/ Placed)
    /\ UNCHANGED <<disk, staged, bin, importer, kept, rows, job, scan, move,
                   inputVars, mishaps>>

\* recycle-cleanup: expired entries of the bin go, one at a time.
Expires(content) ==
    /\ Admits /\ content \in bin
    /\ bin' = bin \ {content}
    /\ UNCHANGED <<disk, staged, importer, kept, catalogVars, busy, job, inputVars,
                   mishaps, stray>>

LibraryNext ==
    \/ \E v \in Versions : Deliver(v) \/ ImportStarts(v)
    \/ Registers \/ Plans \/ Stages \/ Verifies \/ Preserves \/ Swaps \/ Drops
    \/ Remembers \/ Catalogs \/ Retires \/ ImportFails \/ ImporterDies \/ Crash
    \/ ScanStarts \/ ScanWalks \/ ScanEnds
    \/ \E n \in DOMAIN rows : ScanDrops(n) \/ (\E to \in Paths : Previews(n, to))
    \/ \E p \in Paths : ScanAdopts(p)
    \/ RenameStarts \/ RenameChecks \/ RenameLinks \/ RenameUnlinks \/ RenameRecalls
    \/ RenameWrites \/ RenameFails
    \/ \E content \in bin : Expires(content)

LibrarySpec == LibraryInit /\ [][LibraryNext]_libraryVars

------------------------------------------------------------------------------
\* No step takes the last whole file of the item from the library: the only
\* good copy is never deleted before its replacement was verified, whatever
\* copies go wrong and whenever the server dies (plugin.ts:482-484).  One step
\* is excused: after work that was cut short the importer may know of no file,
\* and placeAtomically then renames a copy it only measured over whatever has
\* that name (plugin.ts:438).
HoldsGoodCopy     == \E p \in Paths : OnDisk(p) /\ disk[p].damage = "none"
PlacesUnrecorded  == stray /\ At("swap") /\ importer.current = None
GoodCopyKept == [][HoldsGoodCopy => HoldsGoodCopy' \/ PlacesUnrecorded]_libraryVars

\* A file that leaves the library was linked into the recycle bin first: as
\* long as no work was cut short with its rows unsettled, imports, rescans and
\* renames keep out of each other's way and replace nothing they have not
\* preserved (recycle-bin.ts:14, library.ts:88).
Bytes == {disk[p] : p \in Paths}
ReplacedIsRecycled == [][~stray => Bytes \ Bytes' \subseteq bin \cup {None}]_libraryVars
=============================================================================
