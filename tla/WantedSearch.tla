----------------------------- MODULE WantedSearch -----------------------------
(* The searches that grab without being asked: the wanted search walks the    *)
(* monitored titles that are missing, the upgrade search the installed files, *)
(* a batch at a time, each from where the last one stopped.  They share the   *)
(* resource "acquisition-search", so one is at work at a time.                *)
(* Translated from apps/server/src/acquisition/managed-search.ts,             *)
(* upgrade-search.ts and comparer.ts, quality-settings.ts and the jobs in     *)
(* kernel.ts.  What becomes of a grab on its way is DownloadQueue.tla, here a *)
(* row that is imported, refused or fails.  Titles are numbered in the order  *)
(* of their keys, and a file is walked in the order of its title.             *)
EXTENDS Naturals, Sequences, FiniteSets
Seqs == INSTANCE SequencesExt

CONSTANTS TitleCount,
          QualityCount,      \* qualities by resolution, 1 the lowest
          BatchSize,         \* 20 in the code
          Profiles,          \* [order, cutoff, upgrades]: the qualities, best first
          MaxEdits,          \* bound on what operators and the disk change
          MaxMisses,         \* bound on lost downloads and on stops of the server
          NoCopy, NoGrab

Wantable  == 1 .. TitleCount
Qualities == 1 .. QualityCount
Unknown   == 0
ASSUME BatchHolds == TitleCount \in Nat /\ BatchSize \in Nat \ {0}
ASSUME ProfilesRank == \A p \in Profiles : p.order \in Seq(Qualities)

VARIABLES wanted,      \* the titles the automation plugins answer as wanted
          installed,   \* [Wantable -> the quality in the catalog, or NoCopy]
          grabbed,     \* [Wantable -> NoGrab or its active row: quality, placed]
          cursor,      \* the last title of the last batch, per search; 0 is none
          search,      \* the search under way
          profile,     \* the profile of the titles
          edits, misses

searchVars == <<wanted, installed, grabbed, cursor, search, profile, edits, misses>>
outside == <<profile, edits, misses>>

Resting == [job |-> "none"]
Active  == {t \in Wantable : grabbed[t] # NoGrab}
Copies  == {t \in Wantable : installed[t] # NoCopy}
SearchAt(place) == search # Resting /\ search.at = place
Current == Head(search.left)

WantedTypeOK ==
    /\ wanted \subseteq Wantable /\ profile \in Profiles
    /\ installed \in [Wantable -> Qualities \cup {Unknown, NoCopy}]
    /\ \A t \in Active : grabbed[t] \in [quality : Qualities, placed : BOOLEAN]
    /\ cursor \in [wanted : 0 .. TitleCount, upgrade : 0 .. TitleCount]
    /\ search = Resting \/
         /\ search.job \in {"wanted", "upgrade"} /\ search.at \in {"next", "offers"}
         /\ search.left \in Seq(Wantable) /\ Len(search.left) <= BatchSize
         /\ search.active \subseteq Wantable
         /\ SearchAt("offers") => search.read.profile \in Profiles

WantedInit ==
    /\ wanted \in {{}, Wantable} /\ profile \in Profiles
    /\ installed = [t \in Wantable |-> NoCopy] /\ grabbed = [t \in Wantable |-> NoGrab]
    /\ cursor = [wanted |-> 0, upgrade |-> 0] /\ search = Resting
    /\ edits = 0 /\ misses = 0

------------------------------------------------------------------------------
(* Which release is taken *)

Rank(p, q) == IF \E i \in DOMAIN p.order : p.order[i] = q
              THEN CHOOSE i \in DOMAIN p.order : p.order[i] = q ELSE 0

\* A mutant of IsUpgrade: the order of the profile decides alone.
IsUpgradeByOrder(p, had, q) ==
    /\ p.upgrades /\ Rank(p, q) > 0 /\ had # Unknown
    /\ Rank(p, had) > 0 => Rank(p, had) > Rank(p, p.cutoff) /\ Rank(p, q) < Rank(p, had)

\* qualityUpgradeReason() has no objection.
IsUpgrade(p, had, q) ==
    /\ p.upgrades /\ Rank(p, q) > 0 /\ had # Unknown
    /\ Rank(p, had) > 0 => Rank(p, had) > Rank(p, p.cutoff) /\ Rank(p, q) < Rank(p, had)
    /\ q > had

\* compareReleases(): of the offers that pass size, seeders, language and block
\* list, those of an allowed quality that improve what is there, best first.
Eligible(p, had, offers) ==
    {q \in offers : Rank(p, q) > 0 /\ (had # NoCopy => IsUpgrade(p, had, q))}
Best(p, qs) == CHOOSE q \in qs : \A r \in qs : Rank(p, q) <= Rank(p, r)

------------------------------------------------------------------------------
(* The walk *)

\* A mutant of Onward: what lies behind the cursor is not taken up again.
OnwardOnly(all, from) == {t \in all : t > from}

\* The titles after the cursor, or from the first again if there are none.
Onward(all, from) ==
    LET after == {t \in all : t > from} IN IF after = {} THEN all ELSE after
\* The titles as a list, sorted.
InOrder(titles) ==
    CHOOSE s \in [1 .. Cardinality(titles) -> titles] : \A i, j \in DOMAIN s : i < j => s[i] < s[j]
Batch(all, from) ==
    LET sorted == InOrder(Onward(all, from))
    IN SubSeq(sorted, 1, Seqs!Min({BatchSize, Len(sorted)}))
Walk(job, batch) ==
    [job |-> job, at |-> "next", left |-> batch, last |-> Seqs!Last(batch), read |-> NoCopy,
     active |-> Active \cap Seqs!ToSet(batch)]

WantedStarts ==
    /\ search = Resting /\ Onward(wanted, cursor.wanted) # {}
    /\ search' = Walk("wanted", Batch(wanted, cursor.wanted))
    /\ UNCHANGED <<wanted, installed, grabbed, cursor, outside>>
UpgradeStarts ==
    /\ search = Resting /\ Onward(Copies, cursor.upgrade) # {}
    /\ search' = Walk("upgrade", Batch(Copies, cursor.upgrade))
    /\ UNCHANGED <<wanted, installed, grabbed, cursor, outside>>

\* The title is done with; the upgrade search saves its cursor at once.
PassesOn ==
    /\ search' = [search EXCEPT !.at = "next", !.left = Tail(@), !.read = NoCopy]
    /\ cursor' = IF search.job = "upgrade" THEN [cursor EXCEPT !.upgrade = Current] ELSE cursor

\* A title that had a row when the search began is left alone, and so is a file
\* that is gone, in another library, or no longer monitored.
Skips ==
    /\ SearchAt("next") /\ search.left # <<>>
    /\ Current \in search.active \/ search.job = "upgrade"
    /\ PassesOn
    /\ UNCHANGED <<wanted, installed, grabbed, outside>>

\* Profile and installed file are read, then the indexers are asked.
Looks ==
    /\ SearchAt("next") /\ search.left # <<>> /\ Current \notin search.active
    /\ search' = [search EXCEPT !.at = "offers",
                                !.read = [had |-> installed[Current], profile |-> profile]]
    /\ UNCHANGED <<wanted, installed, grabbed, cursor, outside>>

\* The title is gone, the indexers or the client do not answer, the release is
\* not out yet, the tracker or the tunnel refuses.
SearchFails ==
    /\ SearchAt("offers") /\ PassesOn
    /\ UNCHANGED <<wanted, installed, grabbed, outside>>

\* The best release is dispatched; a row that was made meanwhile keeps its
\* place and the new transfer is taken back.
Decides ==
    /\ SearchAt("offers") /\ PassesOn
    /\ \E offers \in SUBSET Qualities :
          LET good == Eligible(search.read.profile, search.read.had, offers)
          IN grabbed' = IF good = {} \/ Current \in Active THEN grabbed
                        ELSE [grabbed EXCEPT ![Current] =
                                [quality |-> Best(search.read.profile, good), placed |-> FALSE]]
    /\ UNCHANGED <<wanted, installed, outside>>

SearchEnds ==
    /\ SearchAt("next") /\ search.left = <<>>
    /\ cursor' = IF search.job = "wanted" THEN [cursor EXCEPT !.wanted = search.last]
                 ELSE cursor
    /\ search' = Resting
    /\ UNCHANGED <<wanted, installed, grabbed, outside>>

------------------------------------------------------------------------------
(* What goes on meanwhile *)

\* The importer refuses what is not better than the file it knows.
Imports(t) ==
    /\ grabbed[t] # NoGrab /\ ~grabbed[t].placed
    /\ installed[t] \in Qualities => grabbed[t].quality > installed[t]
    /\ installed' = [installed EXCEPT ![t] = grabbed[t].quality]
    /\ grabbed' = [grabbed EXCEPT ![t].placed = TRUE]
    /\ UNCHANGED <<wanted, cursor, search, outside>>
\* The title is marked as acquired and the row handed off.
Settles(t) ==
    /\ grabbed[t] # NoGrab /\ grabbed[t].placed
    /\ wanted' = wanted \ {t} /\ grabbed' = [grabbed EXCEPT ![t] = NoGrab]
    /\ UNCHANGED <<installed, cursor, search, outside>>
\* The download fails, or an operator takes it out of the queue.
GrabLost(t) ==
    /\ grabbed[t] # NoGrab /\ ~grabbed[t].placed /\ misses < MaxMisses
    /\ grabbed' = [grabbed EXCEPT ![t] = NoGrab] /\ misses' = misses + 1
    /\ UNCHANGED <<wanted, installed, cursor, search, profile, edits>>

\* Operators monitor a title or no longer do, edit the profile, and grab by
\* hand whatever they like; files are found by a rescan, or vanish.
Edited == edits < MaxEdits /\ edits' = edits + 1
TitleEdited(t) ==
    /\ Edited /\ wanted' = IF t \in wanted THEN wanted \ {t} ELSE wanted \cup {t}
    /\ UNCHANGED <<installed, grabbed, cursor, search, profile, misses>>
ProfileEdited ==
    /\ Edited /\ profile' \in Profiles \ {profile}
    /\ UNCHANGED <<wanted, installed, grabbed, cursor, search, misses>>
GrabbedByHand(t) ==
    /\ Edited /\ grabbed[t] = NoGrab
    /\ \E q \in Qualities : grabbed' = [grabbed EXCEPT ![t] = [quality |-> q, placed |-> FALSE]]
    /\ UNCHANGED <<wanted, installed, cursor, search, profile, misses>>
FileChanges(t) ==
    /\ Edited
    /\ \E q \in (Qualities \cup {Unknown, NoCopy}) \ {installed[t]} :
          installed' = [installed EXCEPT ![t] = q]
    /\ UNCHANGED <<wanted, grabbed, cursor, search, profile, misses>>

\* The server stops, and with it the search, before its cursor is saved.
SearchStops ==
    /\ search # Resting /\ misses < MaxMisses
    /\ search' = Resting /\ misses' = misses + 1
    /\ UNCHANGED <<wanted, installed, grabbed, cursor, profile, edits>>

SearchStep == Skips \/ Looks \/ SearchFails \/ Decides \/ SearchEnds
WantedNext ==
    \/ WantedStarts \/ UpgradeStarts \/ SearchStep \/ ProfileEdited \/ SearchStops
    \/ \E t \in Wantable :
          \/ Imports(t) \/ Settles(t) \/ GrabLost(t)
          \/ TitleEdited(t) \/ GrabbedByHand(t) \/ FileChanges(t)

WantedSpec == WantedInit /\ [][WantedNext]_searchVars

------------------------------------------------------------------------------
(* Properties *)

\* Hazard: a cursor that moves over a list which grows and shrinks, titles that
\* are skipped, a stop in the middle.  A title that stays wanted and out of the
\* queue is searched for again and again, however many there are before it
\* (managed-search.ts:253).
EveryTitleGetsItsTurn ==
    \A t \in Wantable :
        []<>(t \notin wanted \ Active \/ (SearchAt("offers") /\ Current = t))

\* Hazard: a profile may rank its qualities in any order and change at any time,
\* and the file is read before the indexers answer.  An automatic grab for an
\* installed file is of a known, lower resolution than the release, unless the
\* file is another one by then (quality-settings.ts:76).
ClimbsNow ==
    \A t \in Wantable :
        /\ SearchAt("offers") /\ Current = t /\ search.read.had = installed[t] /\ t \in Copies
        /\ grabbed'[t] # grabbed[t] /\ search' # search
        => installed[t] # Unknown /\ grabbed'[t].quality > installed[t]
Climbs == [][ClimbsNow]_searchVars
==============================================================================
