----------------------------- MODULE ManagedTitles -----------------------------
(* One managed title, a film or a series: its record in the automation plugin *)
(* and in that plugin's document, and the metadata refresh, which reads the   *)
(* record, waits for the provider and writes back what it made of both, while *)
(* operators edit the title and imports mark what was acquired.               *)
(* Translated from apps/server/src/managed-metadata-refresh.ts, the edit and  *)
(* refresh routes of ops-routes.ts, plugins/series and plugins/movies.  The   *)
(* title stands for the fields an operator may set by hand; a film has one    *)
(* episode.  Year, overview, artwork, profile and destination go the same way *)
(* as the title or the monitor mode.                                          *)
EXTENDS Naturals, FiniteSets

CONSTANTS Refreshers,     \* requests that refresh, the daily job among them
          Operator,       \* the one of them that may answer a review
          Episodes, Names, TitleModes,
          MaxTitleEdits, MaxRefreshes, MaxLostWrites,   \* bounds on the history
          Gone, AtEase, NoReview
ASSUME OperatorRefreshes == Operator \in Refreshers

VARIABLES kind,       \* "movie" or "series"
          title,      \* the plugin's record, or Gone
          document,   \* what its store has of it
          refresh,    \* [Refreshers -> AtEase or [at, read]]
          edit,       \* the edit under way, with the flags it read, or AtEase
          review,     \* the episodes before and after an operator was last shown
          titleEdits, refreshes, lostWrites

titleVars == <<kind, title, document, refresh, edit, review, titleEdits, refreshes,
               lostWrites>>
inFlight == <<kind, refresh, edit, review, refreshes>>

TitleRecords == [name : Names, manual : BOOLEAN, mode : TitleModes,
                 episodes : SUBSET Episodes, acquired : SUBSET Episodes]
Managed == title # Gone
Asking(r) == refresh[r] # AtEase /\ refresh[r].at = "asking"
Flagging(r) == refresh[r] # AtEase /\ refresh[r].at = "flagging"

TitleTypeOK ==
    /\ kind \in {"movie", "series"}
    /\ {title, document} \subseteq TitleRecords \cup {Gone}
    /\ Managed => title.acquired \subseteq title.episodes
    /\ \A r \in Refreshers :
          refresh[r] = AtEase \/ refresh[r] \in [at : {"asking", "flagging"}, read : TitleRecords]
    /\ edit \in {AtEase} \cup [manual : BOOLEAN]
    /\ review \in {NoReview} \cup [previous : SUBSET Episodes, proposed : SUBSET Episodes]

\* The plugin answers every call from memory; persist() swallows an error.
Stored == \/ document' = title' /\ UNCHANGED lostWrites
          \/ /\ lostWrites < MaxLostWrites /\ lostWrites' = lostWrites + 1
             /\ UNCHANGED document
RequestDone(r) == refresh' = [refresh EXCEPT ![r] = AtEase]

------------------------------------------------------------------------------
(* The plugin's operations, on the record *)

Added(name, mode, episodes) ==
    [name |-> name, manual |-> FALSE, mode |-> mode, episodes |-> episodes, acquired |-> {}]
\* A mutant of AddedAgain: marks of episodes that went stay.
AddedOver(name, mode, episodes) ==
    IF kind = "movie" THEN [title EXCEPT !.mode = mode]
    ELSE [title EXCEPT !.name = name, !.mode = mode, !.episodes = episodes]
\* add-series for a series that is there, and add-movie for a film.
AddedAgain(name, mode, episodes) ==
    IF kind = "movie" THEN [title EXCEPT !.mode = mode]
    ELSE [title EXCEPT !.name = name, !.mode = mode, !.episodes = episodes,
                       !.acquired = @ \cap episodes]

TitleInit ==
    /\ kind \in {"movie", "series"}
    /\ \E name \in Names, mode \in TitleModes, episodes \in SUBSET Episodes \ {{}} :
          /\ kind = "movie" => Cardinality(episodes) = 1
          /\ \E byHand \in BOOLEAN :
                title = [Added(name, mode, episodes) EXCEPT !.manual = byHand]
    /\ document = title /\ refresh = [r \in Refreshers |-> AtEase]
    /\ edit = AtEase /\ review = NoReview
    /\ titleEdits = 0 /\ refreshes = 0 /\ lostWrites = 0

------------------------------------------------------------------------------
(* The refresh *)

RefreshStarts(r) ==
    /\ refresh[r] = AtEase /\ Managed /\ refreshes < MaxRefreshes
    /\ refresh' = [refresh EXCEPT ![r] = [at |-> "asking", read |-> title]]
    /\ refreshes' = refreshes + 1
    /\ UNCHANGED <<kind, title, document, edit, review, titleEdits, lostWrites>>

\* A mutant of Retained: what the provider left out and nobody acquired.
RetainedUnacquired(read, offered) == read.episodes \ (offered \cup read.acquired)
\* Acquired episodes that the provider no longer returns stay.
Retained(read, offered) == (read.episodes \cap read.acquired) \ offered
RefreshedName(read, name) == IF read.manual THEN read.name ELSE name

\* Nothing an administrator must see, or just what this one was shown.
Reviewed(r, offered) ==
    \/ refresh[r].read.acquired \subseteq offered
    \/ r = Operator /\ review = [previous |-> refresh[r].read.episodes, proposed |-> offered]

ReviewAsked(r) ==
    /\ Asking(r) /\ kind = "series" /\ RequestDone(r)
    /\ \E offered \in SUBSET Episodes \ {{}} :
          /\ ~Reviewed(r, offered)
          /\ review' = IF r # Operator THEN review
                       ELSE [previous |-> refresh[r].read.episodes, proposed |-> offered]
    /\ UNCHANGED <<kind, title, document, edit, titleEdits, refreshes, lostWrites>>

\* add-series with what was read of the record.  A series that was deleted
\* meanwhile is added anew, under another id if it had been renamed.
SeriesRefreshed(r) ==
    /\ Asking(r) /\ kind = "series"
    /\ \E name \in Names, offered \in SUBSET Episodes \ {{}} :
          LET read     == refresh[r].read
              episodes == offered \cup Retained(read, offered)
              newName  == RefreshedName(read, name)
          IN /\ Reviewed(r, offered)
             /\ IF Managed THEN title' = AddedAgain(newName, read.mode, episodes)
                ELSE title' \in {Gone, Added(newName, read.mode, episodes)}
    /\ refresh' = [refresh EXCEPT ![r].at = "flagging"] /\ Stored
    /\ UNCHANGED <<kind, edit, review, titleEdits, refreshes>>

\* The second call, update-series, writes the fields set by hand.
FlagsRefreshed(r) ==
    /\ Flagging(r) /\ Managed /\ RequestDone(r)
    /\ title' = [title EXCEPT !.manual = refresh[r].read.manual] /\ Stored
    /\ UNCHANGED <<kind, edit, review, titleEdits, refreshes>>

MovieRefreshed(r) ==
    /\ Asking(r) /\ kind = "movie" /\ Managed /\ RequestDone(r)
    /\ \E name \in Names :
          title' = [title EXCEPT !.name = RefreshedName(refresh[r].read, name),
                                 !.manual = refresh[r].read.manual]
    /\ Stored
    /\ UNCHANGED <<kind, edit, review, titleEdits, refreshes>>

\* The provider is down, knows the title no more or under another identity, or
\* the plugin does not answer or lost the title.
RefreshFails(r) ==
    /\ refresh[r] # AtEase /\ RequestDone(r)
    /\ UNCHANGED <<kind, title, document, edit, review, titleEdits, refreshes, lostWrites>>

------------------------------------------------------------------------------
(* Operators and imports *)

TitleTouched == titleEdits < MaxTitleEdits /\ titleEdits' = titleEdits + 1

\* The edit route reads which fields are set by hand, then updates.
EditReads ==
    /\ edit = AtEase /\ Managed /\ TitleTouched /\ edit' = [manual |-> title.manual]
    /\ UNCHANGED <<kind, title, document, refresh, review, refreshes, lostWrites>>
EditWrites ==
    /\ edit # AtEase /\ Managed /\ edit' = AtEase
    /\ \/ \E name \in Names : title' = [title EXCEPT !.name = name, !.manual = TRUE]
       \/ \E mode \in TitleModes :
             title' = [title EXCEPT !.mode = mode, !.manual = edit.manual]
    /\ Stored
    /\ UNCHANGED <<kind, refresh, review, titleEdits, refreshes>>
EditFails ==
    /\ edit # AtEase /\ edit' = AtEase
    /\ UNCHANGED <<kind, title, document, refresh, review, titleEdits, refreshes, lostWrites>>

TitleDeleted == Managed /\ TitleTouched /\ title' = Gone /\ Stored /\ UNCHANGED inFlight
TitleAdded ==
    /\ TitleTouched
    /\ \E name \in Names, mode \in TitleModes, episodes \in SUBSET Episodes \ {{}} :
          /\ kind = "movie" => Cardinality(episodes) = 1
          /\ title' = IF Managed THEN AddedAgain(name, mode, episodes)
                      ELSE Added(name, mode, episodes)
    /\ Stored /\ UNCHANGED inFlight
MarkAcquired ==
    /\ Managed
    /\ \E e \in title.episodes \ title.acquired :
          title' = [title EXCEPT !.acquired = @ \cup {e}]
    /\ Stored /\ UNCHANGED <<inFlight, titleEdits>>

\* The plugin starts again from its document, or the whole server does.
TitleRestored ==
    /\ title' = document
    /\ \/ UNCHANGED <<refresh, edit>>
       \/ refresh' = [r \in Refreshers |-> AtEase] /\ edit' = AtEase
    /\ UNCHANGED <<kind, document, review, titleEdits, refreshes, lostWrites>>

TitleNext ==
    \/ \E r \in Refreshers :
          \/ RefreshStarts(r) \/ ReviewAsked(r) \/ SeriesRefreshed(r) \/ FlagsRefreshed(r)
          \/ MovieRefreshed(r) \/ RefreshFails(r)
    \/ EditReads \/ EditWrites \/ EditFails \/ TitleDeleted \/ TitleAdded
    \/ MarkAcquired \/ TitleRestored

TitleSpec == TitleInit /\ [][TitleNext]_titleVars

------------------------------------------------------------------------------
(* Properties *)

\* Hazard: the provider answers seconds after the record was read, and both of
\* the refresh's writes are made from that copy.  What the refresh read and what
\* is still so afterwards it leaves: acquired episodes, a title set by hand and
\* the mark that it is, the monitor mode (managed-metadata-refresh.ts:61).
KeptBy(r) ==
    LET read == refresh[r].read
    IN /\ read.acquired \cap title.acquired \subseteq title'.acquired
       /\ read.manual /\ title.manual =>
             title'.manual /\ (read.name = title.name => title'.name = title.name)
       /\ read.mode = title.mode => title'.mode = title.mode
RefreshWrites(r)  == SeriesRefreshed(r) \/ FlagsRefreshed(r) \/ MovieRefreshed(r)
RefreshKeepsNow ==
    \A r \in Refreshers : Managed /\ title' # Gone /\ RefreshWrites(r) => KeptBy(r)
RefreshKeeps == [][RefreshKeepsNow]_titleVars
==============================================================================
