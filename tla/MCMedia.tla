-------------------------------- MODULE MCMedia --------------------------------
(* The torrent client, the serving plugin and the automatic searches, all to *)
(* be scheduled fairly.  They share no state, so a behaviour has one of them *)
(* at work and the others as they start: all that their interleaving could   *)
(* add is stuttering.                                                        *)
EXTENDS TorrentClient, ServingSessions, WantedSearch

CONSTANTS MovieItem, MovieHash

VARIABLE part

OneTorrent == [i \in {MovieItem} |-> MovieHash]
\* The usual order, and one an administrator may set that ranks the lower
\* resolution first.
BothOrders == {[order |-> <<2, 1>>, cutoff |-> 2, upgrades |-> TRUE],
               [order |-> <<1, 2>>, cutoff |-> 1, upgrades |-> TRUE]}
mediaVars  == <<part, torrentVars, servingVars, searchVars>>

MediaInit ==
    /\ part \in {"torrent", "serving", "search"}
    /\ TorrentInit /\ ServingInit /\ WantedInit
    /\ part # "serving" => cap = 1
    /\ part # "torrent" => gate
    /\ wanted = IF part = "search" THEN Wantable ELSE {}
    /\ profile.cutoff = 1

TorrentOnly == UNCHANGED <<part, servingVars, searchVars>>
ServingOnly == UNCHANGED <<part, torrentVars, searchVars>>
SearchOnly  == UNCHANGED <<part, torrentVars, servingVars>>
MediaNext ==
    \/ part = "torrent" /\ TorrentNext /\ TorrentOnly
    \/ part = "serving" /\ ServingNext /\ ServingOnly
    \/ part = "search" /\ WantedNext /\ SearchOnly

\* The torrent plugin's poll timer, its start-up and its pending awaits run on
\* while its process lives.  The serving plugin's watchdog timer, the records
\* on their way, its start-up and the SIGKILL of an encoder take effect.
\* A search that has begun goes on; the wanted search is due every 15 minutes
\* and time and again finds the resource free it shares with the upgrade search.
Fairness ==
    /\ WF_mediaVars(part = "torrent" /\ PollLists /\ TorrentOnly)
    /\ WF_mediaVars(part = "torrent" /\ PollAsks /\ TorrentOnly)
    /\ WF_mediaVars(part = "torrent" /\ Mount /\ TorrentOnly)
    /\ WF_mediaVars(part = "torrent" /\ Mounted /\ TorrentOnly)
    /\ \A n \in JobIds :
          WF_mediaVars(part = "torrent" /\ Recover(n) /\ TorrentOnly)
    /\ \A c \in Clients :
          WF_mediaVars(part = "torrent" /\ Proceeds(c) /\ TorrentOnly)
    /\ WF_mediaVars(part = "serving" /\ RecordLands /\ ServingOnly)
    /\ WF_mediaVars(part = "serving" /\ MountServing /\ ServingOnly)
    /\ WF_mediaVars(part = "serving" /\ CleanupOrphans /\ ServingOnly)
    /\ WF_mediaVars(part = "serving" /\ Unmounted /\ ServingOnly)
    /\ \A s \in Sessions :
          /\ WF_mediaVars(part = "serving" /\ Reap(s) /\ ServingOnly)
          /\ WF_mediaVars(part = "serving" /\ UnmountCloses(s) /\ ServingOnly)
          /\ WF_mediaVars(part = "serving" /\ Dies(s) /\ ServingOnly)
          /\ WF_mediaVars(part = "serving" /\ TimePasses(s) /\ ServingOnly)
    /\ WF_mediaVars(part = "search" /\ SearchStep /\ SearchOnly)
    /\ SF_mediaVars(part = "search" /\ WantedStarts /\ SearchOnly)

MediaSpec == MediaInit /\ [][MediaNext]_mediaVars /\ Fairness

\* Every variable of the three parts has its type.
MediaTypeOK == TorrentTypeOK /\ ServingTypeOK /\ WantedTypeOK
=============================================================================
