------------------------------ MODULE MCServices ------------------------------
(* The services at the edge of the core: indexer settings, the connections to  *)
(* a news server, the event feed, the pipes to a plugin, and the accounts.     *)
(* They share no state, so a behaviour has one of them at work.                *)
EXTENDS IndexerSettings, NntpPool, EventFeed, PluginChannel, Accounts

CONSTANTS X1, X2, N1, N2, K1, E1, E2, S1, S2, C1, C2, A1, A2, P1, P2, U1, U2, U3,
          R1, R2

VARIABLE part

\* Either three edits, or two while searches run and the server restarts.
EditsOrSearches ==
    {[edits |-> 3, searches |-> 0, restarts |-> 0], [edits |-> 2, searches |-> 2, restarts |-> 1]}
\* Either two sockets, or one walk over the pages while the clock moves.
SocketsOrPages ==
    {[sockets |-> 2, ticks |-> 0, steps |-> 0, faults |-> 1, walks |-> 0],
     [sockets |-> 0, ticks |-> 2, steps |-> 1, faults |-> 0, walks |-> 1]}
\* Either three processes of which two may live at a time, or two that also ask.
CallsOrAsks ==
    {[procs |-> 3, calls |-> 2, asks |-> 0], [procs |-> 2, calls |-> 1, asks |-> 1]}

servicesVars == <<part, indexerVars, poolVars, feedVars, channelVars, accountVars>>

ServicesInit ==
    /\ part \in {"indexers", "news", "feed", "channel", "accounts"}
    /\ IndexerInit /\ PoolInit /\ FeedInit /\ ChannelInit /\ AccountInit
    /\ part # "indexers" => left.edits = 3
    /\ part # "feed" => feedLeft.walks = 0
    /\ part # "channel" => room.asks = 0

ServicesNext ==
    /\ UNCHANGED part
    /\ \/ part = "indexers" /\ IndexerNext
            /\ UNCHANGED <<poolVars, feedVars, channelVars, accountVars>>
       \/ part = "news" /\ PoolNext
            /\ UNCHANGED <<indexerVars, feedVars, channelVars, accountVars>>
       \/ part = "feed" /\ FeedNext
            /\ UNCHANGED <<indexerVars, poolVars, channelVars, accountVars>>
       \/ part = "channel" /\ ChannelNext
            /\ UNCHANGED <<indexerVars, poolVars, feedVars, accountVars>>
       \/ part = "accounts" /\ AccountNext
            /\ UNCHANGED <<indexerVars, poolVars, feedVars, channelVars>>

ServicesSpec == ServicesInit /\ [][ServicesNext]_servicesVars
=============================================================================
