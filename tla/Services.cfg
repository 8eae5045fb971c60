SPECIFICATION ServicesSpec
CONSTANTS
    X1 = X1
    X2 = X2
    N1 = N1
    N2 = N2
    K1 = K1
    E1 = E1
    E2 = E2
    S1 = S1
    S2 = S2
    Indexers = {X1, X2}
    IndexerNames = {N1, N2}
    ApiKeys = {K1}
    SearchLimit = 1
    Editors = {E1, E2}
    Searchers = {S1, S2}
    IndexerRooms <- EditsOrSearches
    Blank = Blank
    NoIndexer = NoIndexer
    C1 = C1
    C2 = C2
    A1 = A1
    A2 = A2
    Callers = {C1, C2}
    Articles = {A1, A2}
    Places = 1
    MaxSockets = 5
    MaxArticleCalls = 3
    MaxNntpFaults = 2
    NoArticle = NoArticle
    NoConn = NoConn
    P1 = P1
    P2 = P2
    Producers = {P1, P2}
    PageSize = 1
    MaxEvents = 3
    MaxSocketsOpened = 2
    FeedScenarios <- SocketsOrPages
    Plugins0 = Plugins0
    MaxProcs = 3
    MaxCalls = 2
    MaxAsks = 1
    MaxKeepFails = 1
    Rooms <- CallsOrAsks
    Starting = Starting
    Nobody = Nobody
    U1 = U1
    U2 = U2
    U3 = U3
    R1 = R1
    R2 = R2
    Users = {U1, U2, U3}
    AccountRequests = {R1, R2}
    MaxAccountRequests = 5
    MaxCuts = 1
    Absent = Absent
INVARIANTS
    
    PoolKept
    
    ChannelKept
    
CHECK_DEADLOCK FALSE
