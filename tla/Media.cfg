SPECIFICATION MediaSpec
CONSTANTS
    MovieItem = MovieItem
    MovieHash = MovieHash
    TorrentItems = {MovieItem}
    Torrents = {MovieHash}
    TorrentOf <- OneTorrent
    Clients = {1, 2}
    MaxJobs = 2
    MaxStops = 1
    WritersMeet = FALSE
    NoJob = NoJob
    MaxSessions = 2
    Caps = {1, 3}
    MaxTouches = 1
    MaxOnTheWay = 2
    MaxKills = 2
    TitleCount = 2
    QualityCount = 2
    BatchSize = 1
    Profiles <- BothOrders
    MaxEdits = 1
    MaxMisses = 1
    NoCopy = NoCopy
    NoGrab = NoGrab
INVARIANT MediaTypeOK
PROPERTIES
    
    
    
    WithinCap
    NothingKeepsEncoding
    EveryTitleGetsItsTurn
    Climbs
CHECK_DEADLOCK FALSE
