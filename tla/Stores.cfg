SPECIFICATION StoresSpec
CONSTANTS
    R1 = R1
    R2 = R2
    Releases = {R1, R2}
    Segments = 2
    MaxNzbs = 2
    MaxEngineIds = 2
    MaxHalts = 1
    MaxControls = 2
    Nothing = Nothing
    C1 = C1
    C2 = C2
    Natives = {C1, C2}
    MaxProfiles = 3
    MaxChanges = 2
    MaxReboots = 1
    Versions = {1, 2}
    Paths = {1, 2}
    PathOf <- Named2
    Damages = {"short", "flipped"}
    MaxDeliveries = 2
    MaxPreviews = 1
    MaxMishaps = 1
    None = None
    MaxWrites = 2
    MaxRetention = 1
    MaxBackups = 1
    MaxCrashes = 2
    NoFile = NoFile
    T1 = T1
    T2 = T2
    Tabs = {T1, T2}
    PlainSteps = {}
    Usenet = Usenet
    Modes = {Usenet}
    File1 = File1
    Titles = {File1}
    Query1 = Query1
    Queries = {Query1}
    Attempts = 2
    MaxRequests = 2
    Unset = Unset
    A = A
    B = B
    Capabilities = {A, B}
    PluginCount = 3
    Mcp = 3
    MaxPluginFaults = 1
    MaxMcpRequests = 2
    MaxServerStops = 1
    NoConfig = NoConfig
    Daily = Daily
    Operator = Operator
    Refreshers = {Daily, Operator}
    Episodes = {1, 2}
    FirstName = FirstName
    OtherName = OtherName
    Names = {FirstName, OtherName}
    Monitored = Monitored
    TitleModes = {Monitored, Unmonitored}
    Unmonitored = Unmonitored
    MaxTitleEdits = 1
    MaxRefreshes = 2
    MaxLostWrites = 1
    Gone = Gone
    AtEase = AtEase
    NoReview = NoReview
INVARIANTS
    StoresTypeOK
    
    Isolated
    SetupKept
    DownForAReason
    McpRunsAsStored
PROPERTIES
    
    
    
    RestoreIsWhole
    RefreshKeeps
CHECK_DEADLOCK FALSE
