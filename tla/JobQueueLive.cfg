\* Two URLs, one global slot, a window of one row; only a signalled engine must end.
SPECIFICATION FairSpec
CONSTANTS
    u1 = u1
    u2 = u2
    u3 = u3
    h1 = h1
    h2 = h2
    MaxJobs = 2
    Urls = {u1, u2}
    Hosts = {h1}
    HostOf <- TwoUrls
    DispatchLimit = 1
    Clients = {c1}
    Ops = {"submit", "pause", "resume", "cancel"}
    MaxConcurrent = 1
    MaxPerHost = 2
    AutoRetry = TRUE
    RaisingPhases = {"active", "downloading", "killed"}
    MayCrash = TRUE
PROPERTIES PoolSpec Settles SlotsComeBack KilledRunsEnd
