\* Three jobs of two URLs on two hosts with one slot each; requeues meet the unique index.
SPECIFICATION Spec
CONSTANTS
    u1 = u1
    u2 = u2
    u3 = u3
    h1 = h1
    h2 = h2
    MaxJobs = 3
    Urls = {u1, u2}
    Hosts = {h1, h2}
    HostOf <- TwoHosts
    DispatchLimit = 50
    Clients = {c1}
    Ops = {"submit", "retry", "pause", "resume"}
    MaxConcurrent = 2
    MaxPerHost = 1
    AutoRetry = FALSE
    RaisingPhases = {}
    MayCrash = TRUE
INVARIANT SlotsAccounted
PROPERTY PoolSpec
