\* A job paused while its files are being moved.
SPECIFICATION Spec
CONSTANTS
    u1 = u1
    u2 = u2
    u3 = u3
    h1 = h1
    h2 = h2
    MaxJobs = 1
    Urls = {u1}
    Hosts = {h1}
    HostOf <- OneUrl
    DispatchLimit = 50
    Clients = {c1}
    Ops = {"submit", "pause"}
    MaxConcurrent = 1
    MaxPerHost = 1
    AutoRetry = FALSE
    RaisingPhases = {}
    MayCrash = FALSE
PROPERTY RacedStopWins
