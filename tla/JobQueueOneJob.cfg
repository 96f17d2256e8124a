\* One job, two requests in progress at a time, every operation and loop.
SPECIFICATION Spec
CONSTANTS
    u1 = u1
    u2 = u2
    u3 = u3
    h1 = h1
    h2 = h2
    MaxJobs = 1
    Urls = {u1}
    Hosts = {h1}
    HostOf <- OneUrl
    DispatchLimit = 50
    Clients = {c1, c2}
    Ops = {"submit", "pause", "resume", "retry", "pin", "unpin", "cancel", "delete", "clear"}
    MaxConcurrent = 1
    MaxPerHost = 1
    AutoRetry = TRUE
    RaisingPhases = {"active", "downloading", "killed", "landing", "landed"}
    MayCrash = TRUE
INVARIANTS TypeOK NoStrandedActive DoneHasNoStaging
PROPERTIES StopsStick PartialsStay
