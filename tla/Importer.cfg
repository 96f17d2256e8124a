\* Two packages of three and two links in batches of two, one request per window,
\* two runs that may be interrupted, jobs that end meanwhile.
SPECIFICATION FairSpec
CONSTANTS
    u1 = u1
    u2 = u2
    u3 = u3
    u4 = u4
    Urls = {u1, u2, u3, u4}
    NoUrl = NoUrl
    Links <- MixedLinks
    PackageIds = {1, 2}
    Supported = {u1, u2}
    BatchSize = 2
    RetryWait = 3
    Keys = {k1}
    Key = k1
    Limit = 1
    Window = 2
    MaxTime = 30
    MaxRuns = 2
    MaxLag = 1
INVARIANTS TypeOK RateBound DoneIsComplete ResendMakesNoRow
PROPERTIES RefusedForCause RunsEnd
CHECK_DEADLOCK FALSE
