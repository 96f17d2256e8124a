\* Two jobs, two slots, one stop.
SPECIFICATION FairSpec
CONSTANTS
    Jobs = {j1, j2}
    MaxConcurrent = 2
    MaxStops = 1
    MaxRequeues = 1
 
PROPERTIES VerdictIsEarned StopReturns WorkResumes
CHECK_DEADLOCK FALSE
