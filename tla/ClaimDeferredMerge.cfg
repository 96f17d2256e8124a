\* A merge of unfinished jobs with equal file names.
SPECIFICATION Spec
CONSTANTS
    c1 = c1
    c2 = c2
    NoDir = NoDir
    Worlds <- Deferred
INVARIANT NoFileLost
CHECK_DEADLOCK FALSE
