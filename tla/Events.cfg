\* A queue of one event, two changes of each kind, one lost connection.
SPECIFICATION FairSpec
CONSTANTS
    QueueSize = 1
    MaxChanges = 2
    MaxDrops = 1
    MaxAsked = 2
INVARIANT TypeOK
PROPERTY PageConverges
CHECK_DEADLOCK FALSE
