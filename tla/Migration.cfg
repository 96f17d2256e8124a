\* The old layouts of two levels, three crashes.
SPECIFICATION Spec
CONSTANTS
    Jobs = {1, 2, 3, 4, 5}
    Dirs <- MCDirs
    Recorded <- MCRecorded
    OnDisk <- MCOnDisk
    MaxCrashes = 3
INVARIANTS NoFileLost MigratedOnce PathsLead
CHECK_DEADLOCK FALSE
