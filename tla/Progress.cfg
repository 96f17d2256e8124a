\* Up to two files, in a first run or after one that left its counts; the count probe
\* with right, wrong and missing estimates, or the title probe and a rename.
SPECIFICATION Spec
CONSTANTS
    MinFiles = 1
    MaxFiles = 2
    Counts = {0, 2, 3}
    Earlier = {2}
    Setups = {{"count"}, {"title", "rename"}}
INVARIANTS FinalCountsStand DirectoryIsKnown
PROPERTIES CountsRise NoProgressAfterDone ChosenTitleStays
CHECK_DEADLOCK FALSE
