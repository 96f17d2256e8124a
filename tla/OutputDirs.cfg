\* Seven worlds of one to three jobs.
SPECIFICATION Spec
CONSTANTS
    c1 = c1
    c2 = c2
    NoDir = NoDir
    Worlds <- AllWorlds
INVARIANTS TypeOK FilesKept RowsPointToFiles RenameHonoured GroupsNamed GroupsConverge
PROPERTY MovesLoseNothing
CHECK_DEADLOCK FALSE
