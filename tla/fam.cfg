CONSTANTS
    Folder = {d1, d2}
    Name <- MCName
    Limit = 2
    Settled = TRUE
    Ops = {"mkdir", "rmdir", "file", "attrib", "move"}
    MaxOps = 4
    Quit = TRUE
SPECIFICATION Spec
INVARIANTS WatchesRight  MoveOnce
PROPERTIES ComesToRest
CHECK_DEADLOCK FALSE
