CONSTANTS
    Folder = {d1, d2}
    Name <- MCPrefixName
    Limit = 3
    Settled = TRUE
    Ops = {"mkdir", "rmdir", "move"}
    MaxOps = 4
    Quit = FALSE
SPECIFICATION Spec
INVARIANTS WatchesRight
CHECK_DEADLOCK FALSE
