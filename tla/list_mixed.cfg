SPECIFICATION Spec
CONSTANTS
    Pushers = {p1}
    Poppers = {c1, c2}
    MaxSize = 2
    Ordered = FALSE
    MaxItems = 4
    PushOps = {"append", "first", "last", "before", "after"}
    PopOps = {"pop", "tryPop", "remove", "clear"}
    SettledFree = FALSE
    None = None
INVARIANTS ExactlyOnce CellsTrack
