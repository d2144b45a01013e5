SPECIFICATION Spec
CONSTANTS
    Callers = {c1}
    Flushers = {c1}
    Flushes = {"FLUSH"}
    Unblockers = {c1}
    Movers = {}
    Setters = {s1}
    Kinds = {"sync", "async", "none"}
    Paths = {a}
    FirstPath = a
    MaxCalls = 3
    MaxSets = 3
    QueueSize = 2
    Opens = {TRUE}
    Prompt = FALSE
    None = None
INVARIANTS StopFlushes ThreadOrder
CHECK_DEADLOCK FALSE
