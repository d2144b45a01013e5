SPECIFICATION FairSpec
CONSTANTS
    Callers = {c1}
    Flushers = {c1}
    Flushes = {"FLUSH"}
    Unblockers = {c1}
    Movers = {}
    Setters = {s1, s2}
    Kinds = {"async"}
    Paths = {a}
    FirstPath = a
    MaxCalls = 2
    MaxSets = 1
    QueueSize = 1
    Opens = {TRUE}
    Prompt = TRUE
    None = None
INVARIANTS ClosedAfter
PROPERTIES CallsReturn QuietCloses
