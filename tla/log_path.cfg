SPECIFICATION Spec
CONSTANTS
    Callers = {c1, c2}
    Flushers = {c2}
    Flushes = {"FLUSH"}
    Unblockers = {}
    Movers = {c1}
    Setters = {s1}
    Kinds = {"sync", "async"}
    Paths = {a, b}
    FirstPath = a
    MaxCalls = 3
    MaxSets = 1
    QueueSize = 2
    Opens = {TRUE, FALSE}
    Prompt = TRUE
    None = None
PROPERTIES PathClosed CutOver FlushCovers
