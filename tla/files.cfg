SPECIFICATION Spec
CONSTANTS
    Caller = {c1, c2}
    Key <- MCKey
    Value = {"long", "short"}
    Length <- MCLength
    Suffix = {"x"}
    Ops = {"set", "del", "get", "copy", "list", "wipe"}
    Faults = {"write", "crash", "read"}
    MaxOps = 3
SYMMETRY Symmetry
INVARIANTS WholeFiles NoLitter
PROPERTIES SetStores ListComplete
CHECK_DEADLOCK FALSE
