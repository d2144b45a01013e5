SPECIFICATION Spec
CONSTANTS
    Key = {k1, k2, k3, k4}
    k1 = k1
    k2 = k2
    k3 = k3
    k4 = k4
    Val = {v1, v2, v3}
    Thread = {t1}
    Hash <- MCHash
    FirstSize = 1
    MaxLoad = 1
    None = None
SYMMETRY Symmetry
INVARIANTS ValuesOwned
PROPERTIES RefinesDict
CHECK_DEADLOCK FALSE
