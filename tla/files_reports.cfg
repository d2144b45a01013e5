SPECIFICATION Spec
CONSTANTS
    Caller = {c1}
    Key <- MCKey
    Value = {"long", "short"}
    Length <- MCLength
    Suffix = {"x"}
    Ops = {"set"}
    Faults = {"write"}
    MaxOps = 2
PROPERTIES SetReports
CHECK_DEADLOCK FALSE
