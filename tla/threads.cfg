SPECIFICATION FairSpec
CONSTANTS
    Thread = {t1, t2}
    Platforms = {"posix", "windows"}
    Ops = {"inc", "take", "signal", "waitTil", "try"}
    MaxOps = 1
    None = None
INVARIANTS OnlyKillsDangle JoinedValue MuxBalance CounterSound
PROPERTIES WaitReturns
CHECK_DEADLOCK FALSE
