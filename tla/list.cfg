SPECIFICATION FairSpec
CONSTANTS
    Pushers = {p1, p2, p3}
    Poppers = {c1}
    MaxSize = 1
    Ordered = TRUE
    MaxItems = 2
    PushOps = {"append"}
    PopOps = {"tryPop"}
    SettledFree = TRUE
    None = None
INVARIANTS Capacity NoUseAfterFree WaitersExact Turnstile
PROPERTIES RefinesBuffer PushReturns ItemsDelivered FreeReturns
