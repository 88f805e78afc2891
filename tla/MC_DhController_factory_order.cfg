CONSTANTS
    h1 = h1  h2 = h2  c1 = c1  c2 = c2  o1 = o1
    None = None
    Handles <- MCHandles
    Callers <- MCCallers
    Observers <- MCObservers
SPECIFICATION Spec
INVARIANT FactoriesStartAfterQueue
CHECK_DEADLOCK FALSE
