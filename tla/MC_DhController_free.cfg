CONSTANTS
    h1 = h1  h2 = h2  c1 = c1  c2 = c2  o1 = o1
    None = None
    Handles <- MCHandles
    Callers <- MCCallers
    Observers <- MCObservers
SPECIFICATION Spec
INVARIANT TypeOK
INVARIANT NoLeakedInformer
INVARIANT RequestsAuthorized
\* A channel panic (double Stop, send on a closed channel) ends the process.
CHECK_DEADLOCK FALSE
