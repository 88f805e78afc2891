CONSTANTS
    h1 = h1  h2 = h2
    o1 = o1  o2 = o2  o3 = o3
    n1 = n1  n2 = n2
    None = None
    Handles <- MCHandles
    Observers <- MCThreeObservers
    Callers <- MCThreeObservers
    Namespaces <- MCTwoNamespaces
    Target <- MCSplitTarget
INIT RInit
NEXT RNext
PROPERTY RegistryRefines
