CONSTANTS
    h1 = h1  h2 = h2
    o1 = o1  o2 = o2  o3 = o3
    n1 = n1  n2 = n2
    None = None
    Handles <- MCOneHandle
    Observers <- MCObservers
    Callers <- MCObservers
    Namespaces <- MCNamespaces
    Target <- MCTarget
SPECIFICATION RSpec
PROPERTY NotifyCompletes
PROPERTY ControllerTerminates
