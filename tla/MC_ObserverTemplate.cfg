CONSTANTS
    MinorOf <- MCMinorOf
    None = None
SPECIFICATION TSpec
INVARIANT TTypeOK
INVARIANT ParametersResolved
INVARIANT ReleaseConsistent
INVARIANT NamespacesEnsured
\* The script ends: every behaviour stops at "done" or "exit".
CHECK_DEADLOCK FALSE
