CONSTANTS
    MinorOf <- MCMinorOf
    None = None
SPECIFICATION TSpec
INVARIANT AccessModeFitsClass
\* The script ends: every behaviour stops at "done" or "exit".
CHECK_DEADLOCK FALSE
