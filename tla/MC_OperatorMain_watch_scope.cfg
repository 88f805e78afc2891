CONSTANTS
    Names <- MCNames
    AllSpaces <- MCAllSpaces
SPECIFICATION MSpec
INVARIANT WatchScope
\* main ends when it exits or once mgr.Start blocks.
CHECK_DEADLOCK FALSE
