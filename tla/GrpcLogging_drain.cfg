\* Waiting for proxy_done.
CONSTANTS
    FlushSize = 2
    MaxEntries = 3
SPECIFICATION FairSpec
PROPERTIES DrainCompletes
CHECK_DEADLOCK FALSE
