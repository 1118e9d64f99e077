\* What is left when the plugin is destroyed.
CONSTANTS
    FlushSize = 2
    MaxEntries = 3
SPECIFICATION Spec
INVARIANTS SafeToDestroy
CHECK_DEADLOCK FALSE
