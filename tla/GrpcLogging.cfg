\* Requests of two entries, five entries.
CONSTANTS
    FlushSize = 2
    MaxEntries = 5
SPECIFICATION FairSpec
INVARIANTS TypeOK EntriesInOnePlace InFlightExact SentInOrder DestroyedWhenQuiet
PROPERTIES LoggedIsSent
CHECK_DEADLOCK FALSE
