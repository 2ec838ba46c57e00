SPECIFICATION FairSpec
CONSTANTS
    Load <- MCLoad
    SendSpace = 1
CHECK_DEADLOCK FALSE
INVARIANTS
    OneReaderOneWriter
    RefsExact
PROPERTIES
    ReclaimedWhenClosed
    Flushed
    ClientAnswered
