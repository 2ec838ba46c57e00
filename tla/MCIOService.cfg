CONSTANTS
    NumWorkers = 2
    Timer <- MCTimer
    Load <- MCLoad
SPECIFICATION FairSpec
INVARIANTS
    OneAcceptor
    OrderlyStop
PROPERTIES
    EventsServed
    StopCompletes
CHECK_DEADLOCK FALSE
