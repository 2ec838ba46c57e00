CONSTANTS
    Thread = {1, 2, 3, 4}
    Main = 0
    MaxThreads = 2
    NumWorkers = 2
    NumSlots = 3
    TicksPerSecond = 7
    Load <- MCLoad
SPECIFICATION FairSpec
INVARIANTS
    OwnNumber
    ReportSound
    WindowAccurate
PROPERTIES
    CrashEnds
CHECK_DEADLOCK FALSE
