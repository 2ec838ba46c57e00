SPECIFICATION FairSpec
CONSTANTS
    NumWorkers = 2
    Task = {t1, t2, t3, t4}
    NULL = NULL
CHECK_DEADLOCK FALSE
INVARIANTS
    NoIdleWorkerWhileQueued
    StoppedPoolIsQuiet
PROPERTIES
    StopTerminates
    SubmittedIsServed
    ImplementsThreadPool
