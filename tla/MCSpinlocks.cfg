SPECIFICATION BothSpec
CONSTANTS
    Thread = {t1, t2, t3}
    Lock = {l1, l2}
    Flag = {f1, f2}
    NULL = NULL
INVARIANT
    FirstComeFirstServed
PROPERTIES
    EveryoneEnters
    ImplementsLocks
