SPECIFICATION Spec
CONSTANTS
    t1 = t1
    t2 = t2
    Thread = {t1, t2}
    Early = {t1}
    NumClasses = 8
    Request <- MCRequest
    HeapBound = 120
INVARIANTS
    OneOwner
    TagsIntact
PROPERTY RefinesSequence
CHECK_DEADLOCK FALSE
