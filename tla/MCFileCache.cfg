SPECIFICATION FairSpec
CONSTANTS
    a = a
    b = b
    c = c
    Thread = {t1, t2}
    File = {a, b, c}
    FileSystem <- Both
    max_size_ = 4
    SizeT = 32
    MaxPins = 4
INVARIANTS
    PinnedStaysCached
    CacheConsistent
PROPERTIES
    PinReturns
CHECK_DEADLOCK FALSE
