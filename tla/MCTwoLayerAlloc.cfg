SPECIFICATION Spec
CONSTANTS
    t1 = t1
    t2 = t2
    c1 = c1
    c2 = c2
    Thread = {t1, t2}
    Early = {t1}
    Cache = {c1, c2}
    CacheClasses = 9
    CentClasses = 5
    Page = 128
    Threshold = 256
    Load <- Mixed
    Reallocs = TRUE
INVARIANTS
    BlocksTileTheHeap
    TagsSound
    ExitReport
CHECK_DEADLOCK FALSE
