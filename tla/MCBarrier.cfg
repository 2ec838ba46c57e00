SPECIFICATION FairBarrierSpec
CONSTANTS
    Caller = {t1, t2, t3, t4, t5}
    num_participants_ = 3
PROPERTIES
    ImplementsBarrier
    EveryoneLeaves
