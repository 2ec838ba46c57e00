CONSTANTS
    Name = {b1, b2}
    BlockSize = 2
    MaxBytes = 4
    MaxChunks = 3
SPECIFICATION Spec
SYMMETRY Symmetry
INVARIANTS
    BuffersAreQueues
PROPERTIES
    ReadAreaStable
CHECK_DEADLOCK FALSE
