CONSTANTS
    BlockSize = 12
    Length <- MCLength
    File <- MCFile
    BadRequest <- MCBadRequest
    Address <- MCAddress
    MaxRequests = 2
    ReadSize = 3
    SocketSize = 12
SPECIFICATION Spec
INVARIANTS
    ResponsesMatch
    StreamIntact
    QuietMeansAnswered
CHECK_DEADLOCK FALSE
