SPECIFICATION FairSpec
CONSTANTS
    Requests = {r1, r2}
    MaxDeltas = 2
    UnhandledRejectionExits = FALSE
INVARIANTS
    StreamSafety
PROPERTIES
    NothingAfterEnd
    AbortedStreamIsOver
    StreamSettles
    ImplementsContract
