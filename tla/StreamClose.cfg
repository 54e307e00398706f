\* Streams whose connection may fail while it is closed.
SPECIFICATION CloseMayFailSpec
CONSTANTS
    b1 = b1
    b2 = b2
    Backends = {b1, b2}
    NoBackend = NoBackend
    MaxChunks = 3
INVARIANT
    LeftIsRecorded
\* A stream comes to its end.
CHECK_DEADLOCK FALSE
