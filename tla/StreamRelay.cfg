\* One stream over two backends.
SPECIFICATION FairSpec
CONSTANTS
    b1 = b1
    b2 = b2
    Backends = {b1, b2}
    NoBackend = NoBackend
    MaxChunks = 3
INVARIANTS
    FaithfulRelay
    NoFalseDone
    RecordedAsSeen
PROPERTIES
    NoSwitchAfterOutput
    UpstreamIsReleased
\* A stream comes to its end.
CHECK_DEADLOCK FALSE
