\* What the README says of failover, against what the code does.
SPECIFICATION Spec
CONSTANTS
    b1 = b1
    b2 = b2
    Backends = {b1, b2}
    NoBackend = NoBackend
    MaxChunks = 3
INVARIANT
    ErrorsFollowContent
\* A stream comes to its end.
CHECK_DEADLOCK FALSE
