\* All settings with up to two backends, and every request to them.
SPECIFICATION ChecksSpec
CONSTANTS
    n1 = n1
    n2 = n2
    m1 = m1
    m2 = m2
    Names = {n1, n2}
    Models = {m1, m2}
    MaxBackends = 2
INVARIANTS
    AcceptedIsServable
    PublicDemoIsClosed
CHECK_DEADLOCK TRUE
