\* Four requests over two backends; no symmetry, for the liveness property.
SPECIFICATION FairSpec
CONSTANTS
    big = big
    small = small
    r1 = r1
    r2 = r2
    r3 = r3
    r4 = r4
    Backends = {big, small}
    Capacity <- MCCapacity
    Requests = {r1, r2, r3, r4}
    NoBackend = NoBackend
    FailureThreshold = 2
    Cooldown = 2
INVARIANTS
    TypeOK
    LoadAccounting
    SingleProbe
    CircuitMirrorsFailures
PROPERTIES
    OnlyTheProbeDecides
    CircuitRecovers
CHECK_DEADLOCK TRUE
