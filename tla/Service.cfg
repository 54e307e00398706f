\* A chat, a stream and a readiness probe race for the health lock and the backends.
SPECIFICATION FairSpec
CONSTANTS
    big = big
    small = small
    chat = chat
    stream = stream
    ready = ready
    Backends = {big, small}
    Capacity <- MCCapacity
    Requests = {chat, stream, ready}
    NoBackend = NoBackend
    Serves <- MCServes
    Streamed = {stream}
    FailureThreshold = 2
    Cooldown = 1
    HealthInterval = 1
INVARIANTS
    HealthLockExact
    AttemptsMatchStages
PROPERTIES
    RefreshOnlyWhenStale
    RoutesOnFreshHealth
    NeverRetriesABackend
    RouterSpec
    EveryRequestEnds
CHECK_DEADLOCK TRUE
