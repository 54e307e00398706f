\* Leases and attempts of three requests that share two leases.
SPECIFICATION FairSpec
CONSTANTS
    chat1 = chat1
    chat2 = chat2
    stream = stream
    big = big
    small = small
    tenantA = tenantA
    tenantB = tenantB
    Requests = {chat1, chat2, stream}
    TenantOf <- MCTenantOf
    MaxConcurrent = 2
    TenantLimit = 2
    MaxQueueDepth = 2
    Backends = {big, small}
    Capacity <- MCCapacity
    FailureThreshold = 1
    Cooldown = 1
    NoBackend = NoBackend
    Streamed = {stream}
INVARIANTS
    WorkIsAdmitted
    NothingLeftBehind
PROPERTY
    LeasesComeBack
CHECK_DEADLOCK TRUE
