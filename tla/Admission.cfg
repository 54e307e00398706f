\* Five requests of three tenants, two slots, one per tenant, a queue of two.
SPECIFICATION FairSpec
CONSTANTS
    a1 = a1
    a2 = a2
    b1 = b1
    b2 = b2
    c1 = c1
    tenantA = tenantA
    tenantB = tenantB
    tenantC = tenantC
    Tenants <- MCTenants
    TenantOf <- MCTenantOf
    Requests = {a1, a2, b1, b2, c1}
    MaxConcurrent = 2
    TenantLimit = 1
    MaxQueueDepth = 2
    MaxReleaseCalls = 2
INVARIANTS
    TypeOK
    LeaseAccounting
    QueueIsExactlyTheSuspended
    NoLostWakeup
PROPERTIES
    OvertakesOnlySaturatedTenants
    NoStarvation
    PoolSpec
