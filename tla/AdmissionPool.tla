--------------------------- MODULE AdmissionPool ---------------------------
(***************************************************************************)
(* What the admission controller promises (admission.py), with no          *)
(* condition variable, no scheduled wake-ups and no counters: a line of    *)
(* waiting requests and a set of requests that hold a lease.  A request is *)
(* admitted in one indivisible step, and only past waiting requests whose  *)
(* own tenant has no room: "FIFO fairness among eligible tenants".         *)
(* Admission.tla implements this module.                                   *)
(***************************************************************************)
EXTENDS Naturals, FiniteSets, SequencesExt

CONSTANTS
    Requests,       \* request identities
    TenantOf,       \* the tenant each request is made for
    MaxConcurrent,  \* leases held at once, all tenants together
    TenantLimit,    \* leases held at once by one tenant
    MaxQueueDepth   \* requests that may stand in the line

VARIABLES
    line,     \* requests waiting, oldest first
    holders   \* requests that hold a lease

poolVars == <<line, holders>>

HoldersOf(t) == {r \in holders : TenantOf[r] = t}

\* There is room for one more lease of tenant t.
HasRoom(t) ==
    /\ Cardinality(holders) < MaxConcurrent
    /\ Cardinality(HoldersOf(t)) < TenantLimit

Waits(r) == \E i \in 1..Len(line) : line[i] = r

----------------------------------------------------------------------------
PoolInit == line = <<>> /\ holders = {}

\* A newcomer is served at once when it overtakes nobody who could be served.
AdmitNewcomer(r) ==
    /\ r \notin holders /\ ~Waits(r)
    /\ HasRoom(TenantOf[r])
    /\ \A i \in 1..Len(line) : ~HasRoom(TenantOf[line[i]])
    /\ holders' = holders \union {r}
    /\ UNCHANGED line

\* The oldest request of the line that has room is served.
AdmitWaiting(r) == \E i \in 1..Len(line) :
    /\ line[i] = r
    /\ HasRoom(TenantOf[r])
    /\ \A j \in 1..(i - 1) : ~HasRoom(TenantOf[line[j]])
    /\ line' = RemoveAt(line, i)
    /\ holders' = holders \union {r}

\* A newcomer joins the end of the line, if the line is not full.
Join(r) ==
    /\ r \notin holders /\ ~Waits(r)
    /\ Len(line) < MaxQueueDepth
    /\ line' = Append(line, r)
    /\ UNCHANGED holders

\* A request gives up waiting: its deadline passed or its client went away.
Leave(r) == \E i \in 1..Len(line) :
    /\ line[i] = r
    /\ line' = RemoveAt(line, i)
    /\ UNCHANGED holders

\* A lease is given back, once.
GiveBack(r) ==
    /\ r \in holders
    /\ holders' = holders \ {r}
    /\ UNCHANGED line

PoolNext == \E r \in Requests :
    AdmitNewcomer(r) \/ AdmitWaiting(r) \/ Join(r) \/ Leave(r) \/ GiveBack(r)

PoolSpec == PoolInit /\ [][PoolNext]_poolVars
============================================================================
