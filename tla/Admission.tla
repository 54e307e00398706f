----------------------------- MODULE Admission -----------------------------
(***************************************************************************)
(* The admission controller of admission.py and the leases it hands out.   *)
(*                                                                         *)
(* Every method body that touches the controller runs under the lock of    *)
(* its asyncio.Condition and suspends only inside Condition.wait, which    *)
(* gives the lock up; so the lock is never contended and each stretch of   *)
(* code between two suspension points is one action here.  What really     *)
(* interleaves are the tasks between those points: a task that was         *)
(* notified but has not run yet, a deadline or a client disconnect that    *)
(* strikes a waiting or an already notified task, and the `_release` tasks *)
(* that asyncio.shield leaves behind.                                      *)
(*                                                                         *)
(* A request is a slot: when its call is over the slot is idle again and   *)
(* stands for the next call, so behaviours are unbounded.                  *)
(***************************************************************************)
EXTENDS Integers, FiniteSets, SequencesExt

CONSTANTS
    Requests,        \* slots of the tasks that call acquire
    Tenants,         \* tenant identifiers
    TenantOf,        \* the tenant_id each request passes to acquire
    MaxConcurrent,   \* max_concurrent
    TenantLimit,     \* max_concurrent_per_tenant
    MaxQueueDepth,   \* max_queue_depth, 0 allowed
    MaxReleaseCalls  \* calls of lease.release() one request makes at most

ASSUME RequestsAssumption ==
    IsFiniteSet(Requests) /\ TenantOf \in [Requests -> Tenants]

\* Settings (config.py) bounds the limits; a streaming handler calls release
\* from its generator and again from its background task.
ASSUME LimitsAssumption ==
    /\ MaxConcurrent \in Nat \ {0}
    /\ TenantLimit \in Nat \ {0}
    /\ MaxQueueDepth \in Nat
    /\ MaxReleaseCalls \in Nat \ {0}

VARIABLES
    active,    \* _active
    tenants,   \* _tenants; an absent key reads as 0, as _tenants.get(t, 0) does
    queue,     \* _queue: tickets, oldest first; a ticket is named by its request
    pc,        \* where the task of a request stands
    released,  \* _released of the lease the request holds
    calls,     \* release() calls made on that lease
    pending    \* `_release` tasks scheduled by those calls and not yet run

vars == <<active, tenants, queue, pc, released, calls, pending>>

Suspended == {"waiting",    \* in Condition.wait, its future pending
              "notified",   \* future resolved, the task is scheduled to run
              "expired",    \* struck by its deadline, CancelledError scheduled
              "cancelled"}  \* struck by a client disconnect, same

States == Suspended \union {"idle", "leased", "rejected"}

\* Requests whose lease still counts against the limits.
Holders == {r \in Requests : pc[r] = "leased" /\ ~released[r]}

HoldersOf(t) == {r \in Holders : TenantOf[r] = t}

----------------------------------------------------------------------------
\* A fault of Eligible, for the checks of the checks.
EligibleIgnoringTenant(t) == active < MaxConcurrent

\* _eligible
Eligible(t) == active < MaxConcurrent /\ tenants[t] < TenantLimit

\* _first_eligible() is r's ticket
IsFirstEligible(r) == \E i \in 1..Len(queue) :
    /\ queue[i] = r
    /\ Eligible(TenantOf[r])
    /\ \A j \in 1..(i - 1) : ~Eligible(TenantOf[queue[j]])

\* _first_eligible() is None
NoneEligible == \A i \in 1..Len(queue) : ~Eligible(TenantOf[queue[i]])

\* Faults of NotifyAll: nobody, or only the oldest ticket, is notified.
NotifyNobody(pcs) == pcs

NotifyOldest(pcs) ==
    [r \in Requests |->
        IF pcs[r] = "waiting" /\ Len(queue) > 0 /\ queue[1] = r THEN "notified" ELSE pcs[r]]

\* Condition.notify_all: every pending future is resolved.
NotifyAll(pcs) ==
    [r \in Requests |-> IF pcs[r] = "waiting" THEN "notified" ELSE pcs[r]]

\* _queue.remove of r's own ticket
Dequeue(r) == \E i \in 1..Len(queue) :
    queue[i] = r /\ queue' = RemoveAt(queue, i)

\* _active and the tenant's count both rise by one.
TakeCapacity(t) ==
    /\ active' = active + 1
    /\ tenants' = [tenants EXCEPT ![t] = @ + 1]

NewLease == UNCHANGED <<released, calls, pending>>

----------------------------------------------------------------------------
Init ==
    /\ active = 0
    /\ tenants = [t \in Tenants |-> 0]
    /\ queue = <<>>
    /\ pc = [r \in Requests |-> "idle"]
    /\ released = [r \in Requests |-> FALSE]
    /\ calls = [r \in Requests |-> 0]
    /\ pending = [r \in Requests |-> 0]

\* A fault of AcquireAtOnce: a newcomer does not look at the queue.
AcquireAtOnceBarging(r) ==
    /\ pc[r] = "idle"
    /\ Eligible(TenantOf[r])
    /\ TakeCapacity(TenantOf[r])
    /\ pc' = [pc EXCEPT ![r] = "leased"]
    /\ NewLease
    /\ UNCHANGED queue

\* acquire: room for the tenant, and no waiting ticket could use it.
AcquireAtOnce(r) ==
    /\ pc[r] = "idle"
    /\ Eligible(TenantOf[r]) /\ NoneEligible
    /\ TakeCapacity(TenantOf[r])
    /\ pc' = [pc EXCEPT ![r] = "leased"]
    /\ NewLease
    /\ UNCHANGED queue

\* acquire: the queue is full.
RejectQueueFull(r) ==
    /\ pc[r] = "idle"
    /\ ~(Eligible(TenantOf[r]) /\ NoneEligible)
    /\ Len(queue) >= MaxQueueDepth
    /\ pc' = [pc EXCEPT ![r] = "rejected"]
    /\ UNCHANGED <<active, tenants, queue, released, calls, pending>>

\* A fault of Enqueue, off by one at the limit.
EnqueueOffByOne(r) ==
    /\ pc[r] = "idle"
    /\ ~(Eligible(TenantOf[r]) /\ NoneEligible)
    /\ Len(queue) <= MaxQueueDepth
    /\ queue' = Append(queue, r)
    /\ pc' = [pc EXCEPT ![r] = "waiting"]
    /\ UNCHANGED <<active, tenants, released, calls, pending>>

\* acquire: the ticket is queued; wait_for finds its predicate false, because
\* either nothing is eligible or an older ticket is, and suspends.
Enqueue(r) ==
    /\ pc[r] = "idle"
    /\ ~(Eligible(TenantOf[r]) /\ NoneEligible)
    /\ Len(queue) < MaxQueueDepth
    /\ queue' = Append(queue, r)
    /\ pc' = [pc EXCEPT ![r] = "waiting"]
    /\ UNCHANGED <<active, tenants, released, calls, pending>>

\* A notified task runs and wait_for's predicate holds: the lease is taken,
\* then the finally block removes the ticket and notifies everybody.
ResumeGranted(r) ==
    /\ pc[r] = "notified"
    /\ IsFirstEligible(r)
    /\ TakeCapacity(TenantOf[r])
    /\ Dequeue(r)
    /\ pc' = NotifyAll([pc EXCEPT ![r] = "leased"])
    /\ NewLease

\* A notified task runs too late or out of turn and waits again.
ResumeWaits(r) ==
    /\ pc[r] = "notified"
    /\ ~IsFirstEligible(r)
    /\ pc' = [pc EXCEPT ![r] = "waiting"]
    /\ UNCHANGED <<active, tenants, queue, released, calls, pending>>

\* asyncio.timeout reaches queue_wait_seconds: the task is cancelled by its
\* timer even if it has been notified meanwhile.
DeadlinePasses(r) ==
    /\ pc[r] \in {"waiting", "notified"}
    /\ pc' = [pc EXCEPT ![r] = "expired"]
    /\ UNCHANGED <<active, tenants, queue, released, calls, pending>>

\* The request's task is cancelled from outside.  When the deadline struck as
\* well, the cancellation wins: uncancel() is not back to its starting count.
ClientGone(r) ==
    /\ pc[r] \in {"waiting", "notified", "expired"}
    /\ pc' = [pc EXCEPT ![r] = "cancelled"]
    /\ UNCHANGED <<active, tenants, queue, released, calls, pending>>

\* The outcome of the call once the exception has run through acquire:
\* AdmissionRejected after a deadline, the cancellation itself otherwise.
Outcome(r) == IF pc[r] = "expired" THEN "rejected" ELSE "idle"

\* A fault of Abandon: the ticket stays in the queue.
AbandonWithoutRemove(r) ==
    /\ pc[r] \in {"expired", "cancelled"}
    /\ pc' = NotifyAll([pc EXCEPT ![r] = Outcome(r)])
    /\ UNCHANGED <<active, tenants, queue, released, calls, pending>>

\* The exception reaches the finally block of acquire: the ticket goes and
\* everybody is notified.
Abandon(r) ==
    /\ pc[r] \in {"expired", "cancelled"}
    /\ Dequeue(r)
    /\ pc' = NotifyAll([pc EXCEPT ![r] = Outcome(r)])
    /\ UNCHANGED <<active, tenants, released, calls, pending>>

\* AdmissionLease.release: shield schedules `_release` as a task of its own,
\* which runs whether or not the caller survives.
CallRelease(r) ==
    /\ pc[r] = "leased"
    /\ calls[r] < MaxReleaseCalls
    /\ calls' = [calls EXCEPT ![r] = @ + 1]
    /\ pending' = [pending EXCEPT ![r] = @ + 1]
    /\ UNCHANGED <<active, tenants, queue, pc, released>>

\* A fault of FirstRelease: _released is not looked at.
AlwaysFirst(r) == TRUE

\* `_release` finds _released unset.
FirstRelease(r) == ~released[r]

\* AdmissionLease._release, first run on this lease.
RunRelease(r) ==
    /\ pending[r] > 0
    /\ FirstRelease(r)
    /\ pending' = [pending EXCEPT ![r] = @ - 1]
    /\ released' = [released EXCEPT ![r] = TRUE]
    /\ active' = active - 1
    /\ tenants' = [tenants EXCEPT ![TenantOf[r]] = @ - 1]
    /\ pc' = NotifyAll(pc)
    /\ UNCHANGED <<queue, calls>>

\* AdmissionLease._release, any later run: returns at once.
RunReleaseAgain(r) ==
    /\ pending[r] > 0
    /\ ~FirstRelease(r)
    /\ pending' = [pending EXCEPT ![r] = @ - 1]
    /\ UNCHANGED <<active, tenants, queue, pc, released, calls>>

\* The handler is done with its lease, or has sent the 429: the slot is free
\* for another call.
EndOfRequest(r) ==
    /\ \/ pc[r] = "rejected"
       \/ pc[r] = "leased" /\ released[r] /\ pending[r] = 0
    /\ pc' = [pc EXCEPT ![r] = "idle"]
    /\ released' = [released EXCEPT ![r] = FALSE]
    /\ calls' = [calls EXCEPT ![r] = 0]
    /\ UNCHANGED <<active, tenants, queue, pending>>

Next == \E r \in Requests :
    \/ AcquireAtOnce(r) \/ RejectQueueFull(r) \/ Enqueue(r)
    \/ ResumeGranted(r) \/ ResumeWaits(r)
    \/ DeadlinePasses(r) \/ ClientGone(r) \/ Abandon(r)
    \/ CallRelease(r) \/ RunRelease(r) \/ RunReleaseAgain(r)
    \/ EndOfRequest(r)

Spec == Init /\ [][Next]_vars

\* The event loop runs every scheduled task, and a handler that got a lease
\* calls release in its finally block once the backend has answered, failed or
\* timed out.  Nothing is assumed of deadlines, disconnects or new requests.
Fairness == \A r \in Requests :
    /\ WF_vars(ResumeGranted(r) \/ ResumeWaits(r))
    /\ WF_vars(Abandon(r))
    /\ WF_vars(RunRelease(r) \/ RunReleaseAgain(r))
    /\ WF_vars(CallRelease(r) /\ calls[r] = 0)

FairSpec == Spec /\ Fairness

----------------------------------------------------------------------------
TypeOK ==
    /\ active \in Nat
    /\ tenants \in [Tenants -> Nat]
    /\ queue \in Seq(Requests)
    /\ pc \in [Requests -> States]
    /\ released \in [Requests -> BOOLEAN]
    /\ calls \in [Requests -> 0..MaxReleaseCalls]
    /\ pending \in [Requests -> 0..MaxReleaseCalls]

\* The counters are exactly the leases outstanding, whatever cancellations,
\* deadlines and repeated release() calls did, and never exceed the limits
\* (admission.py keeps them by hand in three places).
LeaseAccounting ==
    /\ active = Cardinality(Holders)
    /\ active <= MaxConcurrent
    /\ \A t \in Tenants :
        /\ tenants[t] = Cardinality(HoldersOf(t))
        /\ tenants[t] <= TenantLimit

\* The queue holds one ticket for every suspended task and no other, and never
\* more than max_queue_depth of them: no ticket of a request that was granted,
\* expired or disconnected is left to block the line.
QueueIsExactlyTheSuspended ==
    /\ Len(queue) <= MaxQueueDepth
    /\ \A r \in Requests :
        pc[r] \in Suspended <=> \E i \in 1..Len(queue) : queue[i] = r
    /\ \A i, j \in 1..Len(queue) : queue[i] = queue[j] => i = j

\* When the first eligible ticket exists, its task is already scheduled to run:
\* capacity is never free while the request entitled to it sleeps.
NoLostWakeup ==
    \A r \in Requests : IsFirstEligible(r) => pc[r] # "waiting"

\* r becomes a lease holder in this step.
Granted(r) == pc[r] # "leased" /\ pc'[r] = "leased"

\* The tickets that were in the queue before r's, or all of them for a newcomer.
Ahead(r) ==
    {s \in Requests : \E i \in 1..Len(queue) :
        queue[i] = s /\ \A j \in 1..i : queue[j] # r}

\* FIFO among eligible tenants: a grant overtakes only tickets of tenants that
\* have no room of their own, so a saturated tenant blocks nobody else and a
\* newcomer never takes a slot a queued ticket could use.
OvertakesOnlySaturatedTenants ==
    [][\A r \in Requests : Granted(r) =>
        \A s \in Ahead(r) : tenants[TenantOf[s]] >= TenantLimit]_vars

\* A queued request does not stay queued for ever: it is granted, or its
\* deadline or its client ends it; neither of these two is needed for it.
NoStarvation ==
    \A r \in Requests : (pc[r] \in Suspended) ~> (pc[r] \notin Suspended)

\* The controller implements AdmissionPool.
Pool == INSTANCE AdmissionPool WITH line <- queue, holders <- Holders

PoolSpec == Pool!PoolSpec
============================================================================
