------------------------------- MODULE Gateway -------------------------------
(***************************************************************************)
(* The request handlers of api.py: what a chat or embeddings call holds    *)
(* while it runs.  Two resources are nested by hand, a lease of the        *)
(* admission controller around an attempt on a backend, in two shapes: a   *)
(* try/finally for plain calls, and for streams a `cleanup` that a         *)
(* generator and a background task both run after the handler returned.    *)
(*                                                                         *)
(* The two parts come in through what they promise: AdmissionPool, which   *)
(* Admission implements, and Router, which Service implements.  A request  *)
(* is a slot that stands for one call after another.                       *)
(***************************************************************************)
EXTENDS Integers, FiniteSets

CONSTANTS
    Requests, TenantOf, MaxConcurrent, TenantLimit, MaxQueueDepth,  \* AdmissionPool
    Backends, Capacity, FailureThreshold, Cooldown, NoBackend,      \* Router
    Streamed                       \* the requests that ask for a stream

ASSUME GatewayAssumption ==
    /\ IsFiniteSet(Requests) /\ Streamed \subseteq Requests
    /\ NoBackend \notin Backends
    /\ MaxConcurrent \in Nat /\ TenantLimit \in Nat
    /\ Capacity \in [Backends -> Nat \ {0}]
    /\ FailureThreshold \in Nat \ {0} /\ Cooldown \in Nat \ {0}

VARIABLES
    line, holders,          \* of AdmissionPool
    candidates, on, probe,  \* of Router
    stage                   \* where the handler of a request stands

admissionVars == <<line, holders>>
routerVars == <<candidates, on, probe>>
vars == <<line, holders, candidates, on, probe, stage>>

Pool == INSTANCE AdmissionPool

R == INSTANCE Router

Stages == {"idle",
           "queued",     \* in acquire
           "admitted",   \* has its lease, awaits refresh_health
           "calling",    \* awaits an answer or the first chunk
           "streaming",  \* the response is under way
           "closing",    \* `cleanup` awaits stream.aclose
           "releasing",  \* awaits lease.release
           "released"}   \* a stream's lease is back, `cleanup` may run again

Goes(r, s) == stage' = [stage EXCEPT ![r] = s]

\* The handler is left by the path that ends in lease.release.
Leaves(r) == Goes(r, "releasing") /\ UNCHANGED admissionVars

----------------------------------------------------------------------------
Init == Pool!PoolInit /\ R!Init /\ stage = [r \in Requests |-> "idle"]

\* The call passed its checks and its budget; acquire admits it or queues it.
\* A call refused by any of them leaves no trace here.
Arrive(r) ==
    /\ stage[r] = "idle"
    /\ \/ Pool!AdmitNewcomer(r) /\ Goes(r, "admitted")
       \/ Pool!Join(r) /\ Goes(r, "queued")
    /\ UNCHANGED routerVars

\* acquire returns a lease.
Admitted(r) ==
    /\ stage[r] = "queued"
    /\ Pool!AdmitWaiting(r) /\ Goes(r, "admitted")
    /\ UNCHANGED routerVars

\* acquire raises: the wait was too long or the client left.
GivesUp(r) ==
    /\ stage[r] = "queued"
    /\ Pool!Leave(r) /\ Goes(r, "idle")
    /\ UNCHANGED routerVars

\* The service begins its first attempt, on fresh or on just refreshed health.
Attempt(r) ==
    /\ stage[r] = "admitted"
    /\ \E b \in Backends :
        R!Start(r, b) \/ \E h \in [Backends -> BOOLEAN] : R!RefreshAndStart(r, b, h)
    /\ Goes(r, "calling")
    /\ UNCHANGED admissionVars

\* A fault of NoAttempt: the lease is not given back when no attempt is made.
NoAttemptNoRelease(r) ==
    /\ stage[r] = "admitted"
    /\ Goes(r, "idle")
    /\ UNCHANGED <<line, holders, candidates, on, probe>>

\* The service raises before any attempt: NoEligibleBackend or a cancellation,
\* perhaps after it stored new results of health.
NoAttempt(r) ==
    /\ stage[r] = "admitted"
    /\ Leaves(r)
    /\ UNCHANGED routerVars \/ \E h \in [Backends -> BOOLEAN] : R!SetHealth(h)

\* The attempt fails and another backend is tried.
Retry(r) ==
    /\ stage[r] = "calling"
    /\ \E b \in Backends : R!FailOver(r, b)
    /\ UNCHANGED <<line, holders, stage>>

\* The call of the service is over and so is its attempt: answered, failed with
\* no backend left to try (Service says when), or cancelled.
CallEnds(r) ==
    /\ stage[r] = "calling"
    /\ \E o \in R!Outcomes \ (IF r \in Streamed THEN {"success"} ELSE {}) : R!Finish(r, o)
    /\ Leaves(r)

\* prepare_stream returns and the handler with it: the lease now belongs to
\* stream_with_release and its background task.
StreamBegins(r) ==
    /\ stage[r] = "calling" /\ r \in Streamed
    /\ Goes(r, "streaming")
    /\ UNCHANGED <<line, holders, candidates, on, probe>>

\* The response is over, complete, broken or left by the client; or it never
\* began, and the background task is the first to run `cleanup`.
StreamStops(r) ==
    /\ stage[r] = "streaming"
    /\ Goes(r, "closing")
    /\ UNCHANGED <<line, holders, candidates, on, probe>>

\* A fault of StreamClosed: `cleanup` gives the lease back first.
StreamReleasedFirst(r) ==
    /\ stage[r] = "closing"
    /\ Pool!GiveBack(r)
    /\ UNCHANGED <<candidates, on, probe, stage>>

\* stream.aclose is through, with or without an exception: the attempt is
\* recorded, and the finally block of `cleanup` comes next.
StreamClosed(r) ==
    /\ stage[r] = "closing"
    /\ \E o \in R!Outcomes : R!Finish(r, o)
    /\ Leaves(r)

\* lease.release; it is shielded, so no cancellation keeps it from running.
Release(r) ==
    /\ stage[r] = "releasing"
    /\ Pool!GiveBack(r)
    /\ Goes(r, IF r \in Streamed THEN "released" ELSE "idle")
    /\ UNCHANGED routerVars

\* The last `cleanup` of a stream is through; a second one found the stream
\* closed and the lease released.
CleanedUp(r) ==
    /\ stage[r] = "released"
    /\ Goes(r, "idle")
    /\ UNCHANGED <<line, holders, candidates, on, probe>>

\* Health is refreshed for /health/ready, or time passes.
Background ==
    /\ R!Tick \/ \E h \in [Backends -> BOOLEAN] : R!SetHealth(h)
    /\ UNCHANGED <<line, holders, stage>>

Next ==
    \/ \E r \in Requests :
        \/ Arrive(r) \/ Admitted(r) \/ GivesUp(r)
        \/ Attempt(r) \/ NoAttempt(r) \/ Retry(r) \/ CallEnds(r)
        \/ StreamBegins(r) \/ StreamStops(r) \/ StreamClosed(r)
        \/ Release(r) \/ CleanedUp(r)
    \/ Background

Spec == Init /\ [][Next]_vars

\* Health requests, calls and streams end (timeouts, max_tokens), a response
\* that was begun is cleaned up after, and scheduled tasks run.
Fairness == \A r \in Requests :
    /\ WF_vars(Attempt(r) \/ NoAttempt(r))
    /\ WF_vars(CallEnds(r) \/ StreamBegins(r))
    /\ WF_vars(StreamStops(r))
    /\ WF_vars(StreamClosed(r))
    /\ WF_vars(Release(r))
    /\ WF_vars(CleanedUp(r))

FairSpec == Spec /\ Fairness

----------------------------------------------------------------------------
TypeOK == stage \in [Requests -> Stages] /\ holders \in SUBSET Requests /\ R!TypeOK

\* No backend works for a request without a lease: an attempt begins after the
\* lease was taken and is recorded before the lease is given back, on every
\* path out of the handlers.  So admission bounds the load of all backends
\* together and of each tenant.
WorkIsAdmitted ==
    /\ \A r \in Requests : on[r] # NoBackend => r \in holders
    /\ Cardinality({r \in Requests : on[r] # NoBackend}) <= MaxConcurrent

\* A slot that is free holds nothing: no ticket, no lease, no attempt.
NothingLeftBehind == \A r \in Requests : stage[r] = "idle" =>
    ~Pool!Waits(r) /\ r \notin holders /\ on[r] = NoBackend

\* Every lease comes back, whatever fails or is cancelled after acquire.
LeasesComeBack == \A r \in Requests : r \in holders ~> r \notin holders
=============================================================================
