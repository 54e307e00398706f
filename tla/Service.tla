------------------------------ MODULE Service ------------------------------
(***************************************************************************)
(* The InferenceService of service.py: the shared refresh of health, the   *)
(* loop that tries one backend after another, and the life of a stream     *)
(* after its first chunk.  It drives the candidates of Router and          *)
(* implements that module.                                                 *)
(*                                                                         *)
(* An action is the code between two suspension points: the wait for the   *)
(* health lock, the round of health requests under it, the call of a       *)
(* backend, the relay of a stream and the closing of its upstream.         *)
(*                                                                         *)
(* A caller of refresh_health that routes nothing (/health/ready, the      *)
(* start of the application) is a request no backend serves.               *)
(***************************************************************************)
EXTENDS Candidates, FiniteSets, SequencesExt

CONSTANTS
    Requests,        \* slots of the tasks that use the service
    NoBackend,       \* stands for "no attempt in flight"
    Serves,          \* the backends that match the task and model of a request
    Streamed,        \* the requests that ask for a stream
    HealthInterval   \* health_interval_seconds, in ticks; 0 allowed

ASSUME ServiceAssumption ==
    /\ IsFiniteSet(Requests) /\ NoBackend \notin Backends
    /\ Serves \in [Requests -> SUBSET Backends]
    /\ Streamed \subseteq Requests
    /\ HealthInterval \in Nat

VARIABLES
    candidates,   \* the router's candidates
    on,           \* the backend of a request's attempt in flight
    probe,        \* whether that attempt is a half-open probe
    stage,        \* where the task of a request stands
    excluded,     \* backends the request has given up on
    outcome,      \* `outcome` of a stream whose end is decided
    healthQueue,  \* tasks waiting for _health_lock, oldest first
    freshFor      \* ticks until _next_health

vars == <<candidates, on, probe, stage, excluded, outcome, healthQueue, freshFor>>

Stages == {"idle",
           "queued",      \* waits for _health_lock
           "refreshing",  \* holds it and awaits the health requests
           "calling",     \* awaits complete, embed or the first chunk
           "streaming",   \* has sent its first chunk
           "closing"}     \* the end of the stream is decided, upstream closes

HealthLocked == \E r \in Requests : stage[r] = "refreshing"

EligibleAgain(r, cs, ex) == {b \in Serves[r] : Available(b, cs[b])}

\* The candidates select chooses from for r.
Eligible(r, cs, ex) == {b \in Serves[r] \ ex : Available(b, cs[b])}

\* _record of r's attempt
Recorded(r, o) == [candidates EXCEPT ![on[r]] = Finished(@, o, probe[r])]

----------------------------------------------------------------------------
Init ==
    /\ \E h \in BOOLEAN : candidates = [b \in Backends |-> NewCandidate(h)]
    /\ on = [r \in Requests |-> NoBackend]
    /\ probe = [r \in Requests |-> FALSE]
    /\ stage = [r \in Requests |-> "idle"]
    /\ excluded = [r \in Requests |-> {}]
    /\ outcome = [r \in Requests |-> "cancelled"]
    /\ healthQueue = <<>>
    /\ freshFor = 0

\* The request is over; its attempt, if it had one, is recorded in cs.
EndWith(r, cs) ==
    /\ candidates' = cs
    /\ on' = [on EXCEPT ![r] = NoBackend]
    /\ probe' = [probe EXCEPT ![r] = FALSE]
    /\ stage' = [stage EXCEPT ![r] = "idle"]
    /\ excluded' = [excluded EXCEPT ![r] = {}]
    /\ outcome' = [outcome EXCEPT ![r] = "cancelled"]

\* One turn of the loop of complete_chat, prepare_stream and embed: select and
\* started on an eligible backend, or NoEligibleBackend.
Route(r, cs, ex) ==
    \/ \E b \in Eligible(r, cs, ex) :
        /\ candidates' = [cs EXCEPT ![b] = Started(@)]
        /\ on' = [on EXCEPT ![r] = b]
        /\ probe' = [probe EXCEPT ![r] = cs[b].circuit_open]
        /\ stage' = [stage EXCEPT ![r] = "calling"]
        /\ excluded' = [excluded EXCEPT ![r] = ex]
        /\ UNCHANGED outcome
    \/ Eligible(r, cs, ex) = {} /\ EndWith(r, cs)

\* refresh_health returns at once: the results are fresh.
BeginFresh(r) ==
    /\ stage[r] = "idle" /\ freshFor > 0
    /\ Route(r, candidates, {})
    /\ UNCHANGED <<healthQueue, freshFor>>

\* Faults of BeginStale, for the checks of the checks: no lock, and routing
\* past a refresh that is still under way.
BeginStaleUnlocked(r) ==
    /\ stage[r] = "idle" /\ freshFor = 0
    /\ stage' = [stage EXCEPT ![r] = "refreshing"]
    /\ UNCHANGED <<candidates, on, probe, excluded, outcome, healthQueue, freshFor>>

BeginStaleUnrefreshed(r) ==
    /\ stage[r] = "idle" /\ freshFor = 0
    /\ \/ /\ ~HealthLocked
          /\ stage' = [stage EXCEPT ![r] = "refreshing"]
          /\ UNCHANGED <<candidates, on, probe, excluded, outcome>>
       \/ HealthLocked /\ Route(r, candidates, {})
    /\ UNCHANGED <<healthQueue, freshFor>>

\* refresh_health takes the lock, or queues for it; an asyncio.Lock that was
\* released is not taken past the tasks that wait for it.
BeginStale(r) ==
    /\ stage[r] = "idle" /\ freshFor = 0
    /\ \/ /\ ~HealthLocked /\ healthQueue = <<>>
          /\ stage' = [stage EXCEPT ![r] = "refreshing"]
          /\ UNCHANGED healthQueue
       \/ /\ HealthLocked \/ healthQueue # <<>>
          /\ stage' = [stage EXCEPT ![r] = "queued"]
          /\ healthQueue' = Append(healthQueue, r)
    /\ UNCHANGED <<candidates, on, probe, excluded, outcome, freshFor>>

\* A fault of StillStale: health is not looked at again under the lock.
AlwaysStale == TRUE

\* time.monotonic() >= self._next_health, asked again under the lock
StillStale == freshFor = 0

\* The lock comes to the oldest waiter, which asks again whether to refresh.
LockGranted(r) ==
    /\ stage[r] = "queued" /\ ~HealthLocked /\ Head(healthQueue) = r
    /\ healthQueue' = Tail(healthQueue)
    /\ UNCHANGED freshFor
    /\ \/ /\ StillStale
          /\ stage' = [stage EXCEPT ![r] = "refreshing"]
          /\ UNCHANGED <<candidates, on, probe, excluded, outcome>>
       \/ ~StillStale /\ Route(r, candidates, {})

\* The health requests are answered: every candidate is updated, the lock is
\* released and the request goes on to route.
HealthArrives(r) ==
    /\ stage[r] = "refreshing"
    /\ freshFor' = HealthInterval
    /\ \E h \in [Backends -> BOOLEAN] :
        Route(r, [b \in Backends |-> [candidates[b] EXCEPT !.healthy = h[b]]], {})
    /\ UNCHANGED healthQueue

\* A fault of CancelledEarly: the place in the line stays taken.
CancelledEarlyInLine(r) ==
    /\ stage[r] \in {"queued", "refreshing"}
    /\ EndWith(r, candidates)
    /\ UNCHANGED <<healthQueue, freshFor>>

\* The task is cancelled before it has an attempt: out of the line for the
\* lock, or with the lock, which it releases leaving health as it was.
CancelledEarly(r) ==
    /\ \/ stage[r] = "refreshing" /\ UNCHANGED healthQueue
       \/ /\ stage[r] = "queued"
          /\ \E i \in 1..Len(healthQueue) :
                healthQueue[i] = r /\ healthQueue' = RemoveAt(healthQueue, i)
    /\ EndWith(r, candidates)
    /\ UNCHANGED freshFor

\* complete or embed returns an answer.
Answered(r) ==
    /\ stage[r] = "calling" /\ r \notin Streamed
    /\ EndWith(r, Recorded(r, "success"))
    /\ UNCHANGED <<healthQueue, freshFor>>

\* A fault of AttemptFails: the attempt is not recorded.
AttemptFailsUnrecorded(r) ==
    /\ stage[r] = "calling"
    /\ Route(r, candidates, excluded[r] \union {on[r]})
    /\ UNCHANGED <<healthQueue, freshFor>>

\* BackendUnavailable before any output: the attempt is recorded as an error
\* and the loop turns to the backends not yet excluded.
AttemptFails(r) ==
    /\ stage[r] = "calling"
    /\ Route(r, Recorded(r, "error"), excluded[r] \union {on[r]})
    /\ UNCHANGED <<healthQueue, freshFor>>

\* Cancellation, or an exception that says nothing of the backend, ends the
\* call of a backend.
CancelledInCall(r) ==
    /\ stage[r] = "calling"
    /\ EndWith(r, Recorded(r, "cancelled"))
    /\ UNCHANGED <<healthQueue, freshFor>>

\* prepare_stream returns: the first chunk has come and the role chunk is ready.
FirstChunk(r) ==
    /\ stage[r] = "calling" /\ r \in Streamed
    /\ stage' = [stage EXCEPT ![r] = "streaming"]
    /\ UNCHANGED <<candidates, on, probe, excluded, outcome, healthQueue, freshFor>>

\* A fault of StreamEnds: another backend is tried in midstream.
StreamEndsRetrying(r) ==
    /\ stage[r] = "streaming"
    /\ Route(r, Recorded(r, "error"), excluded[r] \union {on[r]})
    /\ UNCHANGED <<healthQueue, freshFor>>

\* The relay is over: upstream completed, upstream broke, or the client left.
\* Later cancellations no longer change the outcome.
StreamEnds(r) ==
    /\ stage[r] = "streaming"
    /\ stage' = [stage EXCEPT ![r] = "closing"]
    /\ \E o \in Outcomes : outcome' = [outcome EXCEPT ![r] = o]
    /\ UNCHANGED <<candidates, on, probe, excluded, healthQueue, freshFor>>

\* The finally block of _stream, after the shielded close of upstream.
StreamRecorded(r) ==
    /\ stage[r] = "closing"
    /\ EndWith(r, Recorded(r, outcome[r]))
    /\ UNCHANGED <<healthQueue, freshFor>>

Tick ==
    /\ freshFor > 0 \/ \E b \in Backends : candidates[b].wait > 0
    /\ candidates' = [b \in Backends |-> Later(candidates[b])]
    /\ freshFor' = IF freshFor > 0 THEN freshFor - 1 ELSE 0
    /\ UNCHANGED <<on, probe, stage, excluded, outcome, healthQueue>>

Next ==
    \/ \E r \in Requests :
        \/ BeginFresh(r) \/ BeginStale(r)
        \/ LockGranted(r) \/ HealthArrives(r) \/ CancelledEarly(r)
        \/ Answered(r) \/ AttemptFails(r) \/ CancelledInCall(r)
        \/ FirstChunk(r) \/ StreamEnds(r) \/ StreamRecorded(r)
    \/ Tick

Spec == Init /\ [][Next]_vars

\* Health requests and calls have client timeouts, a stream is bounded by
\* max_tokens, and the event loop runs what is ready.
Fairness ==
    /\ WF_vars(Tick)
    /\ \A r \in Requests :
        /\ WF_vars(LockGranted(r))
        /\ WF_vars(HealthArrives(r))
        /\ WF_vars(Answered(r) \/ AttemptFails(r) \/ FirstChunk(r))
        /\ WF_vars(StreamEnds(r))
        /\ WF_vars(StreamRecorded(r))

FairSpec == Spec /\ Fairness

----------------------------------------------------------------------------
TypeOK ==
    /\ candidates \in [Backends -> Candidate]
    /\ on \in [Requests -> Backends \union {NoBackend}]
    /\ probe \in [Requests -> BOOLEAN]
    /\ stage \in [Requests -> Stages]
    /\ excluded \in [Requests -> SUBSET Backends]
    /\ outcome \in [Requests -> Outcomes]
    /\ healthQueue \in Seq(Requests)
    /\ freshFor \in 0..HealthInterval

\* One round of health requests at a time, whoever is cancelled where, and the
\* line for the lock is exactly the tasks that wait for it.
HealthLockExact ==
    /\ \A r, s \in Requests : stage[r] = "refreshing" /\ stage[s] = "refreshing" => r = s
    /\ \A r \in Requests :
        stage[r] = "queued" <=> \E i \in 1..Len(healthQueue) : healthQueue[i] = r
    /\ \A i, j \in 1..Len(healthQueue) : healthQueue[i] = healthQueue[j] => i = j

\* A request has an attempt in flight exactly while it calls, streams or
\* closes; the attempt is on a backend that serves it and that it has not
\* given up on, so no backend is tried twice.
AttemptsMatchStages == \A r \in Requests :
    /\ on[r] # NoBackend <=> stage[r] \in {"calling", "streaming", "closing"}
    /\ on[r] # NoBackend => on[r] \in Serves[r] \ excluded[r]

\* No request begins a round of health requests while the last results are
\* fresh: waiters let in after a refresh do not repeat it.
RefreshOnlyWhenStale ==
    [][\A r \in Requests :
        stage[r] # "refreshing" /\ stage'[r] = "refreshing" => freshFor = 0]_vars

\* The first backend of a request is chosen on health results younger than the
\* interval.
RoutesOnFreshHealth ==
    [][\A r \in Requests :
        on[r] = NoBackend /\ on'[r] # NoBackend => freshFor' > 0 \/ HealthInterval = 0]_vars

\* Once a request has an attempt, it can only give up the backend for good:
\* the excluded set grows until the request ends, and a stream that has sent
\* its first chunk stays with its backend to the end.
NeverRetriesABackend ==
    [][\A r \in Requests : on[r] # NoBackend /\ on'[r] # on[r] /\ on'[r] # NoBackend =>
        /\ stage[r] = "calling"
        /\ excluded'[r] = excluded[r] \union {on[r]}
        /\ on'[r] \notin excluded'[r]]_vars

\* Every request comes to its end: no waiter is stranded on the health lock by
\* the cancellation of its holder, and the loop over backends terminates.
EveryRequestEnds == \A r \in Requests : stage[r] # "idle" ~> stage[r] = "idle"

\* The service uses the router as Router says: each attempt is started once on
\* an available candidate and finished once, with its own probe flag.
R == INSTANCE Router

RouterSpec == R!Spec
============================================================================
