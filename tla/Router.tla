------------------------------- MODULE Router -------------------------------
(***************************************************************************)
(* The Router of routing.py with the attempts the service runs through it. *)
(*                                                                         *)
(* service.py calls select and started with no await between them, so the  *)
(* two are one step (Start); so are finished with outcome "error" and the  *)
(* select and started of the retry that follows at once (FailOver).  An    *)
(* attempt may outlive any number of changes of its candidate: the circuit *)
(* may open, be probed and close again while an old attempt is in flight.  *)
(***************************************************************************)
EXTENDS Candidates, FiniteSets

CONSTANTS
    Requests,   \* requests being served
    NoBackend   \* stands for "no attempt in flight"

ASSUME RouterAssumption == IsFiniteSet(Requests) /\ NoBackend \notin Backends

VARIABLES
    candidates,  \* _candidates
    on,          \* the backend a request's attempt in flight was sent to
    probe        \* whether "half_open_probe" is in that attempt's reason codes

vars == <<candidates, on, probe>>

AttemptsOn(b) == {r \in Requests : on[r] = b}

ProbesOn(b) == {r \in AttemptsOn(b) : probe[r]}

----------------------------------------------------------------------------
Init ==
    /\ \E h \in BOOLEAN : candidates = [b \in Backends |-> NewCandidate(h)]
    /\ on = [r \in Requests |-> NoBackend]
    /\ probe = [r \in Requests |-> FALSE]

\* select followed by started, from candidates cs: any available candidate may
\* have the lowest score.
Begin(r, b, cs) ==
    /\ Available(b, cs[b])
    /\ candidates' = [cs EXCEPT ![b] = Started(@)]
    /\ on' = [on EXCEPT ![r] = b]
    /\ probe' = [probe EXCEPT ![r] = cs[b].circuit_open]

\* _record of r's attempt: finished with the flag remembered in the decision.
Recorded(r, outcome) ==
    [candidates EXCEPT ![on[r]] = Finished(@, outcome, probe[r])]

\* The candidates once the results of one round of health requests are stored.
WithHealth(h) == [b \in Backends |-> [candidates[b] EXCEPT !.healthy = h[b]]]

\* The first attempt of a request that found health fresh.
Start(r, b) == on[r] = NoBackend /\ Begin(r, b, candidates)

\* The first attempt of the request that has just refreshed health: it goes on
\* to select without giving way.
RefreshAndStart(r, b, h) == on[r] = NoBackend /\ Begin(r, b, WithHealth(h))

\* An attempt ends and with it the request.
Finish(r, outcome) ==
    /\ on[r] # NoBackend
    /\ candidates' = Recorded(r, outcome)
    /\ on' = [on EXCEPT ![r] = NoBackend]
    /\ probe' = [probe EXCEPT ![r] = FALSE]

\* An attempt fails before any output and another backend is tried at once.
FailOver(r, b) ==
    /\ on[r] # NoBackend /\ b # on[r]
    /\ Begin(r, b, Recorded(r, "error"))

\* A refresh of health that no attempt follows: from the readiness probe, the
\* start of the application, or a request that finds no eligible backend.
SetHealth(h) ==
    /\ candidates' = WithHealth(h)
    /\ UNCHANGED <<on, probe>>

\* Time passes, for all cooldowns together.
Tick ==
    /\ \E b \in Backends : candidates[b].wait > 0
    /\ candidates' = [b \in Backends |-> Later(candidates[b])]
    /\ UNCHANGED <<on, probe>>

Next ==
    \/ \E r \in Requests, b \in Backends : Start(r, b) \/ FailOver(r, b)
    \/ \E r \in Requests, outcome \in Outcomes : Finish(r, outcome)
    \/ \E h \in [Backends -> BOOLEAN] :
        SetHealth(h) \/ \E r \in Requests, b \in Backends : RefreshAndStart(r, b, h)
    \/ Tick

Spec == Init /\ [][Next]_vars

\* Attempts end because the HTTP client times out (timeout_seconds), and time
\* goes on.  Nothing is assumed of their outcome, of health or of new requests.
Fairness ==
    /\ WF_vars(Tick)
    /\ \A r \in Requests : WF_vars(\E outcome \in Outcomes : Finish(r, outcome))

FairSpec == Spec /\ Fairness

----------------------------------------------------------------------------
TypeOK ==
    /\ candidates \in [Backends -> Candidate]
    /\ on \in [Requests -> Backends \union {NoBackend}]
    /\ probe \in [Requests -> BOOLEAN]

\* The load of a backend is exactly its attempts in flight, over every mix of
\* outcomes and retries, and never exceeds its capacity.
LoadAccounting == \A b \in Backends :
    /\ candidates[b].active = Cardinality(AttemptsOn(b))
    /\ candidates[b].active <= Capacity[b]

\* `probing` says that exactly one half-open probe is in flight, and only an
\* open circuit is probed: "single half-open recovery probes" (README).
SingleProbe == \A b \in Backends :
    /\ candidates[b].probing <=> ProbesOn(b) # {}
    /\ \A r, s \in ProbesOn(b) : r = s
    /\ candidates[b].probing => candidates[b].circuit_open

\* A circuit is open exactly when the failures counted since the last success
\* that counts reach the threshold: no path closes it with the count standing,
\* or leaves it closed at the threshold.
CircuitMirrorsFailures == \A b \in Backends :
    candidates[b].circuit_open <=> candidates[b].failures = FailureThreshold

\* Attempts older than the opening of the circuit can neither close it nor end
\* its probe: both happen only in the step that ends the probe itself.
OnlyTheProbeDecides ==
    [][\A b \in Backends :
        \/ candidates[b].circuit_open /\ ~candidates[b].circuit_open'
        \/ candidates[b].probing /\ ~candidates[b].probing'
        => \E r \in ProbesOn(b) : on'[r] # b]_vars

\* An open circuit is always offered for a probe again: no outcome of a probe
\* or of a late attempt leaves it closed to traffic for ever.
CircuitRecovers == \A b \in Backends :
    candidates[b].circuit_open ~> CircuitReady(candidates[b])
============================================================================
