----------------------------- MODULE Candidates -----------------------------
(***************************************************************************)
(* One BackendCandidate of routing.py and what Router.started and          *)
(* Router.finished do to it, as functions of the record.                   *)
(*                                                                         *)
(* Kept: every field a decision reads.  Left out: the fields of the score  *)
(* (latency, utilization, cost, quality, error rate), which only choose    *)
(* among eligible candidates.                                              *)
(*                                                                         *)
(* retry_at is kept as the ticks that remain until it (`wait`), so that    *)
(* time.monotonic() >= retry_at is wait = 0; `failures` stops at           *)
(* FailureThreshold, the only number it is ever compared with.             *)
(***************************************************************************)
EXTENDS Integers

CONSTANTS
    Backends,          \* candidate names
    Capacity,          \* capacity of each candidate
    FailureThreshold,  \* failure_threshold
    Cooldown           \* cooldown_seconds, in ticks

\* Settings and BackendConfig (config.py) demand all of them positive.
ASSUME CandidatesAssumption ==
    /\ Capacity \in [Backends -> Nat \ {0}]
    /\ FailureThreshold \in Nat \ {0}
    /\ Cooldown \in Nat \ {0}

Candidate ==
    [healthy : BOOLEAN, circuit_open : BOOLEAN, probing : BOOLEAN,
     active : Nat, failures : 0..FailureThreshold, wait : 0..Cooldown]

Outcomes == {"success", "error", "cancelled"}

\* A candidate as create_app builds it; in http mode it starts unhealthy.
NewCandidate(healthy) ==
    [healthy |-> healthy, circuit_open |-> FALSE, probing |-> FALSE,
     active |-> 0, failures |-> 0, wait |-> 0]

----------------------------------------------------------------------------
\* A fault of CircuitReady, for the checks of the checks: a second probe.
CircuitReadyWhileProbing(c) == ~c.circuit_open \/ c.wait = 0

\* _available: a closed circuit, or an open one that is due for its one probe.
CircuitReady(c) == ~c.circuit_open \/ (c.wait = 0 /\ ~c.probing)

\* A fault of Available, off by one at the capacity.
AvailableWhenFull(b, c) == c.healthy /\ CircuitReady(c) /\ c.active <= Capacity[b]

\* _available, as select calls it
Available(b, c) == c.healthy /\ CircuitReady(c) /\ c.active < Capacity[b]

\* A fault of Started: a probe is not counted as load.
StartedUncounted(c) ==
    IF c.circuit_open THEN [c EXCEPT !.probing = TRUE] ELSE [c EXCEPT !.active = @ + 1]

\* started
Started(c) ==
    IF c.circuit_open THEN [c EXCEPT !.active = @ + 1, !.probing = TRUE]
                      ELSE [c EXCEPT !.active = @ + 1]

\* One more failure; the count is kept up to the threshold.
OneMore(n) == IF n < FailureThreshold THEN n + 1 ELSE n

\* Faults of Ended: no end of an attempt, or every end, makes room for a probe.
EndedKeepsProbing(c, wasProbe) == [c EXCEPT !.active = @ - 1]

EndedAlwaysClears(c, wasProbe) == [c EXCEPT !.active = @ - 1, !.probing = FALSE]

\* The part of finished every outcome has: the slot is free, and the end of a
\* probe makes room for the next.
Ended(c, wasProbe) ==
    IF wasProbe THEN [c EXCEPT !.active = @ - 1, !.probing = FALSE]
                ELSE [c EXCEPT !.active = @ - 1]

\* Faults of Success: every success closes the circuit, or none resets the count.
SuccessAlwaysCloses(c, wasProbe) == [c EXCEPT !.failures = 0, !.circuit_open = FALSE]

SuccessKeepsFailures(c, wasProbe) ==
    IF ~c.circuit_open \/ wasProbe THEN [c EXCEPT !.circuit_open = FALSE] ELSE c

\* finished, outcome "success": an attempt that began before the circuit
\* opened says nothing about the backend now.
Success(c, wasProbe) ==
    IF ~c.circuit_open \/ wasProbe
    THEN [c EXCEPT !.failures = 0, !.circuit_open = FALSE]
    ELSE c

\* finished, outcome "error": the circuit opens at the threshold; any error on
\* an open circuit starts the cooldown again.
Error(c) ==
    IF OneMore(c.failures) = FailureThreshold \/ c.circuit_open
    THEN [c EXCEPT !.failures = OneMore(@), !.circuit_open = TRUE, !.wait = Cooldown]
    ELSE [c EXCEPT !.failures = OneMore(@)]

\* finished
Finished(c, outcome, wasProbe) ==
    CASE outcome = "success"   -> Success(Ended(c, wasProbe), wasProbe)
      [] outcome = "error"     -> Error(Ended(c, wasProbe))
      [] outcome = "cancelled" -> Ended(c, wasProbe)

\* One tick of time.monotonic().
Later(c) == [c EXCEPT !.wait = IF @ > 0 THEN @ - 1 ELSE 0]
============================================================================
