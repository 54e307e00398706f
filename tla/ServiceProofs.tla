--------------------------- MODULE ServiceProofs ---------------------------
(***************************************************************************)
(* Proofs about Service, for any number of requests and backends and any   *)
(* health interval: the line for the health lock, the attempts of a        *)
(* request, and that the service uses the router as Router says.  The last *)
(* gives it every invariant that RouterProofs proves of Router.            *)
(***************************************************************************)
EXTENDS Service, SequenceFacts

----------------------------------------------------------------------------
\* R has its own copies of the operators of Candidates.
LEMMA SameOperators ==
    /\ \A b, c : R!Available(b, c) <=> Available(b, c)
    /\ \A c : R!Started(c) = Started(c) /\ R!Later(c) = Later(c)
    /\ \A c, o, p : R!Finished(c, o, p) = Finished(c, o, p)
    /\ \A h : R!NewCandidate(h) = NewCandidate(h)
    /\ R!Outcomes = Outcomes
    /\ R!Candidate = Candidate
BY DEF R!Available, Available, R!CircuitReady, CircuitReady, R!Started, Started, R!Later, Later,
       R!Finished, Finished, R!Success, Success, R!Error, Error, R!Ended, Ended,
       R!OneMore, OneMore, R!NewCandidate, NewCandidate, R!Outcomes, Outcomes,
       R!Candidate, Candidate

\* That the load never goes below zero is for Router to show; until then it is
\* an integer.
Loose ==
    [healthy : BOOLEAN, circuit_open : BOOLEAN, probing : BOOLEAN,
     active : Int, failures : 0..FailureThreshold, wait : 0..Cooldown]

\* started on a candidate that select offered.
LEMMA LooseStarted ==
    ASSUME NEW c \in Loose
    PROVE  Started(c) \in Loose
<1>1. c.active + 1 \in Int
  BY DEF Loose
<1>2. CASE c.circuit_open
  <2>1. Started(c) = [c EXCEPT !.active = c.active + 1, !.probing = TRUE]
    BY <1>2 DEF Started
  <2> QED
    BY <1>1, <2>1, Zenon DEF Loose
<1>3. CASE ~c.circuit_open
  <2>1. Started(c) = [c EXCEPT !.active = c.active + 1]
    BY <1>3 DEF Started
  <2> QED
    BY <1>1, <2>1, Zenon DEF Loose
<1> QED
  BY <1>2, <1>3

\* finished on a candidate with an attempt in flight.
LEMMA LooseFinished ==
    ASSUME NEW c \in Loose, NEW o \in Outcomes, NEW p \in BOOLEAN
    PROVE  Finished(c, o, p) \in Loose
<1> USE CandidatesAssumption
<1> DEFINE e == Ended(c, p)
<1>1. e \in Loose
  <2>1. c.active - 1 \in Int
    BY DEF Loose
  <2>2. CASE p
    <3>1. e = [c EXCEPT !.active = c.active - 1, !.probing = FALSE]
      BY <2>2 DEF Ended
    <3> QED
      BY <2>1, <3>1, Zenon DEF Loose
  <2>3. CASE ~p
    <3>1. e = [c EXCEPT !.active = c.active - 1]
      BY <2>3 DEF Ended
    <3> QED
      BY <2>1, <3>1, Zenon DEF Loose
  <2> QED
    BY <2>2, <2>3
<1>2. Finished(c, o, p) \in {Success(e, p), Error(e), e}
  BY DEF Finished, Outcomes
<1> HIDE DEF e
<1>3. Success(e, p) \in Loose
  <2>1. 0 \in 0..FailureThreshold
    OBVIOUS
  <2>2. [e EXCEPT !.failures = 0, !.circuit_open = FALSE] \in Loose
    BY <1>1, <2>1, Zenon DEF Loose
  <2> QED
    BY <1>1, <2>2 DEF Success
<1>4. Error(e) \in Loose
  <2>1. e.failures \in 0..FailureThreshold
    BY <1>1 DEF Loose
  <2>2. OneMore(e.failures) \in 0..FailureThreshold /\ Cooldown \in 0..Cooldown
    BY <2>1 DEF OneMore
  <2>3. [e EXCEPT !.failures = OneMore(e.failures), !.circuit_open = TRUE, !.wait = Cooldown] \in Loose
    BY <1>1, <2>2, Zenon DEF Loose
  <2>4. [e EXCEPT !.failures = OneMore(e.failures)] \in Loose
    BY <1>1, <2>2, Zenon DEF Loose
  <2> QED
    BY <2>3, <2>4 DEF Error
<1> QED
  BY <1>1, <1>2, <1>3, <1>4

\* A tick of the cooldown.
LEMMA LooseLater ==
    ASSUME NEW c \in Loose
    PROVE  Later(c) \in Loose /\ (~(c.wait > 0) => Later(c) = c)
<1> USE CandidatesAssumption
<1>1. c.wait \in 0..Cooldown
  BY DEF Loose
<1>2. (IF c.wait > 0 THEN c.wait - 1 ELSE 0) \in 0..Cooldown
  BY <1>1
<1>3. Later(c) = [c EXCEPT !.wait = IF c.wait > 0 THEN c.wait - 1 ELSE 0]
  BY DEF Later
<1>4. Later(c) \in Loose
  BY <1>2, <1>3, Zenon DEF Loose
<1>5. ASSUME ~(c.wait > 0) PROVE Later(c) = c
  <2>1. c.wait = 0
    BY <1>1, <1>5
  <2>2. Later(c) = [c EXCEPT !.wait = 0]
    BY <1>3, <1>5
  <2> QED
    BY <2>1, <2>2 DEF Loose
<1> QED
  BY <1>4, <1>5

\* New results of health.
LEMMA LooseHealth ==
    ASSUME NEW c \in Loose, NEW h \in BOOLEAN
    PROVE  [c EXCEPT !.healthy = h] \in Loose
BY Zenon DEF Loose

----------------------------------------------------------------------------
\* The types of all that Route and EndWith change.
LooseType ==
    /\ candidates \in [Backends -> Loose]
    /\ on \in [Requests -> Backends \union {NoBackend}]
    /\ probe \in [Requests -> BOOLEAN]
    /\ stage \in [Requests -> Stages]
    /\ excluded \in [Requests -> SUBSET Backends]
    /\ outcome \in [Requests -> Outcomes]

LineType == healthQueue \in Seq(Requests) /\ freshFor \in 0..HealthInterval

\* The flag of an attempt that is over is down, so that one that ends without
\* an attempt leaves the router as it is.
NoStaleProbe == \A r \in Requests : on[r] = NoBackend => ~probe[r]

Attempts == LooseType /\ AttemptsMatchStages /\ NoStaleProbe

\* AttemptsMatchStages and HealthLockExact are inductive, but that the service
\* implements Router also needs that no flag of a probe is left behind.
IInv == Attempts /\ LineType /\ HealthLockExact

\* No request has begun.
LEMMA InitIInv == Init => IInv
<1> SUFFICES ASSUME Init PROVE IInv
  OBVIOUS
<1> USE CandidatesAssumption, ServiceAssumption DEF Init
<1>1. \A h \in BOOLEAN : NewCandidate(h) \in Loose
  BY DEF NewCandidate, Loose
<1>2. candidates \in [Backends -> Loose]
  BY <1>1
<1>3. LooseType
  BY <1>2 DEF LooseType, Stages, Outcomes
<1>4. AttemptsMatchStages /\ NoStaleProbe
  BY DEF AttemptsMatchStages, NoStaleProbe
<1>5. LineType /\ HealthLockExact
  BY DEF LineType, HealthLockExact
<1> QED
  BY <1>3, <1>4, <1>5 DEF IInv, Attempts

\* A request that is over leaves nothing behind.
LEMMA EndKeeps ==
    ASSUME Attempts, NEW r \in Requests, NEW cs \in [Backends -> Loose], EndWith(r, cs)
    PROVE  Attempts' /\ stage' = [stage EXCEPT ![r] = "idle"]
<1>1. LooseType'
  BY DEF Attempts, LooseType, EndWith, Stages, Outcomes
<1>2. AttemptsMatchStages' /\ NoStaleProbe'
  BY DEF Attempts, LooseType, AttemptsMatchStages, NoStaleProbe, EndWith
<1> QED
  BY <1>1, <1>2 DEF Attempts, EndWith

\* The first turn of the loop or the next one.
LEMMA RouteKeeps ==
    ASSUME Attempts, NEW r \in Requests, NEW cs \in [Backends -> Loose],
           NEW ex \in SUBSET Backends, Route(r, cs, ex)
    PROVE  Attempts' /\ \E s \in {"calling", "idle"} : stage' = [stage EXCEPT ![r] = s]
<1> USE ServiceAssumption
<1>1. ASSUME NEW b \in Eligible(r, cs, ex),
             candidates' = [cs EXCEPT ![b] = Started(@)],
             on' = [on EXCEPT ![r] = b],
             probe' = [probe EXCEPT ![r] = cs[b].circuit_open],
             stage' = [stage EXCEPT ![r] = "calling"],
             excluded' = [excluded EXCEPT ![r] = ex],
             outcome' = outcome
      PROVE  Attempts'
  <2>1. b \in Backends /\ b \in Serves[r] \ ex /\ b # NoBackend
    BY DEF Eligible
  <2>2. Started(cs[b]) \in Loose /\ cs[b].circuit_open \in BOOLEAN
    BY <2>1, LooseStarted DEF Loose
  <2>3. LooseType'
    BY <1>1, <2>1, <2>2 DEF Attempts, LooseType, Stages
  <2>4. AttemptsMatchStages' /\ NoStaleProbe'
    BY <1>1, <2>1 DEF Attempts, LooseType, AttemptsMatchStages, NoStaleProbe
  <2> QED
    BY <2>3, <2>4 DEF Attempts
<1>2. CASE EndWith(r, cs)
  BY <1>2, EndKeeps
<1> QED
  BY <1>1, <1>2 DEF Route

\* What _record makes of the candidates.
LEMMA RecordedLoose ==
    ASSUME Attempts, NEW r \in Requests, on[r] # NoBackend, NEW o \in Outcomes
    PROVE  Recorded(r, o) \in [Backends -> Loose]
<1>1. on[r] \in Backends /\ probe[r] \in BOOLEAN /\ candidates[on[r]] \in Loose
  BY DEF Attempts, LooseType
<1>2. Finished(candidates[on[r]], o, probe[r]) \in Loose
  BY <1>1, LooseFinished
<1> QED
  BY <1>2 DEF Attempts, LooseType, Recorded

\* A round of health results for all candidates.
LEMMA HealthLoose ==
    ASSUME Attempts, NEW h \in [Backends -> BOOLEAN]
    PROVE  [b \in Backends |-> [candidates[b] EXCEPT !.healthy = h[b]]] \in [Backends -> Loose]
<1>1. \A b \in Backends : [candidates[b] EXCEPT !.healthy = h[b]] \in Loose
  BY LooseHealth DEF Attempts, LooseType
<1> QED
  BY <1>1

\* A step of r that has nothing to do with the lock before it or after it.
LEMMA LockKeeps ==
    ASSUME LooseType, LineType, HealthLockExact, NEW r \in Requests, NEW s \in Stages,
           stage' = [stage EXCEPT ![r] = s], s \notin {"queued", "refreshing"},
           stage[r] # "queued", healthQueue' = healthQueue
    PROVE  HealthLockExact'
BY DEF LooseType, LineType, HealthLockExact

\* The oldest waiter leaves the line and with it the stage "queued".
LEMMA LockAfterHead ==
    ASSUME LooseType, LineType, HealthLockExact, NEW r \in Requests, NEW s \in Stages \ {"queued"},
           stage[r] = "queued", Head(healthQueue) = r, ~HealthLocked,
           stage' = [stage EXCEPT ![r] = s], healthQueue' = Tail(healthQueue)
    PROVE  HealthLockExact'
<1>1. PICK k \in 1..Len(healthQueue) : healthQueue[k] = r
  BY DEF HealthLockExact
<1>2. healthQueue \in Seq(Requests) /\ healthQueue # <<>> /\ Len(healthQueue) \in Nat
  BY <1>1 DEF LineType
<1>3. /\ healthQueue' \in Seq(Requests) /\ Len(healthQueue') = Len(healthQueue) - 1
      /\ \A i \in 1..Len(healthQueue') : healthQueue'[i] = healthQueue[i + 1]
      /\ healthQueue[1] = r
  BY <1>2
<1>4. \A q, t \in Requests : stage'[q] = "refreshing" /\ stage'[t] = "refreshing" => q = t
  BY DEF LooseType, HealthLocked
<1>5. \A i, j \in 1..Len(healthQueue') : healthQueue'[i] = healthQueue'[j] => i = j
  <2> TAKE i, j \in 1..Len(healthQueue')
  <2>1. i + 1 \in 1..Len(healthQueue) /\ j + 1 \in 1..Len(healthQueue)
    BY <1>2, <1>3
  <2> QED
    BY <1>3, <2>1 DEF HealthLockExact
<1>6. ASSUME NEW q \in Requests
      PROVE  stage'[q] = "queued" <=> \E i \in 1..Len(healthQueue') : healthQueue'[i] = q
  <2>1. CASE q = r
    <3>1. stage'[q] # "queued"
      BY <2>1 DEF LooseType
    <3>2. ASSUME NEW i \in 1..Len(healthQueue') PROVE healthQueue'[i] # r
      <4>1. i + 1 \in 1..Len(healthQueue) /\ i + 1 # 1 /\ 1 \in 1..Len(healthQueue)
        BY <1>2, <1>3
      <4> QED
        BY <1>3, <4>1 DEF HealthLockExact
    <3> QED
      BY <2>1, <3>1, <3>2
  <2>2. CASE q # r
    <3>1. stage'[q] = stage[q]
      BY <2>2 DEF LooseType
    <3>2. (\E i \in 1..Len(healthQueue) : healthQueue[i] = q)
              <=> \E i \in 1..Len(healthQueue') : healthQueue'[i] = q
      <4>1. ASSUME NEW i \in 1..Len(healthQueue), healthQueue[i] = q
            PROVE  \E j \in 1..Len(healthQueue') : healthQueue'[j] = q
        <5>1. i - 1 \in 1..Len(healthQueue') /\ i - 1 + 1 = i
          BY <1>2, <1>3, <2>2, <4>1
        <5> QED
          BY <1>3, <4>1, <5>1
      <4>2. ASSUME NEW j \in 1..Len(healthQueue'), healthQueue'[j] = q
            PROVE  \E i \in 1..Len(healthQueue) : healthQueue[i] = q
        <5>1. j + 1 \in 1..Len(healthQueue)
          BY <1>2, <1>3
        <5> QED
          BY <1>3, <4>2, <5>1
      <4> QED
        BY <4>1, <4>2
    <3> QED
      BY <3>1, <3>2 DEF HealthLockExact
  <2> QED
    BY <2>1, <2>2
<1> QED
  BY <1>4, <1>5, <1>6 DEF HealthLockExact

\* A waiter that is cancelled takes its place out of the line.
LEMMA LockAfterCancel ==
    ASSUME LooseType, LineType, HealthLockExact, NEW r \in Requests,
           NEW i \in 1..Len(healthQueue), healthQueue[i] = r, healthQueue' = RemoveAt(healthQueue, i),
           stage' = [stage EXCEPT ![r] = "idle"]
    PROVE  HealthLockExact' /\ healthQueue' \in Seq(Requests)
<1>1. healthQueue \in Seq(Requests) /\ \A j, k \in 1..Len(healthQueue) : healthQueue[j] = healthQueue[k] => j = k
  BY DEF LineType, HealthLockExact
<1>2. /\ \A j, k \in 1..Len(healthQueue') : healthQueue'[j] = healthQueue'[k] => j = k
      /\ \A q \in Requests : (\E j \in 1..Len(healthQueue') : healthQueue'[j] = q)
                            <=> q # r /\ \E j \in 1..Len(healthQueue) : healthQueue[j] = q
  <2>1. healthQueue \in Seq(Requests) /\ i \in 1..Len(healthQueue) /\ healthQueue' = RemoveAt(healthQueue, i)
    BY <1>1
  <2>2. \A j, k \in 1..Len(healthQueue) : healthQueue[j] = healthQueue[k] => j = k
    BY <1>1
  <2>3. /\ \A j, k \in 1..Len(RemoveAt(healthQueue, i)) :
              RemoveAt(healthQueue, i)[j] = RemoveAt(healthQueue, i)[k] => j = k
        /\ \A x : (\E j \in 1..Len(RemoveAt(healthQueue, i)) : RemoveAt(healthQueue, i)[j] = x)
                  <=> x # healthQueue[i] /\ \E j \in 1..Len(healthQueue) : healthQueue[j] = x
    BY ONLY <2>1, <2>2, RemoveAtElements
  <2> QED
    BY <2>1, <2>3
<1>3. healthQueue' \in Seq(Requests)
  BY <1>1, RemoveAtFacts
<1>4. \A q, t \in Requests : stage'[q] = "refreshing" /\ stage'[t] = "refreshing" => q = t
  BY DEF LooseType, HealthLockExact
<1>5. \A q \in Requests : stage'[q] = "queued" <=> \E j \in 1..Len(healthQueue') : healthQueue'[j] = q
  BY <1>2 DEF LooseType, HealthLockExact
<1> QED
  BY <1>2, <1>3, <1>4, <1>5 DEF HealthLockExact

----------------------------------------------------------------------------
\* Every step of a request keeps the invariant.
LEMMA StepIInv ==
    ASSUME IInv, Next
    PROVE  IInv'
<1> USE ServiceAssumption
<1>0. Attempts /\ LooseType /\ LineType /\ HealthLockExact
  BY DEF IInv, Attempts
<1>1. {"idle", "queued", "refreshing", "calling", "streaming", "closing"} = Stages
  BY DEF Stages
\* A step of r that is a turn of its loop or its end, away from the lock.
<1>2. ASSUME NEW r \in Requests, NEW s \in {"calling", "idle"}, stage' = [stage EXCEPT ![r] = s],
             stage[r] # "queued", Attempts', healthQueue' = healthQueue,
             freshFor' \in 0..HealthInterval
      PROVE  IInv'
  <2>1. HealthLockExact'
    BY <1>0, <1>1, <1>2, LockKeeps
  <2> QED
    BY <1>0, <1>2, <2>1 DEF IInv, LineType
<1>3. ASSUME NEW r \in Requests, NEW cs \in [Backends -> Loose], EndWith(r, cs),
             stage[r] # "queued", healthQueue' = healthQueue, freshFor' = freshFor
      PROVE  IInv'
  <2>1. Attempts' /\ stage' = [stage EXCEPT ![r] = "idle"]
    BY <1>0, <1>3, EndKeeps
  <2> QED
    BY <1>0, <1>2, <1>3, <2>1 DEF LineType
<1>4. ASSUME NEW r \in Requests, NEW cs \in [Backends -> Loose], NEW ex \in SUBSET Backends,
             Route(r, cs, ex),
             stage[r] # "queued", healthQueue' = healthQueue, freshFor' \in 0..HealthInterval
      PROVE  IInv'
  <2>1. Attempts' /\ \E s \in {"calling", "idle"} : stage' = [stage EXCEPT ![r] = s]
    BY <1>0, <1>4, RouteKeeps
  <2> QED
    BY <1>2, <1>4, <2>1
<1>5. candidates \in [Backends -> Loose] /\ {} \in SUBSET Backends
  BY <1>0 DEF LooseType
<1>6. ASSUME NEW r \in Requests, BeginFresh(r) PROVE IInv'
  BY <1>0, <1>4, <1>5, <1>6 DEF BeginFresh, LineType
\* A step that moves r's stage alone, between stages without an attempt or with one.
<1>7. ASSUME NEW r \in Requests, NEW s \in Stages, stage' = [stage EXCEPT ![r] = s],
             s \in {"calling", "streaming", "closing"} <=> stage[r] \in {"calling", "streaming", "closing"},
             outcome' \in [Requests -> Outcomes],
             UNCHANGED <<candidates, on, probe, excluded>>
      PROVE  Attempts'
  BY <1>0, <1>7 DEF Attempts, LooseType, AttemptsMatchStages, NoStaleProbe
<1>8. ASSUME NEW r \in Requests, BeginStale(r) PROVE IInv'
  <2>1. PICK s \in {"refreshing", "queued"} : stage' = [stage EXCEPT ![r] = s]
    BY <1>8 DEF BeginStale
  <2>2. Attempts'
    BY <1>0, <1>1, <1>7, <1>8, <2>1 DEF BeginStale, LooseType
  <2>3. CASE stage' = [stage EXCEPT ![r] = "refreshing"] /\ healthQueue' = healthQueue /\ ~HealthLocked
    <3>1. HealthLockExact'
      BY <1>0, <1>8, <2>3 DEF BeginStale, LooseType, HealthLockExact, HealthLocked
    <3> QED
      BY <1>0, <1>8, <2>2, <2>3, <3>1 DEF BeginStale, IInv, LineType
  <2>4. CASE stage' = [stage EXCEPT ![r] = "queued"] /\ healthQueue' = Append(healthQueue, r)
    <3>1. /\ healthQueue \in Seq(Requests) /\ Len(healthQueue) \in Nat
          /\ healthQueue' \in Seq(Requests) /\ Len(healthQueue') = Len(healthQueue) + 1
          /\ healthQueue'[Len(healthQueue) + 1] = r
          /\ \A i \in 1..Len(healthQueue) : healthQueue'[i] = healthQueue[i]
      BY <1>0, <2>4 DEF LineType
    <3>2. \A i \in 1..Len(healthQueue) : healthQueue[i] # r
      BY <1>0, <1>8 DEF BeginStale, HealthLockExact
    <3>3. \A i \in 1..Len(healthQueue') : i \in 1..Len(healthQueue) \/ i = Len(healthQueue) + 1
      BY <3>1
    <3>4. \A i, j \in 1..Len(healthQueue') : healthQueue'[i] = healthQueue'[j] => i = j
      BY <1>0, <3>1, <3>2, <3>3 DEF HealthLockExact
    <3>5. \A q \in Requests : stage'[q] = "queued" <=> \E i \in 1..Len(healthQueue') : healthQueue'[i] = q
      <4> TAKE q \in Requests
      <4>1. CASE q = r
        BY <1>0, <2>4, <3>1, <4>1 DEF LooseType
      <4>2. CASE q # r
        BY <1>0, <2>4, <3>1, <3>3, <4>2 DEF LooseType, HealthLockExact
      <4> QED
        BY <4>1, <4>2
    <3>6. \A q, t \in Requests : stage'[q] = "refreshing" /\ stage'[t] = "refreshing" => q = t
      BY <1>0, <2>4 DEF LooseType, HealthLockExact
    <3>7. HealthLockExact'
      BY <3>4, <3>5, <3>6 DEF HealthLockExact
    <3> QED
      BY <1>0, <1>8, <2>2, <3>1, <3>7 DEF BeginStale, IInv, LineType
  <2> QED
    BY <1>8, <2>3, <2>4 DEF BeginStale
<1>9. ASSUME NEW r \in Requests, LockGranted(r) PROVE IInv'
  <2>1. PICK s \in {"refreshing", "calling", "idle"} : stage' = [stage EXCEPT ![r] = s] /\ Attempts'
    <3>1. CASE /\ stage' = [stage EXCEPT ![r] = "refreshing"]
               /\ UNCHANGED <<candidates, on, probe, excluded, outcome>>
      <4>1. Attempts'
        BY <1>0, <1>1, <1>7, <1>9, <3>1 DEF LockGranted, LooseType
      <4> QED
        BY <3>1, <4>1
    <3>2. CASE Route(r, candidates, {})
      BY <1>0, <1>5, <3>2, RouteKeeps
    <3> QED
      BY <1>9, <3>1, <3>2 DEF LockGranted
  <2>2. HealthLockExact'
    BY <1>0, <1>1, <1>9, <2>1, LockAfterHead DEF LockGranted
  <2>3. healthQueue' \in Seq(Requests)
    <3>1. healthQueue # <<>>
      BY <1>0, <1>9 DEF LockGranted, HealthLockExact
    <3> QED
      BY <1>0, <1>9, <3>1 DEF LockGranted, LineType
  <2> QED
    BY <1>0, <1>9, <2>1, <2>2, <2>3 DEF LockGranted, IInv, LineType
<1>10. ASSUME NEW r \in Requests, HealthArrives(r) PROVE IInv'
  <2>1. PICK h \in [Backends -> BOOLEAN] :
          Route(r, [b \in Backends |-> [candidates[b] EXCEPT !.healthy = h[b]]], {})
    BY <1>10 DEF HealthArrives
  <2>2. [b \in Backends |-> [candidates[b] EXCEPT !.healthy = h[b]]] \in [Backends -> Loose]
    BY <1>0, HealthLoose
  <2>3. stage[r] # "queued" /\ healthQueue' = healthQueue /\ freshFor' \in 0..HealthInterval
    BY <1>10 DEF HealthArrives
  <2> QED
    BY <1>4, <1>5, <2>1, <2>2, <2>3
<1>11. ASSUME NEW r \in Requests, CancelledEarly(r) PROVE IInv'
  <2>1. CASE stage[r] = "refreshing" /\ UNCHANGED healthQueue
    BY <1>3, <1>5, <1>11, <2>1 DEF CancelledEarly
  <2>2. CASE \E i \in 1..Len(healthQueue) :
                healthQueue[i] = r /\ healthQueue' = RemoveAt(healthQueue, i)
    <3>1. Attempts' /\ stage' = [stage EXCEPT ![r] = "idle"]
      BY <1>0, <1>5, <1>11, EndKeeps DEF CancelledEarly
    <3>2. HealthLockExact' /\ healthQueue' \in Seq(Requests)
      BY <1>0, <2>2, <3>1, LockAfterCancel
    <3> QED
      BY <1>0, <1>11, <3>1, <3>2 DEF CancelledEarly, IInv, LineType
  <2> QED
    BY <1>11, <2>1, <2>2 DEF CancelledEarly
<1>12. ASSUME NEW r \in Requests, Answered(r) \/ CancelledInCall(r) \/ StreamRecorded(r) PROVE IInv'
  <2>1. on[r] # NoBackend /\ stage[r] # "queued" /\ healthQueue' = healthQueue /\ freshFor' = freshFor
    BY <1>0, <1>12 DEF Answered, CancelledInCall, StreamRecorded, Attempts, AttemptsMatchStages
  <2>2. PICK o \in Outcomes : EndWith(r, Recorded(r, o))
    BY <1>0, <1>12 DEF Answered, CancelledInCall, StreamRecorded, LooseType, Outcomes
  <2>3. Recorded(r, o) \in [Backends -> Loose]
    BY <1>0, <2>1, RecordedLoose
  <2> QED
    BY <1>3, <2>1, <2>2, <2>3
<1>13. ASSUME NEW r \in Requests, AttemptFails(r) PROVE IInv'
  <2>1. /\ on[r] \in Backends /\ on[r] # NoBackend /\ stage[r] # "queued"
        /\ healthQueue' = healthQueue /\ freshFor' \in 0..HealthInterval
        /\ excluded[r] \union {on[r]} \in SUBSET Backends
    BY <1>0, <1>13 DEF AttemptFails, Attempts, AttemptsMatchStages, LooseType, LineType
  <2>2. Recorded(r, "error") \in [Backends -> Loose]
    BY <1>0, <2>1, RecordedLoose DEF Outcomes
  <2>3. Route(r, Recorded(r, "error"), excluded[r] \union {on[r]})
    BY <1>13 DEF AttemptFails
  <2> QED
    BY <1>4, <2>1, <2>2, <2>3
<1>14. ASSUME NEW r \in Requests, FirstChunk(r) \/ StreamEnds(r) PROVE IInv'
  <2>1. PICK s \in {"streaming", "closing"} : stage' = [stage EXCEPT ![r] = s]
    BY <1>14 DEF FirstChunk, StreamEnds
  <2>2. Attempts'
    <3>1. outcome' \in [Requests -> Outcomes] /\ UNCHANGED <<candidates, on, probe, excluded>>
      BY <1>0, <1>14 DEF FirstChunk, StreamEnds, LooseType
    <3>2. stage[r] \in {"calling", "streaming"}
      BY <1>14 DEF FirstChunk, StreamEnds
    <3> QED
      BY <1>1, <1>7, <2>1, <3>1, <3>2
  <2>3. HealthLockExact'
    BY <1>0, <1>1, <1>14, <2>1, LockKeeps DEF FirstChunk, StreamEnds
  <2> QED
    BY <1>0, <1>14, <2>2, <2>3 DEF FirstChunk, StreamEnds, IInv, LineType
<1>15. CASE Tick
  <2>1. candidates' \in [Backends -> Loose]
    BY <1>5, <1>15, LooseLater DEF Tick
  <2>2. freshFor' \in 0..HealthInterval
    BY <1>0, <1>15 DEF Tick, LineType
  <2>3. UNCHANGED <<on, probe, stage, excluded, outcome, healthQueue>>
    BY <1>15 DEF Tick
  <2> QED
    BY <1>0, <2>1, <2>2, <2>3
       DEF IInv, Attempts, LooseType, AttemptsMatchStages, NoStaleProbe, LineType, HealthLockExact
<1> QED
  BY <1>6, <1>8, <1>9, <1>10, <1>11, <1>12, <1>13, <1>14, <1>15 DEF Next


----------------------------------------------------------------------------
\* A request that is over without an attempt is nothing to the router.
LEMMA EndOfNothing ==
    ASSUME Attempts, NEW r \in Requests, on[r] = NoBackend, EndWith(r, candidates)
    PROVE  UNCHANGED <<candidates, on, probe>>
<1>1. probe[r] = FALSE
  BY DEF Attempts, NoStaleProbe, LooseType
<1> QED
  BY <1>1 DEF Attempts, LooseType, EndWith

\* The end of an attempt is recorded once, with the flag it was started with.
LEMMA EndOfAttempt ==
    ASSUME NEW r \in Requests, on[r] # NoBackend, NEW o \in Outcomes, EndWith(r, Recorded(r, o))
    PROVE  R!Next
<1>1. Recorded(r, o) = R!Recorded(r, o)
  BY SameOperators DEF Recorded, R!Recorded
<1>2. R!Finish(r, o)
  BY <1>1 DEF EndWith, R!Finish
<1> QED
  BY <1>2, SameOperators DEF R!Next

\* Every step of a request is one of the router, or the router sees none of it.
LEMMA ImplementsStep ==
    ASSUME IInv, Next
    PROVE  R!Next \/ UNCHANGED R!vars
<1> USE DEF R!vars
<1>0. Attempts /\ LooseType /\ AttemptsMatchStages /\ {"success", "error", "cancelled"} = Outcomes
  BY DEF IInv, Attempts, Outcomes
\* The first turn of the loop.
<1>1. ASSUME NEW r \in Requests, on[r] = NoBackend, Route(r, candidates, {})
      PROVE  R!Next \/ UNCHANGED <<candidates, on, probe>>
  <2>1. CASE EndWith(r, candidates)
    BY <1>0, <1>1, <2>1, EndOfNothing
  <2>2. CASE \E b \in Backends : R!Start(r, b)
    BY <2>2 DEF R!Next
  <2>3. Eligible(r, candidates, {}) \subseteq Backends
    BY ServiceAssumption DEF Eligible
  <2> QED
    BY <1>1, <2>1, <2>2, <2>3, SameOperators DEF Route, Eligible, R!Start, R!Begin
<1>2. ASSUME NEW r \in Requests, BeginFresh(r) \/ LockGranted(r)
      PROVE  R!Next \/ UNCHANGED <<candidates, on, probe>>
  <2>1. on[r] = NoBackend
    BY <1>0, <1>2 DEF BeginFresh, LockGranted, AttemptsMatchStages
  <2> QED
    BY <1>1, <1>2, <2>1 DEF BeginFresh, LockGranted
<1>3. ASSUME NEW r \in Requests, HealthArrives(r)
      PROVE  R!Next \/ UNCHANGED <<candidates, on, probe>>
  <2>1. on[r] = NoBackend
    BY <1>0, <1>3 DEF HealthArrives, AttemptsMatchStages
  <2>2. PICK h \in [Backends -> BOOLEAN] : Route(r, R!WithHealth(h), {})
    BY <1>3 DEF HealthArrives, R!WithHealth
  <2>3. CASE EndWith(r, R!WithHealth(h))
    <3>1. probe[r] = FALSE
      BY <1>0, <2>1 DEF Attempts, NoStaleProbe, LooseType
    <3>2. R!SetHealth(h)
      BY <1>0, <2>1, <2>3, <3>1 DEF LooseType, EndWith, R!SetHealth
    <3> QED
      BY <3>2 DEF R!Next
  <2>4. CASE \E b \in Backends : R!RefreshAndStart(r, b, h)
    BY <2>4 DEF R!Next
  <2>5. Eligible(r, R!WithHealth(h), {}) \subseteq Backends
    BY ServiceAssumption DEF Eligible
  <2> QED
    BY <2>1, <2>2, <2>3, <2>4, <2>5, SameOperators DEF Route, Eligible, R!RefreshAndStart, R!Begin
<1>4. ASSUME NEW r \in Requests, CancelledEarly(r)
      PROVE  UNCHANGED <<candidates, on, probe>>
  <2>1. on[r] = NoBackend
    BY <1>0, <1>4 DEF CancelledEarly, AttemptsMatchStages
  <2> QED
    BY <1>0, <1>4, <2>1, EndOfNothing DEF CancelledEarly
<1>5. ASSUME NEW r \in Requests, Answered(r) \/ CancelledInCall(r) \/ StreamRecorded(r)
      PROVE  R!Next
  <2>1. on[r] # NoBackend
    BY <1>0, <1>5 DEF Answered, CancelledInCall, StreamRecorded, AttemptsMatchStages
  <2>2. PICK o \in Outcomes : EndWith(r, Recorded(r, o))
    BY <1>0, <1>5 DEF Answered, CancelledInCall, StreamRecorded, LooseType
  <2> QED
    BY <2>1, <2>2, EndOfAttempt
\* The retry goes to another backend.
<1>6. ASSUME NEW r \in Requests, AttemptFails(r)
      PROVE  R!Next
  <2>1. on[r] # NoBackend /\ Recorded(r, "error") = R!Recorded(r, "error")
    BY <1>0, <1>6, SameOperators DEF AttemptFails, AttemptsMatchStages, Recorded, R!Recorded
  <2>2. CASE EndWith(r, Recorded(r, "error"))
    BY <1>0, <2>1, <2>2, EndOfAttempt
  <2>3. CASE \E b \in Backends : R!FailOver(r, b)
    BY <2>3 DEF R!Next
  <2>4. Eligible(r, Recorded(r, "error"), excluded[r] \union {on[r]}) \subseteq Backends \ {on[r]}
    BY ServiceAssumption DEF Eligible
  <2> QED
    BY <1>6, <2>1, <2>2, <2>3, <2>4, SameOperators DEF AttemptFails, Route, Eligible, R!FailOver, R!Begin
<1>7. ASSUME NEW r \in Requests, BeginStale(r) \/ FirstChunk(r) \/ StreamEnds(r)
      PROVE  UNCHANGED <<candidates, on, probe>>
  BY <1>7 DEF BeginStale, FirstChunk, StreamEnds
<1>8. CASE Tick
  <2>1. candidates' = [b \in Backends |-> R!Later(candidates[b])] /\ UNCHANGED <<on, probe>>
    BY <1>8, SameOperators DEF Tick
  <2>2. CASE \E b \in Backends : candidates[b].wait > 0
    <3>1. R!Tick
      BY <2>1, <2>2 DEF R!Tick
    <3> QED
      BY <3>1 DEF R!Next
  <2>3. CASE ~ \E b \in Backends : candidates[b].wait > 0
    <3>1. \A b \in Backends : R!Later(candidates[b]) = candidates[b]
      BY <1>0, <2>3, LooseLater, SameOperators DEF LooseType
    <3>2. candidates' = candidates
      BY <1>0, <2>1, <3>1 DEF LooseType
    <3> QED
      BY <2>1, <3>2
  <2> QED
    BY <2>2, <2>3
<1> QED
  BY <1>2, <1>3, <1>4, <1>5, <1>6, <1>7, <1>8 DEF Next

\* Where nothing changes, nothing is lost.
LEMMA Stutter ==
    ASSUME IInv, UNCHANGED vars
    PROVE  IInv' /\ UNCHANGED R!vars
BY DEF vars, R!vars, IInv, Attempts, LooseType, AttemptsMatchStages, NoStaleProbe, LineType,
       HealthLockExact

----------------------------------------------------------------------------
\* The attempts of every request match its stage and the line for _health_lock
\* its waiters, whoever is cancelled where.
THEOREM InductiveInvariant == Spec => []IInv
<1>1. IInv /\ [Next]_vars => IInv'
  BY StepIInv, Stutter
<1> QED
  BY <1>1, InitIInv, PTL DEF Spec

\* One refresh_health at a time is past the lock, and the line for it is exactly
\* the tasks that wait.
THEOREM HealthLockExactHolds == Spec => []HealthLockExact
<1>1. IInv => HealthLockExact
  BY DEF IInv
<1> QED
  BY <1>1, InductiveInvariant, PTL

\* A request has an attempt in flight exactly while it calls or streams, on a
\* backend it has not given up on.
THEOREM AttemptsMatchStagesHolds == Spec => []AttemptsMatchStages
<1>1. IInv => AttemptsMatchStages
  BY DEF IInv, Attempts
<1> QED
  BY <1>1, InductiveInvariant, PTL

\* The service drives started and finished as Router says: every step of it is a
\* step of the router or leaves the router alone.
THEOREM ImplementsRouter == Spec => RouterSpec
<1>1. Init => R!Init
  BY SameOperators DEF Init, R!Init
<1>2. IInv /\ [Next]_vars => [R!Next]_(R!vars)
  BY ImplementsStep, Stutter
<1> QED
  BY <1>1, <1>2, InductiveInvariant, PTL DEF Spec, RouterSpec, R!Spec


\* refresh_health goes past its checks only while the last results are stale.
THEOREM RefreshOnlyWhenStaleHolds == Spec => RefreshOnlyWhenStale
<1>1. IInv /\ [Next]_vars =>
        [\A r \in Requests :
            stage[r] # "refreshing" /\ stage'[r] = "refreshing" => freshFor = 0]_vars
  <2> SUFFICES ASSUME IInv, Next, NEW r \in Requests,
                      stage[r] # "refreshing", stage'[r] = "refreshing"
               PROVE  freshFor = 0
    OBVIOUS
  <2>0. LooseType /\ LineType
    BY DEF IInv, Attempts
  <2>1. ASSUME NEW q \in Requests,
               \/ \E s \in {"idle", "calling", "streaming", "closing"} : stage' = [stage EXCEPT ![q] = s]
               \/ stage' = stage
        PROVE  FALSE
    BY <2>0, <2>1 DEF LooseType
  <2>2. ASSUME NEW q \in Requests, NEW cs, NEW ex, Route(q, cs, ex) \/ EndWith(q, cs)
        PROVE  FALSE
    BY <2>1, <2>2 DEF Route, EndWith
  <2>3. ASSUME NEW q \in Requests, BeginStale(q) \/ LockGranted(q)
        PROVE  freshFor = 0
    BY <2>2, <2>3 DEF BeginStale, LockGranted, StillStale
  <2> QED
    BY <2>1, <2>2, <2>3 DEF Next, BeginFresh, HealthArrives, CancelledEarly, Answered, AttemptFails,
                            CancelledInCall, FirstChunk, StreamEnds, StreamRecorded, Tick
<1> QED
  BY <1>1, InductiveInvariant, PTL DEF Spec, RefreshOnlyWhenStale

\* The loop over backends never comes back to one, and a stream stays with its own.
THEOREM NeverRetriesABackendHolds == Spec => NeverRetriesABackend
<1>1. IInv /\ [Next]_vars =>
        [\A r \in Requests : on[r] # NoBackend /\ on'[r] # on[r] /\ on'[r] # NoBackend =>
            /\ stage[r] = "calling"
            /\ excluded'[r] = excluded[r] \union {on[r]}
            /\ on'[r] \notin excluded'[r]]_vars
  <2> SUFFICES ASSUME IInv, Next, NEW r \in Requests,
                      on[r] # NoBackend, on'[r] # on[r], on'[r] # NoBackend
               PROVE  /\ stage[r] = "calling"
                      /\ excluded'[r] = excluded[r] \union {on[r]}
                      /\ on'[r] \notin excluded'[r]
    OBVIOUS
  <2>0. LooseType /\ stage[r] \in {"calling", "streaming", "closing"} /\ AttemptsMatchStages'
    BY StepIInv DEF IInv, Attempts, AttemptsMatchStages
  <2>1. on'[r] \notin excluded'[r]
    BY <2>0 DEF AttemptsMatchStages
  <2>2. ASSUME NEW q \in Requests, NEW cs, EndWith(q, cs)
        PROVE  FALSE
    BY <2>0, <2>2 DEF EndWith, LooseType
  <2>3. ASSUME NEW q \in Requests, NEW cs, NEW ex, Route(q, cs, ex)
        PROVE  q = r /\ excluded'[r] = ex
    BY <2>0, <2>2, <2>3 DEF Route, LooseType
  <2>4. on' # on
    OBVIOUS
  <2>5. PICK q \in Requests : AttemptFails(q)
    <3>1. ASSUME NEW q \in Requests, BeginFresh(q) \/ LockGranted(q) \/ HealthArrives(q)
          PROVE  FALSE
      BY <2>0, <2>3, <2>4, <3>1 DEF BeginFresh, LockGranted, HealthArrives
    <3> QED
      BY <2>2, <2>4, <3>1 DEF Next, BeginStale, CancelledEarly, Answered,
                              CancelledInCall, FirstChunk, StreamEnds, StreamRecorded, Tick
  <2>6. q = r /\ excluded'[r] = excluded[q] \union {on[q]} /\ stage[q] = "calling"
    BY <2>3, <2>5 DEF AttemptFails
  <2> QED
    BY <2>1, <2>6
<1> QED
  BY <1>1, InductiveInvariant, PTL DEF Spec, NeverRetriesABackend

\* A request is routed right after refresh_health has found or made health fresh.
THEOREM RoutesOnFreshHealthHolds == Spec => RoutesOnFreshHealth
<1>1. IInv /\ [Next]_vars =>
        [\A r \in Requests :
            on[r] = NoBackend /\ on'[r] # NoBackend => freshFor' > 0 \/ HealthInterval = 0]_vars
  <2> SUFFICES ASSUME IInv, Next, NEW r \in Requests, on[r] = NoBackend, on'[r] # NoBackend
               PROVE  freshFor' > 0 \/ HealthInterval = 0
    OBVIOUS
  <2>0. /\ LooseType /\ freshFor \in Nat /\ HealthInterval \in Nat
        /\ stage[r] \notin {"calling", "streaming", "closing"}
    BY ServiceAssumption DEF IInv, Attempts, AttemptsMatchStages, LineType
  <2>1. on' # on
    OBVIOUS
  <2>2. ASSUME NEW q \in Requests, NEW cs, EndWith(q, cs)
        PROVE  FALSE
    BY <2>0, <2>2 DEF EndWith, LooseType
  <2>3. ASSUME NEW q \in Requests, NEW cs, NEW ex, Route(q, cs, ex)
        PROVE  q = r
    BY <2>0, <2>2, <2>3 DEF Route, LooseType
  <2>4. ASSUME NEW q \in Requests, BeginFresh(q) PROVE freshFor' > 0
    BY <2>0, <2>4 DEF BeginFresh
  <2>5. ASSUME NEW q \in Requests, LockGranted(q) PROVE freshFor' > 0
    BY <2>0, <2>1, <2>5 DEF LockGranted, StillStale
  <2>6. ASSUME NEW q \in Requests, HealthArrives(q) PROVE freshFor' > 0 \/ HealthInterval = 0
    BY <2>0, <2>6 DEF HealthArrives
  <2>7. ASSUME NEW q \in Requests, AttemptFails(q) PROVE FALSE
    BY <2>0, <2>3, <2>7 DEF AttemptFails
  <2> QED
    BY <2>1, <2>2, <2>4, <2>5, <2>6, <2>7
       DEF Next, BeginStale, CancelledEarly, Answered, CancelledInCall, FirstChunk, StreamEnds,
           StreamRecorded, Tick
<1> QED
  BY <1>1, InductiveInvariant, PTL DEF Spec, RoutesOnFreshHealth


----------------------------------------------------------------------------
RP == INSTANCE RouterProofs

\* What RouterProofs proves of Router holds of the router inside the service.
LEMMA SameRouter == RouterSpec => RP!Spec
<1>1. R!Init => RP!Init
  BY DEF R!Init, RP!Init, R!NewCandidate, RP!NewCandidate
<1>2. [R!Next]_(R!vars) => [RP!Next]_(RP!vars)
  BY DEF R!Next, RP!Next, R!vars, RP!vars,
         R!Start, R!FailOver, R!Finish, R!SetHealth, R!RefreshAndStart, R!Tick,
         RP!Start, RP!FailOver, RP!Finish, RP!SetHealth, RP!RefreshAndStart, RP!Tick,
         R!Begin, R!Recorded, R!WithHealth, R!Available, R!CircuitReady, R!Started, R!Later,
         RP!Begin, RP!Recorded, RP!WithHealth, RP!Available, RP!CircuitReady, RP!Started, RP!Later,
         R!Finished, R!Success, R!Error, R!Ended, R!OneMore, R!Outcomes,
         RP!Finished, RP!Success, RP!Error, RP!Ended, RP!OneMore, RP!Outcomes
<1> QED
  BY <1>1, <1>2, PTL DEF RouterSpec, R!Spec, RP!Spec

\* The invariants that RouterProofs proves, of the router in the service.
LEMMA RouterTheorems ==
    Spec => [](RP!TypeOK /\ RP!LoadAccounting /\ RP!SingleProbe /\ RP!CircuitMirrorsFailures)
<1>1. RP!RouterAssumption /\ RP!CandidatesAssumption
  BY ServiceAssumption, CandidatesAssumption
     DEF RP!RouterAssumption, RP!CandidatesAssumption, RP!IsFiniteSet, IsFiniteSet
<1>2. Spec => RP!Spec
  BY ImplementsRouter, SameRouter
<1>3. RP!Spec => []RP!TypeOK
  BY <1>1, RP!TypeCorrect, PTL
<1>4. RP!Spec => []RP!LoadAccounting
  BY <1>1, RP!LoadCorrect, PTL
<1>5. RP!Spec => []RP!SingleProbe
  BY <1>1, RP!ProbesCorrect, PTL
<1>6. RP!Spec => []RP!CircuitMirrorsFailures
  BY <1>1, RP!CircuitCorrect, PTL
<1> QED
  BY <1>2, <1>3, <1>4, <1>5, <1>6, PTL

\* Under the failover loops of the service, the load of each backend is the
\* requests whose attempt is on it, at most one of them a half-open probe, and
\* its circuit is open exactly at the threshold.
THEOREM RouterInvariantsHold ==
    Spec => [](R!LoadAccounting /\ R!SingleProbe /\ R!CircuitMirrorsFailures)
<1>1. RP!LoadAccounting /\ RP!SingleProbe /\ RP!CircuitMirrorsFailures =>
         R!LoadAccounting /\ R!SingleProbe /\ R!CircuitMirrorsFailures
  BY DEF R!LoadAccounting, R!SingleProbe, R!CircuitMirrorsFailures, R!AttemptsOn, R!ProbesOn,
         RP!LoadAccounting, RP!SingleProbe, RP!CircuitMirrorsFailures, RP!AttemptsOn, RP!ProbesOn,
         R!Cardinality, RP!Cardinality
<1> QED
  BY <1>1, RouterTheorems, PTL

\* The service's variables keep their types; that the load of a backend never
\* goes below zero is the router's part of it.
THEOREM TypeCorrect == Spec => []TypeOK
<1>1. RP!TypeOK => candidates \in [Backends -> Candidate]
  BY DEF RP!TypeOK, RP!Candidate, Candidate
<1>2. IInv /\ candidates \in [Backends -> Candidate] => TypeOK
  BY DEF IInv, Attempts, LooseType, LineType, TypeOK
<1> QED
  BY <1>1, <1>2, InductiveInvariant, RouterTheorems, PTL

============================================================================
