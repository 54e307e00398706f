---------------------------- MODULE RouterProofs ----------------------------
(***************************************************************************)
(* Proofs about Router for every number of requests and backends and every *)
(* capacity, failure threshold and cooldown: the types, the load of each   *)
(* backend, the single half-open probe, and that only the probe decides.   *)
(*                                                                         *)
(* The argument is local to a backend: Good relates one candidate to the   *)
(* attempts in flight on it, started and finished preserve it, and a step  *)
(* of the router applies one of them to each backend it touches.           *)
(***************************************************************************)
EXTENDS Router, FiniteSetTheorems, TLAPS

----------------------------------------------------------------------------
\* Candidate c of backend b is consistent with the set A of attempts in flight
\* on it, of which P are probes.
Good(b, c, A, P) ==
    /\ c \in Candidate
    /\ IsFiniteSet(A) /\ P \subseteq A
    /\ c.active = Cardinality(A)
    /\ c.active <= Capacity[b]
    /\ c.probing <=> P # {}
    /\ \A r, s \in P : r = s
    /\ c.probing => c.circuit_open
    /\ c.circuit_open <=> c.failures = FailureThreshold

\* started keeps a candidate consistent when the candidate was available.
LEMMA GoodStarted ==
    ASSUME NEW b \in Backends, NEW c, NEW A, NEW P, Good(b, c, A, P),
           Available(b, c), NEW r, r \notin A
    PROVE  Good(b, Started(c), A \union {r}, IF c.circuit_open THEN P \union {r} ELSE P)
<1> USE CandidatesAssumption DEF Good
<1>0. c \in Candidate
  OBVIOUS
<1>1. /\ Started(c) \in Candidate
      /\ Started(c).active = c.active + 1
      /\ c.circuit_open => Started(c).probing
      /\ ~c.circuit_open => Started(c).probing = c.probing
      /\ Started(c).circuit_open = c.circuit_open
      /\ Started(c).failures = c.failures
  <2>0. c.active + 1 \in Nat
    BY <1>0 DEF Candidate
  <2>1. CASE c.circuit_open
    <3>1. Started(c) = [c EXCEPT !.active = c.active + 1, !.probing = TRUE]
      BY <2>1 DEF Started
    <3>2. Started(c) \in Candidate
      BY <1>0, <2>0, <3>1, Zenon DEF Candidate
    <3>3. /\ Started(c).active = c.active + 1 /\ Started(c).probing
          /\ Started(c).circuit_open = c.circuit_open /\ Started(c).failures = c.failures
      BY <1>0, <3>1 DEF Candidate
    <3>. QED
      BY <2>1, <3>2, <3>3
  <2>2. CASE ~c.circuit_open
    BY <1>0, <2>0, <2>2 DEF Started, Candidate
  <2>. QED
    BY <2>1, <2>2
<1>2. IsFiniteSet(A \union {r}) /\ Cardinality(A \union {r}) = Cardinality(A) + 1
  BY FS_AddElement
<1>3. c.active + 1 <= Capacity[b]
  BY DEF Available, Candidate
<1>4. CASE c.circuit_open
  <2>1. ~c.probing
    BY <1>4 DEF Available, CircuitReady
  <2>. QED
    BY <1>1, <1>2, <1>3, <1>4, <2>1
<1>5. CASE ~c.circuit_open
  BY <1>1, <1>2, <1>3, <1>5
<1>. QED
  BY <1>4, <1>5

\* The part of finished that all outcomes share.
LEMMA GoodEnded ==
    ASSUME NEW b \in Backends, NEW c, NEW A, NEW P, Good(b, c, A, P), NEW r \in A
    PROVE  /\ Good(b, Ended(c, r \in P), A \ {r}, P \ {r})
           /\ Ended(c, r \in P).circuit_open = c.circuit_open
<1> USE CandidatesAssumption DEF Good
<1>1. IsFiniteSet(A \ {r}) /\ Cardinality(A \ {r}) = Cardinality(A) - 1
  BY FS_RemoveElement
<1>2. Cardinality(A) # 0
  BY FS_EmptySet
<1>3. c.active - 1 \in Nat /\ c.active - 1 <= Capacity[b]
  BY <1>2 DEF Candidate
<1>4. CASE r \in P
  <2>1. Ended(c, r \in P) = [c EXCEPT !.active = c.active - 1, !.probing = FALSE]
    BY <1>4 DEF Ended
  <2>2. [c EXCEPT !.active = c.active - 1, !.probing = FALSE] \in Candidate
    BY <1>3, Zenon DEF Candidate
  <2>3. /\ Ended(c, r \in P).active = c.active - 1
        /\ Ended(c, r \in P).probing = FALSE
        /\ Ended(c, r \in P).circuit_open = c.circuit_open
        /\ Ended(c, r \in P).failures = c.failures
    BY <2>1 DEF Candidate
  <2>4. P \ {r} = {}
    BY <1>4
  <2>. QED
    BY <1>1, <1>3, <2>1, <2>2, <2>3, <2>4
<1>5. CASE r \notin P
  <2>1. /\ Ended(c, r \in P) \in Candidate
        /\ Ended(c, r \in P).active = c.active - 1
        /\ Ended(c, r \in P).probing = c.probing
        /\ Ended(c, r \in P).circuit_open = c.circuit_open
        /\ Ended(c, r \in P).failures = c.failures
    BY <1>3, <1>5 DEF Ended, Candidate
  <2>2. P \ {r} = P
    BY <1>5
  <2>. QED
    BY <1>1, <1>3, <2>1, <2>2
<1>. QED
  BY <1>4, <1>5

\* finished keeps a candidate consistent whatever the outcome, when it is told
\* truly whether the attempt was the probe.
LEMMA GoodFinished ==
    ASSUME NEW b \in Backends, NEW c, NEW A, NEW P, Good(b, c, A, P),
           NEW r \in A, NEW outcome \in Outcomes
    PROVE  Good(b, Finished(c, outcome, r \in P), A \ {r}, P \ {r})
<1> USE CandidatesAssumption
<1> DEFINE e == Ended(c, r \in P)
<1>1. Good(b, e, A \ {r}, P \ {r}) /\ e.circuit_open = c.circuit_open
  BY GoodEnded
<1>2. r \in P => P \ {r} = {}
  BY DEF Good
<1> HIDE DEF e
<1>3. Good(b, Success(e, r \in P), A \ {r}, P \ {r})
  <2>1. CASE ~e.circuit_open \/ r \in P
    <3>1. e.probing = FALSE /\ P \ {r} = {}
      BY <1>1, <1>2, <2>1 DEF Good, Candidate
    <3>2. /\ Success(e, r \in P) = [e EXCEPT !.failures = 0, !.circuit_open = FALSE]
          /\ e \in Candidate
      BY <1>1, <2>1 DEF Good, Success
    <3>3. Success(e, r \in P) \in Candidate
      <4>1. 0 \in 0..FailureThreshold
        OBVIOUS
      <4>. QED
        BY <3>2, <4>1, Zenon DEF Candidate
    <3>4. /\ Success(e, r \in P).active = e.active
          /\ Success(e, r \in P).probing = e.probing
          /\ Success(e, r \in P).failures = 0
          /\ Success(e, r \in P).circuit_open = FALSE
      BY <3>2 DEF Candidate
    <3>. QED
      BY <1>1, <3>1, <3>3, <3>4 DEF Good
  <2>2. CASE ~(~e.circuit_open \/ r \in P)
    BY <1>1, <2>2 DEF Success
  <2>. QED
    BY <2>1, <2>2
<1>4. Good(b, Error(e), A \ {r}, P \ {r})
  <2>0. OneMore(e.failures) \in 0..FailureThreshold /\ e.failures \in 0..FailureThreshold
    BY <1>1 DEF Good, Candidate, OneMore
  <2>1. CASE OneMore(e.failures) = FailureThreshold \/ e.circuit_open
    <3>1. OneMore(e.failures) = FailureThreshold
      BY <1>1, <2>0, <2>1 DEF Good, OneMore
    <3>2. /\ Error(e) = [e EXCEPT !.failures = FailureThreshold, !.circuit_open = TRUE,
                                 !.wait = Cooldown]
          /\ e \in Candidate
      BY <1>1, <2>1, <3>1 DEF Good, Error
    <3>3. Error(e) \in Candidate
      <4>1. FailureThreshold \in 0..FailureThreshold /\ Cooldown \in 0..Cooldown
        OBVIOUS
      <4>. QED
        BY <3>2, <4>1, Zenon DEF Candidate
    <3>4. /\ Error(e).active = e.active
          /\ Error(e).probing = e.probing
          /\ Error(e).failures = FailureThreshold
          /\ Error(e).circuit_open = TRUE
      BY <3>2 DEF Candidate
    <3>. QED
      BY <1>1, <3>3, <3>4 DEF Good
  <2>2. CASE ~(OneMore(e.failures) = FailureThreshold \/ e.circuit_open)
    <3>1. /\ Error(e) \in Candidate
          /\ Error(e).active = e.active
          /\ Error(e).probing = e.probing
          /\ Error(e).failures = OneMore(e.failures)
          /\ Error(e).circuit_open = e.circuit_open
      BY <1>1, <2>0, <2>2 DEF Good, Error, Candidate
    <3>. QED
      BY <1>1, <2>2, <3>1 DEF Good
  <2>. QED
    BY <2>1, <2>2
<1>. QED
  BY <1>1, <1>3, <1>4 DEF Outcomes, Finished, e

\* Health results and the clock do not touch what Good relates.
LEMMA GoodHealth ==
    ASSUME NEW b, NEW c, NEW A, NEW P, Good(b, c, A, P), NEW h \in BOOLEAN
    PROVE  Good(b, [c EXCEPT !.healthy = h], A, P)
<1>1. c \in Candidate
  BY DEF Good
<1>2. /\ [c EXCEPT !.healthy = h] \in Candidate
      /\ [c EXCEPT !.healthy = h].active = c.active
      /\ [c EXCEPT !.healthy = h].probing = c.probing
      /\ [c EXCEPT !.healthy = h].circuit_open = c.circuit_open
      /\ [c EXCEPT !.healthy = h].failures = c.failures
  BY <1>1 DEF Candidate
<1>. QED
  BY <1>2 DEF Good

\* The same of the clock.
LEMMA GoodLater ==
    ASSUME NEW b, NEW c, NEW A, NEW P, Good(b, c, A, P)
    PROVE  Good(b, Later(c), A, P)
<1> USE CandidatesAssumption
<1>1. c \in Candidate
  BY DEF Good
<1>2. PICK w \in 0..Cooldown : Later(c) = [c EXCEPT !.wait = w]
  <2>1. c.wait \in 0..Cooldown /\ (c.wait > 0 => c.wait - 1 \in 0..Cooldown) /\ 0 \in 0..Cooldown
    BY <1>1 DEF Candidate
  <2>. QED
    BY <2>1 DEF Later
<1>3. /\ Later(c) \in Candidate
      /\ Later(c).active = c.active
      /\ Later(c).probing = c.probing
      /\ Later(c).circuit_open = c.circuit_open
      /\ Later(c).failures = c.failures
  BY <1>1, <1>2 DEF Candidate
<1>. QED
  BY <1>3 DEF Good

----------------------------------------------------------------------------
(***************************************************************************)
(* The inductive invariant                                                 *)
(***************************************************************************)

\* Every backend is consistent with the attempts the requests have on it.
IInv ==
    /\ TypeOK
    /\ \A b \in Backends : Good(b, candidates[b], AttemptsOn(b), ProbesOn(b))

\* The initial state satisfies it.
LEMMA InitIInv == Init => IInv
<1> SUFFICES ASSUME Init PROVE IInv
  OBVIOUS
<1> USE CandidatesAssumption, RouterAssumption
<1>1. PICK h \in BOOLEAN : candidates = [b \in Backends |-> NewCandidate(h)]
  BY DEF Init
<1>2. NewCandidate(h) \in Candidate
  BY DEF NewCandidate, Candidate
<1>3. TypeOK
  BY <1>1, <1>2 DEF Init, TypeOK
<1>4. ASSUME NEW b \in Backends
      PROVE  Good(b, candidates[b], AttemptsOn(b), ProbesOn(b))
  <2>1. AttemptsOn(b) = {} /\ ProbesOn(b) = {}
    BY DEF Init, AttemptsOn, ProbesOn
  <2>2. IsFiniteSet({}) /\ Cardinality({}) = 0
    BY FS_EmptySet
  <2>3. candidates[b] = NewCandidate(h)
    BY <1>1
  <2>4. 0 # FailureThreshold /\ 0 <= Capacity[b]
    OBVIOUS
  <2>. QED
    BY <1>2, <2>1, <2>2, <2>3, <2>4 DEF Good, NewCandidate
<1>. QED
  BY <1>3, <1>4 DEF IInv

\* What the sets of attempts become when one request goes from its backend, or
\* from none, to another or to none.
LEMMA AttemptsMove ==
    ASSUME TypeOK, NEW r \in Requests, NEW a \in Backends \union {NoBackend},
           NEW w \in BOOLEAN, a # on[r],
           on' = [on EXCEPT ![r] = a], probe' = [probe EXCEPT ![r] = w]
    PROVE  \A b \in Backends :
           /\ b = a => /\ r \notin AttemptsOn(b)
                       /\ AttemptsOn(b)' = AttemptsOn(b) \union {r}
                       /\ ProbesOn(b)' = IF w THEN ProbesOn(b) \union {r} ELSE ProbesOn(b)
           /\ b = on[r] => /\ r \in AttemptsOn(b)
                           /\ r \in ProbesOn(b) <=> probe[r]
                           /\ AttemptsOn(b)' = AttemptsOn(b) \ {r}
                           /\ ProbesOn(b)' = ProbesOn(b) \ {r}
           /\ b # a /\ b # on[r] => /\ AttemptsOn(b)' = AttemptsOn(b)
                                    /\ ProbesOn(b)' = ProbesOn(b)
<1> TAKE b \in Backends
<1> USE DEF TypeOK, AttemptsOn, ProbesOn
<1>1. ASSUME b = a
      PROVE  /\ r \notin AttemptsOn(b)
             /\ AttemptsOn(b)' = AttemptsOn(b) \union {r}
             /\ ProbesOn(b)' = IF w THEN ProbesOn(b) \union {r} ELSE ProbesOn(b)
  BY <1>1
<1>2. ASSUME b = on[r]
      PROVE  /\ r \in AttemptsOn(b)
             /\ r \in ProbesOn(b) <=> probe[r]
             /\ AttemptsOn(b)' = AttemptsOn(b) \ {r}
             /\ ProbesOn(b)' = ProbesOn(b) \ {r}
  BY <1>2
<1>3. ASSUME b # a, b # on[r]
      PROVE  AttemptsOn(b)' = AttemptsOn(b) /\ ProbesOn(b)' = ProbesOn(b)
  BY <1>3
<1>. QED
  BY <1>1, <1>2, <1>3

\* A request's attempt begins: started on an available candidate.
LEMMA BeginOn ==
    ASSUME TypeOK, NEW r \in Requests, NEW b \in Backends, b # on[r],
           NEW cs \in [Backends -> Candidate], Begin(r, b, cs),
           Good(b, cs[b], AttemptsOn(b), ProbesOn(b))
    PROVE  Good(b, candidates'[b], AttemptsOn(b)', ProbesOn(b)')
<1>1. /\ r \notin AttemptsOn(b)
      /\ AttemptsOn(b)' = AttemptsOn(b) \union {r}
      /\ ProbesOn(b)' = IF cs[b].circuit_open THEN ProbesOn(b) \union {r} ELSE ProbesOn(b)
  <2>1. cs[b].circuit_open \in BOOLEAN
    BY DEF Candidate
  <2>2. on' = [on EXCEPT ![r] = b] /\ probe' = [probe EXCEPT ![r] = cs[b].circuit_open]
    BY DEF Begin
  <2>. QED
    BY <2>1, <2>2, AttemptsMove
<1>2. candidates'[b] = Started(cs[b]) /\ Available(b, cs[b])
  BY DEF Begin
<1>. QED
  BY <1>1, <1>2, GoodStarted

\* A request's attempt ends: finished, told what the attempt remembers of itself.
LEMMA EndOn ==
    ASSUME IInv, NEW r \in Requests, on[r] \in Backends, NEW outcome \in Outcomes
    PROVE  LET b == on[r] IN
           /\ Recorded(r, outcome) \in [Backends -> Candidate]
           /\ Good(b, Recorded(r, outcome)[b], AttemptsOn(b) \ {r}, ProbesOn(b) \ {r})
           /\ \A a \in Backends \ {b} : Recorded(r, outcome)[a] = candidates[a]
<1> DEFINE b == on[r]
<1>1. Good(b, candidates[b], AttemptsOn(b), ProbesOn(b)) /\ r \in AttemptsOn(b)
  BY DEF IInv, AttemptsOn
<1>2. probe[r] = (r \in ProbesOn(b))
  BY <1>1 DEF IInv, TypeOK, ProbesOn
<1>3. Good(b, Finished(candidates[b], outcome, probe[r]), AttemptsOn(b) \ {r}, ProbesOn(b) \ {r})
  BY <1>1, <1>2, GoodFinished
<1>4. Recorded(r, outcome) = [candidates EXCEPT ![b] = Finished(candidates[b], outcome, probe[r])]
  BY DEF Recorded
<1>5. Finished(candidates[b], outcome, probe[r]) \in Candidate
  BY <1>3 DEF Good
<1>. QED
  BY <1>3, <1>4, <1>5 DEF IInv, TypeOK

\* Every action keeps every backend consistent with its attempts.
LEMMA StepIInv == IInv /\ [Next]_vars => IInv'
<1> SUFFICES ASSUME IInv, [Next]_vars PROVE IInv'
  OBVIOUS
<1> USE RouterAssumption
<1>0. TypeOK
  BY DEF IInv
<1>1. ASSUME NEW r \in Requests, NEW b \in Backends, on[r] = NoBackend,
             NEW cs \in [Backends -> Candidate], Begin(r, b, cs),
             \A a \in Backends : Good(a, cs[a], AttemptsOn(a), ProbesOn(a))
      PROVE  IInv'
  <2>0. b # on[r]
    BY <1>1
  <2>1. Good(b, candidates'[b], AttemptsOn(b)', ProbesOn(b)')
    BY <1>0, <1>1, <2>0, BeginOn
  <2>2. /\ cs[b].circuit_open \in BOOLEAN
        /\ on' = [on EXCEPT ![r] = b] /\ probe' = [probe EXCEPT ![r] = cs[b].circuit_open]
        /\ candidates' = [cs EXCEPT ![b] = Started(cs[b])]
    BY <1>1 DEF Begin, Candidate
  <2>3. TypeOK'
    <3>1. Started(cs[b]) \in Candidate
      BY <1>1, <2>1, <2>2 DEF Good
    <3>. QED
      BY <1>0, <1>1, <2>2, <3>1 DEF TypeOK
  <2>4. ASSUME NEW a \in Backends, a # b
        PROVE  Good(a, candidates'[a], AttemptsOn(a)', ProbesOn(a)')
    <3>1. a # on[r]
      BY <1>1
    <3>2. AttemptsOn(a)' = AttemptsOn(a) /\ ProbesOn(a)' = ProbesOn(a)
      BY <1>0, <2>0, <2>2, <2>4, <3>1, AttemptsMove
    <3>3. candidates'[a] = cs[a]
      BY <1>1, <2>2, <2>4
    <3>. QED
      BY <1>1, <3>2, <3>3
  <2>. QED
    BY <2>1, <2>3, <2>4 DEF IInv
<1>1a. ASSUME NEW r \in Requests, NEW b \in Backends, Start(r, b) PROVE IInv'
  BY <1>0, <1>1, <1>1a DEF Start, IInv, TypeOK
<1>1b. ASSUME NEW h \in [Backends -> BOOLEAN]
       PROVE  /\ WithHealth(h) \in [Backends -> Candidate]
              /\ \A a \in Backends : Good(a, WithHealth(h)[a], AttemptsOn(a), ProbesOn(a))
  <2>1. ASSUME NEW a \in Backends
        PROVE  Good(a, [candidates[a] EXCEPT !.healthy = h[a]], AttemptsOn(a), ProbesOn(a))
    BY GoodHealth DEF IInv
  <2>2. \A a \in Backends : WithHealth(h)[a] = [candidates[a] EXCEPT !.healthy = h[a]]
    BY DEF WithHealth
  <2>3. \A a \in Backends : [candidates[a] EXCEPT !.healthy = h[a]] \in Candidate
    BY <2>1 DEF Good
  <2>. QED
    BY <2>1, <2>2, <2>3 DEF WithHealth
<1>1c. ASSUME NEW r \in Requests, NEW b \in Backends, NEW h \in [Backends -> BOOLEAN],
              RefreshAndStart(r, b, h)
       PROVE  IInv'
  <2>1. on[r] = NoBackend /\ Begin(r, b, WithHealth(h))
    BY <1>1c DEF RefreshAndStart
  <2>. QED
    BY <1>1, <1>1b, <2>1
<1>2. ASSUME NEW r \in Requests, NEW outcome \in Outcomes, Finish(r, outcome) PROVE IInv'
  <2>0. on[r] \in Backends /\ NoBackend # on[r]
    BY <1>0, <1>2 DEF Finish, TypeOK
  <2>1. /\ candidates' \in [Backends -> Candidate]
        /\ Good(on[r], candidates'[on[r]], AttemptsOn(on[r]) \ {r}, ProbesOn(on[r]) \ {r})
        /\ \A a \in Backends \ {on[r]} : candidates'[a] = candidates[a]
    BY <1>2, <2>0, EndOn DEF Finish
  <2>2. \A b \in Backends :
          /\ b = on[r] => /\ AttemptsOn(b)' = AttemptsOn(b) \ {r}
                          /\ ProbesOn(b)' = ProbesOn(b) \ {r}
          /\ b # on[r] => /\ AttemptsOn(b)' = AttemptsOn(b)
                          /\ ProbesOn(b)' = ProbesOn(b)
    <3>1. /\ on' = [on EXCEPT ![r] = NoBackend] /\ probe' = [probe EXCEPT ![r] = FALSE]
          /\ \A b \in Backends : b # NoBackend
      BY <1>2 DEF Finish
    <3>. QED
      BY <1>0, <2>0, <3>1, AttemptsMove
  <2>3. TypeOK'
    BY <1>0, <1>2, <2>1 DEF Finish, TypeOK
  <2>. QED
    BY <2>0, <2>1, <2>2, <2>3 DEF IInv
<1>3. ASSUME NEW r \in Requests, NEW b \in Backends, FailOver(r, b) PROVE IInv'
  <2> DEFINE cs == Recorded(r, "error")
  <2>0. on[r] \in Backends /\ b # on[r] /\ Begin(r, b, cs)
    BY <1>0, <1>3 DEF FailOver, TypeOK
  <2>1. /\ cs \in [Backends -> Candidate]
        /\ Good(on[r], cs[on[r]], AttemptsOn(on[r]) \ {r}, ProbesOn(on[r]) \ {r})
        /\ \A a \in Backends \ {on[r]} : cs[a] = candidates[a]
    BY <2>0, EndOn DEF Outcomes
  <2> HIDE DEF cs
  <2>2. Good(b, candidates'[b], AttemptsOn(b)', ProbesOn(b)')
    <3>1. Good(b, cs[b], AttemptsOn(b), ProbesOn(b))
      BY <2>0, <2>1 DEF IInv
    <3>. QED
      BY <1>0, <2>0, <2>1, <3>1, BeginOn
  <2>3. cs[b].circuit_open \in BOOLEAN
    BY <2>1 DEF Candidate
  <2>4. /\ on' = [on EXCEPT ![r] = b] /\ probe' = [probe EXCEPT ![r] = cs[b].circuit_open]
        /\ candidates' = [cs EXCEPT ![b] = Started(cs[b])]
    BY <2>0 DEF Begin
  <2>5. TypeOK'
    <3>1. Started(cs[b]) \in Candidate
      BY <2>1, <2>2, <2>4 DEF Good
    <3>. QED
      BY <1>0, <2>1, <2>3, <2>4, <3>1 DEF TypeOK
  <2>6. ASSUME NEW a \in Backends, a # b
        PROVE  Good(a, candidates'[a], AttemptsOn(a)', ProbesOn(a)')
    <3>1. candidates'[a] = cs[a]
      BY <2>1, <2>4, <2>6
    <3>2. CASE a = on[r]
      <4>1. AttemptsOn(a)' = AttemptsOn(a) \ {r} /\ ProbesOn(a)' = ProbesOn(a) \ {r}
        BY <1>0, <2>0, <2>3, <2>4, <3>2, AttemptsMove
      <4>. QED
        BY <2>1, <3>1, <3>2, <4>1
    <3>3. CASE a # on[r]
      <4>1. AttemptsOn(a)' = AttemptsOn(a) /\ ProbesOn(a)' = ProbesOn(a)
        BY <1>0, <2>0, <2>3, <2>4, <2>6, <3>3, AttemptsMove
      <4>. QED
        BY <2>1, <3>1, <3>3, <4>1 DEF IInv
    <3>. QED
      BY <3>2, <3>3
  <2>. QED
    BY <2>2, <2>5, <2>6 DEF IInv
<1>4. ASSUME NEW h \in [Backends -> BOOLEAN], SetHealth(h) PROVE IInv'
  <2>1. ASSUME NEW b \in Backends
        PROVE  Good(b, candidates'[b], AttemptsOn(b)', ProbesOn(b)')
    <3>1. AttemptsOn(b)' = AttemptsOn(b) /\ ProbesOn(b)' = ProbesOn(b)
      BY <1>4 DEF SetHealth, AttemptsOn, ProbesOn
    <3>2. candidates' = WithHealth(h)
      BY <1>4 DEF SetHealth
    <3>. QED
      BY <1>1b, <3>1, <3>2
  <2>2. \A b \in Backends : candidates'[b] \in Candidate
    BY <2>1 DEF Good
  <2>3. TypeOK'
    BY <1>0, <1>4, <1>1b DEF SetHealth, TypeOK
  <2>. QED
    BY <2>1, <2>3 DEF IInv
<1>5. ASSUME Tick PROVE IInv'
  <2>1. ASSUME NEW b \in Backends
        PROVE  Good(b, candidates'[b], AttemptsOn(b)', ProbesOn(b)')
    <3>1. AttemptsOn(b)' = AttemptsOn(b) /\ ProbesOn(b)' = ProbesOn(b)
      BY <1>5 DEF Tick, AttemptsOn, ProbesOn
    <3>2. candidates'[b] = Later(candidates[b])
      BY <1>5 DEF Tick
    <3>. QED
      BY <3>1, <3>2, GoodLater DEF IInv
  <2>2. \A b \in Backends : candidates'[b] \in Candidate
    BY <2>1 DEF Good
  <2>3. TypeOK'
    BY <1>0, <1>5, <2>2 DEF Tick, TypeOK
  <2>. QED
    BY <2>1, <2>3 DEF IInv
<1>6. CASE UNCHANGED vars
  BY <1>6 DEF vars, IInv, TypeOK, AttemptsOn, ProbesOn
<1>. QED
  BY <1>1a, <1>1c, <1>2, <1>3, <1>4, <1>5, <1>6 DEF Next

----------------------------------------------------------------------------
(***************************************************************************)
(* The theorems                                                            *)
(***************************************************************************)

\* Every reachable state satisfies the inductive invariant.
THEOREM InductiveInvariant == Spec => []IInv
BY InitIInv, StepIInv, PTL DEF Spec

\* The router's fields always have their types.
THEOREM TypeCorrect == Spec => []TypeOK
<1>1. IInv => TypeOK
  BY DEF IInv
<1>. QED
  BY InductiveInvariant, <1>1, PTL

\* The load of a backend is exactly its attempts in flight, within its capacity.
THEOREM LoadCorrect == Spec => []LoadAccounting
<1>1. IInv => LoadAccounting
  BY DEF IInv, Good, LoadAccounting
<1>. QED
  BY InductiveInvariant, <1>1, PTL

\* At most one half-open probe is in flight on a backend, only while its circuit
\* is open, and the probing flag says so.
THEOREM ProbesCorrect == Spec => []SingleProbe
<1>1. IInv => SingleProbe
  BY DEF IInv, Good, SingleProbe
<1>. QED
  BY InductiveInvariant, <1>1, PTL

\* A circuit is open exactly when its failures reach the threshold.
THEOREM CircuitCorrect == Spec => []CircuitMirrorsFailures
<1>1. IInv => CircuitMirrorsFailures
  BY DEF IInv, Good, CircuitMirrorsFailures
<1>. QED
  BY InductiveInvariant, <1>1, PTL

\* What the end of an attempt can do to an open circuit when it is not the probe:
\* nothing but restart the cooldown.
LEMMA OldAttemptsAreHarmless ==
    ASSUME NEW c \in Candidate, NEW outcome \in Outcomes
    PROVE  /\ c.circuit_open => Finished(c, outcome, FALSE).circuit_open
           /\ Finished(c, outcome, FALSE).probing = c.probing
<1> USE CandidatesAssumption
<1> DEFINE e == Ended(c, FALSE)
<1>1. e = [c EXCEPT !.active = c.active - 1]
  BY DEF Ended
<1>2. e.circuit_open = c.circuit_open /\ e.probing = c.probing
  BY <1>1 DEF Candidate
<1>3. DOMAIN e = DOMAIN c
  BY <1>1
<1> HIDE DEF e
<1>4. /\ c.circuit_open => Success(e, FALSE).circuit_open
      /\ Success(e, FALSE).probing = c.probing
  <2>1. CASE c.circuit_open
    BY <1>2, <2>1 DEF Success
  <2>2. CASE ~c.circuit_open
    <3>1. Success(e, FALSE) = [e EXCEPT !.failures = 0, !.circuit_open = FALSE]
      BY <1>2, <2>2 DEF Success
    <3>. QED
      BY <1>2, <1>3, <2>2, <3>1 DEF Candidate
  <2>. QED
    BY <2>1, <2>2
<1>5. c.circuit_open => Error(e).circuit_open
  <2>1. ASSUME c.circuit_open
        PROVE  Error(e) = [e EXCEPT !.failures = OneMore(e.failures), !.circuit_open = TRUE,
                                    !.wait = Cooldown]
    BY <1>2, <2>1 DEF Error
  <2>. QED
    BY <1>3, <2>1 DEF Candidate
<1>6. Error(e).probing = c.probing
  BY <1>2, <1>3 DEF Error, Candidate
<1>. QED
  BY <1>2, <1>4, <1>5, <1>6 DEF Outcomes, Finished, e

\* started never closes a circuit and never ends a probe.
LEMMA StartedIsHarmless ==
    ASSUME NEW c \in Candidate
    PROVE  /\ Started(c).circuit_open = c.circuit_open
           /\ c.probing => Started(c).probing
<1>1. CASE c.circuit_open
  <2>1. Started(c) = [c EXCEPT !.active = c.active + 1, !.probing = TRUE]
    BY <1>1 DEF Started
  <2>. QED
    BY <2>1 DEF Candidate
<1>2. CASE ~c.circuit_open
  BY <1>2 DEF Started, Candidate
<1>. QED
  BY <1>1, <1>2

\* Only the end of the probe itself closes a circuit or makes room for the next
\* probe, however many older attempts end meanwhile and whatever their outcome.
THEOREM OnlyTheProbeDecidesHolds == Spec => OnlyTheProbeDecides
<1> DEFINE Decided(b) == \/ candidates[b].circuit_open /\ ~candidates[b].circuit_open'
                         \/ candidates[b].probing /\ ~candidates[b].probing'
           Decides == \A b \in Backends : Decided(b) => \E r \in ProbesOn(b) : on'[r] # b
<1>1. TypeOK /\ [Next]_vars => Decides
  <2> SUFFICES ASSUME TypeOK, [Next]_vars, NEW b \in Backends, Decided(b)
               PROVE  \E r \in ProbesOn(b) : on'[r] # b
    OBVIOUS
  <2> USE RouterAssumption
  <2>0. candidates[b] \in Candidate
    BY DEF TypeOK
  <2>1. ASSUME NEW r \in Requests, on[r] = b, on'[r] # b, NEW outcome \in Outcomes,
               candidates'[b] = Finished(candidates[b], outcome, probe[r])
        PROVE  \E s \in ProbesOn(b) : on'[s] # b
    <3>1. CASE probe[r]
      BY <2>1, <3>1 DEF ProbesOn, AttemptsOn
    <3>2. CASE ~probe[r]
      <4>1. probe[r] = FALSE
        BY <3>2 DEF TypeOK
      <4>2. candidates'[b] = Finished(candidates[b], outcome, FALSE)
        BY <2>1, <4>1
      <4>3. /\ candidates[b].circuit_open => candidates'[b].circuit_open
            /\ candidates'[b].probing = candidates[b].probing
        BY <2>0, <4>2, OldAttemptsAreHarmless
      <4>. QED
        BY <4>3
    <3>. QED
      BY <3>1, <3>2
  <2>2. ASSUME NEW cs \in [Backends -> Candidate], cs[b] = candidates[b],
               candidates' = [cs EXCEPT ![b] = Started(@)]
        PROVE  FALSE
    <3>1. candidates'[b] = Started(candidates[b])
      BY <2>2
    <3>. QED
      BY <2>0, <3>1, StartedIsHarmless
  <2>3. ASSUME NEW r \in Requests, NEW x \in Backends, Start(r, x)
        PROVE  \E s \in ProbesOn(b) : on'[s] # b
    <3>1. candidates' = [candidates EXCEPT ![x] = Started(@)]
      BY <2>3 DEF Start, Begin
    <3>2. x = b
      BY <3>1 DEF TypeOK
    <3>. QED
      BY <2>2, <3>1, <3>2 DEF TypeOK
  <2>3a. ASSUME NEW r \in Requests, NEW x \in Backends, NEW h \in [Backends -> BOOLEAN],
                RefreshAndStart(r, x, h)
         PROVE  FALSE
    <3> DEFINE c == [candidates[b] EXCEPT !.healthy = h[b]]
    <3>1. /\ c \in Candidate
          /\ c.circuit_open = candidates[b].circuit_open /\ c.probing = candidates[b].probing
      BY <2>0 DEF Candidate
    <3>2. candidates' = [WithHealth(h) EXCEPT ![x] = Started(@)]
      BY <2>3a DEF RefreshAndStart, Begin
    <3> HIDE DEF c
    <3>3. candidates'[b] = c \/ candidates'[b] = Started(c)
      BY <3>2 DEF WithHealth, c
    <3>. QED
      BY <3>1, <3>3, StartedIsHarmless
  <2>4. ASSUME NEW r \in Requests, NEW outcome \in Outcomes, Finish(r, outcome)
        PROVE  \E s \in ProbesOn(b) : on'[s] # b
    <3>1. candidates' = [candidates EXCEPT ![on[r]] = Finished(@, outcome, probe[r])]
      BY <2>4 DEF Finish, Recorded
    <3>2. on[r] = b
      BY <3>1 DEF TypeOK
    <3>3. on'[r] # b
      BY <2>4 DEF Finish, TypeOK
    <3>. QED
      BY <2>1, <3>1, <3>2, <3>3 DEF TypeOK
  <2>5. ASSUME NEW r \in Requests, NEW x \in Backends, FailOver(r, x)
        PROVE  \E s \in ProbesOn(b) : on'[s] # b
    <3> DEFINE cs == Recorded(r, "error")
    <3>1. /\ cs = [candidates EXCEPT ![on[r]] = Finished(@, "error", probe[r])]
          /\ candidates' = [cs EXCEPT ![x] = Started(@)]
          /\ x # on[r] /\ on[r] \in Backends /\ on'[r] = x
      BY <2>5 DEF FailOver, Begin, Recorded, TypeOK
    <3>2. CASE b = on[r]
      <4>1. candidates'[b] = Finished(candidates[b], "error", probe[r])
        BY <3>1, <3>2 DEF TypeOK
      <4>. QED
        BY <2>1, <3>1, <3>2, <4>1 DEF Outcomes
    <3>3. CASE b # on[r]
      <4>1. cs[b] = candidates[b] /\ b \in DOMAIN cs
        BY <3>1, <3>3 DEF TypeOK
      <4>2. candidates'[b] = candidates[b] \/ candidates'[b] = Started(candidates[b])
        BY <3>1, <4>1
      <4>. QED
        BY <2>0, <4>2, StartedIsHarmless
    <3>. QED
      BY <3>2, <3>3
  <2>6. ASSUME NEW h \in [Backends -> BOOLEAN], SetHealth(h) PROVE FALSE
    <3>1. candidates'[b] = [candidates[b] EXCEPT !.healthy = h[b]]
      BY <2>6 DEF SetHealth, WithHealth
    <3>. QED
      BY <2>0, <3>1 DEF Candidate
  <2>7. ASSUME Tick PROVE FALSE
    <3>1. candidates'[b] = Later(candidates[b])
      BY <2>7 DEF Tick
    <3>. QED
      BY <2>0, <3>1 DEF Candidate, Later
  <2>8. CASE UNCHANGED vars
    BY <2>8 DEF vars
  <2>. QED
    BY <2>3, <2>3a, <2>4, <2>5, <2>6, <2>7, <2>8 DEF Next
<1>2. TypeOK /\ [Next]_vars => [Decides]_vars
  BY <1>1
<1>3. Spec => [][Decides]_vars
  BY <1>2, TypeCorrect, PTL DEF Spec
<1>. QED
  BY <1>3 DEF OnlyTheProbeDecides
============================================================================
