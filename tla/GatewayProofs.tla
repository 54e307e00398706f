--------------------------- MODULE GatewayProofs ---------------------------
(***************************************************************************)
(* Proofs that no backend works for a request without a lease, and that a  *)
(* request leaves no ticket, lease or attempt behind, for every number of  *)
(* requests, tenants and backends and every value of the limits.           *)
(***************************************************************************)
EXTENDS Gateway, FiniteSetTheorems, SequenceFacts

\* The stages in which a handler holds a lease, and those with an attempt.
WithLease == {"admitted", "calling", "streaming", "closing", "releasing"}

WithAttempt == {"calling", "streaming", "closing"}

GatewayType ==
    /\ stage \in [Requests -> Stages]
    /\ on \in [Requests -> Backends \union {NoBackend}]
    /\ holders \in SUBSET Requests

LeasesMatchStages == \A r \in Requests : r \in holders <=> stage[r] \in WithLease

AttemptsMatchStages == \A r \in Requests : on[r] # NoBackend <=> stage[r] \in WithAttempt

\* WorkIsAdmitted is not inductive: whether a lease may be given back depends
\* on the stage the handler is in, not on its attempt.
IInv ==
    /\ GatewayType
    /\ LeasesMatchStages
    /\ AttemptsMatchStages
    /\ Cardinality(holders) <= MaxConcurrent

\* No handler has begun.
LEMMA InitIInv == Init => IInv
<1> SUFFICES ASSUME Init PROVE IInv
  OBVIOUS
<1>1. holders = {} /\ on = [r \in Requests |-> NoBackend]
      /\ stage = [r \in Requests |-> "idle"]
  BY DEF Init, Pool!PoolInit, R!Init
<1>2. Cardinality(holders) = 0
  BY <1>1, FS_EmptySet
<1>. QED
  BY <1>1, <1>2, GatewayAssumption
     DEF IInv, GatewayType, LeasesMatchStages, AttemptsMatchStages,
         WithLease, WithAttempt, Stages

\* The controller never has more than MaxConcurrent leases out.
LEMMA TakeLease ==
    ASSUME GatewayType, Cardinality(holders) <= MaxConcurrent, NEW r \in Requests,
           Pool!HasRoom(TenantOf[r]), holders' = holders \union {r}
    PROVE  holders' \in SUBSET Requests /\ Cardinality(holders') <= MaxConcurrent
<1>1. IsFiniteSet(holders)
  BY GatewayAssumption, FS_Subset DEF GatewayType
<1>2. Cardinality(holders) \in Nat
  BY <1>1, FS_CardinalityType
<1>3. Cardinality(holders') = Cardinality(holders) \/ Cardinality(holders') = Cardinality(holders) + 1
  <2>1. CASE r \in holders
    <3>1. holders' = holders
      BY <2>1
    <3>. QED
      BY <3>1
  <2>2. CASE r \notin holders
    <3>1. Cardinality(holders \union {r}) = Cardinality(holders) + 1
      BY <1>1, <2>2, FS_AddElement
    <3>. QED
      BY <3>1
  <2>. QED
    BY <2>1, <2>2
<1>4. Cardinality(holders) < MaxConcurrent
  BY DEF Pool!HasRoom, Pool!Cardinality, Cardinality
<1>5. Cardinality(holders') \in Nat
  BY <1>1, FS_AddElement, FS_CardinalityType
<1>. QED
  BY <1>2, <1>3, <1>4, <1>5, GatewayAssumption DEF GatewayType

\* A lease given back leaves no more of them than before.
LEMMA GiveLease ==
    ASSUME GatewayType, Cardinality(holders) <= MaxConcurrent, NEW r \in Requests,
           holders' = holders \ {r}
    PROVE  holders' \in SUBSET Requests /\ Cardinality(holders') <= MaxConcurrent
<1>1. IsFiniteSet(holders)
  BY GatewayAssumption, FS_Subset DEF GatewayType
<1>2. IsFiniteSet(holders') /\ Cardinality(holders') <= Cardinality(holders)
  BY <1>1, FS_Subset
<1>3. Cardinality(holders) \in Nat /\ Cardinality(holders') \in Nat
  BY <1>1, <1>2, FS_CardinalityType
<1>. QED
  BY <1>2, <1>3, GatewayAssumption DEF GatewayType

\* What a step of request r does as far as the invariant can see: the stage of
\* r alone moves, its lease comes or goes with the stage, and so does its
\* attempt.
Moves(r, s) ==
    /\ stage' = [stage EXCEPT ![r] = s]
    /\ \/ on' = on
       \/ \E b \in Backends \union {NoBackend} : on' = [on EXCEPT ![r] = b]
    /\ on'[r] # NoBackend <=> s \in WithAttempt
    /\ \/ holders' = holders
       \/ holders' = holders \union {r} /\ Pool!HasRoom(TenantOf[r])
       \/ holders' = holders \ {r}
    /\ r \in holders' <=> s \in WithLease

\* A step that moves a handler and what it holds together keeps the invariant.
LEMMA MoveStep ==
    ASSUME IInv, NEW r \in Requests, NEW s \in Stages, Moves(r, s)
    PROVE  IInv'
<1>1. holders' \in SUBSET Requests /\ Cardinality(holders') <= MaxConcurrent
  BY TakeLease, GiveLease DEF IInv, Moves, GatewayType
<1>2. GatewayType'
  BY <1>1 DEF IInv, Moves, GatewayType
<1>3. LeasesMatchStages'
  BY DEF IInv, Moves, GatewayType, LeasesMatchStages
<1>4. AttemptsMatchStages'
  BY DEF IInv, Moves, GatewayType, AttemptsMatchStages
<1>. QED
  BY <1>1, <1>2, <1>3, <1>4 DEF IInv

\* Every step moves them together.
LEMMA StepIInv == IInv /\ [Next]_vars => IInv'
<1> SUFFICES ASSUME IInv, [Next]_vars PROVE IInv'
  OBVIOUS
<1> USE DEF WithLease, WithAttempt, Goes, Leaves, admissionVars, routerVars
<1>0. /\ stage \in [Requests -> Stages]
      /\ on \in [Requests -> Backends \union {NoBackend}]
      /\ \A r \in Requests : r \in holders <=> stage[r] \in WithLease
      /\ \A r \in Requests : on[r] # NoBackend <=> stage[r] \in WithAttempt
  BY DEF IInv, GatewayType, LeasesMatchStages, AttemptsMatchStages
<1>s. WithLease \subseteq Stages /\ {"idle", "queued", "released"} \subseteq Stages
  BY DEF Stages
<1>1. ASSUME NEW r \in Requests, Arrive(r) PROVE IInv'
  <2>1. CASE Pool!AdmitNewcomer(r) /\ Goes(r, "admitted")
    <3>1. Moves(r, "admitted")
      BY <1>0, <1>1, <2>1 DEF Arrive, Pool!AdmitNewcomer, Moves
    <3>. QED
      BY <1>s, <3>1, MoveStep
  <2>2. CASE Pool!Join(r) /\ Goes(r, "queued")
    <3>1. Moves(r, "queued")
      BY <1>0, <1>1, <2>2 DEF Arrive, Pool!Join, Moves
    <3>. QED
      BY <1>s, <3>1, MoveStep
  <2>. QED
    BY <1>1, <2>1, <2>2 DEF Arrive
<1>2. ASSUME NEW r \in Requests, Admitted(r) PROVE IInv'
  <2>1. Moves(r, "admitted")
    BY <1>0, <1>2 DEF Admitted, Pool!AdmitWaiting, Moves
  <2>. QED
    BY <1>s, <2>1, MoveStep
<1>3. ASSUME NEW r \in Requests, GivesUp(r) PROVE IInv'
  <2>1. Moves(r, "idle")
    BY <1>0, <1>3 DEF GivesUp, Pool!Leave, Moves
  <2>. QED
    BY <1>s, <2>1, MoveStep
<1>4. ASSUME NEW r \in Requests, Attempt(r) PROVE IInv'
  <2>1. PICK b \in Backends : on' = [on EXCEPT ![r] = b]
    BY <1>4 DEF Attempt, R!Start, R!RefreshAndStart, R!Begin
  <2>2. on'[r] # NoBackend
    BY <1>0, <2>1, GatewayAssumption
  <2>3. Moves(r, "calling")
    BY <1>0, <1>4, <2>1, <2>2 DEF Attempt, Moves
  <2>. QED
    BY <1>s, <2>3, MoveStep
<1>5. ASSUME NEW r \in Requests, NoAttempt(r) PROVE IInv'
  <2>1. on' = on
    BY <1>5 DEF NoAttempt, R!SetHealth
  <2>2. Moves(r, "releasing")
    BY <1>0, <1>5, <2>1 DEF NoAttempt, Moves
  <2>. QED
    BY <1>s, <2>2, MoveStep
<1>6. ASSUME NEW r \in Requests, Retry(r) PROVE IInv'
  <2>1. PICK b \in Backends : on' = [on EXCEPT ![r] = b]
    BY <1>6 DEF Retry, R!FailOver, R!Begin
  <2>2. on'[r] # NoBackend
    BY <1>0, <2>1, GatewayAssumption
  <2>3. Moves(r, "calling")
    BY <1>0, <1>6, <2>1, <2>2 DEF Retry, Moves
  <2>. QED
    BY <1>s, <2>3, MoveStep
<1>7. ASSUME NEW r \in Requests, CallEnds(r) \/ StreamClosed(r) PROVE IInv'
  <2>1. on' = [on EXCEPT ![r] = NoBackend]
    BY <1>7 DEF CallEnds, StreamClosed, R!Finish
  <2>2. Moves(r, "releasing")
    BY <1>0, <1>7, <2>1 DEF CallEnds, StreamClosed, Moves
  <2>. QED
    BY <1>s, <2>2, MoveStep
<1>8. ASSUME NEW r \in Requests, StreamBegins(r) PROVE IInv'
  <2>1. Moves(r, "streaming")
    BY <1>0, <1>8 DEF StreamBegins, Moves
  <2>. QED
    BY <1>s, <2>1, MoveStep
<1>9. ASSUME NEW r \in Requests, StreamStops(r) PROVE IInv'
  <2>1. Moves(r, "closing")
    BY <1>0, <1>9 DEF StreamStops, Moves
  <2>. QED
    BY <1>s, <2>1, MoveStep
<1>10. ASSUME NEW r \in Requests, Release(r) PROVE IInv'
  <2> DEFINE s == IF r \in Streamed THEN "released" ELSE "idle"
  <2>1. s \in {"released", "idle"}
    OBVIOUS
  <2>2. /\ stage' = [stage EXCEPT ![r] = s] /\ holders' = holders \ {r}
        /\ on' = on /\ stage[r] = "releasing"
    BY <1>10 DEF Release, Pool!GiveBack
  <2> HIDE DEF s
  <2>3. Moves(r, s)
    BY <1>0, <2>1, <2>2 DEF Moves
  <2>. QED
    BY <1>s, <2>1, <2>3, MoveStep
<1>11. ASSUME NEW r \in Requests, CleanedUp(r) PROVE IInv'
  <2>1. Moves(r, "idle")
    BY <1>0, <1>11 DEF CleanedUp, Moves
  <2>. QED
    BY <1>s, <2>1, MoveStep
<1>12. CASE Background
  <2>1. stage' = stage /\ on' = on /\ holders' = holders
    BY <1>12 DEF Background, R!Tick, R!SetHealth
  <2>. QED
    BY <2>1 DEF IInv, GatewayType, LeasesMatchStages, AttemptsMatchStages
<1>13. CASE UNCHANGED vars
  BY <1>13 DEF vars, IInv, GatewayType, LeasesMatchStages, AttemptsMatchStages
<1>. QED
  BY <1>1, <1>2, <1>3, <1>4, <1>5, <1>6, <1>7, <1>8, <1>9, <1>10, <1>11, <1>12, <1>13
     DEF Next

\* Lease and attempt of every handler are as its stage says.
THEOREM InductiveInvariant == Spec => []IInv
BY InitIInv, StepIInv, PTL DEF Spec

\* No backend works for a request without a lease, and so admission bounds the
\* attempts in flight on all backends together.
THEOREM WorkIsAdmittedHolds == Spec => []WorkIsAdmitted
<1>1. IInv => WorkIsAdmitted
  <2> SUFFICES ASSUME IInv PROVE WorkIsAdmitted
    OBVIOUS
  <2> DEFINE busy == {r \in Requests : on[r] # NoBackend}
  <2>1. \A r \in Requests : on[r] # NoBackend => r \in holders
    BY DEF IInv, LeasesMatchStages, AttemptsMatchStages, WithLease, WithAttempt
  <2>2. IsFiniteSet(holders)
    BY GatewayAssumption, FS_Subset DEF IInv, GatewayType
  <2>3. busy \subseteq holders
    BY <2>1
  <2>4. /\ IsFiniteSet(busy) /\ Cardinality(busy) <= Cardinality(holders)
        /\ Cardinality(busy) \in Nat /\ Cardinality(holders) \in Nat
    BY <2>2, <2>3, FS_Subset, FS_CardinalityType
  <2>5. Cardinality(busy) <= MaxConcurrent
    BY <2>4, GatewayAssumption DEF IInv
  <2>. QED
    BY <2>1, <2>5 DEF WorkIsAdmitted
<1>. QED
  BY <1>1, InductiveInvariant, PTL

----------------------------------------------------------------------------
\* The line of the admission controller is exactly the handlers in acquire.
LineMatchesStages ==
    /\ line \in Seq(Requests)
    /\ \A i, j \in 1..Len(line) : line[i] = line[j] => i = j
    /\ \A r \in Requests : stage[r] = "queued" <=> Pool!Waits(r)

\* Handlers that neither come to acquire nor leave it.
LEMMA LineUnchanged ==
    ASSUME GatewayType, LineMatchesStages, line' = line,
           \A r \in Requests : stage'[r] = "queued" <=> stage[r] = "queued"
    PROVE  LineMatchesStages'
BY DEF LineMatchesStages, Pool!Waits

\* A handler leaves acquire, and its ticket the line.
LEMMA LineShorter ==
    ASSUME GatewayType, LineMatchesStages, NEW r \in Requests, NEW s \in Stages \ {"queued"},
           stage' = [stage EXCEPT ![r] = s],
           NEW i \in 1..Len(line), line[i] = r, line' = RemoveAt(line, i)
    PROVE  LineMatchesStages'
<1>1. /\ line \in Seq(Requests) /\ i \in 1..Len(line) /\ line[i] = r
      /\ \A j, k \in 1..Len(line) : line[j] = line[k] => j = k
  BY DEF LineMatchesStages
<1>2. RemoveAt(line, i) \in Seq(Requests)
  BY <1>1, RemoveAtFacts
<1>3. /\ \A j, k \in 1..Len(RemoveAt(line, i)) :
            RemoveAt(line, i)[j] = RemoveAt(line, i)[k] => j = k
      /\ \A x : (\E j \in 1..Len(RemoveAt(line, i)) : RemoveAt(line, i)[j] = x)
                <=> x # line[i] /\ \E j \in 1..Len(line) : line[j] = x
  BY ONLY <1>1, RemoveAtElements
<1>4. \A q \in Requests : Pool!Waits(q)' <=> q # r /\ Pool!Waits(q)
  BY <1>1, <1>3 DEF Pool!Waits
<1>5. \A q \in Requests : stage'[q] = "queued" <=> q # r /\ stage[q] = "queued"
  BY DEF GatewayType
<1> QED
  BY <1>2, <1>3, <1>4, <1>5 DEF LineMatchesStages

\* A handler waits in acquire, at the end of the line.
LEMMA LineLonger ==
    ASSUME GatewayType, LineMatchesStages, NEW r \in Requests, ~Pool!Waits(r),
           stage' = [stage EXCEPT ![r] = "queued"], line' = Append(line, r)
    PROVE  LineMatchesStages'
<1>1. /\ line \in Seq(Requests) /\ Len(line) \in Nat
      /\ line' \in Seq(Requests) /\ Len(line') = Len(line) + 1 /\ line'[Len(line) + 1] = r
      /\ \A i \in 1..Len(line) : line'[i] = line[i]
  BY DEF LineMatchesStages
<1>2. \A i \in 1..Len(line') : i \in 1..Len(line) \/ i = Len(line) + 1
  BY <1>1
<1>3. \A i, j \in 1..Len(line') : line'[i] = line'[j] => i = j
  BY <1>1, <1>2 DEF LineMatchesStages, Pool!Waits
<1>4. \A q \in Requests : Pool!Waits(q)' <=> q = r \/ Pool!Waits(q)
  BY <1>1, <1>2 DEF Pool!Waits
<1>5. \A q \in Requests : stage'[q] = "queued" <=> q = r \/ stage[q] = "queued"
  BY DEF GatewayType
<1> QED
  BY <1>1, <1>3, <1>4, <1>5 DEF LineMatchesStages

\* Every step keeps the line to the handlers in acquire.
LEMMA LineStep == IInv /\ LineMatchesStages /\ [Next]_vars => LineMatchesStages'
<1> SUFFICES ASSUME IInv, LineMatchesStages, [Next]_vars PROVE LineMatchesStages'
  OBVIOUS
<1> USE DEF Goes, Leaves, admissionVars
<1>0. GatewayType /\ stage \in [Requests -> Stages]
  BY DEF IInv, GatewayType
<1>1. ASSUME NEW r \in Requests, Arrive(r) PROVE LineMatchesStages'
  <2>1. CASE Pool!AdmitNewcomer(r) /\ Goes(r, "admitted")
    BY <1>0, <1>1, <2>1, LineUnchanged DEF Arrive, Pool!AdmitNewcomer
  <2>2. CASE Pool!Join(r) /\ Goes(r, "queued")
    BY <1>0, <2>2, LineLonger DEF Pool!Join
  <2> QED
    BY <1>1, <2>1, <2>2 DEF Arrive
<1>2. ASSUME NEW r \in Requests, Admitted(r) \/ GivesUp(r) PROVE LineMatchesStages'
  <2>1. PICK i \in 1..Len(line) : line[i] = r /\ line' = Pool!RemoveAt(line, i)
    BY <1>2 DEF Admitted, GivesUp, Pool!AdmitWaiting, Pool!Leave
  <2>2. line' = RemoveAt(line, i)
    BY <2>1 DEF Pool!RemoveAt, RemoveAt
  <2>3. PICK s \in {"admitted", "idle"} : stage' = [stage EXCEPT ![r] = s]
    BY <1>2 DEF Admitted, GivesUp
  <2>4. s \in Stages \ {"queued"}
    BY <2>3 DEF Stages
  <2> QED
    BY <1>0, <2>1, <2>2, <2>3, <2>4, LineShorter
\* The other steps of a handler pass by the line.
<1>3. ASSUME NEW r \in Requests,
             \/ Attempt(r) \/ NoAttempt(r) \/ Retry(r) \/ CallEnds(r) \/ StreamBegins(r)
             \/ StreamStops(r) \/ StreamClosed(r) \/ Release(r) \/ CleanedUp(r)
      PROVE  LineMatchesStages'
  <2>1. line' = line
    BY <1>3 DEF Attempt, NoAttempt, Retry, CallEnds, StreamBegins, StreamStops, StreamClosed,
                Release, CleanedUp, Pool!GiveBack
  <2>2. \/ stage' = stage
        \/ stage[r] # "queued" /\ \E s : s # "queued" /\ stage' = [stage EXCEPT ![r] = s]
    BY <1>3 DEF Attempt, NoAttempt, Retry, CallEnds, StreamBegins, StreamStops, StreamClosed,
                Release, CleanedUp
  <2> QED
    BY <1>0, <2>1, <2>2, LineUnchanged
<1>4. CASE Background \/ UNCHANGED vars
  BY <1>0, <1>4, LineUnchanged DEF Background, vars
<1> QED
  BY <1>1, <1>2, <1>3, <1>4 DEF Next

\* A handler that is done, by whatever path, has no ticket in the line, no lease
\* and no attempt on a backend.
THEOREM NothingLeftBehindHolds == Spec => []NothingLeftBehind
<1>1. Init => LineMatchesStages
  BY DEF Init, Pool!PoolInit, LineMatchesStages, Pool!Waits
<1>2. IInv /\ LineMatchesStages => NothingLeftBehind
  BY DEF IInv, LineMatchesStages, LeasesMatchStages, AttemptsMatchStages, WithLease, WithAttempt,
         NothingLeftBehind
<1> QED
  BY <1>1, <1>2, LineStep, InductiveInvariant, PTL DEF Spec

----------------------------------------------------------------------------
\* A step of a handler is a step of the admission controller or passes it by,
\* and the same of the router.
LEMMA PoolStep == [Next]_vars => [Pool!PoolNext]_(Pool!poolVars)
<1> SUFFICES ASSUME [Next]_vars PROVE [Pool!PoolNext]_(Pool!poolVars)
  OBVIOUS
<1>1. ASSUME NEW r \in Requests,
             Arrive(r) \/ Admitted(r) \/ GivesUp(r) \/ Release(r)
      PROVE  Pool!PoolNext
  BY <1>1 DEF Arrive, Admitted, GivesUp, Release, Pool!PoolNext
<1>2. ASSUME NEW r \in Requests,
             \/ Attempt(r) \/ NoAttempt(r) \/ Retry(r) \/ CallEnds(r) \/ StreamBegins(r)
             \/ StreamStops(r) \/ StreamClosed(r) \/ CleanedUp(r)
      PROVE  UNCHANGED Pool!poolVars
  BY <1>2 DEF Attempt, NoAttempt, Retry, CallEnds, StreamBegins, StreamStops, StreamClosed,
              CleanedUp, Leaves, admissionVars, Pool!poolVars
<1>3. CASE Background \/ UNCHANGED vars
  BY <1>3 DEF Background, vars, Pool!poolVars
<1> QED
  BY <1>1, <1>2, <1>3 DEF Next

\* The same of the router.
LEMMA RouterStep == [Next]_vars => [R!Next]_(R!vars)
<1> SUFFICES ASSUME [Next]_vars PROVE [R!Next]_(R!vars)
  OBVIOUS
<1>1. ASSUME NEW r \in Requests,
             Attempt(r) \/ Retry(r) \/ CallEnds(r) \/ StreamClosed(r)
      PROVE  R!Next
  BY <1>1 DEF Attempt, Retry, CallEnds, StreamClosed, R!Next
<1>2. ASSUME NEW r \in Requests, NoAttempt(r) PROVE [R!Next]_(R!vars)
  BY <1>2 DEF NoAttempt, routerVars, R!Next, R!vars
<1>3. ASSUME NEW r \in Requests,
             \/ Arrive(r) \/ Admitted(r) \/ GivesUp(r) \/ StreamBegins(r)
             \/ StreamStops(r) \/ Release(r) \/ CleanedUp(r)
      PROVE  UNCHANGED R!vars
  BY <1>3 DEF Arrive, Admitted, GivesUp, StreamBegins, StreamStops, Release, CleanedUp,
              routerVars, R!vars
<1>4. CASE Background
  BY <1>4 DEF Background, R!Next
<1>5. CASE UNCHANGED vars
  BY <1>5 DEF vars, R!vars
<1> QED
  BY <1>1, <1>2, <1>3, <1>4, <1>5 DEF Next

\* The handlers use acquire and release, and select, started and finished, as
\* AdmissionPool and Router say, whatever they are in the middle of.
THEOREM ImplementsParts == Spec => Pool!PoolSpec /\ R!Spec
<1>1. Init => Pool!PoolInit /\ R!Init
  BY DEF Init
<1> QED
  BY <1>1, PoolStep, RouterStep, PTL DEF Spec, Pool!PoolSpec, R!Spec

\* No tenant has more leases than it may have.
TenantsHaveRoom == \A r \in Requests : Cardinality(Pool!HoldersOf(TenantOf[r])) <= TenantLimit

\* A lease goes to a tenant with room only.
LEMMA TenantsStep ==
    ASSUME GatewayType, TenantsHaveRoom, [Pool!PoolNext]_(Pool!poolVars)
    PROVE  TenantsHaveRoom'
<1> DEFINE H(t) == Pool!HoldersOf(t)
<1>0. holders \in SUBSET Requests /\ IsFiniteSet(Requests) /\ TenantLimit \in Nat
  BY GatewayAssumption DEF GatewayType
<1>1. \A t : /\ IsFiniteSet(H(t)) /\ Cardinality(H(t)) \in Nat
  <2> TAKE t
  <2>1. H(t) \subseteq Requests
    BY <1>0 DEF Pool!HoldersOf
  <2> QED
    BY <1>0, <2>1, FS_Subset, FS_CardinalityType
<1>2. ASSUME NEW q \in Requests, Pool!HasRoom(TenantOf[q]), holders' = holders \union {q}
      PROVE  TenantsHaveRoom'
  <2> SUFFICES ASSUME NEW r \in Requests
               PROVE  Cardinality(H(TenantOf[r])') <= TenantLimit
    BY DEF TenantsHaveRoom
  <2>1. CASE TenantOf[r] = TenantOf[q]
    <3> DEFINE A == H(TenantOf[q])
    <3>1. H(TenantOf[r])' = A \union {q}
      BY <1>2, <2>1 DEF Pool!HoldersOf
    <3>2. Cardinality(A) < TenantLimit
      BY <1>2 DEF Pool!HasRoom, Pool!Cardinality, Cardinality
    <3>3. IsFiniteSet(A) /\ Cardinality(A) \in Nat
      BY <1>1
    <3> HIDE DEF A, H
    <3>4. Cardinality(A \union {q}) <= Cardinality(A) + 1 /\ Cardinality(A \union {q}) \in Nat
      <4>1. CASE q \in A
        <5> DEFINE B == A \union {q}
        <5>1. B = A
          BY <4>1
        <5> HIDE DEF B
        <5>2. Cardinality(B) = Cardinality(A)
          BY <5>1
        <5>3. Cardinality(B) <= Cardinality(A) + 1 /\ Cardinality(B) \in Nat
          BY <3>3, <5>2
        <5> QED
          BY <5>3 DEF B
      <4>2. CASE q \notin A
        <5>1. Cardinality(A \union {q}) = Cardinality(A) + 1
          BY <3>3, <4>2, FS_AddElement
        <5> QED
          BY <3>3, <5>1
      <4> QED
        BY <4>1, <4>2
    <3> QED
      BY <1>0, <3>1, <3>2, <3>3, <3>4
  <2>2. CASE TenantOf[r] # TenantOf[q]
    <3>1. H(TenantOf[r])' = H(TenantOf[r])
      BY <1>2, <2>2 DEF Pool!HoldersOf
    <3> QED
      BY <3>1 DEF TenantsHaveRoom
  <2> QED
    BY <2>1, <2>2
<1>3. ASSUME holders' \subseteq holders PROVE TenantsHaveRoom'
  <2> SUFFICES ASSUME NEW r \in Requests
               PROVE  Cardinality(H(TenantOf[r])') <= TenantLimit
    BY DEF TenantsHaveRoom
  <2>1. H(TenantOf[r])' \subseteq H(TenantOf[r])
    BY <1>3 DEF Pool!HoldersOf
  <2>2. Cardinality(H(TenantOf[r])) <= TenantLimit
    BY DEF TenantsHaveRoom
  <2>3. IsFiniteSet(H(TenantOf[r])) /\ Cardinality(H(TenantOf[r])) \in Nat
    BY <1>1
  <2> HIDE DEF H
  <2>4. /\ Cardinality(H(TenantOf[r])') <= Cardinality(H(TenantOf[r]))
        /\ Cardinality(H(TenantOf[r])') \in Nat
    BY <2>1, <2>3, FS_Subset, FS_CardinalityType
  <2> QED
    BY <1>0, <2>2, <2>3, <2>4
<1>4. ASSUME NEW q \in Requests, Pool!AdmitNewcomer(q) \/ Pool!AdmitWaiting(q)
      PROVE  TenantsHaveRoom'
  BY <1>2, <1>4 DEF Pool!AdmitNewcomer, Pool!AdmitWaiting
<1>5. ASSUME NEW q \in Requests, Pool!Join(q) \/ Pool!Leave(q) \/ Pool!GiveBack(q)
      PROVE  TenantsHaveRoom'
  BY <1>3, <1>5 DEF Pool!Join, Pool!Leave, Pool!GiveBack
<1>6. CASE UNCHANGED Pool!poolVars
  BY <1>3, <1>6 DEF Pool!poolVars
<1> QED
  BY <1>4, <1>5, <1>6 DEF Pool!PoolNext

RP == INSTANCE RouterProofs

\* What RouterProofs proves of the load of a backend holds behind the handlers.
LEMMA RouterLoad == Spec => []RP!LoadAccounting
<1>1. RP!RouterAssumption /\ RP!CandidatesAssumption
  BY GatewayAssumption DEF RP!RouterAssumption, RP!CandidatesAssumption, RP!IsFiniteSet, IsFiniteSet
<1>2. R!Init => RP!Init
  BY DEF R!Init, RP!Init, R!NewCandidate, RP!NewCandidate
<1>3. [R!Next]_(R!vars) => [RP!Next]_(RP!vars)
  BY DEF R!Next, RP!Next, R!vars, RP!vars,
         R!Start, R!FailOver, R!Finish, R!SetHealth, R!RefreshAndStart, R!Tick,
         RP!Start, RP!FailOver, RP!Finish, RP!SetHealth, RP!RefreshAndStart, RP!Tick,
         R!Begin, R!Recorded, R!WithHealth, R!Available, R!CircuitReady, R!Started, R!Later,
         RP!Begin, RP!Recorded, RP!WithHealth, RP!Available, RP!CircuitReady, RP!Started, RP!Later,
         R!Finished, R!Success, R!Error, R!Ended, R!OneMore, R!Outcomes,
         RP!Finished, RP!Success, RP!Error, RP!Ended, RP!OneMore, RP!Outcomes
<1>4. Spec => RP!Spec
  BY <1>2, <1>3, ImplementsParts, PTL DEF R!Spec, RP!Spec
<1>5. RP!Spec => []RP!LoadAccounting
  BY <1>1, RP!LoadCorrect, PTL
<1> QED
  BY <1>4, <1>5, PTL

\* The attempts in flight for the tenant of request r.
BusyFor(r) == {q \in Requests : on[q] # NoBackend /\ TenantOf[q] = TenantOf[r]}

LoadIsAdmitted ==
    /\ \A b \in Backends : candidates[b].active <= MaxConcurrent
    /\ \A r \in Requests : Cardinality(BusyFor(r)) <= TenantLimit

\* The two parts together bound what neither bounds alone: no backend's `active`
\* exceeds max_concurrent_requests, whatever its own capacity, and no tenant has
\* more attempts in flight, on all backends together, than per_tenant_concurrency.
THEOREM LoadIsAdmittedHolds == Spec => []LoadIsAdmitted
<1>1. Init => TenantsHaveRoom
  <2> SUFFICES ASSUME Init PROVE TenantsHaveRoom
    OBVIOUS
  <2>1. \A t : Pool!HoldersOf(t) = {}
    BY DEF Init, Pool!PoolInit, Pool!HoldersOf
  <2> QED
    BY <2>1, FS_EmptySet, GatewayAssumption DEF TenantsHaveRoom
<1>2. IInv /\ TenantsHaveRoom /\ [Next]_vars => TenantsHaveRoom'
  BY TenantsStep, PoolStep DEF IInv
<1>3. IInv /\ TenantsHaveRoom /\ WorkIsAdmitted /\ RP!LoadAccounting => LoadIsAdmitted
  <2> SUFFICES ASSUME IInv, TenantsHaveRoom, WorkIsAdmitted, RP!LoadAccounting
               PROVE  LoadIsAdmitted
    OBVIOUS
  <2>0. /\ IsFiniteSet(Requests) /\ holders \subseteq Requests /\ MaxConcurrent \in Nat
        /\ TenantLimit \in Nat /\ NoBackend \notin Backends
    BY GatewayAssumption DEF IInv, GatewayType
  <2>1. ASSUME NEW b \in Backends PROVE candidates[b].active <= MaxConcurrent
    <3> DEFINE A == {q \in Requests : on[q] = b}
               B == {q \in Requests : on[q] # NoBackend}
    <3>1. candidates[b].active = Cardinality(A)
      BY <2>1 DEF RP!LoadAccounting, RP!AttemptsOn, RP!Cardinality, Cardinality
    <3>2. A \subseteq B /\ B \subseteq Requests
      BY <2>0
    <3>3. Cardinality(B) <= MaxConcurrent
      BY DEF WorkIsAdmitted
    <3> HIDE DEF A, B
    <3>4. IsFiniteSet(B) /\ Cardinality(A) <= Cardinality(B)
          /\ Cardinality(A) \in Nat /\ Cardinality(B) \in Nat
      BY <2>0, <3>2, FS_Subset, FS_CardinalityType
    <3> QED
      BY <2>0, <3>1, <3>3, <3>4
  <2>2. ASSUME NEW r \in Requests PROVE Cardinality(BusyFor(r)) <= TenantLimit
    <3> DEFINE A == BusyFor(r)
               B == Pool!HoldersOf(TenantOf[r])
    <3>1. A \subseteq B /\ B \subseteq Requests
      BY <2>0 DEF BusyFor, Pool!HoldersOf, WorkIsAdmitted
    <3>2. Cardinality(B) <= TenantLimit
      BY DEF TenantsHaveRoom
    <3> HIDE DEF A, B
    <3>3. IsFiniteSet(B) /\ Cardinality(A) <= Cardinality(B)
          /\ Cardinality(A) \in Nat /\ Cardinality(B) \in Nat
      BY <2>0, <3>1, FS_Subset, FS_CardinalityType
    <3> QED
      BY <2>0, <3>2, <3>3 DEF A
  <2> QED
    BY <2>1, <2>2 DEF LoadIsAdmitted
<1> QED
  BY <1>1, <1>2, <1>3, InductiveInvariant, WorkIsAdmittedHolds, RouterLoad, PTL DEF Spec

============================================================================
