-------------------------- MODULE AdmissionProofs --------------------------
(***************************************************************************)
(* Proofs about Admission for every number of requests, tenants and every  *)
(* value of the limits: the type invariant, the accounting of leases, the  *)
(* exactness of the queue, the absence of lost wake-ups, the order of      *)
(* grants, and that the controller implements AdmissionPool.               *)
(***************************************************************************)
EXTENDS Admission, SequenceFacts, FiniteSetTheorems

----------------------------------------------------------------------------
(***************************************************************************)
(* The inductive invariant                                                 *)
(***************************************************************************)

\* Only a task that holds a lease has scheduled `_release` tasks, and it has
\* scheduled no more of them than it called release.  Without this the
\* accounting is not inductive: a `_release` could run for nobody's lease.
LeaseBookkeeping == \A r \in Requests :
    /\ pc[r] # "leased" => ~released[r] /\ calls[r] = 0
    /\ pending[r] <= calls[r]

IInv ==
    /\ TypeOK
    /\ LeaseBookkeeping
    /\ LeaseAccounting
    /\ QueueIsExactlyTheSuspended
    /\ NoLostWakeup

\* The initial state satisfies the inductive invariant.
LEMMA InitIInv == Init => IInv
<1> SUFFICES ASSUME Init PROVE IInv
  OBVIOUS
<1> USE RequestsAssumption, LimitsAssumption DEF Init
<1>1. TypeOK
  BY DEF TypeOK, States, Suspended
<1>2. LeaseBookkeeping
  BY DEF LeaseBookkeeping
<1>3. LeaseAccounting
  <2>1. Cardinality(Holders) = 0
    <3>1. Holders = {}
      BY DEF Holders
    <3>. QED
      BY <3>1, FS_EmptySet
  <2>2. ASSUME NEW t \in Tenants PROVE Cardinality(HoldersOf(t)) = 0
    <3>1. HoldersOf(t) = {}
      BY DEF Holders, HoldersOf
    <3>. QED
      BY <3>1, FS_EmptySet
  <2>. QED
    BY <2>1, <2>2 DEF LeaseAccounting
<1>4. QueueIsExactlyTheSuspended
  BY DEF QueueIsExactlyTheSuspended, Suspended
<1>5. NoLostWakeup
  BY DEF NoLostWakeup, IsFirstEligible
<1>. QED
  BY <1>1, <1>2, <1>3, <1>4, <1>5 DEF IInv

\* Every action keeps the types.
LEMMA TypeStep == TypeOK /\ LeaseBookkeeping /\ LeaseAccounting /\ [Next]_vars => TypeOK'
<1> SUFFICES ASSUME TypeOK, LeaseBookkeeping, LeaseAccounting, [Next]_vars
             PROVE  TypeOK'
  OBVIOUS
<1> USE RequestsAssumption, LimitsAssumption DEF TypeOK, States, Suspended
<1>1. ASSUME NEW r \in Requests, AcquireAtOnce(r) PROVE TypeOK'
  BY <1>1 DEF AcquireAtOnce, TakeCapacity, NewLease
<1>2. ASSUME NEW r \in Requests, RejectQueueFull(r) PROVE TypeOK'
  BY <1>2 DEF RejectQueueFull
<1>3. ASSUME NEW r \in Requests, Enqueue(r) PROVE TypeOK'
  BY <1>3 DEF Enqueue
<1>4. ASSUME NEW r \in Requests, ResumeGranted(r) PROVE TypeOK'
  <2>1. queue' \in Seq(Requests)
    BY <1>4, RemoveAtFacts DEF ResumeGranted, Dequeue
  <2>. QED
    BY <1>4, <2>1 DEF ResumeGranted, TakeCapacity, NewLease, NotifyAll
<1>5. ASSUME NEW r \in Requests, ResumeWaits(r) PROVE TypeOK'
  BY <1>5 DEF ResumeWaits
<1>6. ASSUME NEW r \in Requests, DeadlinePasses(r) PROVE TypeOK'
  BY <1>6 DEF DeadlinePasses
<1>7. ASSUME NEW r \in Requests, ClientGone(r) PROVE TypeOK'
  BY <1>7 DEF ClientGone
<1>8. ASSUME NEW r \in Requests, Abandon(r) PROVE TypeOK'
  <2>1. queue' \in Seq(Requests)
    BY <1>8, RemoveAtFacts DEF Abandon, Dequeue
  <2>. QED
    BY <1>8, <2>1 DEF Abandon, NotifyAll, Outcome
<1>9. ASSUME NEW r \in Requests, CallRelease(r) PROVE TypeOK'
  BY <1>9 DEF CallRelease, LeaseBookkeeping
<1>10. ASSUME NEW r \in Requests, RunRelease(r) PROVE TypeOK'
  <2>1. r \in Holders /\ r \in HoldersOf(TenantOf[r]) /\ TenantOf[r] \in Tenants
    BY <1>10 DEF RunRelease, FirstRelease, Holders, HoldersOf, LeaseBookkeeping
  <2>2. IsFiniteSet(Holders) /\ IsFiniteSet(HoldersOf(TenantOf[r]))
    BY FS_Subset DEF Holders, HoldersOf
  <2>3. active # 0 /\ tenants[TenantOf[r]] # 0
    BY <2>1, <2>2, FS_EmptySet DEF LeaseAccounting
  <2>. QED
    BY <1>10, <2>3 DEF RunRelease, NotifyAll
<1>11. ASSUME NEW r \in Requests, RunReleaseAgain(r) PROVE TypeOK'
  BY <1>11 DEF RunReleaseAgain
<1>12. ASSUME NEW r \in Requests, EndOfRequest(r) PROVE TypeOK'
  BY <1>12 DEF EndOfRequest
<1>13. CASE UNCHANGED vars
  BY <1>13 DEF vars
<1>. QED
  BY <1>1, <1>2, <1>3, <1>4, <1>5, <1>6, <1>7, <1>8, <1>9, <1>10, <1>11, <1>12,
     <1>13 DEF Next

\* Every action keeps the bookkeeping of release() calls.
LEMMA BookkeepingStep == TypeOK /\ LeaseBookkeeping /\ [Next]_vars => LeaseBookkeeping'
<1> SUFFICES ASSUME TypeOK, LeaseBookkeeping, [Next]_vars
             PROVE  LeaseBookkeeping'
  OBVIOUS
<1> USE DEF TypeOK, LeaseBookkeeping
<1>1. ASSUME NEW r \in Requests,
             AcquireAtOnce(r) \/ RejectQueueFull(r) \/ Enqueue(r) \/ ResumeWaits(r)
               \/ DeadlinePasses(r) \/ ClientGone(r)
      PROVE  LeaseBookkeeping'
  BY <1>1 DEF AcquireAtOnce, RejectQueueFull, Enqueue, ResumeWaits, DeadlinePasses,
              ClientGone, NewLease
<1>2. ASSUME NEW r \in Requests, ResumeGranted(r) \/ Abandon(r)
      PROVE  LeaseBookkeeping'
  BY <1>2 DEF ResumeGranted, Abandon, NotifyAll, NewLease, Outcome
<1>3. ASSUME NEW r \in Requests, CallRelease(r) \/ RunReleaseAgain(r)
      PROVE  LeaseBookkeeping'
  <2>1. CASE CallRelease(r)
    <3>1. \A q \in Requests : pending[q] \in Nat /\ calls[q] \in Nat
      BY LimitsAssumption
    <3>2. ASSUME NEW q \in Requests PROVE pending'[q] <= calls'[q]
      BY <2>1, <3>1, <3>2 DEF CallRelease
    <3>. QED
      BY <2>1, <3>2 DEF CallRelease
  <2>2. CASE RunReleaseAgain(r)
    BY <2>2, LimitsAssumption DEF RunReleaseAgain
  <2>. QED
    BY <1>3, <2>1, <2>2
<1>4. ASSUME NEW r \in Requests, RunRelease(r)
      PROVE  LeaseBookkeeping'
  BY <1>4 DEF RunRelease, NotifyAll
<1>5. ASSUME NEW r \in Requests, EndOfRequest(r)
      PROVE  LeaseBookkeeping'
  BY <1>5 DEF EndOfRequest
<1>6. CASE UNCHANGED vars
  BY <1>6 DEF vars
<1>. QED
  BY <1>1, <1>2, <1>3, <1>4, <1>5, <1>6 DEF Next

----------------------------------------------------------------------------
(***************************************************************************)
(* Accounting                                                              *)
(***************************************************************************)

\* Holders are finitely many, so adding or removing one changes the count by one.
LEMMA HoldersFinite ==
    /\ IsFiniteSet(Holders)
    /\ \A t \in Tenants : IsFiniteSet(HoldersOf(t))
BY RequestsAssumption, FS_Subset DEF Holders, HoldersOf

\* A step that changes neither the counters nor the holders keeps the accounting.
LEMMA AccountingUnchanged ==
    ASSUME LeaseAccounting, UNCHANGED <<active, tenants>>, Holders' = Holders
    PROVE  LeaseAccounting'
<1>1. \A t \in Tenants : HoldersOf(t)' = HoldersOf(t)
  BY DEF HoldersOf
<1>. QED
  BY <1>1 DEF LeaseAccounting

\* Taking capacity for an eligible request keeps the accounting and the limits.
LEMMA AccountingGrant ==
    ASSUME TypeOK, LeaseAccounting,
           NEW r \in Requests, r \notin Holders, Eligible(TenantOf[r]),
           TakeCapacity(TenantOf[r]), Holders' = Holders \union {r}
    PROVE  LeaseAccounting'
<1> USE RequestsAssumption, LimitsAssumption
<1>1. Cardinality(Holders') = Cardinality(Holders) + 1
  BY HoldersFinite, FS_AddElement
<1>2. active' = Cardinality(Holders') /\ active' <= MaxConcurrent
  BY <1>1 DEF LeaseAccounting, TakeCapacity, Eligible, TypeOK
<1>3. ASSUME NEW t \in Tenants
      PROVE  /\ tenants'[t] = Cardinality(HoldersOf(t)')
             /\ tenants'[t] <= TenantLimit
  <2>1. CASE t = TenantOf[r]
    <3>1. HoldersOf(t)' = HoldersOf(t) \union {r} /\ r \notin HoldersOf(t)
      BY <2>1 DEF HoldersOf
    <3>2. Cardinality(HoldersOf(t)') = Cardinality(HoldersOf(t)) + 1
      BY <3>1, HoldersFinite, FS_AddElement
    <3>. QED
      BY <2>1, <3>2 DEF LeaseAccounting, TakeCapacity, Eligible, TypeOK
  <2>2. CASE t # TenantOf[r]
    <3>1. HoldersOf(t)' = HoldersOf(t)
      BY <2>2 DEF HoldersOf
    <3>. QED
      BY <2>2, <3>1 DEF LeaseAccounting, TakeCapacity, TypeOK
  <2>. QED
    BY <2>1, <2>2
<1>. QED
  BY <1>2, <1>3 DEF LeaseAccounting

\* Giving a lease back lowers exactly its own two counters.
LEMMA AccountingRelease ==
    ASSUME TypeOK, LeaseAccounting, NEW r \in Holders,
           active' = active - 1,
           tenants' = [tenants EXCEPT ![TenantOf[r]] = @ - 1],
           Holders' = Holders \ {r}
    PROVE  LeaseAccounting'
<1> USE RequestsAssumption, LimitsAssumption
<1>1. Cardinality(Holders') = Cardinality(Holders) - 1
  BY HoldersFinite, FS_RemoveElement
<1>2. active' = Cardinality(Holders') /\ active' <= MaxConcurrent
  BY <1>1 DEF LeaseAccounting, TypeOK
<1>3. ASSUME NEW t \in Tenants
      PROVE  /\ tenants'[t] = Cardinality(HoldersOf(t)')
             /\ tenants'[t] <= TenantLimit
  <2>1. CASE t = TenantOf[r]
    <3>1. HoldersOf(t)' = HoldersOf(t) \ {r} /\ r \in HoldersOf(t)
      BY <2>1 DEF HoldersOf
    <3>2. Cardinality(HoldersOf(t)') = Cardinality(HoldersOf(t)) - 1
      BY <3>1, HoldersFinite, FS_RemoveElement
    <3>. QED
      BY <2>1, <3>2 DEF LeaseAccounting, TypeOK
  <2>2. CASE t # TenantOf[r]
    <3>1. HoldersOf(t)' = HoldersOf(t)
      BY <2>2 DEF HoldersOf
    <3>. QED
      BY <2>2, <3>1 DEF LeaseAccounting, TypeOK
  <2>. QED
    BY <2>1, <2>2
<1>. QED
  BY <1>2, <1>3 DEF LeaseAccounting

\* Every action keeps the accounting of leases.
LEMMA AccountingStep ==
    TypeOK /\ LeaseBookkeeping /\ LeaseAccounting /\ [Next]_vars => LeaseAccounting'
<1> SUFFICES ASSUME TypeOK, LeaseBookkeeping, LeaseAccounting, [Next]_vars
             PROVE  LeaseAccounting'
  OBVIOUS
<1> USE DEF TypeOK
<1>1. ASSUME NEW r \in Requests, AcquireAtOnce(r) PROVE LeaseAccounting'
  <2>1. r \notin Holders /\ Holders' = Holders \union {r}
    BY <1>1 DEF AcquireAtOnce, Holders, NewLease, LeaseBookkeeping
  <2>. QED
    BY <1>1, <2>1, AccountingGrant DEF AcquireAtOnce
<1>2. ASSUME NEW r \in Requests, ResumeGranted(r) PROVE LeaseAccounting'
  <2>1. r \notin Holders /\ Holders' = Holders \union {r}
    BY <1>2 DEF ResumeGranted, Holders, NewLease, NotifyAll, LeaseBookkeeping
  <2>. QED
    BY <1>2, <2>1, AccountingGrant DEF ResumeGranted, IsFirstEligible
<1>3. ASSUME NEW r \in Requests, RunRelease(r) PROVE LeaseAccounting'
  <2>1. r \in Holders /\ Holders' = Holders \ {r}
    BY <1>3, LimitsAssumption
       DEF RunRelease, FirstRelease, Holders, NotifyAll, LeaseBookkeeping
  <2>. QED
    BY <1>3, <2>1, AccountingRelease DEF RunRelease
<1>4. ASSUME NEW r \in Requests,
             \/ RejectQueueFull(r) \/ Enqueue(r) \/ ResumeWaits(r) \/ DeadlinePasses(r)
             \/ ClientGone(r) \/ Abandon(r) \/ CallRelease(r) \/ RunReleaseAgain(r)
      PROVE  LeaseAccounting'
  <2>1. Holders' = Holders
    BY <1>4 DEF RejectQueueFull, Enqueue, ResumeWaits, DeadlinePasses, ClientGone,
                Abandon, CallRelease, RunReleaseAgain, Holders, NotifyAll, Outcome
  <2>2. UNCHANGED <<active, tenants>>
    BY <1>4 DEF RejectQueueFull, Enqueue, ResumeWaits, DeadlinePasses, ClientGone,
                Abandon, CallRelease, RunReleaseAgain
  <2>. QED
    BY <2>1, <2>2, AccountingUnchanged
<1>5. ASSUME NEW r \in Requests, EndOfRequest(r) PROVE LeaseAccounting'
  <2>1. Holders' = Holders
    BY <1>5 DEF EndOfRequest, Holders
  <2>. QED
    BY <1>5, <2>1, AccountingUnchanged DEF EndOfRequest
<1>6. CASE UNCHANGED vars
  <2>1. Holders' = Holders
    BY <1>6 DEF vars, Holders
  <2>. QED
    BY <1>6, <2>1, AccountingUnchanged DEF vars
<1>. QED
  BY <1>1, <1>2, <1>3, <1>4, <1>5, <1>6 DEF Next

----------------------------------------------------------------------------
(***************************************************************************)
(* The queue                                                               *)
(***************************************************************************)

\* Taking its ticket out when a task leaves the suspended states keeps the
\* queue exact, whatever else the step does among the suspended.
LEMMA QueueAfterDequeue ==
    ASSUME TypeOK, QueueIsExactlyTheSuspended, NEW r \in Requests, Dequeue(r),
           pc'[r] \notin Suspended,
           \A s \in Requests \ {r} : pc'[s] \in Suspended <=> pc[s] \in Suspended
    PROVE  QueueIsExactlyTheSuspended'
<1> USE DEF TypeOK
<1>1. PICK i \in 1..Len(queue) : queue[i] = r /\ queue' = RemoveAt(queue, i)
  BY DEF Dequeue
<1>2. queue' \in Seq(Requests) /\ Len(queue') = Len(queue) - 1
  BY <1>1, RemoveAtFacts
<1>3. /\ \A j, k \in 1..Len(queue') : queue'[j] = queue'[k] => j = k
      /\ \A s \in Requests : (\E j \in 1..Len(queue') : queue'[j] = s)
                             <=> s # r /\ \E j \in 1..Len(queue) : queue[j] = s
  <2>1. \A j, k \in 1..Len(queue) : queue[j] = queue[k] => j = k
    BY DEF QueueIsExactlyTheSuspended
  <2>2. queue \in Seq(Requests) /\ i \in 1..Len(queue) /\ queue' = RemoveAt(queue, i)
    BY <1>1
  <2>3. /\ \A j, k \in 1..Len(queue') : queue'[j] = queue'[k] => j = k
        /\ \A s \in Requests : (\E j \in 1..Len(queue') : queue'[j] = s)
                               <=> s # queue[i] /\ \E j \in 1..Len(queue) : queue[j] = s
    <3>1. /\ \A j, k \in 1..Len(RemoveAt(queue, i)) :
                RemoveAt(queue, i)[j] = RemoveAt(queue, i)[k] => j = k
          /\ \A x : (\E j \in 1..Len(RemoveAt(queue, i)) : RemoveAt(queue, i)[j] = x)
                    <=> x # queue[i] /\ \E j \in 1..Len(queue) : queue[j] = x
      BY ONLY <2>1, <2>2, RemoveAtElements
    <3>. QED
      BY ONLY <2>2, <3>1
  <2>. QED
    BY <1>1, <2>3
<1>4. Len(queue') <= MaxQueueDepth
  BY <1>2, LimitsAssumption DEF QueueIsExactlyTheSuspended
<1>. QED
  BY <1>3, <1>4 DEF QueueIsExactlyTheSuspended

\* A step that leaves the queue alone and moves no task in or out of the
\* suspended states keeps the queue exact.
LEMMA QueueUnchanged ==
    ASSUME QueueIsExactlyTheSuspended, queue' = queue,
           \A s \in Requests : pc'[s] \in Suspended <=> pc[s] \in Suspended
    PROVE  QueueIsExactlyTheSuspended'
BY DEF QueueIsExactlyTheSuspended

\* Every action keeps the queue exact.
LEMMA QueueStep ==
    TypeOK /\ QueueIsExactlyTheSuspended /\ [Next]_vars => QueueIsExactlyTheSuspended'
<1> SUFFICES ASSUME TypeOK, QueueIsExactlyTheSuspended, [Next]_vars
             PROVE  QueueIsExactlyTheSuspended'
  OBVIOUS
<1> USE DEF TypeOK
<1>1. ASSUME NEW r \in Requests, Enqueue(r) PROVE QueueIsExactlyTheSuspended'
  <2>1. /\ Len(queue') = Len(queue) + 1 /\ queue'[Len(queue) + 1] = r
        /\ \A i \in 1..Len(queue) : queue'[i] = queue[i] /\ i \in 1..Len(queue')
        /\ \A i \in 1..Len(queue') : i \in 1..Len(queue) \/ i = Len(queue) + 1
    BY <1>1 DEF Enqueue
  <2>2. \A i \in 1..Len(queue) : queue[i] # r
    BY <1>1 DEF Enqueue, QueueIsExactlyTheSuspended, Suspended
  <2>3. Len(queue') <= MaxQueueDepth
    BY <1>1, <2>1, LimitsAssumption DEF Enqueue
  <2>4. \A i, j \in 1..Len(queue') : queue'[i] = queue'[j] => i = j
    <3>1. \A i, j \in 1..Len(queue) : queue[i] = queue[j] => i = j
      BY DEF QueueIsExactlyTheSuspended
    <3>. QED
      BY <2>1, <2>2, <3>1
  <2>5. ASSUME NEW s \in Requests
        PROVE  pc'[s] \in Suspended <=> \E i \in 1..Len(queue') : queue'[i] = s
    <3>1. CASE s = r
      <4>1. pc'[r] \in Suspended
        BY <1>1 DEF Enqueue, Suspended
      <4>2. Len(queue) + 1 \in 1..Len(queue')
        BY <2>1
      <4>. QED
        BY <2>1, <3>1, <4>1, <4>2
    <3>2. CASE s # r
      <4>1. pc'[s] = pc[s]
        BY <1>1, <3>2 DEF Enqueue
      <4>2. (\E i \in 1..Len(queue') : queue'[i] = s)
              <=> \E i \in 1..Len(queue) : queue[i] = s
        BY <2>1, <3>2
      <4>. QED
        BY <4>1, <4>2 DEF QueueIsExactlyTheSuspended
    <3>. QED
      BY <3>1, <3>2
  <2>. QED
    BY <2>3, <2>4, <2>5 DEF QueueIsExactlyTheSuspended
<1>2. ASSUME NEW r \in Requests, ResumeGranted(r) PROVE QueueIsExactlyTheSuspended'
  <2>1. /\ pc'[r] \notin Suspended
        /\ \A s \in Requests \ {r} : pc'[s] \in Suspended <=> pc[s] \in Suspended
    BY <1>2 DEF ResumeGranted, NotifyAll, Suspended
  <2>. QED
    BY <1>2, <2>1, QueueAfterDequeue DEF ResumeGranted
<1>3. ASSUME NEW r \in Requests, Abandon(r) PROVE QueueIsExactlyTheSuspended'
  <2>1. /\ pc'[r] \notin Suspended
        /\ \A s \in Requests \ {r} : pc'[s] \in Suspended <=> pc[s] \in Suspended
    BY <1>3 DEF Abandon, NotifyAll, Outcome, Suspended
  <2>. QED
    BY <1>3, <2>1, QueueAfterDequeue DEF Abandon
<1>4. ASSUME NEW r \in Requests,
             \/ AcquireAtOnce(r) \/ RejectQueueFull(r) \/ ResumeWaits(r)
             \/ DeadlinePasses(r) \/ ClientGone(r) \/ CallRelease(r)
             \/ RunReleaseAgain(r) \/ EndOfRequest(r)
      PROVE  QueueIsExactlyTheSuspended'
  <2>1. \A s \in Requests : pc'[s] \in Suspended <=> pc[s] \in Suspended
    BY <1>4 DEF AcquireAtOnce, RejectQueueFull, ResumeWaits, DeadlinePasses, ClientGone,
                CallRelease, RunReleaseAgain, EndOfRequest, Suspended
  <2>2. queue' = queue
    BY <1>4 DEF AcquireAtOnce, RejectQueueFull, ResumeWaits, DeadlinePasses, ClientGone,
                CallRelease, RunReleaseAgain, EndOfRequest
  <2>. QED
    BY <2>1, <2>2, QueueUnchanged
<1>5. ASSUME NEW r \in Requests, RunRelease(r) PROVE QueueIsExactlyTheSuspended'
  <2>1. \A s \in Requests : pc'[s] \in Suspended <=> pc[s] \in Suspended
    BY <1>5 DEF RunRelease, NotifyAll, Suspended
  <2>. QED
    BY <1>5, <2>1, QueueUnchanged DEF RunRelease
<1>6. CASE UNCHANGED vars
  BY <1>6, QueueUnchanged DEF vars
<1>. QED
  BY <1>1, <1>2, <1>3, <1>4, <1>5, <1>6 DEF Next

----------------------------------------------------------------------------
(***************************************************************************)
(* Wake-ups                                                                *)
(***************************************************************************)

\* After notify_all no task sleeps, whatever became eligible.
LEMMA NobodySleeps ==
    ASSUME NEW pcs \in [Requests -> States], pc' = NotifyAll(pcs)
    PROVE  NoLostWakeup'
BY DEF NoLostWakeup, NotifyAll

\* A step that changes neither the queue nor the counters, and puts only tasks
\* to sleep that are not entitled to run, loses no wake-up.
LEMMA SleepersUnchanged ==
    ASSUME NoLostWakeup, UNCHANGED <<active, tenants, queue>>,
           \A s \in Requests : pc'[s] = "waiting" => pc[s] = "waiting" \/ ~IsFirstEligible(s)
    PROVE  NoLostWakeup'
BY DEF NoLostWakeup, IsFirstEligible, Eligible

\* Every action keeps the entitled task scheduled.
LEMMA WakeupStep ==
    TypeOK /\ QueueIsExactlyTheSuspended /\ NoLostWakeup /\ [Next]_vars => NoLostWakeup'
<1> SUFFICES ASSUME TypeOK, QueueIsExactlyTheSuspended, NoLostWakeup, [Next]_vars
             PROVE  NoLostWakeup'
  OBVIOUS
<1> USE RequestsAssumption, LimitsAssumption DEF TypeOK
<1>1. ASSUME NEW r \in Requests, AcquireAtOnce(r) PROVE NoLostWakeup'
  <2>1. \A t \in Tenants : Eligible(t)' => Eligible(t)
    BY <1>1 DEF AcquireAtOnce, TakeCapacity, Eligible
  <2>2. ASSUME NEW s \in Requests PROVE ~IsFirstEligible(s)'
    BY <1>1, <2>1 DEF AcquireAtOnce, NoneEligible, IsFirstEligible
  <2>. QED
    BY <2>2 DEF NoLostWakeup
<1>2. ASSUME NEW r \in Requests, Enqueue(r) PROVE NoLostWakeup'
  <2> SUFFICES ASSUME NEW s \in Requests, IsFirstEligible(s)'
               PROVE  pc'[s] # "waiting"
    BY DEF NoLostWakeup
  <2>1. /\ queue' \in Seq(Requests) /\ Len(queue') = Len(queue) + 1
        /\ queue'[Len(queue) + 1] = r
        /\ \A i \in 1..Len(queue) : queue'[i] = queue[i]
    BY <1>2 DEF Enqueue
  <2>2. UNCHANGED <<active, tenants>>
    BY <1>2 DEF Enqueue
  <2>3. PICK i \in 1..Len(queue') :
            /\ queue'[i] = s
            /\ Eligible(TenantOf[s])
            /\ \A j \in 1..(i - 1) : ~Eligible(TenantOf[queue'[j]])
    BY <2>2 DEF IsFirstEligible, Eligible
  <2>4. Eligible(TenantOf[s])
    BY <2>3
  <2>5. \A j \in 1..(i - 1) : queue'[j] = queue[j]
    <3>1. Len(queue) \in Nat /\ i \in 1..(Len(queue) + 1)
      BY <2>1
    <3>2. \A j \in 1..(i - 1) : j \in 1..Len(queue)
      BY <3>1
    <3>. QED
      BY <2>1, <3>2
  <2>6. \A j \in 1..(i - 1) : ~Eligible(TenantOf[queue[j]])
    BY <2>3, <2>5
  <2>7. CASE i = Len(queue) + 1
    <3>1. NoneEligible /\ s = r
      BY <2>1, <2>3, <2>6, <2>7 DEF NoneEligible
    <3>. QED
      BY <1>2, <2>4, <3>1 DEF Enqueue
  <2>8. CASE i # Len(queue) + 1
    <3>0. Len(queue) \in Nat /\ i \in 1..(Len(queue) + 1)
      BY <2>1
    <3>1. i \in 1..Len(queue) /\ queue[i] = s
      <4>1. i \in 1..Len(queue)
        BY <2>8, <3>0
      <4>. QED
        BY <2>1, <2>3, <4>1
    <3>2. IsFirstEligible(s)
      BY <2>4, <2>6, <3>1 DEF IsFirstEligible
    <3>3. pc[s] # "waiting"
      BY <3>2 DEF NoLostWakeup
    <3>4. s # r
      BY <1>2, <3>1 DEF Enqueue, QueueIsExactlyTheSuspended, Suspended
    <3>. QED
      BY <1>2, <3>3, <3>4 DEF Enqueue
  <2>. QED
    BY <2>7, <2>8
<1>3. ASSUME NEW r \in Requests, ResumeGranted(r) PROVE NoLostWakeup'
  BY <1>3, NobodySleeps DEF ResumeGranted, States
<1>4. ASSUME NEW r \in Requests, Abandon(r) PROVE NoLostWakeup'
  BY <1>4, NobodySleeps DEF Abandon, Outcome, States
<1>5. ASSUME NEW r \in Requests, RunRelease(r) PROVE NoLostWakeup'
  BY <1>5, NobodySleeps DEF RunRelease
<1>6. ASSUME NEW r \in Requests,
             \/ RejectQueueFull(r) \/ ResumeWaits(r) \/ DeadlinePasses(r)
             \/ ClientGone(r) \/ CallRelease(r) \/ RunReleaseAgain(r) \/ EndOfRequest(r)
      PROVE  NoLostWakeup'
  <2>1. UNCHANGED <<active, tenants, queue>>
    BY <1>6 DEF RejectQueueFull, ResumeWaits, DeadlinePasses, ClientGone, CallRelease,
                RunReleaseAgain, EndOfRequest
  <2>2. \A s \in Requests :
            pc'[s] = "waiting" => pc[s] = "waiting" \/ ~IsFirstEligible(s)
    BY <1>6 DEF RejectQueueFull, ResumeWaits, DeadlinePasses, ClientGone, CallRelease,
                RunReleaseAgain, EndOfRequest
  <2>. QED
    BY <2>1, <2>2, SleepersUnchanged
<1>7. CASE UNCHANGED vars
  BY <1>7, SleepersUnchanged DEF vars
<1>. QED
  BY <1>1, <1>2, <1>3, <1>4, <1>5, <1>6, <1>7 DEF Next

----------------------------------------------------------------------------
(***************************************************************************)
(* The theorems                                                            *)
(***************************************************************************)

\* Every reachable state satisfies the inductive invariant.
THEOREM InductiveInvariant == Spec => []IInv
<1>1. IInv /\ [Next]_vars => IInv'
  BY TypeStep, BookkeepingStep, AccountingStep, QueueStep, WakeupStep DEF IInv
<1>. QED
  BY InitIInv, <1>1, PTL DEF Spec

\* The controller's fields always have their types.
THEOREM TypeCorrect == Spec => []TypeOK
<1>1. IInv => TypeOK
  BY DEF IInv
<1>. QED
  BY InductiveInvariant, <1>1, PTL

\* The counters of the controller are exactly the outstanding leases and stay
\* within the limits, for any number of requests and tenants.
THEOREM AccountingCorrect == Spec => []LeaseAccounting
<1>1. IInv => LeaseAccounting
  BY DEF IInv
<1>. QED
  BY InductiveInvariant, <1>1, PTL

\* The queue holds exactly the tickets of suspended tasks, once each.
THEOREM QueueCorrect == Spec => []QueueIsExactlyTheSuspended
<1>1. IInv => QueueIsExactlyTheSuspended
  BY DEF IInv
<1>. QED
  BY InductiveInvariant, <1>1, PTL

\* Capacity is never free while the task entitled to it sleeps.
THEOREM WakeupsCorrect == Spec => []NoLostWakeup
<1>1. IInv => NoLostWakeup
  BY DEF IInv
<1>. QED
  BY InductiveInvariant, <1>1, PTL

\* A grant never overtakes a ticket whose tenant has room: FIFO among eligible
\* tenants, for newcomers as for queued requests.
THEOREM OrderCorrect == Spec => OvertakesOnlySaturatedTenants
<1> DEFINE Order == \A r \in Requests : Granted(r) =>
                       \A s \in Ahead(r) : tenants[TenantOf[s]] >= TenantLimit
<1>1. TypeOK /\ [Next]_vars => Order
  <2> SUFFICES ASSUME TypeOK, [Next]_vars,
                      NEW r \in Requests, Granted(r), NEW s \in Ahead(r)
               PROVE  tenants[TenantOf[s]] >= TenantLimit
    OBVIOUS
  <2> USE RequestsAssumption, LimitsAssumption DEF TypeOK
  <2>1. PICK k \in 1..Len(queue) : queue[k] = s /\ \A j \in 1..k : queue[j] # r
    BY DEF Ahead
  <2>2. AcquireAtOnce(r) \/ ResumeGranted(r)
    BY DEF Granted, Next, vars, AcquireAtOnce, RejectQueueFull, Enqueue, ResumeGranted,
           ResumeWaits, DeadlinePasses, ClientGone, Abandon, Outcome, CallRelease, RunRelease,
           RunReleaseAgain, EndOfRequest, NotifyAll
  <2>3. Eligible(TenantOf[r]) /\ ~Eligible(TenantOf[s])
    <3>1. CASE AcquireAtOnce(r)
      BY <2>1, <3>1 DEF AcquireAtOnce, NoneEligible
    <3>2. CASE ResumeGranted(r)
      <4>1. PICK i \in 1..Len(queue) :
              /\ queue[i] = r
              /\ Eligible(TenantOf[r])
              /\ \A j \in 1..(i - 1) : ~Eligible(TenantOf[queue[j]])
        BY <3>2 DEF ResumeGranted, IsFirstEligible
      <4>2. k < i
        BY <2>1, <4>1
      <4>. QED
        BY <2>1, <4>1, <4>2
    <3>. QED
      BY <2>2, <3>1, <3>2
  <2>4. s \in Requests /\ TenantOf[s] \in Tenants
    BY DEF Ahead
  <2>. QED
    BY <2>3, <2>4 DEF Eligible
<1>2. TypeOK /\ [Next]_vars => [Order]_vars
  BY <1>1
<1>3. Spec => [][Order]_vars
  BY <1>2, TypeCorrect, PTL DEF Spec
<1>. QED
  BY <1>3 DEF OvertakesOnlySaturatedTenants

----------------------------------------------------------------------------
(***************************************************************************)
(* Refinement                                                              *)
(***************************************************************************)

\* The controller's test for room is the abstract one.
LEMMA SameRoom ==
    ASSUME LeaseAccounting, NEW t \in Tenants
    PROVE  Pool!HasRoom(t) <=> Eligible(t)
<1>1. Pool!HoldersOf(t) = HoldersOf(t)
  BY DEF Pool!HoldersOf, HoldersOf
<1>2. active = Cardinality(Holders) /\ tenants[t] = Cardinality(HoldersOf(t))
  BY DEF LeaseAccounting
<1>3. \A S : Pool!Cardinality(S) = Cardinality(S)
  BY DEF Pool!Cardinality, Cardinality
<1>. QED
  BY <1>1, <1>2, <1>3 DEF Pool!HasRoom, Eligible

\* Every step of the controller is a step of AdmissionPool or changes nothing there.
LEMMA PoolStep == IInv /\ [Next]_vars => [Pool!PoolNext]_(Pool!poolVars)
<1> SUFFICES ASSUME IInv, [Next]_vars
             PROVE  Pool!PoolNext \/ UNCHANGED <<queue, Holders>>
  BY DEF Pool!poolVars
<1> USE RequestsAssumption, LimitsAssumption DEF IInv, TypeOK
<1>0. \A i \in 1..Len(queue) : TenantOf[queue[i]] \in Tenants
  OBVIOUS
<1>1. ASSUME NEW r \in Requests, AcquireAtOnce(r) PROVE Pool!AdmitNewcomer(r)
  <2>1. r \notin Holders /\ Holders' = Holders \union {r}
    BY <1>1 DEF AcquireAtOnce, Holders, NewLease, LeaseBookkeeping
  <2>2. ~Pool!Waits(r)
    BY <1>1 DEF AcquireAtOnce, Pool!Waits, QueueIsExactlyTheSuspended, Suspended
  <2>3. Pool!HasRoom(TenantOf[r])
    BY <1>1, SameRoom DEF AcquireAtOnce
  <2>4. \A i \in 1..Len(queue) : ~Pool!HasRoom(TenantOf[queue[i]])
    BY <1>0, <1>1, SameRoom DEF AcquireAtOnce, NoneEligible
  <2>. QED
    BY <1>1, <2>1, <2>2, <2>3, <2>4 DEF AcquireAtOnce, Pool!AdmitNewcomer
<1>2. ASSUME NEW r \in Requests, ResumeGranted(r) PROVE Pool!AdmitWaiting(r)
  <2>1. Holders' = Holders \union {r}
    BY <1>2 DEF ResumeGranted, Holders, NewLease, NotifyAll, LeaseBookkeeping
  <2>2. PICK i \in 1..Len(queue) :
          /\ queue[i] = r
          /\ Eligible(TenantOf[r])
          /\ \A j \in 1..(i - 1) : ~Eligible(TenantOf[queue[j]])
    BY <1>2 DEF ResumeGranted, IsFirstEligible
  <2>3. queue' = RemoveAt(queue, i)
    BY <1>2, <2>2 DEF ResumeGranted, Dequeue, QueueIsExactlyTheSuspended
  <2>4. \A j \in 1..(i - 1) : ~Pool!HasRoom(TenantOf[queue[j]])
    <3>1. \A j \in 1..(i - 1) : j \in 1..Len(queue)
      BY <2>2
    <3>. QED
      BY <1>0, <2>2, <3>1, SameRoom
  <2>5. Pool!HasRoom(TenantOf[r])
    BY <2>2, SameRoom
  <2>. QED
    BY ONLY <2>1, <2>2, <2>3, <2>4, <2>5 DEF Pool!AdmitWaiting, Pool!RemoveAt, RemoveAt
<1>3. ASSUME NEW r \in Requests, Enqueue(r) PROVE Pool!Join(r)
  <2>1. r \notin Holders /\ Holders' = Holders
    BY <1>3 DEF Enqueue, Holders
  <2>2. ~Pool!Waits(r)
    BY <1>3 DEF Enqueue, Pool!Waits, QueueIsExactlyTheSuspended, Suspended
  <2>. QED
    BY <1>3, <2>1, <2>2 DEF Enqueue, Pool!Join
<1>4. ASSUME NEW r \in Requests, Abandon(r) PROVE Pool!Leave(r)
  <2>1. Holders' = Holders
    BY <1>4 DEF Abandon, Holders, NotifyAll, Outcome
  <2>. QED
    BY ONLY <1>4, <2>1 DEF Abandon, Dequeue, Pool!Leave, Pool!RemoveAt, RemoveAt
<1>5. ASSUME NEW r \in Requests, RunRelease(r) PROVE Pool!GiveBack(r)
  <2>1. r \in Holders /\ Holders' = Holders \ {r}
    BY <1>5 DEF RunRelease, FirstRelease, Holders, NotifyAll, LeaseBookkeeping
  <2>. QED
    BY <1>5, <2>1 DEF RunRelease, Pool!GiveBack
<1>6. ASSUME NEW r \in Requests,
             \/ RejectQueueFull(r) \/ ResumeWaits(r) \/ DeadlinePasses(r)
             \/ ClientGone(r) \/ CallRelease(r) \/ RunReleaseAgain(r)
      PROVE  UNCHANGED <<queue, Holders>>
  <2>1. Holders' = Holders
    BY <1>6 DEF RejectQueueFull, ResumeWaits, DeadlinePasses, ClientGone, CallRelease,
                RunReleaseAgain, Holders
  <2>. QED
    BY <1>6, <2>1 DEF RejectQueueFull, ResumeWaits, DeadlinePasses, ClientGone,
                      CallRelease, RunReleaseAgain
<1>7. ASSUME NEW r \in Requests, EndOfRequest(r) PROVE UNCHANGED <<queue, Holders>>
  <2>1. Holders' = Holders
    BY <1>7 DEF EndOfRequest, Holders
  <2>. QED
    BY <1>7, <2>1 DEF EndOfRequest
<1>8. CASE UNCHANGED vars
  BY <1>8 DEF vars, Holders
<1>. QED
  BY <1>1, <1>2, <1>3, <1>4, <1>5, <1>6, <1>7, <1>8 DEF Next, Pool!PoolNext

\* The controller implements AdmissionPool: with all its counters, wake-ups and
\* cancellations it does nothing but admit, queue, drop and give back leases as
\* the abstract line does.
THEOREM ImplementsPool == Spec => PoolSpec
<1>1. Init => Pool!PoolInit
  BY DEF Init, Pool!PoolInit, Holders
<1>. QED
  BY <1>1, PoolStep, InductiveInvariant, PTL DEF Spec, PoolSpec, Pool!PoolSpec
============================================================================
