------------------------ MODULE RequestChecksProofs -------------------------
(***************************************************************************)
(* Proofs about what a request must pass before it is queued: the budget   *)
(* of its tenant (Budget), for any window, any limits and any tenants, and *)
(* the checks of api.py against the settings (Registry), for any list of   *)
(* backends.                                                               *)
(***************************************************************************)
EXTENDS Budget, Registry, SequenceFacts

\* The oldest reservations stand first.
InOrder(log) == \A i, j \in 1..Len(log) : i < j => log[i].age >= log[j].age

\* NeverOverBudget follows from the guard of Reserve only because the guard looks
\* at the window itself (JudgedByTheWindow), which the loop of popleft leaves of
\* the deque only because that is in order of age.
IInv ==
    /\ TypeOK
    /\ DequeBounded
    /\ JudgedByTheWindow
    /\ NeverOverBudget

----------------------------------------------------------------------------
\* One reservation, now and a tick later.
LEMMA OneReservation ==
    ASSUME NEW e \in Reservation
    PROVE  /\ e.age \in 0..Window /\ e.tokens \in Nat /\ e.tokens <= OutputTokens
           /\ e \in InForce <=> e.age < Window
           /\ Aged(e) \in Reservation /\ Aged(e).tokens = e.tokens
           /\ Aged(e).age = IF e.age < Window THEN e.age + 1 ELSE e.age
<1> USE BudgetAssumption
<1>1. /\ e.age \in 0..Window /\ e.tokens \in Amounts /\ e.tokens <= OutputTokens
      /\ e = [age |-> e.age, tokens |-> e.tokens]
  BY Zenon DEF Reservation
<1> DEFINE a == e.age
           b == IF a < Window THEN a + 1 ELSE a
           k == e.tokens
<1>2. b \in 0..Window /\ k \in Nat
  BY <1>1
<1>3. a \in 0..(Window - 1) <=> a < Window
  BY <1>1
<1>4. Aged(e) = [age |-> b, tokens |-> k]
  BY DEF Aged
<1> HIDE DEF a, b, k
<1>5. e = [age |-> a, tokens |-> k]
  BY <1>1 DEF a, k
<1>6. e \in InForce <=> a \in 0..(Window - 1)
  BY <1>2, <1>5 DEF InForce
<1>7. [age |-> b, tokens |-> k] \in Reservation
  BY <1>1, <1>2 DEF Reservation, k
<1> QED
  BY <1>1, <1>2, <1>3, <1>4, <1>6, <1>7 DEF a, b, k

\* Recent and Kept agree on a log in order: both are the part behind the last
\* reservation that has expired.
LEMMA Split ==
    ASSUME NEW log \in Seq(Reservation), InOrder(log)
    PROVE  \E m \in 0..Len(log) :
             /\ \A i \in 1..m : log[i] \notin InForce
             /\ \A i \in (m + 1)..Len(log) : log[i] \in InForce
             /\ Recent(log) = SubSeq(log, m + 1, Len(log))
             /\ Kept(log, InForce) = SubSeq(log, m + 1, Len(log))
<1> USE BudgetAssumption
<1> DEFINE n == Len(log)
           P == {i \in 1..(n + 1) : i > n \/ log[i].age < Window}
<1>0. n \in Nat /\ \A i \in 1..n : log[i] \in Reservation
  OBVIOUS
<1>1. n \in Nat /\ \A i \in 1..n : log[i] \in Reservation /\ log[i].age \in 0..Window
  BY <1>0, OneReservation
<1>2. \A i \in 1..n : log[i] \in InForce <=> log[i].age < Window
  BY <1>0, OneReservation
<1>3. P \in SUBSET Nat /\ n + 1 \in P
  BY <1>1
<1>4. PICK p \in P : \A k \in P : p <= k
  <2> HIDE DEF P
  <2> QED
    BY <1>3, Least
<1>5. Min(P) = p
  <2>1. \A x \in P : (\A y \in P : x <= y) => x = p
    BY <1>3, <1>4
  <2> HIDE DEF P
  <2> QED
    BY <1>4, <2>1 DEF Min
<1> DEFINE m == p - 1
<1>6. m \in 0..n /\ m + 1 = p
  BY <1>1, <1>4
<1>7. Recent(log) = SubSeq(log, m + 1, n)
  BY <1>5, <1>6 DEF Recent, Since
<1>8. \A i \in 1..m : log[i] \notin InForce
  <2> TAKE i \in 1..m
  <2>1. i \in 1..n /\ i < p
    BY <1>1, <1>6
  <2>2. i \notin P
    BY <1>4, <2>1
  <2> QED
    BY <1>2, <2>1, <2>2
<1>9. \A i \in (m + 1)..n : log[i] \in InForce
  <2> TAKE i \in (m + 1)..n
  <2>1. p \in 1..n /\ i \in 1..n /\ p <= i
    BY <1>1, <1>4, <1>6
  <2>2. log[p].age < Window
    BY <1>4, <2>1
  <2>3. log[i].age <= log[p].age
    BY <1>1, <2>1 DEF InOrder
  <2>4. log[i].age < Window
    BY <1>1, <2>1, <2>2, <2>3
  <2> QED
    BY <1>2, <2>1, <2>4
<1> HIDE DEF m
<1>10. Kept(log, InForce) = SubSeq(log, m + 1, n)
  BY <1>6, <1>8, <1>9, KeptSuffix
<1> QED
  BY <1>6, <1>7, <1>8, <1>9, <1>10

\* The loop of popleft leaves what is in force.
LEMMA RecentAll ==
    ASSUME NEW r \in Seq(Reservation), InOrder(r), \A i \in 1..Len(r) : r[i] \in InForce
    PROVE  Recent(r) = r
<1>1. PICK k \in 0..Len(r) :
        /\ \A i \in 1..k : r[i] \notin InForce
        /\ Recent(r) = SubSeq(r, k + 1, Len(r))
  BY Split
<1>2. k = 0
  <2> SUFFICES ASSUME k > 0 PROVE FALSE
    OBVIOUS
  <2>1. 1 \in 1..k /\ 1 \in 1..Len(r)
    OBVIOUS
  <2> QED
    BY <1>1, <2>1
<1> QED
  BY <1>1, <1>2, SubSeqFull

\* What the loop of popleft leaves is in order and in force, and the loop would
\* leave all of that.
LEMMA RecentFacts ==
    ASSUME NEW log \in Seq(Reservation), InOrder(log)
    PROVE  /\ Recent(log) \in Seq(Reservation) /\ InOrder(Recent(log))
           /\ Len(Recent(log)) <= Len(log)
           /\ \A i \in 1..Len(Recent(log)) : Recent(log)[i] \in InForce
           /\ Recent(Recent(log)) = Recent(log)
<1>1. PICK m \in 0..Len(log) :
        /\ \A i \in (m + 1)..Len(log) : log[i] \in InForce
        /\ Recent(log) = SubSeq(log, m + 1, Len(log))
  BY Split
<1> DEFINE r == Recent(log)
<1>2. Len(log) \in Nat /\ m \in Nat
  OBVIOUS
<1>3. /\ r \in Seq(Reservation) /\ Len(r) = Len(log) - m
      /\ \A i \in 1..Len(r) : r[i] = log[m + i]
  BY <1>1, <1>2
<1> HIDE DEF r
<1>4. \A i \in 1..Len(r) : m + i \in (m + 1)..Len(log) /\ m + i \in 1..Len(log)
  BY <1>2, <1>3
<1>5. InOrder(r)
  <2> SUFFICES ASSUME NEW i \in 1..Len(r), NEW j \in 1..Len(r), i < j
               PROVE  r[i].age >= r[j].age
    BY DEF InOrder
  <2>1. m + i < m + j
    BY <1>2, <1>3
  <2> QED
    BY <1>3, <1>4, <2>1 DEF InOrder
<1>6. \A i \in 1..Len(r) : r[i] \in InForce
  BY <1>1, <1>3, <1>4
<1>7. Recent(r) = r
  BY <1>3, <1>5, <1>6, RecentAll
<1>8. Len(r) <= Len(log)
  BY <1>2, <1>3
<1> QED
  BY <1>3, <1>5, <1>6, <1>7, <1>8 DEF r

\* A tick changes the age of each reservation and nothing else.
LEMMA OlderFacts ==
    ASSUME NEW log \in Seq(Reservation), InOrder(log)
    PROVE  /\ Older(log) \in Seq(Reservation) /\ InOrder(Older(log)) /\ Len(Older(log)) = Len(log)
           /\ \A i \in 1..Len(log) : Older(log)[i].tokens = log[i].tokens
           /\ \A i \in 1..Len(log) : log[i] \notin InForce => Older(log)[i] \notin InForce
<1> USE BudgetAssumption
<1> DEFINE n == Len(log)
           o(i) == Aged(log[i])
<1>1. n \in Nat /\ \A i \in 1..n : log[i] \in Reservation
  OBVIOUS
<1>2. ASSUME NEW i \in 1..n
      PROVE  /\ o(i) \in Reservation
             /\ o(i).age = (IF log[i].age < Window THEN log[i].age + 1 ELSE log[i].age)
             /\ o(i).tokens = log[i].tokens
             /\ log[i].age \in 0..Window
             /\ log[i] \in InForce <=> log[i].age < Window
             /\ o(i) \in InForce <=> o(i).age < Window
  BY <1>1, OneReservation
<1>3. Older(log) = [i \in 1..n |-> o(i)]
  BY DEF Older
<1> HIDE DEF o
<1>4. Older(log) \in Seq(Reservation) /\ Len(Older(log)) = n /\ \A i \in 1..n : Older(log)[i] = o(i)
  BY <1>1, <1>2, <1>3
<1>5. ASSUME NEW i \in 1..n, NEW j \in 1..n, i < j
      PROVE  o(i).age >= o(j).age
  <2>1. log[i].age >= log[j].age
    BY <1>5 DEF InOrder
  <2> QED
    BY <1>2, <2>1
<1>6. InOrder(Older(log))
  BY <1>4, <1>5 DEF InOrder
<1>7. \A i \in 1..n : log[i] \notin InForce => o(i) \notin InForce
  BY <1>2
<1> QED
  BY <1>2, <1>4, <1>6, <1>7

\* What expires with the time that passes is forgotten, whether the deque was
\* pruned before or not.
LEMMA RecentOlder ==
    ASSUME NEW log \in Seq(Reservation), InOrder(log)
    PROVE  Kept(Older(Recent(log)), InForce) = Recent(Older(log))
<1> DEFINE n == Len(log)
           o == Older(log)
           r == Recent(log)
           q == Older(r)
<1>1. PICK m \in 0..n :
        /\ \A i \in 1..m : log[i] \notin InForce
        /\ r = SubSeq(log, m + 1, n)
  BY Split
<1>2. o \in Seq(Reservation) /\ InOrder(o) /\ Len(o) = n
      /\ \A i \in 1..n : log[i] \notin InForce => o[i] \notin InForce
  BY OlderFacts
<1>3. PICK k \in 0..n :
        /\ \A i \in 1..k : o[i] \notin InForce
        /\ \A i \in (k + 1)..n : o[i] \in InForce
        /\ Recent(o) = SubSeq(o, k + 1, n)
  <2> HIDE DEF o
  <2> QED
    BY <1>2, Split
<1>4. n \in Nat /\ m \in Nat /\ k \in Nat
  OBVIOUS
<1>5. m <= k
  <2> SUFFICES ASSUME k < m PROVE FALSE
    BY <1>4
  <2>1. m \in (k + 1)..n /\ m \in 1..m /\ m \in 1..n
    BY <1>4
  <2> QED
    BY <1>1, <1>2, <1>3, <2>1
<1>6. r \in Seq(Reservation) /\ Len(r) = n - m /\ \A i \in 1..(n - m) : r[i] = log[m + i]
  BY <1>1, <1>4
<1>7. /\ q \in Seq(Reservation) /\ Len(q) = n - m
      /\ \A i \in 1..(n - m) : q[i] = o[m + i]
  <2>1. q \in Seq(Reservation) /\ Len(q) = n - m
    BY <1>6, RecentFacts, OlderFacts
  <2>2. \A i \in 1..(n - m) : m + i \in 1..n
    BY <1>4
  <2>3. \A i \in 1..(n - m) : q[i] = o[m + i]
    BY <1>6, <2>2 DEF Older
  <2> QED
    BY <2>1, <2>3
<1> HIDE DEF o, r, q
<1>8. Kept(q, InForce) = SubSeq(q, (k - m) + 1, n - m)
  <2>1. k - m \in 0..Len(q)
    BY <1>4, <1>5, <1>7
  <2>2. \A i \in 1..(k - m) : q[i] \notin InForce
    <3> TAKE i \in 1..(k - m)
    <3>1. i \in 1..(n - m) /\ m + i \in 1..k
      BY <1>4, <1>5
    <3> QED
      BY <1>3, <1>7, <3>1
  <2>3. \A i \in ((k - m) + 1)..Len(q) : q[i] \in InForce
    <3> TAKE i \in ((k - m) + 1)..Len(q)
    <3>1. i \in 1..(n - m) /\ m + i \in (k + 1)..n
      BY <1>4, <1>5, <1>7
    <3> QED
      BY <1>3, <1>7, <3>1
  <2> QED
    BY <1>7, <2>1, <2>2, <2>3, KeptSuffix
<1>9. SubSeq(q, (k - m) + 1, n - m) = SubSeq(o, k + 1, n)
  <2> DEFINE a == SubSeq(q, (k - m) + 1, n - m)
             b == SubSeq(o, k + 1, n)
  <2>1. a \in Seq(Reservation) /\ Len(a) = n - k /\ \A i \in 1..(n - k) : a[i] = q[(k - m) + i]
    BY <1>4, <1>5, <1>7
  <2>2. b \in Seq(Reservation) /\ Len(b) = n - k /\ \A i \in 1..(n - k) : b[i] = o[k + i]
    BY <1>2, <1>4
  <2>3. \A i \in 1..(n - k) : (k - m) + i \in 1..(n - m) /\ m + ((k - m) + i) = k + i
    BY <1>4, <1>5
  <2>4. \A i \in 1..(n - k) : a[i] = b[i]
    BY <1>7, <2>1, <2>2, <2>3
  <2> HIDE DEF a, b
  <2>5. a = b
    BY <2>1, <2>2, <2>4, SeqEqual
  <2> QED
    BY <2>5 DEF a, b
<1> QED
  BY <1>3, <1>8, <1>9 DEF o, r, q

----------------------------------------------------------------------------
\* A function that obeys the definition of TokensOf.
Totals(f, log) ==
    f[0] = 0 /\ \A i \in 1..Len(log) : f[i] = f[i - 1] + log[i].tokens

\* The recursive sum of TokensOf exists.
LEMMA TokensDefined ==
    ASSUME NEW log \in Seq(Reservation)
    PROVE  \E f \in [0..Len(log) -> Nat] : Totals(f, log) /\ TokensOf(log) = f[Len(log)]
<1> DEFINE n == Len(log)
           F(f) == [i \in 0..n |-> IF i = 0 THEN 0 ELSE f[i - 1] + log[i].tokens]
           step == [i \in Nat |-> [x \in Nat |-> IF i < n THEN x + log[i + 1].tokens ELSE x]]
<1>0. n \in Nat
  OBVIOUS
<1>1. \A i \in 1..n : log[i].tokens \in Nat
  BY OneReservation
<1>2. step \in [Nat -> [Nat -> Nat]]
  <2>1. ASSUME NEW i \in Nat, NEW x \in Nat
        PROVE  (IF i < n THEN x + log[i + 1].tokens ELSE x) \in Nat
    <3>1. CASE i < n
      <4>1. i + 1 \in 1..n
        BY <1>1, <3>1
      <4>2. log[i + 1].tokens \in Nat
        BY <1>1, <4>1
      <4> QED
        BY <3>1, <4>2
    <3>2. CASE ~(i < n)
      BY <3>2
    <3> QED
      BY <3>1, <3>2
  <2> QED
    BY <2>1
<1> HIDE DEF n
<1>3. PICK g \in [Nat -> Nat] : g[0] = 0 /\ \A i \in Nat : g[i + 1] = step[i][g[i]]
  <2> HIDE DEF step
  <2>1. Recursion(Nat, 0, step)
    BY <1>2, RecursionExists
  <2> QED
    BY <2>1 DEF Recursion
<1> DEFINE h == [i \in 0..n |-> g[i]]
<1>4. \A i \in 1..n : h[i] = h[i - 1] + log[i].tokens
  <2> TAKE i \in 1..n
  <2>1. i - 1 \in Nat /\ i - 1 < n /\ (i - 1) + 1 = i /\ i - 1 \in 0..n /\ i \in 0..n
    BY <1>0
  <2>2. g[i] = step[i - 1][g[i - 1]] /\ g[i - 1] \in Nat
    BY <1>3, <2>1
  <2>3. step[i - 1][g[i - 1]] = g[i - 1] + log[i].tokens
    BY <2>1, <2>2
  <2> QED
    BY <2>1, <2>2, <2>3
<1>5. h[0] = 0 /\ h \in [0..n -> Nat]
  BY <1>0, <1>3
<1>6. h = F(h)
  <2>1. \A i \in 0..n : i # 0 => i \in 1..n
    BY <1>0
  <2> HIDE DEF h
  <2>2. \A i \in 0..n : h[i] = F(h)[i]
    BY <1>4, <1>5, <2>1
  <2> QED
    BY <1>5, <2>2
<1> HIDE DEF h
<1> DEFINE f == CHOOSE k : k = F(k)
<1>7. f = F(f)
  <2> HIDE DEF F
  <2> QED
    BY <1>6, Zenon
<1>8. TokensOf(log) = f[n]
  BY Zenon DEF TokensOf, n
<1> HIDE DEF f
<1>9. f[0] = 0 /\ \A i \in 1..n : f[i] = f[i - 1] + log[i].tokens
  <2>1. 0 \in 0..n /\ \A i \in 1..n : i \in 0..n /\ i # 0
    BY <1>0
  <2>2. \A i \in 0..n : f[i] = F(f)[i]
    BY <1>7
  <2> QED
    BY <2>1, <2>2
<1>10. f \in [0..n -> Nat]
  <2> DEFINE E == {i \in Nat : i <= n => f[i] \in Nat}
  <2>1. 0 \in E
    BY <1>9
  <2>2. ASSUME NEW i \in Nat, i \in E PROVE i + 1 \in E
    <3> SUFFICES ASSUME i + 1 <= n PROVE f[i + 1] \in Nat
      OBVIOUS
    <3>1. f[i] \in Nat /\ i + 1 \in 1..n /\ (i + 1) - 1 = i
      BY <1>0, <2>2
    <3>2. log[i + 1].tokens \in Nat /\ f[i + 1] = f[i] + log[i + 1].tokens
      BY <1>1, <1>9, <3>1
    <3>3. \A x, y \in Nat : x + y \in Nat
      OBVIOUS
    <3> QED
      BY <3>1, <3>2, <3>3
  <2>3. \A i \in Nat : i \in E
    <3> HIDE DEF E
    <3> QED
      BY <2>1, <2>2, Induction
  <2>4. \A i \in 0..n : f[i] \in Nat
    BY <1>0, <2>3
  <2>5. f = [i \in 0..n |-> f[i]]
    BY <1>7
  <2> QED
    BY <2>4, <2>5
<1> QED
  BY <1>8, <1>9, <1>10 DEF Totals, n

\* A log whose first reservations carry what those of another do has as many
\* tokens, and the longer one no fewer.
LEMMA TotalsAgree ==
    ASSUME NEW log \in Seq(Reservation), NEW other \in Seq(Reservation),
           Len(log) <= Len(other),
           \A i \in 1..Len(log) : log[i].tokens = other[i].tokens,
           NEW f, NEW g, Totals(f, log), Totals(g, other)
    PROVE  f[Len(log)] = g[Len(log)]
<1> DEFINE n == Len(log)
           E == {i \in Nat : i <= n => f[i] = g[i]}
<1>1. n \in Nat /\ \A i \in 1..n : i \in 1..Len(other)
  OBVIOUS
<1>2. 0 \in E
  BY DEF Totals
<1>3. ASSUME NEW i \in Nat, i \in E PROVE i + 1 \in E
  <2> SUFFICES ASSUME i + 1 <= n PROVE f[i + 1] = g[i + 1]
    OBVIOUS
  <2>1. i + 1 \in 1..n /\ (i + 1) - 1 = i /\ f[i] = g[i]
    BY <1>1, <1>3
  <2>2. f[i + 1] = f[i] + log[i + 1].tokens /\ g[i + 1] = g[i] + other[i + 1].tokens
    BY <1>1, <2>1 DEF Totals
  <2> QED
    BY <2>1, <2>2
<1>4. \A i \in Nat : i \in E
  <2> HIDE DEF E
  <2> QED
    BY <1>2, <1>3, Induction
<1> QED
  BY <1>1, <1>4

\* A sum of tokens is a number of tokens.
LEMMA TokensType ==
    ASSUME NEW log \in Seq(Reservation)
    PROVE  TokensOf(log) \in Nat
<1>1. Len(log) \in 0..Len(log)
  OBVIOUS
<1> QED
  BY <1>1, TokensDefined

\* Of no reservations, the sum is 0.
LEMMA TokensEmpty == TokensOf(<<>>) = 0
<1>1. <<>> \in Seq(Reservation) /\ Len(<<>>) = 0
  OBVIOUS
<1> QED
  BY <1>1, TokensDefined DEF Totals

\* Time changes no amount.
LEMMA TokensOlder ==
    ASSUME NEW log \in Seq(Reservation), InOrder(log)
    PROVE  TokensOf(Older(log)) = TokensOf(log)
<1> DEFINE o == Older(log)
<1>1. /\ o \in Seq(Reservation) /\ Len(o) = Len(log) /\ Len(log) \in Nat
      /\ \A i \in 1..Len(log) : o[i].tokens = log[i].tokens
  BY OlderFacts
<1> HIDE DEF o
<1>2. PICK f : Totals(f, log) /\ TokensOf(log) = f[Len(log)]
  BY TokensDefined
<1>3. PICK g : Totals(g, o) /\ TokensOf(o) = g[Len(o)]
  BY <1>1, TokensDefined
<1>4. g[Len(o)] = f[Len(o)]
  BY <1>1, <1>2, <1>3, TotalsAgree
<1> QED
  BY <1>1, <1>2, <1>3, <1>4 DEF o

\* One more reservation adds its tokens.
LEMMA TokensAppend ==
    ASSUME NEW log \in Seq(Reservation), NEW e \in Reservation
    PROVE  TokensOf(Append(log, e)) = TokensOf(log) + e.tokens
<1> DEFINE t == Append(log, e)
           n == Len(log)
<1>1. /\ t \in Seq(Reservation) /\ Len(t) = n + 1 /\ n \in Nat
      /\ t[n + 1] = e /\ \A i \in 1..n : log[i] = t[i]
  OBVIOUS
<1> HIDE DEF t
<1>2. PICK f : Totals(f, log) /\ TokensOf(log) = f[n]
  BY TokensDefined
<1>3. PICK g : Totals(g, t) /\ TokensOf(t) = g[Len(t)]
  BY <1>1, TokensDefined
<1>4. f[n] = g[n]
  <2>1. Len(log) <= Len(t) /\ \A i \in 1..Len(log) : log[i].tokens = t[i].tokens
    BY <1>1
  <2> QED
    BY <1>1, <1>2, <1>3, <2>1, TotalsAgree
<1>5. g[n + 1] = g[n] + t[n + 1].tokens
  <2>1. n + 1 \in 1..Len(t) /\ (n + 1) - 1 = n
    BY <1>1
  <2> QED
    BY <1>3, <2>1 DEF Totals
<1> QED
  BY <1>1, <1>2, <1>3, <1>4, <1>5 DEF t

\* What is behind the first m reservations carries no more tokens than all.
LEMMA TokensSuffix ==
    ASSUME NEW log \in Seq(Reservation), NEW m \in 0..Len(log)
    PROVE  TokensOf(SubSeq(log, m + 1, Len(log))) <= TokensOf(log)
<1> DEFINE n == Len(log)
           r == SubSeq(log, m + 1, n)
<1>1. n \in Nat /\ m \in Nat /\ m <= n
  OBVIOUS
<1>2. r \in Seq(Reservation) /\ Len(r) = n - m /\ \A i \in 1..(n - m) : r[i] = log[m + i]
  BY <1>1
<1> HIDE DEF r
<1>3. PICK f \in [0..n -> Nat] : Totals(f, log) /\ TokensOf(log) = f[n]
  BY TokensDefined
<1>4. PICK g \in [0..Len(r) -> Nat] : Totals(g, r) /\ TokensOf(r) = g[Len(r)]
  BY <1>2, TokensDefined
<1> DEFINE E == {i \in Nat : i <= n - m => g[i] <= f[m + i]}
<1>5. 0 \in E
  <2>1. g[0] = 0 /\ f[m] \in Nat
    BY <1>1, <1>3, <1>4 DEF Totals
  <2> QED
    BY <1>1, <2>1
<1>6. ASSUME NEW i \in Nat, i \in E PROVE i + 1 \in E
  <2> SUFFICES ASSUME i + 1 <= n - m PROVE g[i + 1] <= f[m + (i + 1)]
    OBVIOUS
  <2>1. /\ i \in 0..Len(r) /\ i + 1 \in 1..Len(r) /\ (i + 1) - 1 = i /\ i + 1 \in 1..(n - m)
        /\ m + i \in 0..n /\ m + (i + 1) \in 1..n /\ (m + (i + 1)) - 1 = m + i
    BY <1>1, <1>2
  <2>2. g[i] <= f[m + i]
    BY <1>1, <1>6
  <2>3. g[i + 1] = g[i] + r[i + 1].tokens
    BY <1>4, <2>1 DEF Totals
  <2>4. f[m + (i + 1)] = f[m + i] + log[m + (i + 1)].tokens
    BY <1>3, <2>1 DEF Totals
  <2>5. log[m + (i + 1)].tokens \in Nat /\ r[i + 1] = log[m + (i + 1)]
    BY <1>2, <2>1, OneReservation
  <2> HIDE DEF n
  <2>6. g[i] \in Nat /\ f[m + i] \in Nat
    BY <1>3, <1>4, <2>1
  <2> QED
    BY <2>2, <2>3, <2>4, <2>5, <2>6
<1>7. \A i \in Nat : i \in E
  <2> HIDE DEF E
  <2> QED
    BY <1>5, <1>6, Induction
<1>8. n - m \in Nat /\ m + (n - m) = n
  BY <1>1
<1>9. g[n - m] <= f[n]
  <2>1. n - m \in E
    <3> HIDE DEF E
    <3> QED
      BY <1>7, <1>8
  <2> QED
    BY <1>1, <1>8, <2>1
<1> QED
  BY <1>2, <1>3, <1>4, <1>9 DEF r

----------------------------------------------------------------------------
\* Time leaves a part of the window, in order and within the budget.
LEMMA WindowTicks ==
    ASSUME NEW log \in Seq(Reservation), InOrder(log)
    PROVE  /\ Kept(Older(log), InForce) \in Seq(Reservation)
           /\ Len(Kept(Older(log), InForce)) <= Len(log)
           /\ TokensOf(Kept(Older(log), InForce)) <= TokensOf(log)
<1> DEFINE o == Older(log)
<1>1. o \in Seq(Reservation) /\ InOrder(o) /\ Len(o) = Len(log) /\ TokensOf(o) = TokensOf(log)
  BY OlderFacts, TokensOlder
<1> HIDE DEF o
<1>2. PICK m \in 0..Len(o) : Kept(o, InForce) = SubSeq(o, m + 1, Len(o))
  BY <1>1, Split
<1>3. TokensOf(SubSeq(o, m + 1, Len(o))) <= TokensOf(o)
  BY <1>1, TokensSuffix
<1>4. SubSeq(o, m + 1, Len(o)) \in Seq(Reservation) /\ Len(SubSeq(o, m + 1, Len(o))) <= Len(o)
  <2>1. Len(o) \in Nat /\ m \in Nat /\ m <= Len(o)
    BY <1>1
  <2> QED
    BY <1>1, <2>1
<1> QED
  BY <1>1, <1>2, <1>3, <1>4 DEF o

\* What reserve adds keeps the deque in order, within the budget, and is itself
\* in force.
LEMMA Appended ==
    ASSUME NEW log \in Seq(Reservation), InOrder(log),
           \A i \in 1..Len(log) : log[i] \in InForce,
           NEW n \in Amounts, Fits(log, n)
    PROVE  LET grown == Append(log, [age |-> 0, tokens |-> n])
           IN  /\ grown \in Seq(Reservation) /\ InOrder(grown)
               /\ Len(grown) <= MaxRequests /\ TokensOf(grown) <= OutputTokens
               /\ Recent(grown) = grown
<1> USE BudgetAssumption
<1> DEFINE e == [age |-> 0, tokens |-> n]
           grown == Append(log, e)
<1>1. TokensOf(log) \in Nat /\ n \in Nat /\ Len(log) \in Nat
  BY TokensType
<1>2. n <= OutputTokens /\ Len(log) + 1 <= MaxRequests
  BY <1>1 DEF Fits
<1>3. e \in Reservation /\ e \in InForce /\ e.age = 0 /\ e.tokens = n
  BY <1>1, <1>2 DEF Reservation, InForce
<1> HIDE DEF e
<1>4. /\ grown \in Seq(Reservation) /\ Len(grown) = Len(log) + 1
      /\ grown[Len(log) + 1] = e /\ \A i \in 1..Len(log) : grown[i] = log[i]
  BY <1>1, <1>3
<1>5. TokensOf(grown) <= OutputTokens
  <2>1. TokensOf(grown) = TokensOf(log) + n
    BY <1>3, TokensAppend
  <2> QED
    BY <2>1 DEF Fits
<1> HIDE DEF grown
<1>6. \A i \in 1..Len(grown) : i \in 1..Len(log) \/ i = Len(log) + 1
  BY <1>1, <1>4
<1>7. \A i \in 1..Len(grown) : grown[i] \in InForce
  BY <1>3, <1>4, <1>6
<1>8. InOrder(grown)
  <2> SUFFICES ASSUME NEW i \in 1..Len(grown), NEW j \in 1..Len(grown), i < j
               PROVE  grown[i].age >= grown[j].age
    BY DEF InOrder
  <2>1. i \in 1..Len(log)
    BY <1>1, <1>4
  <2>2. CASE j \in 1..Len(log)
    <3>1. log[i].age >= log[j].age
      BY <2>1, <2>2 DEF InOrder
    <3> QED
      BY <1>4, <2>1, <2>2, <3>1
  <2>3. CASE j = Len(log) + 1
    <3>1. grown[j].age = 0
      BY <1>3, <1>4, <2>3
    <3>2. grown[i].age \in Nat
      <4>1. log[i] \in Reservation
        BY <2>1
      <4>2. log[i].age \in Nat
        BY <4>1, OneReservation
      <4> QED
        BY <1>4, <2>1, <4>2
    <3> QED
      BY <3>1, <3>2
  <2> QED
    BY <1>6, <2>2, <2>3
<1>9. Recent(grown) = grown
  BY <1>4, <1>7, <1>8, RecentAll
<1> QED
  BY <1>2, <1>4, <1>5, <1>8, <1>9 DEF grown, e

----------------------------------------------------------------------------
\* No tenant has reserved anything.
LEMMA InitIInv == Init => IInv
<1> USE BudgetAssumption
<1> SUFFICES ASSUME Init PROVE IInv
  OBVIOUS
<1>1. <<>> \in Seq(Reservation) /\ Len(<<>>) = 0
  OBVIOUS
<1>2. ASSUME NEW r \in Seq(Reservation), Len(r) = 0 PROVE Recent(r) = r
  <2>1. InOrder(r) /\ \A i \in 1..Len(r) : r[i] \in InForce
    BY <1>2 DEF InOrder
  <2> QED
    BY <2>1, RecentAll
<1>3. Recent(<<>>) = <<>>
  BY <1>1, <1>2
<1>4. TypeOK
  BY <1>1 DEF Init, TypeOK
<1>5. DequeBounded
  BY <1>1 DEF Init, DequeBounded
<1>6. JudgedByTheWindow
  BY <1>3 DEF Init, JudgedByTheWindow
<1>7. NeverOverBudget
  BY <1>1, TokensEmpty DEF Init, NeverOverBudget
<1> QED
  BY <1>4, <1>5, <1>6, <1>7 DEF IInv

\* The invariant, tenant by tenant.
Sound(log, window) ==
    /\ log \in Seq(Reservation) /\ window \in Seq(Reservation)
    /\ InOrder(log) /\ Len(log) <= MaxRequests
    /\ Recent(log) = window
    /\ Len(window) <= MaxRequests /\ TokensOf(window) <= OutputTokens

\* The invariant, tenant by tenant.
LEMMA IInvOfTenants ==
    IInv <=> /\ events = [t \in Tenants |-> events[t]]
             /\ granted = [t \in Tenants |-> granted[t]]
             /\ \A t \in Tenants : Sound(events[t], granted[t])
BY DEF IInv, TypeOK, DequeBounded, JudgedByTheWindow, NeverOverBudget, Sound, InOrder

\* The same of the next state.
LEMMA IInvNext ==
    ASSUME events' = [t \in Tenants |-> events'[t]],
           granted' = [t \in Tenants |-> granted'[t]],
           \A t \in Tenants : Sound(events'[t], granted'[t])
    PROVE  IInv'
BY DEF IInv, TypeOK, DequeBounded, JudgedByTheWindow, NeverOverBudget, Sound, InOrder

\* reserve, granting: the deque is pruned, then grows.
LEMMA ReserveStep ==
    ASSUME NEW t \in Tenants, NEW n \in Amounts, IInv, Reserve(t, n)
    PROVE  IInv'
<1>1. \A u \in Tenants : Sound(events[u], granted[u])
  BY IInvOfTenants
<1> DEFINE e == [age |-> 0, tokens |-> n]
           r == Recent(events[t])
<1>2. /\ events' = [u \in Tenants |-> IF u = t THEN Append(r, e) ELSE events[u]]
      /\ granted' = [u \in Tenants |-> IF u = t THEN Append(granted[t], e) ELSE granted[u]]
      /\ Fits(r, n)
  BY IInvOfTenants DEF Reserve
<1>3. r = granted[t]
  BY <1>1 DEF Sound
<1>4. Sound(Append(r, e), Append(r, e))
  <2>1. r \in Seq(Reservation) /\ InOrder(r) /\ \A i \in 1..Len(r) : r[i] \in InForce
    BY <1>1, RecentFacts DEF Sound
  <2> HIDE DEF r
  <2> QED
    BY <1>2, <2>1, Appended DEF Sound
<1> HIDE DEF e, r
<1>5. \A u \in Tenants : Sound(events'[u], granted'[u])
  BY <1>1, <1>2, <1>3, <1>4
<1> QED
  BY <1>2, <1>5, IInvNext

\* reserve, refusing: the deque is pruned all the same.
LEMMA RefuseStep ==
    ASSUME NEW t \in Tenants, NEW n \in Amounts, IInv, Refuse(t, n)
    PROVE  IInv'
<1>1. \A u \in Tenants : Sound(events[u], granted[u])
  BY IInvOfTenants
<1> DEFINE r == Recent(events[t])
<1>2. events' = [u \in Tenants |-> IF u = t THEN r ELSE events[u]] /\ granted' = granted
  BY IInvOfTenants DEF Refuse
<1>3. Sound(r, granted[t])
  <2>1. /\ r \in Seq(Reservation) /\ InOrder(r) /\ Len(r) <= Len(events[t])
        /\ Recent(r) = r
    BY <1>1, RecentFacts DEF Sound
  <2>2. Len(r) <= MaxRequests
    BY <1>1 DEF Sound
  <2> HIDE DEF r
  <2> QED
    BY <1>1, <2>1, <2>2 DEF Sound, r
<1> HIDE DEF r
<1>4. \A u \in Tenants : Sound(events'[u], granted'[u])
  BY <1>1, <1>2, <1>3
<1>5. granted' = [u \in Tenants |-> granted'[u]]
  BY <1>2, IInvOfTenants
<1> QED
  BY <1>2, <1>4, <1>5, IInvNext

\* Time passes: the window forgets, the deque does not.
LEMMA TickStep ==
    ASSUME IInv, Tick
    PROVE  IInv'
<1> USE BudgetAssumption
<1>1. \A u \in Tenants : Sound(events[u], granted[u])
  BY IInvOfTenants
<1>2. /\ events' = [u \in Tenants |-> Older(events[u])]
      /\ granted' = [u \in Tenants |-> Kept(Older(granted[u]), InForce)]
  BY DEF Tick
<1>3. ASSUME NEW u \in Tenants
      PROVE  Sound(Older(events[u]), Kept(Older(granted[u]), InForce))
  <2> DEFINE log == events[u]
             window == granted[u]
             later == Kept(Older(window), InForce)
  <2>1. /\ log \in Seq(Reservation) /\ InOrder(log) /\ Len(log) <= MaxRequests
        /\ window = Recent(log) /\ window \in Seq(Reservation)
        /\ Len(window) <= MaxRequests /\ TokensOf(window) <= OutputTokens
    BY <1>1 DEF Sound
  <2>2. InOrder(window)
    BY <2>1, RecentFacts
  <2>3. /\ Older(log) \in Seq(Reservation) /\ InOrder(Older(log))
        /\ Len(Older(log)) <= MaxRequests
    BY <2>1, OlderFacts
  <2>4. later = Recent(Older(log))
    BY <2>1, RecentOlder
  <2>5. /\ later \in Seq(Reservation) /\ Len(later) <= Len(window)
        /\ TokensOf(later) <= TokensOf(window)
    BY <2>1, <2>2, WindowTicks
  <2>6. Len(later) \in Nat /\ Len(window) \in Nat /\ MaxRequests \in Nat /\ OutputTokens \in Nat
        /\ TokensOf(later) \in Nat /\ TokensOf(window) \in Nat
    BY <2>1, <2>5, TokensType
  <2> HIDE DEF later, log, window
  <2>7. Len(later) <= MaxRequests /\ TokensOf(later) <= OutputTokens
    BY <2>1, <2>5, <2>6
  <2> QED
    BY <2>3, <2>4, <2>5, <2>7 DEF Sound, later, log, window
<1>4. \A u \in Tenants : Sound(events'[u], granted'[u])
  BY <1>2, <1>3
<1> QED
  BY <1>2, <1>4, IInvNext

\* A call that is granted, one that is refused and a tick keep the invariant.
LEMMA NextIInv == IInv /\ [Next]_vars => IInv'
<1>1. ASSUME IInv, UNCHANGED vars PROVE IInv'
  BY <1>1 DEF vars, IInv, TypeOK, DequeBounded, JudgedByTheWindow, NeverOverBudget
<1> QED
  BY <1>1, ReserveStep, RefuseStep, TickStep DEF Next

\* The deques, and the windows they stand for, are what they should be in every
\* state, for every window, all limits and all tenants.
\* Every deque is in order and bounded, and what reserve leaves of it is the window.
THEOREM InductiveInvariant == Spec => []IInv
BY InitIInv, NextIInv, PTL DEF Spec

\* Every deque holds reservations of at most the output-token budget.
THEOREM TypeCorrect == Spec => []TypeOK
<1>1. IInv => TypeOK
  BY DEF IInv
<1> QED
  BY <1>1, InductiveInvariant, PTL

\* No window of 60 seconds holds more requests or tokens than the budget.
THEOREM BudgetHolds == Spec => []NeverOverBudget
<1>1. IInv => NeverOverBudget
  BY DEF IInv
<1> QED
  BY <1>1, InductiveInvariant, PTL

\* A call is judged by exactly the reservations of the last 60 seconds.
THEOREM JudgedFairly == Spec => []JudgedByTheWindow
<1>1. IInv => JudgedByTheWindow
  BY DEF IInv
<1> QED
  BY <1>1, InductiveInvariant, PTL

\* The deque is in order and never outgrows the request budget.
THEOREM DequeHolds == Spec => []DequeBounded
<1>1. IInv => DequeBounded
  BY DEF IInv
<1> QED
  BY <1>1, InductiveInvariant, PTL

----------------------------------------------------------------------------
\* With unique names the dictionary entry of a backend is the backend itself.
LEMMA LastNamedIsTheOne ==
    ASSUME settings \in Settings, UniqueNames(settings), NEW i \in Indices
    PROVE  LastNamed(Backend(i).name) = i
<1>1. PICK n \in 0..MaxBackends : settings.backends \in [1..n -> BackendConfig]
  BY DEF Settings
<1>2. Indices = 1..n
  BY <1>1 DEF Indices
<1>3. \A j \in Indices : Backend(j).name = Backend(i).name => j = i
  BY DEF UniqueNames, Indices, Backend
<1>4. /\ Backend(i).name = Backend(i).name
      /\ \A j \in Indices : Backend(j).name = Backend(i).name => j <= i
  BY <1>2, <1>3
<1> QED
  BY <1>3, <1>4 DEF LastNamed

\* The heart of the matter: a supported model has a candidate.
LEMMA SupportedIsEligible ==
    ASSUME settings \in Settings, Valid(settings),
           NEW task \in Task, NEW model \in Supported(task), NEW streaming \in BOOLEAN,
           streaming => task = "chat"
    PROVE  Eligible(task, model, streaming) # {}
<1>1. CASE settings.backend_mode = "demo"
  <2>1. DemoName \in Registered
    BY <1>1 DEF Registered
  <2>2. /\ Candidate(DemoName).tasks = Task
        /\ Candidate(DemoName).models = {DemoModel[t] : t \in Task}
        /\ Candidate(DemoName).streaming
    BY <1>1 DEF Candidate
  <2>3. model = DemoModel[task]
    BY <1>1 DEF Supported
  <2> QED
    BY <2>1, <2>2, <2>3 DEF Eligible
<1>2. CASE settings.backend_mode # "demo"
  <2>1. PICK i \in Indices :
          task \in Backend(i).tasks /\ model = Backend(i).public_model
    BY <1>2 DEF Supported
  <2>2. Backend(i).name \in Registered
    BY <1>2 DEF Registered
  <2>3. LastNamed(Backend(i).name) = i
    BY LastNamedIsTheOne DEF Valid
  <2>4. /\ Candidate(Backend(i).name).tasks = Backend(i).tasks
        /\ Candidate(Backend(i).name).models = {Backend(i).public_model}
        /\ Candidate(Backend(i).name).streaming = ("chat" \in Backend(i).tasks)
    BY <1>2, <2>3 DEF Candidate
  <2> QED
    BY <2>1, <2>2, <2>4 DEF Eligible
<1> QED
  BY <1>1, <1>2

----------------------------------------------------------------------------
Answered ==
    /\ settings \in Settings /\ Valid(settings)
    /\ request \in Request
    /\ answer = Answer(request)

\* The settings stay valid, and every answer is the one they call for.
THEOREM SettingsStay == ChecksSpec => []Answered
<1>1. ChecksInit => Answered
  BY DEF ChecksInit, Answered
<1>2. Answered /\ [ChecksNext]_checksVars => Answered'
  <2> SUFFICES ASSUME Answered, [ChecksNext]_checksVars PROVE Answered'
    OBVIOUS
  <2>1. CASE UNCHANGED checksVars
    BY <2>1 DEF Answered, checksVars, Answer, Authentic, Supported, Indices, Backend
  <2>2. ASSUME NEW r \in Request, Handle(r) PROVE Answered'
    BY <2>2 DEF Answered, Handle, Answer, Authentic, Supported, Indices, Backend
  <2> QED
    BY <2>1, <2>2 DEF ChecksNext
<1> QED
  BY <1>1, <1>2, PTL DEF ChecksSpec

\* Type correctness, for the tasks, names and models of any settings.
THEOREM ChecksTypeCorrect == ChecksSpec => []ChecksTypeOK
<1>1. Answered => ChecksTypeOK
  BY DEF Answered, ChecksTypeOK, Answer
<1> QED
  BY <1>1, SettingsStay, PTL

\* Whatever valid settings say, a request that passes the checks of api.py has a
\* candidate that select may choose.
THEOREM AcceptedIsServableHolds == ChecksSpec => []AcceptedIsServable
<1>1. Answered => AcceptedIsServable
  <2> SUFFICES ASSUME Answered, answer = "accepted"
               PROVE  Eligible(request.task, request.model,
                               request.stream /\ request.task = "chat") # {}
    BY DEF AcceptedIsServable
  <2>1. request.task \in Task /\ request.model \in Supported(request.task)
    BY DEF Answered, Answer, Request
  <2>2. (request.stream /\ request.task = "chat") \in BOOLEAN
    OBVIOUS
  <2> QED
    BY <2>1, <2>2, SupportedIsEligible DEF Answered
<1> QED
  BY <1>1, SettingsStay, PTL

\* No settings that pass validation open a public demo to callers without its key.
THEOREM PublicDemoIsClosedHolds == ChecksSpec => []PublicDemoIsClosed
<1>1. Answered => PublicDemoIsClosed
  BY DEF Answered, PublicDemoIsClosed, Valid, Closed, Answer, Authentic, Request
<1> QED
  BY <1>1, SettingsStay, PTL
=============================================================================
