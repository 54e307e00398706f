--------------------------- MODULE SequenceFacts ---------------------------
(***************************************************************************)
(* Facts the other proofs share: induction and recursion over the natural  *)
(* numbers, from the fact that < is well-founded on them, and what follows *)
(* for recursive functions; sequences that grow by one element, Kept of    *)
(* Filters, and RemoveAt of SequencesExt.                                  *)
(***************************************************************************)
EXTENDS Filters, SequencesExt, SequenceTheorems, WellFoundedInduction, TLAPS

\* Of every set of natural numbers that is not empty there is a least.
LEMMA Least ==
    ASSUME NEW T \in SUBSET Nat, T # {}
    PROVE  \E m \in T : \A k \in T : m <= k
<1> DEFINE R == OpToRel(<, Nat)
<1>1. IsWellFoundedOn(R, Nat)
  BY NatLessThanWellFounded
<1>2. \A k, m \in Nat : k < m => <<k, m>> \in R
  BY DEF OpToRel
<1> HIDE DEF R
<1>3. PICK m \in T : \A k \in T : ~(<<k, m>> \in R)
   BY <1>1, WFMin
<1>4. \A k \in T : ~(k < m)
  BY <1>2, <1>3
<1> QED
  BY <1>4

\* Induction over the natural numbers, of a set.
LEMMA Induction ==
    ASSUME NEW S, 0 \in S, \A n \in Nat : n \in S => n + 1 \in S
    PROVE  \A n \in Nat : n \in S
<1> SUFFICES ASSUME Nat \ S # {} PROVE FALSE
  OBVIOUS
<1>1. PICK m \in Nat \ S : \A k \in Nat \ S : m <= k
  BY Least
<1>2. m # 0 /\ m - 1 \in Nat
  BY <1>1
<1>3. m - 1 \in S
  BY <1>1, <1>2
<1> QED
  BY <1>1, <1>2, <1>3

\* There is a function that step makes from a, one number after the other.
Recursion(V, a, step) ==
    \E f \in [Nat -> V] : f[0] = a /\ \A n \in Nat : f[n + 1] = step[n][f[n]]

\* Every step function on V has such a function.
LEMMA RecursionExists ==
    ASSUME NEW V, NEW a \in V, NEW step \in [Nat -> [V -> V]]
    PROVE  Recursion(V, a, step)
<1> DEFINE Good(n, g) == g[0] = a /\ \A k \in 0..(n - 1) : g[k + 1] = step[k][g[k]]
           S == {n \in Nat : \E g \in [0..n -> V] : Good(n, g)}
<1>1. 0 \in S
  <2> DEFINE g == [k \in 0..0 |-> a]
  <2>1. g \in [0..0 -> V] /\ Good(0, g)
    OBVIOUS
  <2> QED
    BY <2>1
<1>2. ASSUME NEW n \in Nat, n \in S PROVE n + 1 \in S
  <2>1. PICK g \in [0..n -> V] : Good(n, g)
    BY <1>2
  <2> DEFINE h == [k \in 0..(n + 1) |-> IF k = n + 1 THEN step[n][g[n]] ELSE g[k]]
  <2>2. g[n] \in V /\ step[n][g[n]] \in V
    OBVIOUS
  <2>3. h \in [0..(n + 1) -> V]
    BY <2>2
  <2>4. Good(n + 1, h)
    <3>1. h[0] = a
      BY <2>1
    <3>2. ASSUME NEW k \in 0..n PROVE h[k + 1] = step[k][h[k]]
      <4>1. CASE k = n
        BY <4>1
      <4>2. CASE k < n
        <5>1. g[k + 1] = step[k][g[k]] /\ h[k + 1] = g[k + 1] /\ h[k] = g[k]
          BY <2>1, <4>2
        <5> QED
          BY <5>1
      <4> QED
        BY <4>1, <4>2
    <3>3. (n + 1) - 1 = n
      OBVIOUS
    <3> HIDE DEF h
    <3> QED
      BY <3>1, <3>2, <3>3
  <2> HIDE DEF h, Good
  <2> QED
    BY <2>3, <2>4
<1>3. \A n \in Nat : n \in S
  <2> HIDE DEF S
  <2> QED
    BY <1>1, <1>2, Induction
<1>4. ASSUME NEW m \in Nat, NEW n \in Nat, m <= n,
             NEW g \in [0..m -> V], Good(m, g), NEW h \in [0..n -> V], Good(n, h)
      PROVE  g[m] = h[m]
  <2> DEFINE E == {k \in Nat : k <= m => g[k] = h[k]}
  <2>1. 0 \in E
    BY <1>4
  <2>2. ASSUME NEW k \in Nat, k \in E PROVE k + 1 \in E
    <3> SUFFICES ASSUME k + 1 <= m PROVE g[k + 1] = h[k + 1]
      OBVIOUS
    <3>1. k \in 0..(m - 1) /\ k \in 0..(n - 1) /\ g[k] = h[k]
      BY <1>4, <2>2
    <3> QED
      BY <1>4, <3>1
  <2>3. \A k \in Nat : k \in E
    <3> HIDE DEF E
    <3> QED
      BY <2>1, <2>2, Induction
  <2> QED
    BY <2>3
<1> DEFINE At(n) == CHOOSE g \in [0..n -> V] : Good(n, g)
           f == [n \in Nat |-> At(n)[n]]
<1>5. ASSUME NEW n \in Nat PROVE At(n) \in [0..n -> V] /\ Good(n, At(n))
  <2>1. \E g \in [0..n -> V] : Good(n, g)
    BY <1>3
  <2> HIDE DEF Good
  <2> QED
    BY <2>1, Zenon
<1> HIDE DEF At
<1>6. f \in [Nat -> V]
  BY <1>5
<1>7. f[0] = a
  BY <1>5
<1>8. ASSUME NEW n \in Nat PROVE f[n + 1] = step[n][f[n]]
  <2>1. At(n)[n] = At(n + 1)[n]
    <3>1. n <= n + 1 /\ n + 1 \in Nat
      OBVIOUS
    <3> HIDE DEF Good
    <3> QED
      BY <1>4, <1>5, <3>1
  <2>2. At(n + 1)[n + 1] = step[n][At(n + 1)[n]]
    BY <1>5
  <2> QED
    BY <2>1, <2>2
<1> QED
  BY <1>6, <1>7, <1>8 DEF Recursion

----------------------------------------------------------------------------
\* A sequence, seen from its length.
LEMMA SeqFacts ==
    ASSUME NEW S, NEW s \in Seq(S)
    PROVE  /\ Len(s) \in Nat /\ (s = <<>> <=> Len(s) = 0)
           /\ \A i \in 1..Len(s) : s[i] \in S
OBVIOUS

\* A sequence with one more element.
LEMMA AppendFacts ==
    ASSUME NEW S, NEW s \in Seq(S), NEW e \in S
    PROVE  /\ Append(s, e) \in Seq(S) /\ Append(s, e) # <<>>
           /\ Len(s) \in Nat /\ Len(Append(s, e)) = Len(s) + 1
           /\ Append(s, e)[Len(s) + 1] = e
           /\ \A i \in 1..Len(s) : Append(s, e)[i] = s[i]
OBVIOUS

\* What a prefix says of a part of it.
LEMMA SameSubSeq ==
    ASSUME NEW S, NEW s \in Seq(S), NEW t \in Seq(S), NEW a \in Nat \ {0}, NEW b \in Nat,
           b <= Len(s), Len(s) <= Len(t), \A i \in 1..Len(s) : t[i] = s[i]
    PROVE  SubSeq(t, a, b) = SubSeq(s, a, b)
<1> DEFINE p == SubSeq(t, a, b)
           q == SubSeq(s, a, b)
<1>1. p \in Seq(S) /\ q \in Seq(S) /\ Len(p) = Len(q)
  OBVIOUS
<1>2. \A i \in 1..Len(p) : p[i] = q[i]
  OBVIOUS
<1> HIDE DEF p, q
<1>3. p = q
  BY <1>1, <1>2, SeqEqual
<1> QED
  BY <1>3 DEF p, q

----------------------------------------------------------------------------
\* A function that obeys the definition of Kept.
Keeps(f, s, K) ==
    /\ f[0] = <<>>
    /\ \A i \in 1..Len(s) : f[i] = IF s[i] \in K THEN Append(f[i - 1], s[i]) ELSE f[i - 1]

\* The recursive function in Kept exists.
LEMMA KeptDefined ==
    ASSUME NEW S, NEW s \in Seq(S), NEW K
    PROVE  \E f \in [0..Len(s) -> Seq(S)] : Keeps(f, s, K) /\ Kept(s, K) = f[Len(s)]
<1> DEFINE n == Len(s)
           F(f) == [i \in 0..n |-> IF i = 0 THEN <<>>
                                   ELSE IF s[i] \in K THEN Append(f[i - 1], s[i])
                                   ELSE f[i - 1]]
           step == [i \in Nat |-> [t \in Seq(S) |->
                      IF i < n /\ s[i + 1] \in K THEN Append(t, s[i + 1]) ELSE t]]
<1>1. n \in Nat /\ \A i \in 1..n : s[i] \in S
  OBVIOUS
<1>2. step \in [Nat -> [Seq(S) -> Seq(S)]]
  <2>1. ASSUME NEW i \in Nat, NEW t \in Seq(S)
        PROVE  (IF i < n /\ s[i + 1] \in K THEN Append(t, s[i + 1]) ELSE t) \in Seq(S)
    <3>1. CASE i < n
      <4>1. s[i + 1] \in S
        BY <1>1, <3>1
      <4> QED
        BY <4>1
    <3>2. CASE ~(i < n)
      BY <3>2
    <3> QED
      BY <3>1, <3>2
  <2> QED
    BY <2>1
<1> HIDE DEF n
<1>4. PICK g \in [Nat -> Seq(S)] : g[0] = <<>> /\ \A i \in Nat : g[i + 1] = step[i][g[i]]
  <2>1. <<>> \in Seq(S)
    OBVIOUS
  <2> HIDE DEF step
  <2>2. Recursion(Seq(S), <<>>, step)
    BY <1>2, <2>1, RecursionExists
  <2> QED
    BY <2>2 DEF Recursion
<1> DEFINE h == [i \in 0..n |-> g[i]]
<1>5. \A i \in 1..n : h[i] = IF s[i] \in K THEN Append(h[i - 1], s[i]) ELSE h[i - 1]
  <2> TAKE i \in 1..n
  <2>1. i - 1 \in Nat /\ i - 1 < n /\ (i - 1) + 1 = i /\ i - 1 \in 0..n /\ i \in 0..n
    BY <1>1
  <2>2. g[i] = step[i - 1][g[i - 1]] /\ g[i - 1] \in Seq(S)
    BY <1>4, <2>1
  <2>3. step[i - 1][g[i - 1]] = IF s[i] \in K THEN Append(g[i - 1], s[i]) ELSE g[i - 1]
    BY <2>1, <2>2
  <2> QED
    BY <2>1, <2>2, <2>3
<1>6. h[0] = <<>> /\ h \in [0..n -> Seq(S)]
  BY <1>1, <1>4
<1>7. h = F(h)
  <2>1. \A i \in 0..n : i # 0 => i \in 1..n
    BY <1>1
  <2> HIDE DEF h
  <2>2. \A i \in 0..n : h[i] = F(h)[i]
    BY <1>5, <1>6, <2>1
  <2> QED
    BY <1>6, <2>2
<1> HIDE DEF h
<1> DEFINE f == CHOOSE k : k = F(k)
<1>8. f = F(f)
  <2> HIDE DEF F
  <2> QED
    BY <1>7, Zenon
<1>9. Kept(s, K) = f[n]
  BY Zenon DEF Kept, n
<1> HIDE DEF f
<1>10. f \in [0..n -> Seq(S)]
  <2> DEFINE E == {i \in Nat : i <= n => f[i] \in Seq(S)}
  <2>1. 0 \in E
    BY <1>1, <1>8
  <2>2. ASSUME NEW i \in Nat, i \in E PROVE i + 1 \in E
    <3> SUFFICES ASSUME i + 1 <= n PROVE f[i + 1] \in Seq(S)
      OBVIOUS
    <3>1. f[i] \in Seq(S) /\ i + 1 \in 0..n /\ i + 1 # 0 /\ (i + 1) - 1 = i /\ s[i + 1] \in S
      BY <1>1, <2>2
    <3>2. f[i + 1] = IF s[i + 1] \in K THEN Append(f[i], s[i + 1]) ELSE f[i]
      <4>1. f[i + 1] = F(f)[i + 1]
        BY <1>8
      <4> QED
        BY <3>1, <4>1
    <3> QED
      BY <3>1, <3>2
  <2>3. \A i \in Nat : i \in E
    <3> HIDE DEF E
    <3> QED
      BY <2>1, <2>2, Induction
  <2>4. \A i \in 0..n : f[i] \in Seq(S)
    BY <1>1, <2>3
  <2>5. f = [i \in 0..n |-> f[i]]
    BY <1>8
  <2> QED
    BY <2>4, <2>5
<1>11. Keeps(f, s, K)
  <2>1. f[0] = <<>>
    BY <1>1, <1>8
  <2>2. ASSUME NEW i \in 1..n
        PROVE  f[i] = IF s[i] \in K THEN Append(f[i - 1], s[i]) ELSE f[i - 1]
    <3>1. i \in 0..n /\ i # 0
      BY <1>1
    <3>2. f[i] = F(f)[i]
      BY <1>8
    <3> QED
      BY <3>1, <3>2
  <2> QED
    BY <2>1, <2>2 DEF Keeps, n
<1> QED
  BY <1>9, <1>10, <1>11 DEF n

\* What Kept makes of a prefix depends on nothing after it.
LEMMA KeepsAgree ==
    ASSUME NEW s, NEW K, NEW t, NEW L, NEW f, NEW g, Len(s) \in Nat, Len(t) \in Nat,
           Keeps(f, s, K), Keeps(g, t, L), Len(s) <= Len(t),
           \A i \in 1..Len(s) : s[i] = t[i] /\ (s[i] \in K <=> t[i] \in L)
    PROVE  f[Len(s)] = g[Len(s)]
<1> DEFINE E == {i \in Nat : i <= Len(s) => f[i] = g[i]}
<1>1. 0 \in E
  BY DEF Keeps
<1>2. ASSUME NEW i \in Nat, i \in E PROVE i + 1 \in E
  <2> SUFFICES ASSUME i + 1 <= Len(s) PROVE f[i + 1] = g[i + 1]
    OBVIOUS
  <2>1. i + 1 \in 1..Len(s) /\ i + 1 \in 1..Len(t) /\ (i + 1) - 1 = i /\ f[i] = g[i]
    BY <1>2
  <2>2. f[i + 1] = IF s[i + 1] \in K THEN Append(f[i], s[i + 1]) ELSE f[i]
    BY <2>1 DEF Keeps
  <2>3. g[i + 1] = IF t[i + 1] \in L THEN Append(g[i], t[i + 1]) ELSE g[i]
    BY <2>1 DEF Keeps
  <2> QED
    BY <2>1, <2>2, <2>3
<1>3. \A i \in Nat : i \in E
  <2> HIDE DEF E
  <2> QED
    BY <1>1, <1>2, Induction
<1> QED
  BY <1>3

\* Kept looks at the elements of a sequence only.
LEMMA KeptSame ==
    ASSUME NEW S, NEW s \in Seq(S), NEW K, NEW L, \A i \in 1..Len(s) : s[i] \in K <=> s[i] \in L
    PROVE  Kept(s, K) = Kept(s, L)
<1>1. PICK f \in [0..Len(s) -> Seq(S)] : Keeps(f, s, K) /\ Kept(s, K) = f[Len(s)]
  BY KeptDefined
<1>2. PICK g \in [0..Len(s) -> Seq(S)] : Keeps(g, s, L) /\ Kept(s, L) = g[Len(s)]
  BY KeptDefined
<1>3. Len(s) \in Nat /\ Len(s) <= Len(s)
  OBVIOUS
<1>4. f[Len(s)] = g[Len(s)]
  BY <1>1, <1>2, <1>3, KeepsAgree
<1> QED
  BY <1>1, <1>2, <1>4

\* What is kept of a sequence comes from it.
LEMMA KeptType ==
    ASSUME NEW S, NEW s \in Seq(S), NEW K
    PROVE  Kept(s, K) \in Seq(S)
<1>1. PICK f \in [0..Len(s) -> Seq(S)] : Kept(s, K) = f[Len(s)]
  BY KeptDefined
<1>2. Len(s) \in 0..Len(s)
  OBVIOUS
<1> QED
  BY <1>1, <1>2

\* Kept keeps what it should.
LEMMA KeptIn ==
    ASSUME NEW S, NEW s \in Seq(S), NEW K
    PROVE  Kept(s, K) \in Seq(K)
<1>1. PICK f \in [0..Len(s) -> Seq(S)] : Keeps(f, s, K) /\ Kept(s, K) = f[Len(s)]
  BY KeptDefined
<1> DEFINE E == {i \in Nat : i <= Len(s) => f[i] \in Seq(K)}
<1>2. 0 \in E
  <2>1. <<>> \in Seq(K)
    OBVIOUS
  <2> QED
    BY <1>1, <2>1 DEF Keeps
<1>3. ASSUME NEW i \in Nat, i \in E PROVE i + 1 \in E
  <2> SUFFICES ASSUME i + 1 <= Len(s) PROVE f[i + 1] \in Seq(K)
    OBVIOUS
  <2>1. i + 1 \in 1..Len(s) /\ (i + 1) - 1 = i /\ f[i] \in Seq(K)
    BY <1>3
  <2>2. f[i + 1] = IF s[i + 1] \in K THEN Append(f[i], s[i + 1]) ELSE f[i]
    BY <1>1, <2>1 DEF Keeps
  <2> QED
    BY <2>1, <2>2
<1>4. \A i \in Nat : i \in E
  <2> HIDE DEF E
  <2> QED
    BY <1>2, <1>3, Induction
<1> QED
  BY <1>1, <1>4

\* Nothing is kept of nothing.
LEMMA KeptEmpty ==
    ASSUME NEW K
    PROVE  Kept(<<>>, K) = <<>>
<1>1. <<>> \in Seq({}) /\ Len(<<>>) = 0
  OBVIOUS
<1>2. PICK f \in [0..Len(<<>>) -> Seq({})] : Keeps(f, <<>>, K) /\ Kept(<<>>, K) = f[Len(<<>>)]
  BY <1>1, KeptDefined
<1> QED
  BY <1>1, <1>2 DEF Keeps

\* The last element is kept at the end, or not at all.
LEMMA KeptAppend ==
    ASSUME NEW S, NEW s \in Seq(S), NEW e \in S, NEW K
    PROVE  Kept(Append(s, e), K) = IF e \in K THEN Append(Kept(s, K), e) ELSE Kept(s, K)
<1> DEFINE t == Append(s, e)
<1>1. /\ t \in Seq(S) /\ Len(t) = Len(s) + 1 /\ Len(s) \in Nat
      /\ t[Len(t)] = e /\ \A i \in 1..Len(s) : t[i] = s[i]
  OBVIOUS
<1> HIDE DEF t
<1>2. PICK f \in [0..Len(s) -> Seq(S)] : Keeps(f, s, K) /\ Kept(s, K) = f[Len(s)]
  BY KeptDefined
<1>3. PICK g \in [0..Len(t) -> Seq(S)] : Keeps(g, t, K) /\ Kept(t, K) = g[Len(t)]
  BY <1>1, KeptDefined
<1>4. f[Len(s)] = g[Len(s)]
  <2>1. Len(t) \in Nat /\ Len(s) <= Len(t)
    BY <1>1
  <2> QED
    BY <1>1, <1>2, <1>3, <2>1, KeepsAgree
<1>5. Len(t) \in 1..Len(t) /\ Len(t) - 1 = Len(s)
  BY <1>1
<1>6. g[Len(t)] = IF t[Len(t)] \in K THEN Append(g[Len(t) - 1], t[Len(t)]) ELSE g[Len(t) - 1]
  BY <1>3, <1>5 DEF Keeps
<1> QED
  BY <1>1, <1>2, <1>3, <1>4, <1>5, <1>6 DEF t

\* If what is not kept stands before what is, Kept is a suffix.
LEMMA KeptSuffix ==
    ASSUME NEW S, NEW s \in Seq(S), NEW K, NEW m \in 0..Len(s),
           \A i \in 1..m : s[i] \notin K, \A i \in (m + 1)..Len(s) : s[i] \in K
    PROVE  Kept(s, K) = SubSeq(s, m + 1, Len(s))
<1>1. PICK f \in [0..Len(s) -> Seq(S)] : Keeps(f, s, K) /\ Kept(s, K) = f[Len(s)]
  BY KeptDefined
<1>2. Len(s) \in Nat /\ m \in Nat
  OBVIOUS
<1> DEFINE E == {i \in Nat : i <= Len(s) => f[i] = SubSeq(s, m + 1, i)}
<1>3. 0 \in E
  <2>1. SubSeq(s, m + 1, 0) = <<>>
    BY <1>2, SubSeqEmpty
  <2> QED
    BY <1>1, <2>1 DEF Keeps
<1>4. ASSUME NEW i \in Nat, i \in E PROVE i + 1 \in E
  <2> SUFFICES ASSUME i + 1 <= Len(s) PROVE f[i + 1] = SubSeq(s, m + 1, i + 1)
    OBVIOUS
  <2>1. i + 1 \in 1..Len(s) /\ (i + 1) - 1 = i /\ f[i] = SubSeq(s, m + 1, i)
    BY <1>4
  <2>2. f[i + 1] = IF s[i + 1] \in K THEN Append(f[i], s[i + 1]) ELSE f[i]
    BY <1>1, <2>1 DEF Keeps
  <2>3. CASE i + 1 <= m
    <3>1. s[i + 1] \notin K /\ SubSeq(s, m + 1, i) = <<>> /\ SubSeq(s, m + 1, i + 1) = <<>>
      BY <1>2, <2>3, SubSeqEmpty
    <3> QED
      BY <2>1, <2>2, <3>1
  <2>4. CASE i + 1 > m
    <3>1. s[i + 1] \in K
      BY <1>2, <2>1, <2>4
    <3>2. SubSeq(s, m + 1, i + 1) = Append(SubSeq(s, m + 1, i), s[i + 1])
      BY <1>2, <2>1, <2>4, SubSeqRecursiveSecond
    <3> QED
      BY <2>1, <2>2, <3>1, <3>2
  <2> QED
    BY <1>2, <2>3, <2>4
<1>5. \A i \in Nat : i \in E
  <2> HIDE DEF E
  <2> QED
    BY <1>3, <1>4, Induction
<1>6. Len(s) \in E
  <2> HIDE DEF E
  <2> QED
    BY <1>2, <1>5
<1>7. f[Len(s)] = SubSeq(s, m + 1, Len(s))
  BY <1>2, <1>6
<1> QED
  BY <1>1, <1>7

----------------------------------------------------------------------------
\* What RemoveAt does to a sequence: one shorter, later elements move up.
LEMMA RemoveAtFacts ==
    ASSUME NEW S, NEW s \in Seq(S), NEW i \in 1..Len(s)
    PROVE  /\ RemoveAt(s, i) \in Seq(S)
           /\ Len(RemoveAt(s, i)) = Len(s) - 1
           /\ \A j \in 1..(Len(s) - 1) :
                RemoveAt(s, i)[j] = IF j < i THEN s[j] ELSE s[j + 1]
<1> DEFINE p == SubSeq(s, 1, i - 1)
           q == SubSeq(s, i + 1, Len(s))
<1>1. p \in Seq(S) /\ Len(p) = i - 1 /\ \A j \in 1..(i - 1) : p[j] = s[j]
  OBVIOUS
<1>2. /\ q \in Seq(S) /\ Len(q) = Len(s) - i
      /\ \A j \in 1..(Len(s) - i) : q[j] = s[i + j]
  OBVIOUS
<1>3. RemoveAt(s, i) = p \o q
  BY DEF RemoveAt
<1> HIDE DEF p, q
<1>0. Len(s) \in Nat /\ i \in Nat
  OBVIOUS
<1>4. p \o q \in Seq(S) /\ Len(p \o q) = Len(s) - 1
  <2>1. p \o q \in Seq(S) /\ Len(p \o q) = Len(p) + Len(q)
    BY <1>1, <1>2, ConcatProperties
  <2>. QED
    BY <1>0, <1>1, <1>2, <2>1
<1>5. \A j \in 1..(Len(s) - 1) :
        (p \o q)[j] = IF j < i THEN p[j] ELSE q[j - (i - 1)]
  BY <1>1, <1>2
<1>6. ASSUME NEW j \in 1..(Len(s) - 1), ~(j < i)
      PROVE  q[j - (i - 1)] = s[j + 1]
  BY <1>2, <1>6
<1>. QED
  BY <1>1, <1>3, <1>4, <1>5, <1>6

\* In a sequence without repetitions, RemoveAt takes one element away and
\* leaves the others, still without repetitions.
LEMMA RemoveAtElements ==
    ASSUME NEW S, NEW s \in Seq(S), NEW i \in 1..Len(s),
           \A j, k \in 1..Len(s) : s[j] = s[k] => j = k
    PROVE  /\ \A j, k \in 1..Len(RemoveAt(s, i)) : RemoveAt(s, i)[j] = RemoveAt(s, i)[k] => j = k
           /\ \A x : (\E j \in 1..Len(RemoveAt(s, i)) : RemoveAt(s, i)[j] = x)
                     <=> x # s[i] /\ \E j \in 1..Len(s) : s[j] = x
<1> DEFINE t == RemoveAt(s, i)
<1>1. /\ t \in Seq(S) /\ Len(t) = Len(s) - 1
      /\ \A j \in 1..Len(t) : t[j] = IF j < i THEN s[j] ELSE s[j + 1]
  BY RemoveAtFacts
<1> HIDE DEF t
<1>2. \A j, k \in 1..Len(t) : t[j] = t[k] => j = k
  BY <1>1
<1>3. ASSUME NEW x, NEW j \in 1..Len(t), t[j] = x
      PROVE  x # s[i] /\ \E k \in 1..Len(s) : s[k] = x
  <2>1. CASE j < i
    BY <1>1, <1>3, <2>1
  <2>2. CASE j >= i
    <3>1. j + 1 \in 1..Len(s) /\ s[j + 1] = x /\ j + 1 # i
      BY <1>1, <1>3, <2>2
    <3>. QED
      BY <3>1
  <2>3. j < i \/ j >= i
    OBVIOUS
  <2>. QED
    BY <2>1, <2>2, <2>3
<1>4. ASSUME NEW x, x # s[i], NEW j \in 1..Len(s), s[j] = x
      PROVE  \E k \in 1..Len(t) : t[k] = x
  <2>1. CASE j < i
    BY <1>1, <1>4, <2>1
  <2>2. CASE j > i
    <3>1. j - 1 \in 1..Len(t) /\ t[j - 1] = x
      BY <1>1, <1>4, <2>2
    <3>. QED
      BY <3>1
  <2>. QED
    BY <1>4, <2>1, <2>2
<1>5. \A x : (\E j \in 1..Len(t) : t[j] = x) <=> x # s[i] /\ \E j \in 1..Len(s) : s[j] = x
  BY <1>3, <1>4
<1>. QED
  BY <1>2, <1>5 DEF t
=============================================================================
