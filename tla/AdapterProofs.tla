--------------------------- MODULE AdapterProofs ---------------------------
(***************************************************************************)
(* Proofs about the two adapters, HTTPBackend and DemoStream.  Both keep   *)
(* the promise of AdapterStream: every step is a step of the promised      *)
(* stream or leaves it unchanged.  And each says the truth: the reader of  *)
(* events passes on what upstream's lines mean, however many they are, the *)
(* vectors belong to their texts, and the demo is billed as it was sent.   *)
(***************************************************************************)
EXTENDS HTTPBackend, DemoStream, FiniteSetTheorems, SequenceFacts

\* What the promise calls status.
Seen == IF status = "escaped" THEN "closed" ELSE status

\* Return is promised only after a finish reason, or when nothing was yielded:
\* the reader's `finished` stands for the first, a unary call for the second.
IInv ==
    /\ passed \in Seq(Promise!Chunk)
    /\ finished \in BOOLEAN
    /\ finished => \E i \in 1..Len(passed) : passed[i].finish
    /\ call.op # "stream" => passed = <<>>

\* What the reader makes of an event is a chunk as AdapterStream means it.
LEMMA ChunkOfIsChunk ==
    ASSUME NEW p \in DOMAIN ChunkOf
    PROVE  ChunkOf[p] \in Promise!Chunk
<1>1. p \in Payloads
  BY DEF ChunkOf
<1>2. p \in {<<"content">>, <<"{", "}">>, <<"finish">>} => p # <<"usage">>
  <2>1. <<"content">> # <<"usage">> /\ <<"finish">> # <<"usage">>
    OBVIOUS
  <2>2. <<"{", "}">> # <<"usage">>
    <3>1. Len(<<"{", "}">>) = 2 /\ Len(<<"usage">>) = 1
      OBVIOUS
    <3> QED
      BY <3>1
  <2> QED
    BY <2>1, <2>2
<1> DEFINE c == [choices |-> p # <<"usage">>, content |-> p \in {<<"content">>, <<"{", "}">>},
                 finish |-> p = <<"finish">>, usage |-> p = <<"usage">>]
<1>3. ChunkOf[p] = c
  BY <1>1 DEF ChunkOf
<1>4. c \in [choices : BOOLEAN, content : BOOLEAN, finish : BOOLEAN, usage : BOOLEAN]
  OBVIOUS
<1>5. c.content \/ c.finish => c.choices
  BY <1>2
<1> HIDE DEF c
<1> QED
  BY <1>3, <1>4, <1>5 DEF Promise!Chunk

\* Whatever numbers a reply has, it is an answer or an exception.
LEMMA ConvertedEnds ==
    ASSUME NEW numbers, NEW bad
    PROVE  Converted(numbers, bad) \in {"returned", "raised", "escaped"}
BY DEF Converted

\* Before the call there is nothing to keep.
LEMMA InitIInv == Init => IInv
<1> SUFFICES ASSUME Init PROVE IInv
  OBVIOUS
<1>1. passed = <<>> /\ finished = FALSE
  BY DEF Init
<1>2. passed \in Seq(Promise!Chunk)
  BY <1>1
<1> QED
  BY <1>1, <1>2 DEF IInv

\* A chunk with a finish reason is never held back, so `finished` is borne out by
\* what was yielded.
LEMMA StepIInv ==
    ASSUME IInv, [Next]_vars
    PROVE  IInv'
<1> USE DEF IInv
<1>1. ASSUME ChunkArrives PROVE IInv'
  <2>1. call' = call /\ call.op = "stream" /\ ChunkOf[Json(data)] \in Promise!Chunk
    BY <1>1, ChunkOfIsChunk DEF ChunkArrives, EventEnds, Reads, ChunkOf
  <2> DEFINE c == ChunkOf[Json(data)]
  <2>2. /\ finished' = (finished \/ c.finish)
        /\ passed' = IF Promise!PassedOn(c) THEN Append(passed, c) ELSE passed
    BY <1>1 DEF ChunkArrives
  <2>3. c \in Promise!Chunk /\ c.finish \in BOOLEAN
    BY <2>1 DEF Promise!Chunk
  <2> HIDE DEF c
  <2>4. c.finish => Promise!PassedOn(c)
    BY DEF Promise!PassedOn
  <2>5. CASE Promise!PassedOn(c)
    <3>1. /\ passed' \in Seq(Promise!Chunk) /\ Len(passed') = Len(passed) + 1 /\ Len(passed) \in Nat
          /\ passed'[Len(passed) + 1] = c
          /\ \A i \in 1..Len(passed) : passed'[i] = passed[i]
      BY <2>2, <2>3, <2>5
    <3>2. finished' => \E i \in 1..Len(passed') : passed'[i].finish
      <4>1. CASE finished
        <5>1. PICK i \in 1..Len(passed) : passed[i].finish
          BY <4>1
        <5>2. i \in 1..Len(passed') /\ passed'[i].finish
          BY <3>1, <5>1
        <5> QED
          BY <5>2
      <4>2. CASE c.finish
        <5>1. Len(passed) + 1 \in 1..Len(passed') /\ passed'[Len(passed) + 1].finish
          BY <3>1, <4>2
        <5> QED
          BY <5>1
      <4> QED
        BY <2>2, <4>1, <4>2
    <3> QED
      BY <2>1, <2>2, <2>3, <3>1, <3>2
  <2>6. CASE ~Promise!PassedOn(c)
    BY <2>1, <2>2, <2>3, <2>4, <2>6
  <2> QED
    BY <2>5, <2>6
<1>2. ASSUME UNCHANGED <<call, finished, passed>> PROVE IInv'
  BY <1>2
<1>3. CASE \/ \E text \in Texts : DataLine(text)
           \/ IgnoredLine \/ DoneArrives \/ BadEvent
           \/ Fails \/ Closed
           \/ \E shaped \in BOOLEAN, prompt, completion \in Number :
                 Completes([shaped |-> shaped, prompt |-> prompt, completion |-> completion])
           \/ \E shaped \in BOOLEAN, prompt, value \in Number, items \in Items :
                 Embeds([shaped |-> shaped, prompt |-> prompt, value |-> value, items |-> items])
           \/ UNCHANGED vars
  <2>1. UNCHANGED <<call, finished, passed>>
    BY <1>3 DEF DataLine, IgnoredLine, DoneArrives, BadEvent, Fails, Closed, Completes, Embeds,
                EventEnds, Reads, Replies, streamVars, vars
  <2> QED
    BY <1>2, <2>1
<1> QED
  BY <1>1, <1>3 DEF Next

\* Every step of the adapter is one the promise allows, or it hides nothing from it.
LEMMA PromiseStep ==
    ASSUME IInv, [Next]_vars
    PROVE  [Promise!Next]_<<passed, Seen>>
<1> USE DEF Seen
<1>1. ASSUME ChunkArrives PROVE [Promise!Next]_<<passed, Seen>>
  <2> DEFINE c == ChunkOf[Json(data)]
  <2>1. /\ c \in Promise!Chunk /\ status = "open" /\ status' = "open"
        /\ passed' = IF Promise!PassedOn(c) THEN Append(passed, c) ELSE passed
    BY <1>1, ChunkOfIsChunk DEF ChunkArrives, EventEnds, Reads, ChunkOf
  <2> HIDE DEF c
  <2>2. CASE Promise!PassedOn(c)
    <3>1. Promise!Yield(c)
      BY <2>1, <2>2 DEF Promise!Yield
    <3> QED
      BY <2>1, <3>1 DEF Promise!Next
  <2>3. CASE ~Promise!PassedOn(c)
    BY <2>1, <2>3
  <2> QED
    BY <2>2, <2>3
<1>2. ASSUME status = "open", passed' = passed, status' \in {"raised", "closed", "escaped"}
      PROVE  Promise!Next
  BY <1>2 DEF Promise!Next, Promise!Raise, Promise!Close
<1>3. ASSUME status = "open", passed' = passed, status' = "returned",
             passed = <<>> \/ \E i \in 1..Len(passed) : passed[i].finish
      PROVE  Promise!Next
  BY <1>3 DEF Promise!Next, Promise!Return
<1>4. ASSUME DoneArrives PROVE Promise!Next
  <2>1. status = "open" /\ passed' = passed /\ status' \in {"returned", "raised"}
        /\ (status' = "returned" => finished)
    BY <1>4 DEF DoneArrives, EventEnds, Reads
  <2> QED
    BY <1>2, <1>3, <2>1 DEF IInv
<1>5. ASSUME BadEvent \/ Fails \/ Closed PROVE Promise!Next
  <2>1. status = "open" /\ passed' = passed /\ status' \in {"raised", "closed"}
    BY <1>5 DEF BadEvent, Fails, Closed, EventEnds, Reads, streamVars
  <2> QED
    BY <1>2, <2>1
\* A unary call yields no chunks, and ends in one step.
<1>6. ASSUME NEW op \in {"complete", "embed"}, NEW body, Replies(op, body),
             status' \in {"returned", "raised", "escaped"}
      PROVE  Promise!Next
  <2>1. status = "open" /\ passed' = passed /\ passed = <<>>
    BY <1>6 DEF Replies, streamVars, IInv
  <2> QED
    BY <1>2, <1>3, <1>6, <2>1
<1>7. ASSUME NEW body, Completes(body) PROVE Promise!Next
  <2>1. status' \in {"returned", "raised", "escaped"}
    BY <1>7, ConvertedEnds DEF Completes
  <2> QED
    BY <1>6, <1>7, <2>1 DEF Completes
<1>8. ASSUME NEW body, Embeds(body) PROVE Promise!Next
  <2>1. status' \in {"returned", "raised", "escaped"}
    BY <1>8, ConvertedEnds DEF Embeds
  <2> QED
    BY <1>6, <1>8, <2>1 DEF Embeds
<1>9. CASE (\E text \in Texts : DataLine(text)) \/ IgnoredLine \/ UNCHANGED vars
  BY <1>9 DEF DataLine, IgnoredLine, streamVars, vars
<1> QED
  BY <1>1, <1>4, <1>5, <1>7, <1>8, <1>9 DEF Next

\* However upstream cuts its stream, and wherever it breaks off, `stream` yields
\* only chunks worth passing on and returns only after a finish reason; `complete`
\* and `embed` end in an answer or an exception, at once.
THEOREM AdapterSpecHolds == Spec => AdapterSpec
<1>1. Init => Promise!Init
  BY DEF Init, Promise!Init
<1>2. IInv /\ [Next]_vars => IInv'
  BY StepIInv
<1>3. IInv /\ [Next]_vars => [Promise!Next]_<<passed, IF status = "escaped" THEN "closed" ELSE status>>
  BY PromiseStep DEF Seen
<1> QED
  BY <1>1, <1>2, <1>3, InitIInv, PTL DEF Spec, AdapterSpec, Promise!Spec

----------------------------------------------------------------------------
(* What the lines mean, read all at once, when one more line is read.      *)

Line == Texts \union {"", "other"}

\* Where the event that is still open begins, and what it holds so far.
OpenFrom(log) ==
    IF Blanks(log) = <<>> THEN 1 ELSE Blanks(log)[Len(Blanks(log))] + 1

OpenData(log) == DataIn(log, OpenFrom(log), Len(log))

\* A blank line that is read is one more end of an event, any other line is none.
LEMMA BlanksAppend ==
    ASSUME NEW log \in Seq(Line), NEW l \in Line
    PROVE  /\ Blanks(log) \in Seq(Nat)
           /\ \A k \in 1..Len(Blanks(log)) : Blanks(log)[k] \in 1..Len(log)
           /\ Blanks(Append(log, l)) =
                IF l = "" THEN Append(Blanks(log), Len(log) + 1) ELSE Blanks(log)
<1> DEFINE n == Len(log)
           t == Append(log, l)
           u == [i \in 1..n |-> i]
           v == [i \in 1..(n + 1) |-> i]
           K == {i \in 1..n : log[i] = ""}
           L == {i \in 1..(n + 1) : t[i] = ""}
<1>1. n \in Nat /\ Len(t) = n + 1 /\ t[n + 1] = l /\ \A i \in 1..n : t[i] = log[i]
  BY AppendFacts
<1>2. Blanks(log) = Kept(u, K) /\ Blanks(t) = Kept(v, L)
  BY <1>1 DEF Blanks
<1> HIDE DEF n, t
<1>3. u \in Seq(1..n) /\ u \in Seq(Nat) /\ v = Append(u, n + 1) /\ Len(u) = n /\ n + 1 \in Nat
  BY <1>1
<1>4. n + 1 \in L <=> l = ""
  <2>1. n + 1 \in 1..(n + 1)
    BY <1>1
  <2> QED
    BY <1>1, <2>1
<1>5. \A i \in 1..Len(u) : u[i] \in L <=> u[i] \in K
  <2> TAKE i \in 1..Len(u)
  <2>1. i \in 1..n /\ i \in 1..(n + 1) /\ u[i] = i
    BY <1>1, <1>3
  <2> HIDE DEF u
  <2> QED
    BY <1>1, <2>1
<1> HIDE DEF u, v, K, L
<1>6. Kept(u, L) = Kept(u, K)
  BY <1>3, <1>5, KeptSame
<1>7. Kept(Append(u, n + 1), L) = IF n + 1 \in L THEN Append(Kept(u, L), n + 1) ELSE Kept(u, L)
  <2> DEFINE e == n + 1
  <2>1. e \in Nat
    BY <1>3
  <2> HIDE DEF e
  <2>2. Kept(Append(u, e), L) = IF e \in L THEN Append(Kept(u, L), e) ELSE Kept(u, L)
    BY <1>3, <2>1, KeptAppend
  <2> QED
    BY <2>2 DEF e
<1>8. Kept(u, K) \in Seq(Nat)
  BY <1>3, KeptType
<1>9. \A k \in 1..Len(Kept(u, K)) : Kept(u, K)[k] \in 1..n
  <2> DEFINE S == 1..n
  <2>1. u \in Seq(S)
    BY <1>3
  <2> HIDE DEF S
  <2>2. Kept(u, K) \in Seq(S)
    BY <2>1, KeptType
  <2>3. \A k \in 1..Len(Kept(u, K)) : Kept(u, K)[k] \in S
    BY <2>2, SeqFacts
  <2> QED
    BY <2>3 DEF S
<1>10. Blanks(t) = IF l = "" THEN Append(Blanks(log), n + 1) ELSE Blanks(log)
  BY <1>2, <1>3, <1>4, <1>6, <1>7
<1> QED
  BY <1>2, <1>8, <1>9, <1>10 DEF n, t

\* The data of a stretch of lines is a sequence of texts.
LEMMA DataInTexts ==
    ASSUME NEW log \in Seq(Line), NEW a \in Nat \ {0}, NEW b \in Nat, b <= Len(log)
    PROVE  DataIn(log, a, b) \in Seq(Texts)
<1>1. SubSeq(log, a, b) \in Seq(Line)
  OBVIOUS
<1> QED
  BY <1>1, KeptIn DEF DataIn

\* The open event begins at a line that is there, or at the next to come.
LEMMA OpenFromType ==
    ASSUME NEW log \in Seq(Line)
    PROVE  OpenFrom(log) \in 1..(Len(log) + 1)
<1>1. "" \in Line
  BY DEF Line
<1> DEFINE b == Blanks(log)
<1>2. b \in Seq(Nat) /\ \A k \in 1..Len(b) : b[k] \in 1..Len(log)
  BY <1>1, BlanksAppend
<1> HIDE DEF b
<1>3. b # <<>> => Len(b) \in 1..Len(b)
  BY <1>2, SeqFacts
<1>4. b # <<>> => b[Len(b)] \in 1..Len(log)
  BY <1>2, <1>3
<1>5. Len(log) \in Nat
  BY SeqFacts
<1> QED
  BY <1>4, <1>5 DEF OpenFrom, b

\* What is open after one more line: nothing, one data line more, or the same.
LEMMA OpenDataAppend ==
    ASSUME NEW log \in Seq(Line), NEW l \in Line
    PROVE  OpenData(Append(log, l)) =
             IF l = "" THEN <<>>
             ELSE IF l \in Texts THEN Append(OpenData(log), l) ELSE OpenData(log)
<1> DEFINE n == Len(log)
           t == Append(log, l)
           a == OpenFrom(log)
<1>1. n \in Nat /\ t \in Seq(Line) /\ Len(t) = n + 1
  OBVIOUS
<1>2. /\ Blanks(log) \in Seq(Nat)
      /\ Blanks(t) = IF l = "" THEN Append(Blanks(log), n + 1) ELSE Blanks(log)
  BY BlanksAppend
<1>3. a \in 1..(n + 1)
  BY OpenFromType
<1>4. CASE l = ""
  <2> DEFINE b == Blanks(log)
  <2> HIDE DEF b, n
  <2>1. OpenFrom(t) = n + 2
    <3> DEFINE c == Append(b, n + 1)
    <3>1. c # <<>> /\ c[Len(c)] = n + 1
      <4>1. n + 1 \in Nat
        BY <1>1
      <4>2. Len(c) = Len(b) + 1 /\ c # <<>> /\ c[Len(b) + 1] = n + 1
        BY <1>2, <4>1, AppendFacts DEF b
      <4> QED
        BY <4>2
    <3>2. Blanks(t) = c
      BY <1>2, <1>4 DEF b
    <3> HIDE DEF c
    <3>3. OpenFrom(t) = c[Len(c)] + 1
      BY <3>1, <3>2 DEF OpenFrom
    <3> QED
      BY <1>1, <3>1, <3>3
  <2>2. SubSeq(t, n + 2, n + 1) = <<>>
    BY <1>1, SubSeqEmpty
  <2> QED
    BY <1>1, <1>4, <2>1, <2>2, KeptEmpty DEF OpenData, DataIn
<1>5. CASE l # ""
  <2>1. OpenFrom(t) = a
    BY <1>2, <1>5 DEF OpenFrom
  <2>2. SubSeq(t, a, n + 1) = Append(SubSeq(log, a, n), l) /\ SubSeq(log, a, n) \in Seq(Line)
    BY <1>1, <1>3
  <2>3. Kept(SubSeq(t, a, n + 1), Texts) =
          IF l \in Texts THEN Append(Kept(SubSeq(log, a, n), Texts), l)
          ELSE Kept(SubSeq(log, a, n), Texts)
    BY <2>2, KeptAppend
  <2> QED
    BY <1>1, <1>5, <2>1, <2>3 DEF OpenData, DataIn
<1> QED
  BY <1>4, <1>5

\* A blank line dispatches what is open, any other line nothing.
LEMMA DispatchedAppend ==
    ASSUME NEW log \in Seq(Line), NEW l \in Line
    PROVE  /\ Dispatched(log) \in Seq(Seq(Texts)) /\ OpenData(log) \in Seq(Texts)
           /\ Dispatched(Append(log, l)) =
                IF l = "" THEN Append(Dispatched(log), OpenData(log)) ELSE Dispatched(log)
<1> DEFINE n == Len(log)
           t == Append(log, l)
           b == Blanks(log)
           m == Len(b)
           From(c, k) == IF k = 1 THEN 1 ELSE c[k - 1] + 1
<1>1. n \in Nat /\ t \in Seq(Line) /\ Len(t) = n + 1 /\ \A i \in 1..n : t[i] = log[i]
  OBVIOUS
<1>2. /\ b \in Seq(Nat) /\ \A k \in 1..m : b[k] \in 1..n
      /\ Blanks(t) = IF l = "" THEN Append(b, n + 1) ELSE b
  BY BlanksAppend
<1>3. Dispatched(log) = [k \in 1..m |-> DataIn(log, From(b, k), b[k] - 1)]
  BY DEF Dispatched
<1>4. Dispatched(t) = [k \in 1..Len(Blanks(t)) |-> DataIn(t, From(Blanks(t), k), Blanks(t)[k] - 1)]
  BY DEF Dispatched
<1> HIDE DEF n, t, b
<1>5. m \in Nat /\ \A k \in 1..m : b[k] \in 1..n
  BY <1>2, SeqFacts
<1>6. ASSUME NEW k \in 1..m
      PROVE  /\ From(b, k) \in Nat \ {0} /\ b[k] - 1 \in Nat /\ b[k] - 1 <= n
             /\ DataIn(t, From(b, k), b[k] - 1) = DataIn(log, From(b, k), b[k] - 1)
             /\ DataIn(log, From(b, k), b[k] - 1) \in Seq(Texts)
  <2>1. b[k] - 1 \in Nat /\ b[k] - 1 <= n
    BY <1>1, <1>5
  <2>2. From(b, k) \in Nat \ {0}
    <3>1. CASE k = 1
      BY <3>1
    <3>2. CASE k # 1
      <4>1. k - 1 \in 1..m
        BY <1>5, <3>2
      <4>2. b[k - 1] \in 1..n
        BY <1>5, <4>1
      <4> QED
        BY <1>1, <3>2, <4>2
    <3> QED
      BY <3>1, <3>2
  <2> HIDE DEF From
  <2>3. log \in Seq(Line) /\ n = Len(log)
    BY DEF n
  <2>4. SubSeq(t, From(b, k), b[k] - 1) = SubSeq(log, From(b, k), b[k] - 1)
    BY <1>1, <2>1, <2>2, <2>3, SameSubSeq
  <2> QED
    BY <2>1, <2>2, <2>3, <2>4, DataInTexts DEF DataIn
<1>7. Dispatched(log) \in Seq(Seq(Texts)) /\ Len(Dispatched(log)) = m
  BY <1>3, <1>5, <1>6
<1>8. OpenData(log) \in Seq(Texts)
  <2>1. OpenFrom(log) \in Nat \ {0}
    BY <1>1, OpenFromType DEF n
  <2> QED
    BY <1>1, <2>1, DataInTexts DEF OpenData, n
<1>9. CASE l # ""
  <2>1. Blanks(t) = b
    BY <1>2, <1>9
  <2>2. Dispatched(t) = [k \in 1..m |-> DataIn(t, From(b, k), b[k] - 1)]
    BY <1>4, <2>1
  <2> HIDE DEF From, m
  <2>3. Dispatched(t) = Dispatched(log)
    BY <1>3, <1>6, <2>2
  <2> QED
    BY <1>7, <1>8, <1>9, <2>3 DEF t
<1>10. CASE l = ""
  <2> DEFINE c == Blanks(t)
             d == Append(Dispatched(log), OpenData(log))
  <2>1. c = Append(b, n + 1)
    BY <1>2, <1>10
  <2>2. Len(c) = m + 1 /\ c[m + 1] = n + 1 /\ \A k \in 1..m : c[k] = b[k]
    <3> DEFINE e == n + 1
    <3>1. e \in Nat
      BY <1>1
    <3> HIDE DEF e, m, c, d
    <3>3. b \in Seq(Nat)
      BY <1>2, Zenon
    <3>2. /\ Len(Append(b, e)) = Len(b) + 1 /\ Append(b, e)[Len(b) + 1] = e
          /\ \A k \in 1..Len(b) : Append(b, e)[k] = b[k]
      BY <3>1, <3>3, AppendFacts
    <3> QED
      BY <2>1, <3>2 DEF e, m
  <2>3. d \in Seq(Seq(Texts)) /\ Len(d) = m + 1 /\ d[m + 1] = OpenData(log)
        /\ \A k \in 1..m : d[k] = Dispatched(log)[k]
    BY <1>7, <1>8
  <2>4. Dispatched(t) = [k \in 1..(m + 1) |-> DataIn(t, From(c, k), c[k] - 1)]
    BY <1>4, <2>2
  <2> HIDE DEF c, d
  <2>5. ASSUME NEW k \in 1..m PROVE DataIn(t, From(c, k), c[k] - 1) = d[k]
    <3>1. From(c, k) = From(b, k)
      <4>1. CASE k = 1
        BY <4>1
      <4>2. CASE k # 1
        <5>1. k - 1 \in 1..m
          BY <1>5, <4>2
        <5> QED
          BY <2>2, <4>2, <5>1
      <4> QED
        BY <4>1, <4>2
    <3>2. d[k] = DataIn(log, From(b, k), b[k] - 1)
      BY <1>3, <2>3
    <3> HIDE DEF From
    <3> QED
      BY <1>6, <2>2, <3>1, <3>2
  <2>6. DataIn(t, From(c, m + 1), c[m + 1] - 1) = d[m + 1]
    <3>1. From(c, m + 1) = OpenFrom(log)
      <4>1. CASE m = 0
        <5>1. b = <<>>
          BY <1>2, <4>1, SeqFacts
        <5> QED
          BY <4>1, <5>1 DEF OpenFrom, b
      <4>2. CASE m # 0
        <5>0. b # <<>>
          BY <1>2, <4>2, SeqFacts
        <5>1. m \in 1..m /\ (m + 1) - 1 = m /\ m + 1 # 1
          <6> HIDE DEF m
          <6> QED
            BY <1>5, <4>2
        <5>2. From(c, m + 1) = b[m] + 1
          BY <2>2, <5>1
        <5> QED
          BY <5>0, <5>2 DEF OpenFrom, b
      <4> QED
        BY <4>1, <4>2
    <3>2. c[m + 1] - 1 = n
      BY <1>1, <2>2
    <3>3. OpenFrom(log) \in Nat \ {0}
      BY <1>1, OpenFromType DEF n
    <3> HIDE DEF From
    <3>4. log \in Seq(Line) /\ n = Len(log)
      BY DEF n
    <3>5. SubSeq(t, OpenFrom(log), n) = SubSeq(log, OpenFrom(log), n)
      BY <1>1, <3>3, <3>4, SameSubSeq
    <3> QED
      BY <2>3, <3>1, <3>2, <3>4, <3>5 DEF DataIn, OpenData
  <2>7. \A k \in 1..(m + 1) : k \in 1..m \/ k = m + 1
    BY <1>5
  <2> HIDE DEF From, m
  <2>8. \A k \in 1..(m + 1) : DataIn(t, From(c, k), c[k] - 1) = d[k]
    BY <2>5, <2>6, <2>7
  <2>9. Dispatched(t) = [k \in 1..(m + 1) |-> d[k]]
    BY <2>4, <2>8
  <2>10. d = [k \in 1..(m + 1) |-> d[k]]
    BY <2>3
  <2> QED
    BY <1>7, <1>8, <1>10, <2>9, <2>10 DEF d, t
<1> QED
  BY <1>9, <1>10

\* One more line ends an event that has data, or it ends none.
LEMMA EventsAppend ==
    ASSUME NEW log \in Seq(Line), NEW l \in Line
    PROVE  /\ EventsIn(log) \in Seq(Seq(Texts))
           /\ EventsIn(Append(log, l)) =
                IF l = "" /\ OpenData(log) # <<>> THEN Append(EventsIn(log), OpenData(log))
                ELSE EventsIn(log)
<1> DEFINE d == Dispatched(log)
           o == OpenData(log)
           K == Seq(Texts) \ {<<>>}
<1>1. d \in Seq(Seq(Texts)) /\ o \in Seq(Texts)
      /\ Dispatched(Append(log, l)) = IF l = "" THEN Append(d, o) ELSE d
  BY DispatchedAppend
<1> HIDE DEF d, o, K
<1>2. Kept(d, K) \in Seq(Seq(Texts))
  BY <1>1, KeptType
<1>3. Kept(Append(d, o), K) = IF o \in K THEN Append(Kept(d, K), o) ELSE Kept(d, K)
  BY <1>1, KeptAppend
<1>4. o \in K <=> o # <<>>
  BY <1>1 DEF K
<1> QED
  BY <1>1, <1>2, <1>3, <1>4 DEF EventsIn, d, o, K

\* One more event is decoded for itself.
LEMMA DecodedAppend ==
    ASSUME NEW events \in Seq(Seq(Texts)), NEW e \in Seq(Texts)
    PROVE  /\ Decoded(events) \in Seq(Seq(Texts)) /\ Json(e) \in Seq(Texts)
           /\ Decoded(Append(events, e)) = Append(Decoded(events), Json(e))
<1> DEFINE n == Len(events)
           a == Append(events, e)
           d == Decoded(events)
<1>1. \A x \in Seq(Texts) : Json(x) \in Seq(Texts)
  BY KeptType DEF Json
<1>2. n \in Nat /\ \A k \in 1..n : events[k] \in Seq(Texts)
  BY SeqFacts
<1>3. Len(a) = n + 1 /\ a[n + 1] = e /\ \A k \in 1..n : a[k] = events[k]
  BY AppendFacts
<1>4. /\ d \in Seq(Seq(Texts)) /\ Len(d) = n
      /\ \A k \in 1..n : d[k] = Json(events[k])
  BY <1>1, <1>2 DEF Decoded
<1> HIDE DEF n, a, d
<1>5. /\ Append(d, Json(e)) \in Seq(Seq(Texts)) /\ Len(Append(d, Json(e))) = n + 1
      /\ Append(d, Json(e))[n + 1] = Json(e)
      /\ \A k \in 1..n : Append(d, Json(e))[k] = d[k]
  BY <1>1, <1>4, AppendFacts
<1>6. \A k \in 1..(n + 1) : k \in 1..n \/ k = n + 1
  BY <1>2
<1>7. \A k \in 1..(n + 1) : Append(d, Json(e))[k] = Json(a[k])
  BY <1>3, <1>4, <1>5, <1>6
<1>8. Append(d, Json(e)) = [k \in 1..(n + 1) |-> Append(d, Json(e))[k]]
  <2>1. ASSUME NEW S, NEW s \in Seq(S) PROVE s = [k \in 1..Len(s) |-> s[k]]
    BY <2>1
  <2> QED
    BY <1>5, <2>1
<1>9. Decoded(a) = [k \in 1..(n + 1) |-> Json(a[k])]
  BY <1>3 DEF Decoded
<1>10. Decoded(a) = Append(d, Json(e))
  BY <1>7, <1>8, <1>9
<1> QED
  BY <1>1, <1>4, <1>10 DEF a, d

\* A chunk that is worth passing on is passed on; nothing else is.
LEMMA ChunksAppend ==
    ASSUME NEW events \in Seq(Seq(Texts)), NEW event \in Seq(Texts)
    PROVE  ChunksIn(Append(events, event)) =
             IF Json(event) \in Payloads /\ Promise!PassedOn(ChunkOf[Json(event)])
             THEN Append(ChunksIn(events), ChunkOf[Json(event)]) ELSE ChunksIn(events)
<1> DEFINE C == Promise!Chunk
           P == {c \in C : Promise!PassedOn(c)}
           e == Json(event)
           q == Kept(Decoded(events), Payloads)
           r == Kept(Decoded(Append(events, event)), Payloads)
           f == [k \in 1..Len(q) |-> ChunkOf[q[k]]]
           g == [k \in 1..Len(r) |-> ChunkOf[r[k]]]
<1>1. q \in Seq(Payloads) /\ r = IF e \in Payloads THEN Append(q, e) ELSE q
  BY DecodedAppend, KeptIn, KeptAppend
<1>2. ChunksIn(events) = Kept(f, P) /\ ChunksIn(Append(events, event)) = Kept(g, P)
  BY DEF ChunksIn
<1>3. \A p \in Payloads : ChunkOf[p] \in C
  BY ChunkOfIsChunk DEF ChunkOf
<1> HIDE DEF C, P, e, q, r
<1>4. f \in Seq(C) /\ Len(f) = Len(q)
  <2>1. Len(q) \in Nat /\ \A k \in 1..Len(q) : ChunkOf[q[k]] \in C
    BY <1>1, <1>3, SeqFacts
  <2> QED
    BY <2>1
<1>5. CASE e \notin Payloads
  BY <1>1, <1>2, <1>5 DEF e
<1>6. CASE e \in Payloads
  <2> DEFINE d == ChunkOf[e]
  <2>1. d \in C
    BY <1>3, <1>6
  <2>2. /\ r = Append(q, e) /\ Len(q) \in Nat /\ Len(r) = Len(q) + 1 /\ r[Len(q) + 1] = e
        /\ \A k \in 1..Len(q) : r[k] = q[k]
    BY <1>1, <1>6, AppendFacts
  <2> HIDE DEF d
  <2>3. g = Append(f, d)
    <3>1. /\ Append(f, d) \in Seq(C) /\ Len(Append(f, d)) = Len(q) + 1
          /\ Append(f, d)[Len(q) + 1] = d
          /\ \A k \in 1..Len(q) : Append(f, d)[k] = f[k]
      BY <1>4, <2>1, AppendFacts
    <3>2. \A k \in 1..(Len(q) + 1) : k \in 1..Len(q) \/ k = Len(q) + 1
      BY <2>2
    <3>3. \A k \in 1..(Len(q) + 1) : Append(f, d)[k] = ChunkOf[r[k]]
      BY <2>2, <3>1, <3>2 DEF d
    <3>4. Append(f, d) = [k \in 1..(Len(q) + 1) |-> Append(f, d)[k]]
      BY <3>1
    <3>5. g = [k \in 1..(Len(q) + 1) |-> ChunkOf[r[k]]]
      BY <2>2
    <3> HIDE DEF f, g
    <3> QED
      BY <3>3, <3>4, <3>5
  <2> HIDE DEF f, g
  <2>4. Kept(Append(f, d), P) = IF d \in P THEN Append(Kept(f, P), d) ELSE Kept(f, P)
    BY <1>4, <2>1, KeptAppend
  <2>5. d \in P <=> Promise!PassedOn(d)
    BY <2>1 DEF P
  <2> QED
    BY <1>2, <1>6, <2>3, <2>4, <2>5 DEF d, e
<1> QED
  BY <1>5, <1>6 DEF e

----------------------------------------------------------------------------
\* The reader holds the data lines of the event that is open, has passed on the
\* chunks of those before it, and reads on only if all of them were chunks.
Reading ==
    /\ lines \in Seq(Line)
    /\ data = OpenData(lines)
    /\ PassesOnWholeEvents
    /\ EndsWhereUpstreamEnds

\* Of no lines, nothing ends.
LEMMA BlanksEmpty == Blanks(<<>>) = <<>>
<1>1. Len(<<>>) = 0 /\ [i \in 1..0 |-> i] = <<>>
  OBVIOUS
<1> QED
  BY <1>1, KeptEmpty DEF Blanks

\* Of no lines, there is no event.
LEMMA EventsEmpty == EventsIn(<<>>) = <<>>
<1>1. Len(<<>>) = 0
  OBVIOUS
<1>2. Dispatched(<<>>) = <<>>
  <2>1. \A f : DOMAIN f = 1..0 /\ f = [k \in 1..0 |-> f[k]] => f = <<>>
    OBVIOUS
  <2> QED
    BY <1>1, BlanksEmpty DEF Dispatched
<1> QED
  BY <1>2, KeptEmpty DEF EventsIn

\* Before the first line nothing is open and nothing was passed on.
LEMMA InitReading == Init => Reading
<1> SUFFICES ASSUME Init PROVE Reading
  OBVIOUS
<1>1. lines = <<>> /\ data = <<>> /\ passed = <<>> /\ status = "open"
  BY DEF Init
<1>2. lines \in Seq(Line)
  BY <1>1
<1>3. OpenData(<<>>) = <<>>
  <2>1. SubSeq(<<>>, 1, 0) = <<>> /\ Len(<<>>) = 0
    OBVIOUS
  <2> QED
    BY <2>1, BlanksEmpty, KeptEmpty DEF OpenData, OpenFrom, DataIn
<1>4. ChunksIn(<<>>) = <<>>
  <2>1. /\ Len(<<>>) = 0 /\ [k \in 1..0 |-> ChunkOf[<<>>[k]]] = <<>>
        /\ [k \in 1..0 |-> Json(<<>>[k])] = <<>>
    OBVIOUS
  <2> QED
    BY <2>1, KeptEmpty DEF ChunksIn, Decoded
<1>5. PassesOnWholeEvents
  BY <1>1, <1>4, EventsEmpty DEF PassesOnWholeEvents, Events
<1>6. EndsWhereUpstreamEnds
  <2>1. \A k \in 1..Len(<<>>) : FALSE
    OBVIOUS
  <2> QED
    BY <1>1, <2>1, EventsEmpty DEF EndsWhereUpstreamEnds, Events
<1> QED
  BY <1>1, <1>2, <1>3, <1>5, <1>6 DEF Reading

\* A line that dispatches nothing.
LEMMA QuietLine ==
    ASSUME Reading, NEW l \in Line, Reads(l), status' = status, passed' = passed,
           l = "" => data = <<>>,
           data' = IF l \in Texts THEN Append(data, l) ELSE data
    PROVE  Reading'
<1>1. lines' = Append(lines, l) /\ lines \in Seq(Line) /\ call' = call
  BY DEF Reads, Reading
<1>2. lines' \in Seq(Line)
  BY <1>1, AppendFacts
<1>3. data' = OpenData(lines')
  <2>1. "" \notin Texts
    BY DEF Texts
  <2> QED
    BY <1>1, <2>1, OpenDataAppend DEF Reading
<1>4. Events' = Events
  BY <1>1, EventsAppend DEF Events, Reading
<1>5. PassesOnWholeEvents' /\ EndsWhereUpstreamEnds'
  BY <1>1, <1>4 DEF Reading, PassesOnWholeEvents, EndsWhereUpstreamEnds
<1> QED
  BY <1>2, <1>3, <1>5 DEF Reading

\* A blank line with an event open dispatches it.
LEMMA EventLine ==
    ASSUME Reading, EventEnds
    PROVE  /\ lines' \in Seq(Line) /\ data' = OpenData(lines')
           /\ Events \in Seq(Seq(Texts)) /\ data \in Seq(Texts) /\ Events' = Append(Events, data)
           /\ call' = call /\ call.op = "stream" /\ status = "open"
<1>1. lines' = Append(lines, "") /\ lines \in Seq(Line) /\ data # <<>> /\ data' = <<>>
  BY DEF EventEnds, Reads, Reading
<1>2. "" \in Line
  BY DEF Line
<1>3. lines' \in Seq(Line)
  BY <1>1, <1>2, AppendFacts
<1>4. data' = OpenData(lines')
  BY <1>1, <1>2, OpenDataAppend
<1>5. Events \in Seq(Seq(Texts)) /\ Events' = Append(Events, data)
  BY <1>1, <1>2, EventsAppend DEF Events, Reading
<1>6. data \in Seq(Texts)
  BY <1>1, <1>2, DispatchedAppend DEF Reading
<1> QED
  BY <1>3, <1>4, <1>5, <1>6 DEF EventEnds, Reads

\* A blank line after [DONE] passes nothing on.
LEMMA DoneStep ==
    ASSUME Reading, DoneArrives
    PROVE  Reading'
<1>1. /\ lines' \in Seq(Line) /\ data' = OpenData(lines')
      /\ Events \in Seq(Seq(Texts)) /\ data \in Seq(Texts) /\ Events' = Append(Events, data)
      /\ data = DoneMark /\ passed' = passed /\ status' \in {"returned", "raised"}
  BY EventLine DEF DoneArrives
<1>2. Json(data) \notin Payloads
  <2> DEFINE K == Texts \ {"empty"}
  <2>0. Json(data) = <<"[DONE]">>
    <3>1. "[DONE]" \in K /\ <<>> \in Seq(K) /\ Append(<<>>, "[DONE]") = <<"[DONE]">>
      BY DEF Texts
    <3> HIDE DEF K
    <3>2. Kept(<<"[DONE]">>, K) = <<"[DONE]">>
      BY <3>1, KeptAppend, KeptEmpty
    <3> QED
      BY <1>1, <3>2 DEF Json, DoneMark, K
  <2>1. <<"[DONE]">> \notin {<<"role">>, <<"content">>, <<"finish">>, <<"usage">>}
    OBVIOUS
  <2>2. Len(<<"{", "}">>) = 2 /\ Len(<<"[DONE]">>) = 1
    OBVIOUS
  <2>3. <<"[DONE]">> # <<"{", "}">>
    BY <2>2
  <2> QED
    BY <2>0, <2>1, <2>3 DEF Payloads
<1>3. ChunksIn(Append(Events, data)) = ChunksIn(Events)
  BY <1>1, <1>2, ChunksAppend
<1>4. PassesOnWholeEvents'
  BY <1>1, <1>3 DEF Reading, PassesOnWholeEvents
<1>5. Events' # <<>> /\ Last(Events') = DoneMark
  BY <1>1, AppendFacts DEF Last
<1>6. EndsWhereUpstreamEnds'
  BY <1>1, <1>5 DEF EndsWhereUpstreamEnds
<1> QED
  BY <1>1, <1>4, <1>6 DEF Reading

\* An event that cannot be read ends the stream with an error.
LEMMA BadStep ==
    ASSUME Reading, BadEvent
    PROVE  Reading'
<1>1. /\ lines' \in Seq(Line) /\ data' = OpenData(lines')
      /\ Events \in Seq(Seq(Texts)) /\ data \in Seq(Texts) /\ Events' = Append(Events, data)
      /\ Json(data) \notin Payloads /\ passed' = passed /\ status' = "raised"
  BY EventLine DEF BadEvent
<1>2. ChunksIn(Append(Events, data)) = ChunksIn(Events)
  BY <1>1, ChunksAppend
<1> QED
  BY <1>1, <1>2 DEF Reading, PassesOnWholeEvents, EndsWhereUpstreamEnds

\* A blank line after a chunk passes it on, or drops it, by the rule of ChunksIn.
LEMMA ChunkStep ==
    ASSUME Reading, ChunkArrives
    PROVE  Reading'
<1>1. /\ lines' \in Seq(Line) /\ data' = OpenData(lines')
      /\ Events \in Seq(Seq(Texts)) /\ data \in Seq(Texts) /\ Events' = Append(Events, data)
      /\ Json(data) \in Payloads /\ status = "open" /\ status' = "open"
      /\ passed' = IF Promise!PassedOn(ChunkOf[Json(data)])
                   THEN Append(passed, ChunkOf[Json(data)]) ELSE passed
  BY EventLine DEF ChunkArrives
<1>2. PassesOnWholeEvents'
  BY <1>1, ChunksAppend DEF Reading, PassesOnWholeEvents
<1>3. \A k \in 1..Len(Events') : Json(Events'[k]) \in Payloads
  <2>1. /\ Len(Events) \in Nat /\ Len(Events') = Len(Events) + 1
        /\ Events'[Len(Events) + 1] = data
        /\ \A k \in 1..Len(Events) : Events'[k] = Events[k]
    BY <1>1, AppendFacts
  <2>2. Json(data) \in Payloads /\ \A k \in 1..Len(Events) : Json(Events[k]) \in Payloads
    BY <1>1 DEF Reading, EndsWhereUpstreamEnds
  <2>3. \A k \in 1..Len(Events') : k \in 1..Len(Events) \/ k = Len(Events) + 1
    BY <2>1
  <2> QED
    BY <2>1, <2>2, <2>3
<1>4. EndsWhereUpstreamEnds'
  BY <1>1, <1>3 DEF EndsWhereUpstreamEnds
<1> QED
  BY <1>1, <1>2, <1>4 DEF Reading

\* A step that reads no line can only end the call.
LEMMA EndStep ==
    ASSUME Reading, UNCHANGED <<call, lines, data, passed>>,
           status' = "open" => status = "open",
           call.op = "stream" /\ status' = "returned" => status = "returned"
    PROVE  Reading'
<1>1. Events' = Events
  BY DEF Events
<1> QED
  BY <1>1 DEF Reading, PassesOnWholeEvents, EndsWhereUpstreamEnds

\* Whatever line comes, and whatever cuts the stream off.
LEMMA NextReading == Reading /\ [Next]_vars => Reading'
<1> SUFFICES ASSUME Reading, [Next]_vars PROVE Reading'
  OBVIOUS
<1>1. ASSUME NEW text \in Texts, DataLine(text) PROVE Reading'
  <2>1. text \in Line /\ text # ""
    BY DEF Line, Texts
  <2> QED
    BY <1>1, <2>1, QuietLine DEF DataLine
<1>2. CASE IgnoredLine
  <2>1. "other" \in Line /\ "" \in Line /\ "other" \notin Texts /\ "" \notin Texts /\ "other" # ""
    BY DEF Line, Texts
  <2>2. CASE Reads("other")
    BY <1>2, <2>1, <2>2, QuietLine DEF IgnoredLine
  <2>3. CASE Reads("") /\ data = <<>>
    BY <1>2, <2>1, <2>3, QuietLine DEF IgnoredLine
  <2> QED
    BY <1>2, <2>2, <2>3 DEF IgnoredLine
<1>3. CASE Fails \/ Closed
  BY <1>3, EndStep DEF Fails, Closed, streamVars
<1>4. ASSUME NEW op, op # "stream", NEW body, Replies(op, body),
             status' \in {"returned", "raised", "escaped"}
      PROVE  Reading'
  BY <1>4, EndStep DEF Replies, streamVars
<1>5. ASSUME NEW body, Completes(body) PROVE Reading'
  <2>1. status' \in {"returned", "raised", "escaped"}
    BY <1>5, ConvertedEnds DEF Completes
  <2> QED
    BY <1>4, <1>5, <2>1 DEF Completes
<1>6. ASSUME NEW body, Embeds(body) PROVE Reading'
  <2>1. status' \in {"returned", "raised", "escaped"}
    BY <1>6, ConvertedEnds DEF Embeds
  <2> QED
    BY <1>4, <1>6, <2>1 DEF Embeds
<1>7. CASE UNCHANGED vars
  BY <1>7, EndStep DEF vars, streamVars
<1> QED
  BY <1>1, <1>2, <1>3, <1>5, <1>6, <1>7, DoneStep, BadStep, ChunkStep DEF Next

\* The reader of stream is always as far as the lines it was given: `data` is the
\* open event and `passed` what the events before it are worth.
THEOREM ReadingHolds == Spec => []Reading
BY InitReading, NextReading, PTL DEF Spec

\* Whatever upstream sends, of any length and cut anywhere: the chunks passed on
\* are those of its whole events, in order.
THEOREM PassesOnWholeEventsHolds == Spec => []PassesOnWholeEvents
<1>1. Reading => PassesOnWholeEvents
  BY DEF Reading
<1> QED
  BY <1>1, ReadingHolds, PTL

\* A stream is complete only at upstream's [DONE], and no event that is not a
\* chunk is read past.
THEOREM EndsWhereUpstreamEndsHolds == Spec => []EndsWhereUpstreamEnds
<1>1. Reading => EndsWhereUpstreamEnds
  BY DEF Reading
<1> QED
  BY <1>1, ReadingHolds, PTL

----------------------------------------------------------------------------
\* A list of n different indexes up to n has each of them, so it can be sorted
\* in one way only.
LEMMA OrderedIsIdentity ==
    ASSUME NEW n \in Nat, NEW items \in [1..n -> 1..n], IsInjective(items)
    PROVE  Ordered(items) = [i \in 1..n |-> i]
<1> DEFINE D == 1..n
           Sorts(p) == \A i, j \in D : i < j => items[p[i]] <= items[p[j]]
<1>1. IsFiniteSet(D)
  BY FS_Interval
<1>2. items \in Bijection(D, D)
  <2>1. items \in Injection(D, D)
    BY DEF Injection
  <2> HIDE DEF D
  <2>2. items \in Surjection(D, D)
    BY <1>1, <2>1, FS_Injection
  <2> QED
    BY <2>1, <2>2 DEF Bijection
<1>3. \E p \in Bijection(D, D) : Sorts(p)
  <2> DEFINE p == [k \in D |-> CHOOSE i \in D : items[i] = k]
  <2>1. ASSUME NEW k \in D PROVE p[k] \in D /\ items[p[k]] = k
    <3>1. \E i \in D : items[i] = k
      BY <1>2 DEF Bijection, Surjection
    <3> QED
      BY <3>1
  <2> HIDE DEF p
  <2>2. p \in [D -> D]
    <3>1. p = [k \in D |-> p[k]]
      BY DEF p
    <3> QED
      BY <2>1, <3>1
  <2>3. p \in Injection(D, D)
    BY <2>1, <2>2 DEF Injection, IsInjective
  <2>4. p \in Surjection(D, D)
    <3> HIDE DEF D
    <3> QED
      BY <1>1, <2>3, FS_Injection
  <2>5. Sorts(p)
    BY <2>1
  <2> QED
    BY <2>3, <2>4, <2>5 DEF Bijection
<1> DEFINE place == CHOOSE p \in Bijection(D, D) : Sorts(p)
           s == [i \in D |-> items[place[i]]]
<1>4. place \in Bijection(D, D) /\ Sorts(place)
  <2> HIDE DEF Sorts, D
  <2> QED
    BY <1>3
<1>5. Ordered(items) = s
  <2>1. DOMAIN items = D
    OBVIOUS
  <2> QED
    BY <2>1 DEF Ordered
<1> HIDE DEF place
<1>6. place \in [D -> D] /\ \A i, j \in D : place[i] = place[j] => i = j
  BY <1>4 DEF Bijection, Injection, IsInjective
<1>7. s \in [D -> D] /\ \A i, j \in D : i < j => s[i] < s[j]
  <2>1. s \in [D -> D]
    BY <1>6
  <2>2. ASSUME NEW i \in D, NEW j \in D, i < j PROVE s[i] < s[j]
    <3>1. s[i] <= s[j]
      BY <1>4, <2>2
    <3>2. s[i] # s[j]
      <4>1. place[i] \in D /\ place[j] \in D /\ place[i] # place[j]
        BY <1>6, <2>2
      <4>2. items[place[i]] # items[place[j]]
        BY <4>1 DEF IsInjective
      <4> QED
        BY <4>2
    <3>3. s[i] \in D /\ s[j] \in D
      BY <2>1
    <3> HIDE DEF s
    <3> QED
      BY <3>1, <3>2, <3>3
  <2> QED
    BY <2>1, <2>2
<1> HIDE DEF s
<1> DEFINE Up == {k \in Nat : k + 1 <= n => s[k + 1] >= k + 1}
           Down == {k \in Nat : k + 1 <= n => s[n - k] <= n - k}
<1>8. \A k \in Nat : k \in Up
  <2>1. 0 \in Up
    BY <1>7
  <2>2. ASSUME NEW k \in Nat, k \in Up PROVE k + 1 \in Up
    <3> SUFFICES ASSUME (k + 1) + 1 <= n PROVE s[(k + 1) + 1] >= (k + 1) + 1
      OBVIOUS
    <3>1. k + 1 \in D /\ (k + 1) + 1 \in D /\ k + 1 < (k + 1) + 1 /\ s[k + 1] >= k + 1
      BY <2>2
    <3>2. s[k + 1] < s[(k + 1) + 1] /\ s[k + 1] \in D /\ s[(k + 1) + 1] \in D
      BY <1>7, <3>1
    <3>3. \A x, y \in Int : x >= k + 1 /\ x < y => y >= (k + 1) + 1
      OBVIOUS
    <3>4. s[k + 1] \in Int /\ s[(k + 1) + 1] \in Int
      <4>1. \A x \in D : x \in Int
        OBVIOUS
      <4> HIDE DEF D
      <4> QED
        BY <3>2, <4>1
    <3> QED
      BY <3>1, <3>2, <3>3, <3>4
  <2> HIDE DEF Up
  <2> QED
    BY <2>1, <2>2, Induction
<1>9. \A k \in Nat : k \in Down
  <2>1. 0 \in Down
    BY <1>7
  <2>2. ASSUME NEW k \in Nat, k \in Down PROVE k + 1 \in Down
    <3> SUFFICES ASSUME (k + 1) + 1 <= n PROVE s[n - (k + 1)] <= n - (k + 1)
      OBVIOUS
    <3>1. n - k \in D /\ n - (k + 1) \in D /\ n - (k + 1) < n - k /\ s[n - k] <= n - k
      BY <2>2
    <3>2. s[n - (k + 1)] < s[n - k] /\ s[n - k] \in D /\ s[n - (k + 1)] \in D
      BY <1>7, <3>1
    <3>3. \A x, y \in Int : x <= n - k /\ y < x => y <= n - (k + 1)
      OBVIOUS
    <3>4. s[n - k] \in Int /\ s[n - (k + 1)] \in Int
      <4>1. \A x \in D : x \in Int
        OBVIOUS
      <4> HIDE DEF D
      <4> QED
        BY <3>2, <4>1
    <3> QED
      BY <3>1, <3>2, <3>3, <3>4
  <2> HIDE DEF Down
  <2> QED
    BY <2>1, <2>2, Induction
<1>10. \A i \in D : s[i] = i
  <2> TAKE i \in D
  <2>1. i - 1 \in Nat /\ (i - 1) + 1 = i /\ i <= n /\ n - i \in Nat /\ (n - i) + 1 <= n
        /\ n - (n - i) = i
    OBVIOUS
  <2>2. s[i] >= i
    BY <1>8, <2>1
  <2>3. s[i] <= i
    <3>1. n - i \in Down
      BY <1>9, <2>1
    <3> QED
      BY <2>1, <3>1
  <2>4. s[i] \in D
    BY <1>7
  <2> QED
    BY <2>2, <2>3, <2>4
<1> QED
  BY <1>5, <1>7, <1>10

\* A call that embeds has texts to embed, and has a reply only when it is over.
Embedding ==
    /\ call.op = "embed" => call.texts \in Nat
    /\ VectorsInInputOrder

\* A reply to embed is refused or taken in the order of its indices.
LEMMA EmbedsStep ==
    ASSUME Embedding, NEW body, body.items \in Items, Embeds(body)
    PROVE  Embedding'
<1>1. /\ call' = call /\ call.op = "embed" /\ reply' = body /\ call.texts \in Nat
      /\ status' = "returned" => Len(body.items) = call.texts
      /\ status' = "returned" => vectors' = Ordered(body.items)
  <2>1. call' = call /\ call.op = "embed" /\ reply' = body /\ call.texts \in Nat
    BY DEF Embeds, Replies, Embedding
  <2>2. status' = "returned" => Len(body.items) = call.texts
    BY DEF Embeds
  <2>3. status' = "returned" => vectors' = Ordered(body.items)
    BY DEF Embeds
  <2> QED
    BY <2>1, <2>2, <2>3
<1> DEFINE items == body.items
<1>2. PICK n \in 0..MaxTexts + 1 : items \in [1..n -> 1..call.texts]
  BY DEF Items
<1> HIDE DEF items
<1>3. Len(items) = n
  <2> DEFINE T == 1..call.texts
  <2>1. n \in Nat /\ items \in [1..n -> T]
    BY <1>2
  <2> HIDE DEF T
  <2>2. items \in Seq(T)
    BY <2>1, IsASeq
  <2> QED
    BY <2>1, <2>2
<1>4. ASSUME status' = "returned", IsInjective(items)
      PROVE  vectors' = [i \in 1..call.texts |-> i]
  <2>1. items \in [1..call.texts -> 1..call.texts]
    BY <1>1, <1>2, <1>3, <1>4 DEF items
  <2> QED
    BY <1>1, <1>4, <2>1, OrderedIsIdentity DEF items
<1> QED
  BY <1>1, <1>4 DEF Embedding, VectorsInInputOrder, items

\* Only a reply that was taken returns vectors.
LEMMA NextEmbedding == Embedding /\ [Next]_vars => Embedding'
<1> SUFFICES ASSUME Embedding, [Next]_vars PROVE Embedding'
  OBVIOUS
\* Any other step of a call that embeds returns nothing.
<1>1. ASSUME call' = call, call.op = "embed" => status' # "returned"
      PROVE  Embedding'
  BY <1>1 DEF Embedding, VectorsInInputOrder
<1>2. ASSUME NEW line, Reads(line) PROVE Embedding'
  BY <1>1, <1>2 DEF Reads
<1>3. CASE \/ \E text \in Texts : DataLine(text)
           \/ IgnoredLine \/ DoneArrives \/ BadEvent \/ ChunkArrives
  BY <1>2, <1>3 DEF DataLine, IgnoredLine, DoneArrives, BadEvent, ChunkArrives, EventEnds
<1>4. CASE Fails \/ Closed
  BY <1>1, <1>4 DEF Fails, Closed
<1>5. ASSUME NEW body, Completes(body) PROVE Embedding'
  BY <1>1, <1>5 DEF Completes, Replies
<1>6. ASSUME NEW shaped, NEW prompt, NEW value, NEW items \in Items,
             Embeds([shaped |-> shaped, prompt |-> prompt, value |-> value, items |-> items])
      PROVE  Embedding'
  BY <1>6, EmbedsStep
<1>7. CASE UNCHANGED vars
  BY <1>7 DEF vars, streamVars, unaryVars, Embedding, VectorsInInputOrder
<1> QED
  BY <1>3, <1>4, <1>5, <1>6, <1>7 DEF Next

\* However upstream orders its list of embeddings, and however many texts were
\* sent, each text gets its own vector.
THEOREM VectorsInInputOrderHolds == Spec => []VectorsInInputOrder
<1>1. Init => Embedding
  BY DEF Init, Embedding, VectorsInInputOrder
<1>2. Embedding => VectorsInInputOrder
  BY DEF Embedding
<1> QED
  BY <1>1, <1>2, NextEmbedding, PTL DEF Spec

----------------------------------------------------------------------------
(***************************************************************************)
(* The demo backend.                                                       *)
(***************************************************************************)

\* The chunks a request may be answered with, and the i-th of them.
DemoChunks == {Word(i) : i \in Nat} \union {FinishChunk, UsageChunk}

DemoChunk(i) == IF i <= Completion.tokens THEN Word(i)
                ELSE IF i = Completion.tokens + 1 THEN FinishChunk ELSE UsageChunk

\* What the generator has yielded is settled by the request and their number.
DemoInv ==
    /\ request \in [max_tokens : Nat \ {0}, words : Nat]
    /\ yielded \in Seq(DemoChunks) /\ Len(yielded) <= Completion.tokens + 2
    /\ \A i \in 1..Len(yielded) : yielded[i] = DemoChunk(i)
    /\ progress = "returned" => Len(yielded) = Completion.tokens + 2

\* How many words the answer has, and when it was cut.
LEMMA CompletionFacts ==
    ASSUME request \in [max_tokens : Nat \ {0}, words : Nat]
    PROVE  /\ Completion.tokens \in Nat
           /\ Completion.tokens <= request.max_tokens /\ Completion.tokens <= request.words
           /\ (Completion.reason = "length" <=> Completion.tokens < request.words)
<1>1. request.max_tokens \in Nat /\ request.words \in Nat
  OBVIOUS
<1> QED
  BY <1>1 DEF Completion, Limited

\* Before the first word nothing was yielded.
LEMMA DemoInitInv == DemoInit => DemoInv
<1> SUFFICES ASSUME DemoInit PROVE DemoInv
  OBVIOUS
<1>1. request \in [max_tokens : Nat \ {0}, words : Nat]
  BY DemoAssumption DEF DemoInit
<1>2. yielded \in Seq(DemoChunks) /\ Len(yielded) = 0
  BY DEF DemoInit
<1> QED
  BY <1>1, <1>2, CompletionFacts DEF DemoInit, DemoInv

\* A chunk that is yielded is the next of those the request is answered with.
LEMMA YieldsStep ==
    ASSUME DemoInv, NEW c \in DemoChunks, Yields(c),
           Len(yielded) < Completion.tokens + 2, c = DemoChunk(Len(yielded) + 1)
    PROVE  DemoInv'
<1> DEFINE n == Completion.tokens
           S == DemoChunks
<1>1. n \in Nat /\ yielded \in Seq(S) /\ Len(yielded) \in Nat
  BY CompletionFacts DEF DemoInv
<1>2. yielded' = Append(yielded, c) /\ request' = request /\ progress' = "open"
  BY DEF Yields
<1>3. /\ Completion' = Completion /\ DemoChunks' = DemoChunks
      /\ \A i : DemoChunk(i)' = DemoChunk(i)
  BY <1>2 DEF Completion, Limited, DemoChunks, DemoChunk, FinishChunk, UsageChunk, Word
<1> HIDE DEF n, S
<1>4. c \in S
  BY DEF S
<1>5. /\ yielded' \in Seq(S) /\ Len(yielded') = Len(yielded) + 1
      /\ yielded'[Len(yielded) + 1] = c
      /\ \A i \in 1..Len(yielded) : yielded'[i] = yielded[i]
  BY <1>1, <1>2, <1>4, AppendFacts
<1>6. \A i \in 1..Len(yielded) : yielded[i] = DemoChunk(i)
  BY DEF DemoInv
<1>7. \A i \in 1..Len(yielded') : yielded'[i] = DemoChunk(i)
  <2> TAKE i \in 1..Len(yielded')
  <2>1. CASE i = Len(yielded) + 1
    BY <1>5, <2>1
  <2>2. CASE i # Len(yielded) + 1
    BY <1>1, <1>5, <1>6, <2>2
  <2> QED
    BY <2>1, <2>2
<1>8. Len(yielded') <= n + 2
  BY <1>1, <1>5 DEF n
<1> QED
  BY <1>2, <1>3, <1>5, <1>7, <1>8 DEF DemoInv, n, S

\* What a step of the generator yields.
LEMMA NextYields ==
    ASSUME DemoInv, NextWord \/ Finish \/ Usage
    PROVE  \E c \in DemoChunks : /\ Yields(c) /\ c = DemoChunk(Len(yielded) + 1)
                                 /\ Len(yielded) < Completion.tokens + 2
<1>1. Completion.tokens \in Nat /\ Len(yielded) \in Nat
  BY CompletionFacts DEF DemoInv
<1>2. CASE NextWord
  BY <1>1, <1>2 DEF NextWord, DemoChunk, DemoChunks
<1>3. CASE Finish
  BY <1>1, <1>3 DEF Finish, DemoChunk, DemoChunks
<1>4. CASE Usage
  BY <1>1, <1>4 DEF Usage, DemoChunk, DemoChunks
<1> QED
  BY <1>2, <1>3, <1>4

\* No step leaves the order of words, finish reason and usage.
LEMMA DemoNextInv == DemoInv /\ [DemoNext]_demoVars => DemoInv'
<1> SUFFICES ASSUME DemoInv, [DemoNext]_demoVars PROVE DemoInv'
  OBVIOUS
<1>1. CASE NextWord \/ Finish \/ Usage
  BY <1>1, NextYields, YieldsStep
<1>2. ASSUME UNCHANGED <<request, yielded>>,
             progress' = "returned" => Len(yielded) = Completion.tokens + 2
      PROVE  DemoInv'
  <2>1. /\ Completion' = Completion /\ DemoChunks' = DemoChunks
        /\ \A i : DemoChunk(i)' = DemoChunk(i)
    BY <1>2 DEF Completion, Limited, DemoChunks, DemoChunk, FinishChunk, UsageChunk, Word
  <2> QED
    BY <1>2, <2>1 DEF DemoInv
<1>3. CASE Returns \/ Abandoned
  BY <1>2, <1>3 DEF Returns, Abandoned
<1>4. CASE UNCHANGED demoVars
  BY <1>2, <1>4 DEF demoVars, DemoInv
<1> QED
  BY <1>1, <1>3, <1>4 DEF DemoNext

\* What a stream that ran to its end is made of.
LEMMA DemoBilled == DemoInv => BilledAsSent
<1> SUFFICES ASSUME DemoInv, progress = "returned" PROVE BilledAsSent
  BY DEF BilledAsSent
<1> DEFINE n == Completion.tokens
           content == {i \in 1..Len(yielded) : yielded[i].kind = "content"}
<1>1. /\ n \in Nat /\ n <= request.max_tokens /\ n <= request.words
      /\ (Completion.reason = "length" <=> n < request.words)
      /\ request.words \in Nat
  BY CompletionFacts DEF DemoInv
<1>2. Len(yielded) = n + 2
  BY DEF DemoInv
<1>3. \A i \in 1..(n + 2) : yielded[i] = DemoChunk(i)
  BY <1>2 DEF DemoInv
<1> HIDE DEF n
<1>4. \A i \in 1..n : yielded[i].kind = "content"
  <2> TAKE i \in 1..n
  <2>1. i \in 1..(n + 2) /\ i <= n
    BY <1>1
  <2>2. yielded[i] = Word(i)
    BY <1>3, <2>1 DEF DemoChunk, n
  <2> QED
    BY <2>2 DEF Word
<1>5. yielded[n + 1] = FinishChunk /\ yielded[n + 2] = UsageChunk
  <2>1. n + 1 \in 1..(n + 2) /\ n + 2 \in 1..(n + 2) /\ ~(n + 1 <= n) /\ ~(n + 2 <= n) /\ n + 2 # n + 1
    BY <1>1
  <2>2. DemoChunk(n + 1) = FinishChunk /\ DemoChunk(n + 2) = UsageChunk
    BY <2>1 DEF DemoChunk, n
  <2> QED
    BY <1>3, <2>1, <2>2
<1>6. /\ FinishChunk.kind = "finish" /\ FinishChunk.reason = Completion.reason
      /\ UsageChunk.kind = "usage" /\ UsageChunk.completion_tokens = n
  BY DEF FinishChunk, UsageChunk, n
<1>7. content = 1..n
  <2>1. \A i \in 1..(n + 2) : i \in 1..n \/ i = n + 1 \/ i = n + 2
    BY <1>1
  <2>2. \A i \in 1..n : i \in 1..(n + 2)
    BY <1>1
  <2>3. yielded[n + 1].kind # "content" /\ yielded[n + 2].kind # "content"
    BY <1>5, <1>6
  <2> QED
    BY <1>2, <1>4, <2>1, <2>2, <2>3
<1>8. n < request.words <=> \E w \in 1..request.words : w \notin 1..n
  <2>1. n < request.words => request.words \in 1..request.words /\ request.words \notin 1..n
    BY <1>1
  <2>2. ASSUME ~(n < request.words) PROVE \A w \in 1..request.words : w \in 1..n
    BY <1>1, <2>2
  <2> QED
    BY <2>1, <2>2
<1>9. (n + 2) - 1 = n + 1
  BY <1>1
<1> HIDE DEF content
<1>10. /\ yielded[n + 2].kind = "usage" /\ yielded[n + 1].kind = "finish"
       /\ content = 1..yielded[n + 2].completion_tokens
       /\ yielded[n + 2].completion_tokens <= request.max_tokens
       /\ yielded[n + 1].reason = "length" <=> \E w \in 1..request.words : w \notin content
  BY <1>1, <1>5, <1>6, <1>7, <1>8
<1> QED
  BY <1>2, <1>9, <1>10 DEF BilledAsSent, content

\* The demo's `stream` bills as many completion tokens as it sent words, never
\* more than max_tokens, and tells the client exactly when it cut the answer.
THEOREM BilledAsSentHolds == DemoSpec => []BilledAsSent
<1> QED
  BY DemoInitInv, DemoNextInv, DemoBilled, PTL DEF DemoSpec

\* The chunks as service.py sees them.
DemoPassed == [i \in 1..Len(yielded) |-> AsPassed(yielded[i])]

\* What the demo yields is worth passing on, in the words of AdapterStream.
LEMMA AsPassedFacts ==
    ASSUME NEW c \in DemoChunks
    PROVE  AsPassed(c) \in DemoPromise!Chunk /\ DemoPromise!PassedOn(AsPassed(c))
<1>1. c.kind \in {"content", "finish", "usage"}
  BY DEF DemoChunks, Word, FinishChunk, UsageChunk
<1> QED
  BY <1>1 DEF AsPassed, DemoPromise!Chunk, DemoPromise!PassedOn

\* The generator returns after its finish chunk only, and every chunk before is
\* one the promise allows.
LEMMA DemoPromiseStep ==
    DemoInv /\ [DemoNext]_demoVars => [DemoPromise!Next]_<<DemoPassed, progress>>
<1> SUFFICES ASSUME DemoInv, [DemoNext]_demoVars
             PROVE  [DemoPromise!Next]_<<DemoPassed, progress>>
  OBVIOUS
<1>1. CASE NextWord \/ Finish \/ Usage
  <2>1. PICK c \in DemoChunks : Yields(c)
    BY <1>1, NextYields
  <2> DEFINE a == AsPassed(c)
             A == DemoPromise!Chunk
             n == Len(yielded)
  <2>2. a \in A /\ DemoPromise!PassedOn(a)
    BY AsPassedFacts
  <2>3. yielded \in Seq(DemoChunks)
    BY DEF DemoInv
  <2>4. \A i \in 1..Len(yielded) : AsPassed(yielded[i]) \in A
    BY <2>3, AsPassedFacts, SeqFacts
  <2>5. yielded' = Append(yielded, c) /\ progress = "open" /\ progress' = "open"
    BY <2>1 DEF Yields
  <2>6. /\ n \in Nat /\ Len(yielded') = n + 1 /\ yielded'[n + 1] = c
        /\ \A i \in 1..n : yielded'[i] = yielded[i]
    BY <2>3, <2>5, AppendFacts
  <2> HIDE DEF a, A
  <2>7. DemoPassed \in Seq(A) /\ Len(DemoPassed) = n /\ \A i \in 1..n : DemoPassed[i] = AsPassed(yielded[i])
    BY <2>4, <2>6 DEF DemoPassed
  <2>8. DemoPassed' = Append(DemoPassed, a)
    <3> DEFINE p == Append(DemoPassed, a)
    <3>1. /\ p \in Seq(A) /\ Len(p) = n + 1 /\ p[n + 1] = a
          /\ \A i \in 1..n : p[i] = AsPassed(yielded[i])
      BY <2>2, <2>7, AppendFacts
    <3> HIDE DEF p, n
    <3>2. p = [i \in 1..(n + 1) |-> p[i]]
      BY <3>1
    <3>3. DemoPassed' = [i \in 1..(n + 1) |-> AsPassed(yielded'[i])]
      BY <2>6 DEF DemoPassed, AsPassed
    <3>4. \A i \in 1..(n + 1) : AsPassed(yielded'[i]) = p[i]
      <4> TAKE i \in 1..(n + 1)
      <4>1. CASE i = n + 1
        BY <2>6, <3>1, <4>1 DEF a
      <4>2. CASE i # n + 1
        BY <2>6, <3>1, <4>2
      <4> QED
        BY <4>1, <4>2
    <3> QED
      BY <3>2, <3>3, <3>4 DEF p
  <2>9. DemoPromise!Yield(a)
    BY <2>2, <2>5, <2>8 DEF DemoPromise!Yield, DemoPassed
  <2> QED
    BY <2>2, <2>9 DEF DemoPromise!Next, A
<1>2. CASE Returns
  <2>1. progress = "open" /\ progress' = "returned" /\ yielded' = yielded
    BY <1>2 DEF Returns
  <2>2. Completion.tokens \in Nat /\ Len(yielded) = Completion.tokens + 2
    BY <1>2, CompletionFacts DEF Returns, DemoInv
  <2>3. \E i \in 1..Len(yielded) : yielded[i] = FinishChunk
    <3>1. Completion.tokens + 1 \in 1..Len(yielded)
      BY <2>2
    <3>2. yielded[Completion.tokens + 1] = FinishChunk
      BY <2>2, <3>1 DEF DemoInv, DemoChunk
    <3> QED
      BY <3>1, <3>2
  <2>4. Len(DemoPassed) = Len(yielded)
    BY <2>2 DEF DemoPassed
  <2>5. \E i \in 1..Len(DemoPassed) : DemoPassed[i].finish
    <3>1. PICK i \in 1..Len(yielded) : yielded[i] = FinishChunk
      BY <2>3
    <3>2. DemoPassed[i] = AsPassed(FinishChunk)
      BY <3>1 DEF DemoPassed
    <3>3. AsPassed(FinishChunk).finish
      BY DEF AsPassed, FinishChunk
    <3> QED
      BY <2>4, <3>1, <3>2, <3>3
  <2> QED
    BY <2>1, <2>5 DEF DemoPromise!Next, DemoPromise!Return, DemoPassed
<1>3. CASE Abandoned
  BY <1>3 DEF Abandoned, DemoPromise!Next, DemoPromise!Close
<1>4. CASE UNCHANGED demoVars
  BY <1>4 DEF demoVars, DemoPassed
<1> QED
  BY <1>1, <1>2, <1>3, <1>4 DEF DemoNext

\* The demo backend keeps the promise of every adapter: what prepare_stream and
\* _stream rely on holds of it, too.
THEOREM DemoAdapterSpecHolds == DemoSpec => DemoAdapterSpec
<1>1. DemoInit => DemoPromise!Init
  BY DEF DemoInit, DemoPromise!Init
<1>2. DemoInv /\ [DemoNext]_demoVars =>
        [DemoPromise!Next]_<<[i \in 1..Len(yielded) |-> AsPassed(yielded[i])], progress>>
  BY DemoPromiseStep DEF DemoPassed
<1> QED
  BY <1>1, <1>2, DemoInitInv, DemoNextInv, PTL DEF DemoSpec, DemoAdapterSpec, DemoPromise!Spec
=============================================================================
