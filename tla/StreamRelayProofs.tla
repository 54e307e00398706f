------------------------- MODULE StreamRelayProofs -------------------------
(***************************************************************************)
(* Proofs about StreamRelay, for any number of backends and of chunks.     *)
(***************************************************************************)
EXTENDS StreamRelay, FiniteSetTheorems, SequenceFacts

Outcomes == {"success", "error", "cancelled"}

\* The generators agree on where they stand.
Standing ==
    /\ phase \in {"routing", "opening", "refused"} => sent = <<>> /\ outcome = "cancelled"
    /\ phase \in {"offered", "relaying"} =>
          sent # <<>> /\ outcome = "cancelled" /\ ~IsSent("done") /\ ~IsSent("error")
    /\ phase \in {"opening", "offered", "relaying"} => status = "open"
    /\ phase \notin {"routing", "refused"} => backend \in Backends \ excluded
    /\ phase = "opening" => passed = <<>>
    /\ phase \in {"offered", "relaying"} => passed # <<>> /\ Len(sent) <= Len(passed) + 1
    /\ HoldsFirst => Len(passed) = 1

\* What the response ended with is what is about to be recorded.
EndsAsSent == phase \in {"closing", "ended"} =>
    /\ outcome = "success" <=> IsSent("done")
    /\ outcome = "error" <=> IsSent("error")

OutAt(i) == \E j \in 1..Len(sent) : sent[j].kind = "data" /\ sent[j].place = i

\* No finish reason is held back, but for that of a first chunk still held.
FinishIsOut ==
    \/ phase \notin {"offered", "relaying"}
    \/ HoldsFirst
    \/ \A i \in 1..Len(passed) : passed[i].finish => OutAt(i)

\* RecordedAsSeen and NoFalseDone are not inductive: which backends are recorded
\* depends on which are excluded, what is recorded on where the generators stand,
\* and a [DONE] on the finish reasons that went out before it.
IInv ==
    /\ TypeOK /\ IsFiniteSet(excluded)
    /\ Standing
    /\ EndsAsSent
    /\ FinishIsOut
    /\ RecordedAsSeen
    /\ NoFalseDone

----------------------------------------------------------------------------
\* The fields of a chunk; a finish reason is never dropped.
LEMMA ChunkFacts ==
    ASSUME NEW c \in Upstream!Chunk
    PROVE  /\ c.choices \in BOOLEAN /\ c.content \in BOOLEAN
           /\ c.finish \in BOOLEAN /\ c.usage \in BOOLEAN
           /\ c.finish => GoesOut(c)
BY DEF Upstream!Chunk, GoesOut

\* What _stream makes of a chunk is an event for the client.
LEMMA DataIsEvent ==
    ASSUME wantsUsage \in BOOLEAN, backend \in Backends,
           NEW c \in Upstream!Chunk, NEW i \in 1..MaxChunks
    PROVE  /\ Data(c, i) \in Event
           /\ Data(c, i).kind = "data" /\ Data(c, i).place = i
BY DEF Data, Event, Upstream!Chunk

\* A step that yields an event to the client adds its kind and nothing else.
LEMMA SentGrows ==
    ASSUME sent \in Seq(Event), NEW e \in Event, sent' = Append(sent, e)
    PROVE  /\ sent' \in Seq(Event) /\ Len(sent') = Len(sent) + 1 /\ sent' # <<>>
           /\ sent'[Len(sent) + 1] = e
           /\ \A i \in 1..Len(sent) : sent'[i] = sent[i]
           /\ \A kind : IsSent(kind)' <=> IsSent(kind) \/ e.kind = kind
<1>1. Len(sent) \in Nat
  OBVIOUS
<1>2. /\ sent' \in Seq(Event) /\ Len(sent') = Len(sent) + 1 /\ sent' # <<>>
      /\ sent'[Len(sent) + 1] = e
      /\ \A i \in 1..Len(sent) : sent'[i] = sent[i]
  OBVIOUS
<1>3. \A kind : IsSent(kind)' <=> IsSent(kind) \/ e.kind = kind
  <2> TAKE kind
  <2>1. IsSent(kind)' <=> \E i \in 1..Len(sent) + 1 : sent'[i].kind = kind
    BY <1>2 DEF IsSent
  <2> QED
    BY <1>1, <1>2, <2>1 DEF IsSent
<1> QED
  BY <1>2, <1>3

----------------------------------------------------------------------------
\* Nothing was tried yet.
LEMMA InitIInv == Init => IInv
<1> SUFFICES ASSUME Init PROVE IInv
  OBVIOUS
<1>1. TypeOK
  BY RelayAssumption DEF Init, TypeOK, Phases, Upstream!Statuses
<1>2. IsFiniteSet(excluded) /\ Cardinality(excluded) = 0
  BY FS_EmptySet DEF Init
<1>3. Standing /\ EndsAsSent /\ FinishIsOut /\ NoFalseDone
  BY DEF Init, Standing, EndsAsSent, FinishIsOut, NoFalseDone, IsSent, HoldsFirst
<1>4. RecordedAsSeen
  BY <1>2, FS_EmptySet DEF Init, RecordedAsSeen
<1> QED
  BY <1>1, <1>2, <1>3, <1>4 DEF IInv

\* A record that is added names the backend of the attempt and an outcome.
LEMMA RecordGrows ==
    ASSUME TypeOK, backend \in Backends, NEW result \in Outcomes, records' = Record(result)
    PROVE  /\ records' \in Seq([backend : Backends, outcome : Outcomes])
           /\ Len(records') = Len(records) + 1
           /\ records'[Len(records) + 1] = [backend |-> backend, outcome |-> result]
           /\ \A i \in 1..Len(records) : records'[i] = records[i]
           /\ {records'[i].backend : i \in 1..Len(records')} =
                  {records[i].backend : i \in 1..Len(records)} \union {backend}
<1> DEFINE r == [backend |-> backend, outcome |-> result]
<1>1. r \in [backend : Backends, outcome : Outcomes]
  OBVIOUS
<1>2. records \in Seq([backend : Backends, outcome : Outcomes]) /\ Len(records) \in Nat
  BY DEF TypeOK, Outcomes
<1>3. records' = Append(records, r)
  BY DEF Record
<1> HIDE DEF r
<1>4. /\ records' \in Seq([backend : Backends, outcome : Outcomes])
      /\ Len(records') = Len(records) + 1
      /\ records'[Len(records) + 1] = r
      /\ \A i \in 1..Len(records) : records'[i] = records[i]
  BY <1>1, <1>2, <1>3
<1>5. r.backend = backend
  BY DEF r
<1>6. {records'[i].backend : i \in 1..Len(records')} =
          {records[i].backend : i \in 1..Len(records)} \union {backend}
  BY <1>2, <1>4, <1>5
<1> QED
  BY <1>4, <1>6 DEF r

\* Every step keeps the types.
LEMMA NextType ==
    ASSUME IInv, Next
    PROVE  TypeOK' /\ IsFiniteSet(excluded)'
<1> USE RelayAssumption
<1>0. Len(sent) \in Nat /\ Len(passed) \in Nat /\ MaxChunks \in Nat
  BY DEF IInv, TypeOK
<1>1. ASSUME NEW b \in Backends, Open(b) PROVE TypeOK' /\ IsFiniteSet(excluded)'
  BY <1>1 DEF Open, IInv, TypeOK, Phases, Upstream!Statuses
<1>2. CASE Refuse
  BY <1>2 DEF Refuse, IInv, TypeOK, Phases
<1>3. ASSUME NEW c \in Upstream!Chunk, FirstChunk(c) PROVE TypeOK' /\ IsFiniteSet(excluded)'
  <2>1. passed' = Append(passed, c) /\ passed = <<>> /\ status' = status /\ MaxChunks > 0
    BY <1>3 DEF FirstChunk, Upstream!Yield, IInv, Standing
  <2>2. passed' \in Seq(Upstream!Chunk) /\ Len(passed') <= MaxChunks
    BY <1>0, <2>1 DEF IInv, TypeOK
  <2>3. sent' \in Seq(Event) /\ Len(sent') <= MaxChunks + 2
    BY <1>0, <1>3 DEF FirstChunk, Event
  <2> QED
    BY <1>3, <2>1, <2>2, <2>3 DEF FirstChunk, IInv, TypeOK, Phases
<1>4. ASSUME NEW c \in Upstream!Chunk, NextChunk(c) PROVE TypeOK' /\ IsFiniteSet(excluded)'
  <2>1. /\ passed' = Append(passed, c) /\ status' = status
        /\ Len(passed) < MaxChunks /\ backend \in Backends
        /\ Len(sent) <= Len(passed) + 1
    BY <1>4 DEF NextChunk, Upstream!Yield, IInv, Standing
  <2>2. passed' \in Seq(Upstream!Chunk) /\ Len(passed') <= MaxChunks
    BY <1>0, <2>1 DEF IInv, TypeOK
  <2>3. Data(c, Len(passed) + 1) \in Event
    BY <1>0, <2>1, DataIsEvent DEF IInv, TypeOK
  <2>4. sent' \in Seq(Event) /\ Len(sent') <= MaxChunks + 2
    <3>1. CASE GoesOut(c)
      <4>1. sent' = Append(sent, Data(c, Len(passed) + 1)) /\ sent \in Seq(Event)
        BY <1>4, <3>1 DEF NextChunk, IInv, TypeOK
      <4>2. sent' \in Seq(Event) /\ Len(sent') = Len(sent) + 1
        BY <2>3, <4>1, SentGrows
      <4> QED
        BY <1>0, <2>1, <4>2
    <3>2. CASE ~GoesOut(c)
      BY <1>4, <3>2 DEF NextChunk, IInv, TypeOK
    <3> QED
      BY <3>1, <3>2
  <2>5. phase' \in Phases /\ IsFiniteSet(excluded)'
    BY <1>4 DEF NextChunk, IInv, TypeOK, Phases
  <2>6. /\ wantsUsage' = wantsUsage /\ excluded' = excluded /\ backend' = backend
        /\ outcome' = outcome /\ records' = records
    BY <1>4 DEF NextChunk
  <2> QED
    BY <2>1, <2>2, <2>4, <2>5, <2>6 DEF IInv, TypeOK
<1>5. CASE FailsToOpen
  <2>1. backend \in Backends /\ status' \in Upstream!Statuses /\ passed' = passed
    BY <1>5 DEF FailsToOpen, IInv, Standing, Upstream!Raise, Upstream!Return, Upstream!Statuses
  <2>2. records' \in Seq([backend : Backends, outcome : Outcomes])
    BY <1>5, <2>1, RecordGrows DEF FailsToOpen, IInv, Outcomes
  <2>3. IsFiniteSet(excluded')
    BY <1>5, FS_AddElement DEF FailsToOpen, IInv
  <2> QED
    BY <1>5, <2>1, <2>2, <2>3 DEF FailsToOpen, IInv, TypeOK, Phases, Outcomes
<1>6. CASE Resume
  <2>1. CASE HoldsFirst /\ GoesOut(passed[1])
    <3>1. /\ backend \in Backends /\ Len(passed) = 1 /\ Len(sent) <= Len(passed) + 1
          /\ passed[1] \in Upstream!Chunk
      BY <1>0, <2>1, <1>6 DEF IInv, Standing, Resume, TypeOK
    <3>2. Data(passed[1], 1) \in Event
      BY <1>0, <3>1, DataIsEvent DEF IInv, TypeOK
    <3>3. Len(sent) = 1
      BY <2>1 DEF HoldsFirst
    <3>4. sent' \in Seq(Event) /\ Len(sent') <= MaxChunks + 2
      <4>1. sent' = Append(sent, Data(passed[1], 1)) /\ sent \in Seq(Event) /\ Len(passed) <= MaxChunks
        BY <1>6, <2>1 DEF Resume, IInv, TypeOK
      <4>2. sent' \in Seq(Event) /\ Len(sent') = Len(sent) + 1
        BY <3>2, <4>1, SentGrows
      <4> QED
        BY <1>0, <3>1, <3>3, <4>1, <4>2
    <3>5. /\ wantsUsage' = wantsUsage /\ phase' = phase /\ excluded' = excluded
          /\ backend' = backend /\ passed' = passed /\ status' = status
          /\ outcome' = outcome /\ records' = records
      BY <1>6, <2>1 DEF Resume
    <3> QED
      BY <3>4, <3>5 DEF IInv, TypeOK
  <2>2. CASE ~(HoldsFirst /\ GoesOut(passed[1]))
    BY <1>6, <2>2 DEF Resume, IInv, TypeOK, Phases
  <2> QED
    BY <2>1, <2>2
<1>7. CASE Completes
  <2>1. status' \in Upstream!Statuses /\ passed' = passed /\ Len(sent) <= Len(passed) + 1
    BY <1>7 DEF Completes, Upstream!Return, Upstream!Statuses, IInv, Standing
  <2>2. sent' \in Seq(Event) /\ Len(sent') <= MaxChunks + 2
    <3>1. Done \in Event
      BY DEF Event
    <3> QED
      BY <1>0, <1>7, <2>1, <3>1 DEF Completes, IInv, TypeOK
  <2> QED
    BY <1>7, <2>1, <2>2 DEF Completes, IInv, TypeOK, Phases
<1>8. CASE Breaks
  <2>1. status' \in Upstream!Statuses /\ passed' = passed /\ Len(sent) <= Len(passed) + 1
    BY <1>8 DEF Breaks, Upstream!Raise, Upstream!Statuses, IInv, Standing
  <2>2. sent' \in Seq(Event) /\ Len(sent') <= MaxChunks + 2
    <3>1. Error \in Event
      BY DEF Event
    <3> QED
      BY <1>0, <1>8, <2>1, <3>1 DEF Breaks, IInv, TypeOK
  <2> QED
    BY <1>8, <2>1, <2>2 DEF Breaks, IInv, TypeOK, Phases
<1>9. CASE CancelledOpening
  <2>1. backend \in Backends /\ status' \in Upstream!Statuses /\ passed' = passed
    BY <1>9 DEF CancelledOpening, IInv, Standing, Upstream!Close, Upstream!Statuses
  <2>2. records' \in Seq([backend : Backends, outcome : Outcomes])
    BY <1>9, <2>1, RecordGrows DEF CancelledOpening, IInv, Outcomes
  <2> QED
    BY <1>9, <2>1, <2>2 DEF CancelledOpening, IInv, TypeOK, Phases, Outcomes
<1>10. CASE CancelledRelaying
  BY <1>10 DEF CancelledRelaying, Upstream!Close, Upstream!Statuses, IInv, TypeOK, Phases
<1>11. CASE ClosedAtYield
  BY <1>11 DEF ClosedAtYield, IInv, TypeOK, Phases
<1>12. CASE UpstreamCloses
  BY <1>12 DEF UpstreamCloses, Upstream!Close, Upstream!Statuses, IInv, TypeOK
<1>13. CASE Records
  <2>1. backend \in Backends
    BY <1>13 DEF Records, IInv, Standing
  <2>2. records' \in Seq([backend : Backends, outcome : Outcomes])
    BY <1>13, <2>1, RecordGrows DEF Records, IInv, TypeOK, Outcomes
  <2> QED
    BY <1>13, <2>1, <2>2 DEF Records, IInv, TypeOK, Phases, Outcomes
<1> QED
  BY <1>1, <1>2, <1>3, <1>4, <1>5, <1>6, <1>7, <1>8, <1>9, <1>10, <1>11, <1>12, <1>13 DEF Next

\* A step that neither yields to the client nor begins an attempt.
LEMMA SilentSent ==
    ASSUME sent' = sent
    PROVE  \A kind : IsSent(kind)' <=> IsSent(kind)
BY DEF IsSent

\* The role chunk is the first event and no end.
LEMMA FirstSent ==
    ASSUME sent' = <<Role>>
    PROVE  ~IsSent("done")' /\ ~IsSent("error")' /\ Len(sent') = 1 /\ sent' # <<>>
BY DEF IsSent, Role

\* With two events out, the first chunk is not held any more.
LEMMA TwoSent ==
    ASSUME sent \in Seq(Event), sent # <<>>, Len(sent') = Len(sent) + 1
    PROVE  ~HoldsFirst'
<1>1. Len(sent) > 0
  OBVIOUS
<1> QED
  BY <1>1 DEF HoldsFirst

\* What the steps that yield a chunk or the last event do to the client's stream.
LEMMA ChunkSent ==
    ASSUME TypeOK, backend \in Backends, NEW c \in Upstream!Chunk, NEW i \in 1..MaxChunks,
           sent # <<>>, sent' = Append(sent, Data(c, i))
    PROVE  /\ Len(sent') = Len(sent) + 1 /\ sent' # <<>> /\ ~HoldsFirst'
           /\ \A j \in 1..Len(sent) : sent'[j] = sent[j]
           /\ sent'[Len(sent) + 1] = Data(c, i)
           /\ IsSent("done")' <=> IsSent("done")
           /\ IsSent("error")' <=> IsSent("error")
<1>1. Data(c, i) \in Event /\ Data(c, i).kind = "data"
  BY DataIsEvent DEF TypeOK
<1>2. sent \in Seq(Event)
  BY DEF TypeOK
<1>3. /\ Len(sent') = Len(sent) + 1 /\ sent' # <<>>
      /\ \A j \in 1..Len(sent) : sent'[j] = sent[j]
      /\ sent'[Len(sent) + 1] = Data(c, i)
      /\ \A kind : IsSent(kind)' <=> IsSent(kind) \/ Data(c, i).kind = kind
  BY <1>1, <1>2, SentGrows
<1> QED
  BY <1>1, <1>2, <1>3, TwoSent

\* The last event is [DONE] or the error.
LEMMA EndSent ==
    ASSUME TypeOK, sent # <<>>, NEW e \in {Done, Error}, sent' = Append(sent, e)
    PROVE  /\ Len(sent') = Len(sent) + 1 /\ sent' # <<>> /\ ~HoldsFirst'
           /\ \A j \in 1..Len(sent) : sent'[j] = sent[j]
           /\ IsSent("done")' <=> IsSent("done") \/ e = Done
           /\ IsSent("error")' <=> IsSent("error") \/ e = Error
<1>1. e \in Event /\ (e.kind = "done" <=> e = Done) /\ (e.kind = "error" <=> e = Error)
  BY DEF Event, Done, Error
<1>2. sent \in Seq(Event)
  BY DEF TypeOK
<1>3. /\ Len(sent') = Len(sent) + 1 /\ sent' # <<>>
      /\ \A j \in 1..Len(sent) : sent'[j] = sent[j]
      /\ \A kind : IsSent(kind)' <=> IsSent(kind) \/ e.kind = kind
  BY <1>1, <1>2, SentGrows
<1> QED
  BY <1>1, <1>2, <1>3, TwoSent

\* Every step keeps the generators, and what they sent, in line.
LEMMA NextStanding ==
    ASSUME IInv, Next
    PROVE  Standing' /\ EndsAsSent'
<1> USE RelayAssumption
<1>0. Len(sent) \in Nat /\ Len(passed) \in Nat /\ MaxChunks \in Nat /\ TypeOK
  BY DEF IInv, TypeOK
<1>1. ASSUME NEW b \in Backends, Open(b) PROVE Standing' /\ EndsAsSent'
  BY <1>1 DEF Open, IInv, Standing, EndsAsSent, HoldsFirst
<1>2. CASE Refuse
  BY <1>2 DEF Refuse, IInv, Standing, EndsAsSent, HoldsFirst
<1>3. ASSUME NEW c \in Upstream!Chunk, FirstChunk(c) PROVE Standing' /\ EndsAsSent'
  <2>0. passed \in Seq(Upstream!Chunk) /\ Len(passed) = 0 /\ passed' = Append(passed, c)
    BY <1>3 DEF FirstChunk, Upstream!Yield, IInv, Standing, TypeOK
  <2>1. Len(passed') = 1 /\ passed' # <<>>
    BY <2>0
  <2>2. ~IsSent("done")' /\ ~IsSent("error")' /\ Len(sent') = 1 /\ sent' # <<>>
    BY <1>3, FirstSent DEF FirstChunk
  <2> QED
    BY <1>3, <2>1, <2>2 DEF FirstChunk, Upstream!Yield, IInv, Standing, EndsAsSent
<1>4. ASSUME NEW c \in Upstream!Chunk, NextChunk(c) PROVE Standing' /\ EndsAsSent'
  <2>1. /\ passed \in Seq(Upstream!Chunk) /\ passed' = Append(passed, c)
        /\ Len(passed) < MaxChunks /\ sent # <<>> /\ Len(sent) <= Len(passed) + 1
        /\ backend \in Backends
    BY <1>4 DEF NextChunk, Upstream!Yield, IInv, Standing, TypeOK
  <2>2. Len(passed') = Len(passed) + 1 /\ passed' # <<>>
    BY <2>1
  <2>3. CASE GoesOut(c)
    <3>1. /\ Len(sent') = Len(sent) + 1 /\ sent' # <<>> /\ ~HoldsFirst'
          /\ IsSent("done")' <=> IsSent("done")
          /\ IsSent("error")' <=> IsSent("error")
      BY <1>0, <1>4, <2>1, <2>3, ChunkSent DEF NextChunk
    <3> QED
      BY <1>0, <1>4, <2>1, <2>2, <2>3, <3>1 DEF NextChunk, Upstream!Yield, IInv, Standing, EndsAsSent
  <2>4. CASE ~GoesOut(c)
    <3>1. sent' = sent /\ phase' = "relaying"
      BY <1>4, <2>4 DEF NextChunk
    <3>2. \A kind : IsSent(kind)' <=> IsSent(kind)
      BY <3>1, SilentSent
    <3> QED
      BY <1>0, <1>4, <2>1, <2>2, <3>1, <3>2
         DEF NextChunk, Upstream!Yield, IInv, Standing, EndsAsSent, HoldsFirst
  <2> QED
    BY <2>3, <2>4
<1>5. CASE FailsToOpen
  BY <1>5 DEF FailsToOpen, IInv, Standing, EndsAsSent, HoldsFirst
<1>6. CASE Resume
  <2>1. CASE HoldsFirst /\ GoesOut(passed[1])
    <3>1. /\ backend \in Backends /\ Len(passed) = 1 /\ passed[1] \in Upstream!Chunk
          /\ Len(sent) = 1 /\ sent # <<>> /\ 1 \in 1..MaxChunks
      BY <1>0, <1>6, <2>1 DEF IInv, Standing, Resume, TypeOK, HoldsFirst
    <3>2. /\ Len(sent') = Len(sent) + 1 /\ sent' # <<>> /\ ~HoldsFirst'
          /\ IsSent("done")' <=> IsSent("done")
          /\ IsSent("error")' <=> IsSent("error")
      BY <1>0, <1>6, <2>1, <3>1, ChunkSent DEF Resume
    <3> QED
      BY <1>6, <2>1, <3>1, <3>2 DEF Resume, IInv, Standing, EndsAsSent
  <2>2. CASE ~(HoldsFirst /\ GoesOut(passed[1]))
    <3>1. sent' = sent /\ phase' = "relaying"
      BY <1>6, <2>2 DEF Resume
    <3>2. \A kind : IsSent(kind)' <=> IsSent(kind)
      BY <3>1, SilentSent
    <3> QED
      BY <1>6, <3>1, <3>2 DEF Resume, IInv, Standing, EndsAsSent, HoldsFirst
  <2> QED
    BY <2>1, <2>2
<1>7. CASE Completes
  <2>1. sent # <<>> /\ sent' = Append(sent, Done)
    BY <1>7 DEF Completes, IInv, Standing
  <2>2. ~HoldsFirst' /\ IsSent("done")' /\ (IsSent("error")' <=> IsSent("error") \/ Done = Error)
    BY <1>0, <2>1, EndSent
  <2>3. Done # Error
    BY DEF Done, Error
  <2> QED
    BY <1>7, <2>2, <2>3 DEF Completes, IInv, Standing, EndsAsSent
<1>8. CASE Breaks
  <2>1. sent # <<>> /\ sent' = Append(sent, Error)
    BY <1>8 DEF Breaks, IInv, Standing
  <2>2. ~HoldsFirst' /\ IsSent("error")' /\ (IsSent("done")' <=> IsSent("done") \/ Error = Done)
    BY <1>0, <2>1, EndSent
  <2>3. Done # Error
    BY DEF Done, Error
  <2> QED
    BY <1>8, <2>2, <2>3 DEF Breaks, IInv, Standing, EndsAsSent
<1>9. CASE CancelledOpening
  <2>1. ~IsSent("done")' /\ ~IsSent("error")'
    BY <1>9 DEF CancelledOpening, IInv, Standing, IsSent
  <2> QED
    BY <1>9, <2>1 DEF CancelledOpening, IInv, Standing, EndsAsSent, HoldsFirst
<1>10. CASE CancelledRelaying
  <2>1. \A kind : IsSent(kind)' <=> IsSent(kind)
    BY <1>10, SilentSent DEF CancelledRelaying
  <2> QED
    BY <1>10, <2>1 DEF CancelledRelaying, IInv, Standing, EndsAsSent, HoldsFirst
<1>11. CASE ClosedAtYield
  <2>1. \A kind : IsSent(kind)' <=> IsSent(kind)
    BY <1>11, SilentSent DEF ClosedAtYield
  <2> QED
    BY <1>11, <2>1 DEF ClosedAtYield, IInv, Standing, EndsAsSent, HoldsFirst
<1>12. CASE UpstreamCloses
  <2>1. \A kind : IsSent(kind)' <=> IsSent(kind)
    BY <1>12, SilentSent DEF UpstreamCloses
  <2> QED
    BY <1>12, <2>1 DEF UpstreamCloses, IInv, Standing, EndsAsSent, HoldsFirst
<1>13. CASE Records
  <2>1. \A kind : IsSent(kind)' <=> IsSent(kind)
    BY <1>13, SilentSent DEF Records
  <2> QED
    BY <1>13, <2>1 DEF Records, IInv, Standing, EndsAsSent, HoldsFirst
<1> QED
  BY <1>1, <1>2, <1>3, <1>4, <1>5, <1>6, <1>7, <1>8, <1>9, <1>10, <1>11, <1>12, <1>13 DEF Next

\* A finish reason that is out stays out, and that of the chunk that goes out is.
LEMMA NextFinish ==
    ASSUME IInv, Next
    PROVE  FinishIsOut'
<1> USE RelayAssumption
<1>0. /\ Len(sent) \in Nat /\ Len(passed) \in Nat /\ MaxChunks \in Nat /\ TypeOK
      /\ passed \in Seq(Upstream!Chunk) /\ sent \in Seq(Event)
  BY DEF IInv, TypeOK
<1>1. CASE phase' \notin {"offered", "relaying"}
  BY <1>1 DEF FinishIsOut
<1>2. ASSUME NEW c \in Upstream!Chunk, FirstChunk(c) PROVE FinishIsOut'
  BY <1>2 DEF FirstChunk, FinishIsOut, HoldsFirst
<1>3. ASSUME NEW c \in Upstream!Chunk, NextChunk(c) PROVE FinishIsOut'
  <2>1. /\ passed' = Append(passed, c) /\ Len(passed) < MaxChunks /\ sent # <<>>
        /\ backend \in Backends
        /\ \A i \in 1..Len(passed) : passed[i].finish => OutAt(i)
    BY <1>3 DEF NextChunk, Upstream!Yield, IInv, Standing, FinishIsOut, HoldsFirst
  <2>2. /\ Len(passed') = Len(passed) + 1 /\ passed'[Len(passed) + 1] = c
        /\ \A i \in 1..Len(passed) : passed'[i] = passed[i]
    BY <1>0, <2>1
  <2>3. CASE GoesOut(c)
    <3>1. sent' = Append(sent, Data(c, Len(passed) + 1)) /\ Len(passed) + 1 \in 1..MaxChunks
      BY <1>0, <1>3, <2>1, <2>3 DEF NextChunk
    <3>2. /\ Len(sent') = Len(sent) + 1
          /\ \A j \in 1..Len(sent) : sent'[j] = sent[j]
          /\ sent'[Len(sent) + 1] = Data(c, Len(passed) + 1)
      BY <1>0, <2>1, <3>1, ChunkSent
    <3>3. Data(c, Len(passed) + 1).kind = "data" /\ Data(c, Len(passed) + 1).place = Len(passed) + 1
      BY DEF Data
    <3>4. ASSUME NEW i, i = Len(passed) + 1
          PROVE  OutAt(i)'
      BY <1>0, <2>2, <3>2, <3>3, <3>4 DEF OutAt
    <3>5. ASSUME NEW i \in 1..Len(passed), passed[i].finish
          PROVE  OutAt(i)'
      BY <1>0, <2>1, <3>2, <3>5 DEF OutAt
    <3>6. \A i \in 1..Len(passed') : passed'[i].finish => OutAt(i)'
      BY <1>0, <2>2, <3>4, <3>5
    <3> QED
      BY <3>6 DEF FinishIsOut
  <2>4. CASE ~GoesOut(c)
    <3>1. sent' = sent /\ ~c.finish
      BY <1>3, <2>4, ChunkFacts DEF NextChunk
    <3>2. \A i \in 1..Len(passed') : passed'[i].finish => OutAt(i)'
      BY <1>0, <2>1, <2>2, <3>1 DEF OutAt
    <3> QED
      BY <3>2 DEF FinishIsOut
  <2> QED
    BY <2>3, <2>4
<1>4. CASE Resume
  <2>1. passed' = passed /\ backend \in Backends /\ phase = "offered" /\ passed # <<>> /\ sent # <<>>
    BY <1>4 DEF Resume, IInv, Standing
  <2>2. CASE HoldsFirst /\ GoesOut(passed[1])
    <3>1. /\ Len(passed) = 1 /\ passed[1] \in Upstream!Chunk /\ 1 \in 1..MaxChunks
          /\ sent' = Append(sent, Data(passed[1], 1))
      BY <1>0, <1>4, <2>2 DEF Resume, IInv, Standing, TypeOK
    <3>2. /\ Len(sent') = Len(sent) + 1
          /\ sent'[Len(sent) + 1] = Data(passed[1], 1)
      BY <1>0, <2>1, <3>1, ChunkSent
    <3>3. Data(passed[1], 1).kind = "data" /\ Data(passed[1], 1).place = 1
      BY DEF Data
    <3>4. OutAt(1)'
      BY <1>0, <3>2, <3>3 DEF OutAt
    <3>5. \A i \in 1..Len(passed') : i = 1
      BY <2>1, <3>1
    <3> QED
      BY <3>4, <3>5 DEF FinishIsOut
  <2>3. CASE HoldsFirst /\ ~GoesOut(passed[1])
    <3>1. Len(passed) = 1
      BY <2>3 DEF IInv, Standing
    <3>2. ~passed[1].finish
      BY <1>0, <2>3, <3>1, ChunkFacts
    <3>3. \A i \in 1..Len(passed') : ~passed'[i].finish
      BY <2>1, <3>1, <3>2
    <3> QED
      BY <3>3 DEF FinishIsOut
  <2>4. CASE ~HoldsFirst
    <3>1. sent' = sent
      BY <1>4, <2>4 DEF Resume
    <3>2. \A i \in 1..Len(passed) : passed[i].finish => OutAt(i)
      BY <2>1, <2>4 DEF IInv, FinishIsOut
    <3> QED
      BY <2>1, <3>1, <3>2 DEF FinishIsOut, OutAt
  <2> QED
    BY <2>2, <2>3, <2>4
<1>5. CASE \/ \E b \in Backends : Open(b)
           \/ Refuse \/ FailsToOpen \/ Completes \/ Breaks
           \/ CancelledOpening \/ CancelledRelaying \/ ClosedAtYield
           \/ UpstreamCloses \/ Records
  <2>1. phase' \notin {"offered", "relaying"}
    BY <1>5 DEF Open, Refuse, FailsToOpen, Completes, Breaks, CancelledOpening,
                CancelledRelaying, ClosedAtYield, UpstreamCloses, Records
  <2> QED
    BY <1>1, <2>1
<1> QED
  BY <1>2, <1>3, <1>4, <1>5 DEF Next

\* [DONE] goes out in Completes only, and nothing that bears it out is undone.
LEMMA NextNoFalseDone ==
    ASSUME IInv, Next
    PROVE  NoFalseDone'
<1> USE RelayAssumption
<1>0. /\ Len(sent) \in Nat /\ Len(passed) \in Nat /\ MaxChunks \in Nat /\ TypeOK
      /\ passed \in Seq(Upstream!Chunk) /\ sent \in Seq(Event)
  BY DEF IInv, TypeOK
<1>1. CASE Completes
  <2>1. /\ phase = "relaying" /\ sent # <<>> /\ sent' = Append(sent, Done)
        /\ passed # <<>> /\ passed' = passed /\ status' = "returned"
        /\ \E i \in 1..Len(passed) : passed[i].finish
    BY <1>1 DEF Completes, Upstream!Return, IInv, Standing
  <2>2. PICK i \in 1..Len(passed) : passed[i].finish
    BY <2>1
  <2>3. OutAt(i)
    BY <2>1, <2>2 DEF IInv, FinishIsOut, HoldsFirst
  <2>4. PICK j \in 1..Len(sent) : sent[j].kind = "data" /\ sent[j].place = i
    BY <2>3 DEF OutAt
  <2>5. j \in 1..Len(sent') /\ sent'[j] = sent[j]
    BY <1>0, <2>1, EndSent
  <2> QED
    BY <2>1, <2>2, <2>4, <2>5 DEF NoFalseDone
<1>2. CASE Records
  BY <1>2 DEF Records, IInv, NoFalseDone, IsSent
<1>3. CASE UpstreamCloses
  <2>1. ~IsSent("done")
    BY <1>3 DEF UpstreamCloses, Upstream!Close, IInv, NoFalseDone
  <2> QED
    BY <1>3, <2>1 DEF UpstreamCloses, NoFalseDone, IsSent
<1>4. CASE Breaks
  <2>1. sent # <<>> /\ sent' = Append(sent, Error) /\ ~IsSent("done")
    BY <1>4 DEF Breaks, IInv, Standing
  <2>2. IsSent("done")' <=> IsSent("done") \/ Error = Done
    BY <1>0, <2>1, EndSent
  <2> QED
    BY <2>1, <2>2 DEF NoFalseDone, Error, Done
<1>5. CASE CancelledRelaying \/ ClosedAtYield
  <2>1. sent' = sent /\ ~IsSent("done")
    BY <1>5 DEF CancelledRelaying, ClosedAtYield, IInv, Standing
  <2> QED
    BY <2>1 DEF NoFalseDone, IsSent
<1>6. ASSUME Next, phase' \in {"offered", "relaying"} PROVE NoFalseDone'
  <2>1. ~IsSent("done")'
    BY <1>6, NextStanding DEF Standing
  <2> QED
    BY <2>1 DEF NoFalseDone
<1>7. CASE \/ \E b \in Backends : Open(b)
           \/ Refuse \/ FailsToOpen \/ CancelledOpening
  <2>1. sent = <<>> /\ sent' = sent
    BY <1>7 DEF Open, Refuse, FailsToOpen, CancelledOpening, IInv, Standing
  <2> QED
    BY <2>1 DEF NoFalseDone, IsSent
<1>8. CASE \/ \E c \in Upstream!Chunk : FirstChunk(c) \/ NextChunk(c)
           \/ Resume
  <2>1. phase' \in {"offered", "relaying"}
    BY <1>8 DEF FirstChunk, NextChunk, Resume
  <2> QED
    BY <1>6, <2>1
<1> QED
  BY <1>1, <1>2, <1>3, <1>4, <1>5, <1>7, <1>8 DEF Next


----------------------------------------------------------------------------
\* The records that must be there, apart from that of the attempt just ended.
Told(ended) ==
    /\ {records[i].backend : i \in 1..Len(records)} = excluded \union ended
    /\ \A i \in 1..Len(records) : records[i].backend \in excluded => records[i].outcome = "error"

\* Until the attempt is over, the records are those of the excluded backends.
LEMMA RecordedBeforeTheEnd ==
    phase # "ended" /\ IsFiniteSet(excluded) =>
       (RecordedAsSeen <=> Told({}) /\ Len(records) = Cardinality(excluded))
<1> SUFFICES ASSUME phase # "ended", IsFiniteSet(excluded)
             PROVE  RecordedAsSeen <=> Told({}) /\ Len(records) = Cardinality(excluded)
  OBVIOUS
<1>1. Cardinality({}) = 0 /\ Cardinality(excluded) \in Nat
  BY FS_EmptySet, FS_CardinalityType
<1>2. Cardinality(excluded) + Cardinality({}) = Cardinality(excluded)
  BY <1>1
<1>3. Told({}) => \A i \in 1..Len(records) : records[i].backend \in excluded
  BY DEF Told
<1> QED
  BY <1>2, <1>3 DEF RecordedAsSeen, Told

\* The attempt just ended is recorded as the client saw it end.
LastTold ==
    \A i \in 1..Len(records) : records[i].backend \notin excluded =>
       /\ records[i].outcome = "success" <=> IsSent("done")
       /\ records[i].outcome = "error" <=> IsSent("error")

\* When it is over there is one more, of the last attempt.
LEMMA RecordedAtTheEnd ==
    phase = "ended" /\ IsFiniteSet(excluded) =>
       (RecordedAsSeen <=>
           Told({backend}) /\ Len(records) = Cardinality(excluded) + 1 /\ LastTold)
<1> SUFFICES ASSUME phase = "ended", IsFiniteSet(excluded)
             PROVE  RecordedAsSeen <=>
                    Told({backend}) /\ Len(records) = Cardinality(excluded) + 1 /\ LastTold
  OBVIOUS
<1>1. Cardinality({backend}) = 1
  BY FS_Singleton
<1> QED
  BY <1>1 DEF RecordedAsSeen, Told, LastTold

\* An attempt is recorded as it is given up on or as the stream ends, and never
\* at another step.
LEMMA NextRecorded ==
    ASSUME IInv, Next
    PROVE  RecordedAsSeen'
<1>0. /\ TypeOK /\ IsFiniteSet(excluded) /\ IsFiniteSet(excluded)' /\ Len(records) \in Nat
      /\ Cardinality(excluded) \in Nat
  BY NextType, FS_CardinalityType DEF IInv, TypeOK
<1>a. phase' # "ended" =>
         (RecordedAsSeen' <=> Told({})' /\ Len(records') = Cardinality(excluded'))
  <2>1. (phase # "ended" /\ IsFiniteSet(excluded) =>
           (RecordedAsSeen <=> Told({}) /\ Len(records) = Cardinality(excluded)))'
    BY RecordedBeforeTheEnd, PTL
  <2> QED
    BY <1>0, <2>1
<1>b. phase' = "ended" =>
         (RecordedAsSeen' <=>
            Told({backend})' /\ Len(records') = Cardinality(excluded') + 1 /\ LastTold')
  <2>1. (phase = "ended" /\ IsFiniteSet(excluded) =>
           (RecordedAsSeen <=>
              Told({backend}) /\ Len(records) = Cardinality(excluded) + 1 /\ LastTold))'
    BY RecordedAtTheEnd, PTL
  <2> QED
    BY <1>0, <2>1
<1>1. ASSUME records' = records, excluded' = excluded, phase # "ended", phase' # "ended"
      PROVE  RecordedAsSeen'
  <2>1. Told({}) /\ Len(records) = Cardinality(excluded)
    BY <1>0, <1>1, RecordedBeforeTheEnd DEF IInv
  <2>2. Told({})' /\ Len(records') = Cardinality(excluded')
    BY <1>1, <2>1 DEF Told
  <2> QED
    BY <1>1, <1>a, <2>2
<1>2. ASSUME phase # "ended", phase' = "ended", excluded' = excluded, backend' = backend,
             backend \in Backends \ excluded, sent' = sent,
             NEW result \in Outcomes, records' = Record(result),
             result = "success" <=> IsSent("done"), result = "error" <=> IsSent("error")
      PROVE  RecordedAsSeen'
  <2>1. Told({}) /\ Len(records) = Cardinality(excluded)
    BY <1>0, <1>2, RecordedBeforeTheEnd DEF IInv
  <2>2. /\ Len(records') = Len(records) + 1
        /\ records'[Len(records) + 1].backend = backend
        /\ records'[Len(records) + 1].outcome = result
        /\ \A i \in 1..Len(records) : records'[i] = records[i]
        /\ {records'[i].backend : i \in 1..Len(records')} =
               {records[i].backend : i \in 1..Len(records)} \union {backend}
    <3>1. backend \in Backends
      BY <1>2
    <3>2. /\ Len(records') = Len(records) + 1
          /\ records'[Len(records) + 1] = [backend |-> backend, outcome |-> result]
          /\ \A i \in 1..Len(records) : records'[i] = records[i]
          /\ {records'[i].backend : i \in 1..Len(records')} =
                 {records[i].backend : i \in 1..Len(records)} \union {backend}
      BY <1>0, <1>2, <3>1, RecordGrows
    <3> QED
      BY <3>2
  <2>3. \A i \in 1..Len(records') : i \in 1..Len(records) \/ i = Len(records) + 1
    BY <1>0, <2>2
  <2>4. \A i \in 1..Len(records) : records'[i].backend \in excluded /\ records'[i].outcome = "error"
    BY <2>1, <2>2 DEF Told
  <2>5. Told({backend})'
    BY <1>2, <2>1, <2>2, <2>3, <2>4 DEF Told
  <2>6. LastTold'
    BY <1>2, <2>2, <2>3, <2>4 DEF LastTold, IsSent
  <2>7. Len(records') = Cardinality(excluded') + 1
    BY <1>2, <2>1, <2>2
  <2> QED
    BY <1>2, <1>b, <2>5, <2>6, <2>7
<1>3. CASE FailsToOpen
  <2>1. /\ phase = "opening" /\ phase' = "routing" /\ backend \in Backends \ excluded
        /\ excluded' = excluded \union {backend} /\ records' = Record("error")
    BY <1>3 DEF FailsToOpen, IInv, Standing
  <2>2. Told({}) /\ Len(records) = Cardinality(excluded)
    BY <1>0, <2>1, RecordedBeforeTheEnd DEF IInv
  <2>3. /\ Len(records') = Len(records) + 1
        /\ records'[Len(records) + 1].outcome = "error"
        /\ \A i \in 1..Len(records) : records'[i] = records[i]
        /\ {records'[i].backend : i \in 1..Len(records')} =
               {records[i].backend : i \in 1..Len(records)} \union {backend}
    <3>1. backend \in Backends /\ "error" \in Outcomes
      BY <2>1 DEF Outcomes
    <3>2. /\ Len(records') = Len(records) + 1
          /\ records'[Len(records) + 1] = [backend |-> backend, outcome |-> "error"]
          /\ \A i \in 1..Len(records) : records'[i] = records[i]
          /\ {records'[i].backend : i \in 1..Len(records')} =
                 {records[i].backend : i \in 1..Len(records)} \union {backend}
      BY <1>0, <2>1, <3>1, RecordGrows
    <3> QED
      BY <3>2
  <2>4. \A i \in 1..Len(records') : i \in 1..Len(records) \/ i = Len(records) + 1
    BY <1>0, <2>3
  <2>5. \A i \in 1..Len(records) : records[i].backend \in excluded
    BY <2>2 DEF Told
  <2>6. Told({})'
    BY <2>1, <2>2, <2>3, <2>4, <2>5 DEF Told
  <2>7. Cardinality(excluded') = Cardinality(excluded) + 1
    BY <1>0, <2>1, FS_AddElement
  <2>8. Len(records') = Cardinality(excluded')
    BY <2>2, <2>3, <2>7
  <2> QED
    BY <1>a, <2>1, <2>6, <2>8
<1>4. CASE CancelledOpening
  <2>1. ~IsSent("done") /\ ~IsSent("error")
    BY <1>4 DEF CancelledOpening, IInv, Standing, IsSent
  <2>2. /\ phase = "opening" /\ phase' = "ended" /\ excluded' = excluded /\ backend' = backend
        /\ backend \in Backends \ excluded /\ sent' = sent /\ records' = Record("cancelled")
        /\ "cancelled" \in Outcomes
    BY <1>4 DEF CancelledOpening, IInv, Standing, Outcomes
  <2> QED
    BY <1>2, <2>1, <2>2
<1>5. CASE Records
  <2>1. /\ phase = "closing" /\ phase' = "ended" /\ excluded' = excluded /\ backend' = backend
        /\ backend \in Backends \ excluded /\ sent' = sent /\ records' = Record(outcome)
        /\ outcome \in Outcomes
        /\ outcome = "success" <=> IsSent("done")
        /\ outcome = "error" <=> IsSent("error")
    BY <1>5 DEF Records, IInv, Standing, EndsAsSent, TypeOK, Outcomes
  <2> QED
    BY <1>2, <2>1
<1>6. CASE UpstreamCloses
  BY <1>6 DEF UpstreamCloses, IInv, RecordedAsSeen, IsSent
<1>7. CASE \/ \E b \in Backends : Open(b)
           \/ \E c \in Upstream!Chunk : FirstChunk(c) \/ NextChunk(c)
           \/ Refuse \/ Resume \/ Completes \/ Breaks \/ CancelledRelaying \/ ClosedAtYield
  <2>1. records' = records /\ excluded' = excluded /\ phase # "ended" /\ phase' # "ended"
    BY <1>7 DEF Open, Refuse, FirstChunk, NextChunk, Resume, Completes, Breaks,
                CancelledRelaying, ClosedAtYield
  <2> QED
    BY <1>1, <2>1
<1> QED
  BY <1>3, <1>4, <1>5, <1>6, <1>7 DEF Next

\* Where nothing changes, nothing is lost.
LEMMA Stutter ==
    ASSUME IInv, UNCHANGED vars
    PROVE  IInv'
BY DEF vars, IInv, TypeOK, Standing, HoldsFirst, IsSent, EndsAsSent, FinishIsOut, OutAt,
       RecordedAsSeen, NoFalseDone

----------------------------------------------------------------------------
\* The state of prepare_stream and _stream stays as IInv says, whatever the
\* adapter and the client do.
THEOREM InductiveInvariant == Spec => []IInv
<1>1. Init => IInv
  BY InitIInv
<1>2. IInv /\ [Next]_vars => IInv'
  <2> SUFFICES ASSUME IInv, [Next]_vars PROVE IInv'
    OBVIOUS
  <2>1. CASE Next
    BY <2>1, NextType, NextStanding, NextFinish, NextRecorded, NextNoFalseDone DEF IInv
  <2>2. CASE UNCHANGED vars
    BY <2>2, Stutter
  <2> QED
    BY <2>1, <2>2
<1> QED
  BY <1>1, <1>2, PTL DEF Spec

\* The generators' variables keep their types.
THEOREM TypeCorrect == Spec => []TypeOK
<1>1. IInv => TypeOK
  BY DEF IInv
<1> QED
  BY <1>1, InductiveInvariant, PTL

\* _stream sends [DONE] only after a finish reason went out, and only when the
\* adapter's generator has returned.
THEOREM NoFalseDoneHolds == Spec => []NoFalseDone
<1>1. IInv => NoFalseDone
  BY DEF IInv
<1> QED
  BY <1>1, InductiveInvariant, PTL

\* prepare_stream and _stream record every attempt once, as the client saw it end.
THEOREM RecordedAsSeenHolds == Spec => []RecordedAsSeen
<1>1. IInv => RecordedAsSeen
  BY DEF IInv
<1> QED
  BY <1>1, InductiveInvariant, PTL

\* Once anything was yielded to the client, prepare_stream's loop is not entered
\* again and the backend stays.
THEOREM NoSwitchAfterOutputHolds == Spec => NoSwitchAfterOutput
<1>1. IInv /\ [Next]_vars =>
        [sent # <<>> => UNCHANGED backend /\ phase' \notin {"routing", "opening", "refused"}]_vars
  <2> SUFFICES ASSUME IInv, Next, sent # <<>>
               PROVE  UNCHANGED backend /\ phase' \notin {"routing", "opening", "refused"}
    OBVIOUS
  <2>1. phase \notin {"routing", "opening", "refused"}
    BY DEF IInv, Standing
  <2> QED
    BY <2>1 DEF Next, Open, Refuse, FirstChunk, NextChunk, FailsToOpen, Resume, Completes, Breaks,
                CancelledOpening, CancelledRelaying, ClosedAtYield, UpstreamCloses, Records
<1> QED
  BY <1>1, InductiveInvariant, PTL DEF Spec, NoSwitchAfterOutput

----------------------------------------------------------------------------
\* What FaithfulRelay rests on, besides IInv: the adapter yields what is worth
\* passing on, so that GoesOut drops what is not due and nothing else.
AllPassedOn == \A i \in 1..Len(passed) : Upstream!PassedOn(passed[i])

\* _stream's rule agrees with what is due, of the chunks an adapter yields.
LEMMA GoesOutIfDue ==
    ASSUME NEW c \in Upstream!Chunk, Upstream!PassedOn(c)
    PROVE  GoesOut(c) <=> Due(c)
BY DEF Upstream!Chunk, Upstream!PassedOn, GoesOut, Due

\* The events Data makes are a set, whatever the backend.
DataOf == [kind : {"data"}, from : {backend}, place : Nat, usage : BOOLEAN]

\* One more chunk makes one more event due, or none.
LEMMA DueEventsAppend ==
    ASSUME wantsUsage \in BOOLEAN, NEW p \in Seq(Upstream!Chunk), NEW c \in Upstream!Chunk
    PROVE  /\ DueEvents(p) \in Seq(DataOf)
           /\ DueEvents(Append(p, c)) =
                IF Due(c) THEN Append(DueEvents(p), Data(c, Len(p) + 1)) ELSE DueEvents(p)
<1> DEFINE n == Len(p)
           q == Append(p, c)
           Places(m) == [i \in 1..m |-> i]
           K == {i \in 1..Len(p) : Due(p[i])}
           L == {i \in 1..Len(q) : Due(q[i])}
           r == Kept(Places(n), K)
           e == n + 1
<1>1. /\ n \in Nat /\ Len(q) = e /\ e \in Nat /\ q[e] = c
      /\ \A i \in 1..n : q[i] = p[i] /\ p[i] \in Upstream!Chunk
  OBVIOUS
<1>2. Places(n) \in Seq(Nat) /\ Len(Places(n)) = n /\ \A i \in 1..n : Places(n)[i] = i
  BY <1>1
<1>3. Places(e) = Append(Places(n), e)
  BY <1>1
<1>4. \A i \in 1..n : i \in K <=> i \in L
  BY <1>1
<1>5. e \in L <=> Due(c)
  BY <1>1
<1>6. DueEvents(p) = [k \in 1..Len(r) |-> Data(p[r[k]], r[k])]
  BY DEF DueEvents
<1>7. DueEvents(q) = [k \in 1..Len(Kept(Places(e), L)) |->
                        Data(q[Kept(Places(e), L)[k]], Kept(Places(e), L)[k])]
  BY <1>1 DEF DueEvents
<1>a. \A i \in K : i \in 1..n
  OBVIOUS
<1> HIDE DEF n, q, Places, K, L, e
<1>8. r \in Seq(Nat) /\ r \in Seq(K)
  BY <1>2, KeptType, KeptIn
<1>9. Kept(Places(n), L) = r
  BY <1>2, <1>4, KeptSame
<1>10. Kept(Places(e), L) = IF e \in L THEN Append(r, e) ELSE r
  <2>1. Kept(Append(Places(n), e), L) = IF e \in L THEN Append(Kept(Places(n), L), e)
                                       ELSE Kept(Places(n), L)
    <3>1. Places(n) \in Seq(Nat) /\ e \in Nat
      BY <1>1, <1>2, Zenon
    <3> QED
      BY <3>1, KeptAppend, Zenon
  <2> QED
    BY <1>3, <1>9, <2>1
<1> HIDE DEF r
<1>11. Len(r) \in Nat /\ \A k \in 1..Len(r) : r[k] \in 1..n
  BY <1>8, <1>a, SeqFacts
<1>12. \A i \in 1..n : Data(p[i], i) \in DataOf
  BY <1>1 DEF Data, DataOf, Upstream!Chunk
<1>13. DueEvents(p) \in Seq(DataOf)
  BY <1>6, <1>11, <1>12
<1>14. CASE ~Due(c)
  <2>1. DueEvents(q) = [k \in 1..Len(r) |-> Data(q[r[k]], r[k])]
    BY <1>5, <1>7, <1>10, <1>14
  <2>2. \A k \in 1..Len(r) : q[r[k]] = p[r[k]]
    BY <1>1, <1>11
  <2> QED
    BY <1>6, <1>13, <1>14, <2>1, <2>2 DEF q
<1>15. CASE Due(c)
  <2> DEFINE t == Append(r, e)
             d == DueEvents(p)
             x == Data(c, e)
  <2>1. /\ Len(t) = Len(r) + 1 /\ t[Len(r) + 1] = e
        /\ \A k \in 1..Len(r) : t[k] = r[k]
    BY <1>1, <1>8, AppendFacts
  <2>2. DueEvents(q) = [k \in 1..Len(t) |-> Data(q[t[k]], t[k])]
    BY <1>5, <1>7, <1>10, <1>15
  <2>3. x \in DataOf
    BY <1>1 DEF Data, DataOf, Upstream!Chunk
  <2> HIDE DEF t
  <2>4. d \in Seq(DataOf) /\ Len(d) = Len(r) /\ \A k \in 1..Len(r) : d[k] = Data(p[r[k]], r[k])
    BY <1>6, <1>11, <1>13
  <2>5. DueEvents(q) = [k \in 1..(Len(r) + 1) |-> IF k = Len(r) + 1 THEN x ELSE d[k]]
    <3>1. \A k \in 1..(Len(r) + 1) :
             Data(q[t[k]], t[k]) = IF k = Len(r) + 1 THEN x ELSE d[k]
      <4> TAKE k \in 1..(Len(r) + 1)
      <4>1. CASE k = Len(r) + 1
        BY <1>1, <2>1, <4>1
      <4>2. CASE k # Len(r) + 1
        <5>1. k \in 1..Len(r)
          BY <1>11, <4>2
        <5>2. r[k] \in 1..n
          BY <1>11, <5>1
        <5>3. t[k] = r[k] /\ q[t[k]] = p[r[k]] /\ d[k] = Data(p[r[k]], r[k])
          BY <1>1, <2>1, <2>4, <5>1, <5>2
        <5> QED
          BY <4>2, <5>3
      <4> QED
        BY <4>1, <4>2
    <3> QED
      BY <2>1, <2>2, <3>1
  <2> HIDE DEF d, x
  <2>6. Append(d, x) = [k \in 1..(Len(r) + 1) |-> IF k = Len(r) + 1 THEN x ELSE d[k]]
    <3> DEFINE a == Append(d, x)
    <3>1. /\ a \in Seq(DataOf) /\ Len(a) = Len(r) + 1 /\ a[Len(r) + 1] = x
          /\ \A k \in 1..Len(r) : a[k] = d[k]
      BY <2>3, <2>4, AppendFacts
    <3> HIDE DEF a
    <3>2. a = [k \in 1..Len(a) |-> a[k]]
      BY <3>1
    <3>3. \A k \in 1..(Len(r) + 1) : a[k] = IF k = Len(r) + 1 THEN x ELSE d[k]
      BY <1>11, <3>1
    <3> QED
      BY <3>1, <3>2, <3>3 DEF a
  <2> QED
    BY <1>13, <1>15, <2>5, <2>6 DEF d, x, e, q, n
<1> QED
  BY <1>14, <1>15

\* The events due do not depend on anything a step of an attempt changes.
LEMMA SameDueEvents ==
    ASSUME wantsUsage' = wantsUsage, backend' = backend, passed' = passed
    PROVE  Expected' = Expected
BY DEF Expected, DueEvents, Data, Due

\* What is due grows with a chunk that is due and with no other.
LEMMA ExpectedGrows ==
    ASSUME TypeOK, NEW c \in Upstream!Chunk, passed' = Append(passed, c),
           wantsUsage' = wantsUsage, backend' = backend
    PROVE  Expected' = IF Due(c) THEN Append(Expected, Data(c, Len(passed) + 1)) ELSE Expected
<1> DEFINE d == DueEvents(passed)
           e == Data(c, Len(passed) + 1)
           S == DataOf \union {Role}
<1>1. wantsUsage \in BOOLEAN /\ passed \in Seq(Upstream!Chunk) /\ Len(passed) \in Nat
  BY DEF TypeOK
<1>2. /\ d \in Seq(DataOf)
      /\ DueEvents(Append(passed, c)) = IF Due(c) THEN Append(d, e) ELSE d
  BY <1>1, DueEventsAppend
<1>3. Expected' = <<Role>> \o DueEvents(Append(passed, c))
  BY DEF Expected, DueEvents, Data, Due
<1>4. e \in DataOf
  BY <1>1 DEF Data, DataOf, Upstream!Chunk
<1>5. Expected = <<Role>> \o d
  BY DEF Expected
<1> HIDE DEF d, e
<1>6. <<Role>> \o Append(d, e) = Append(<<Role>> \o d, e)
  <2>1. d \in Seq(S) /\ e \in S /\ <<Role>> \in Seq(S)
    BY <1>2, <1>4
  <2> HIDE DEF S
  <2> QED
    BY <2>1
<1> QED
  BY <1>2, <1>3, <1>5, <1>6 DEF e

\* Sequences of one and of two.
LEMMA ShortSeqs ==
    ASSUME NEW a, NEW b
    PROVE  /\ Append(<<a>>, b) = <<a, b>>
           /\ <<a>> \o <<>> = <<a>> /\ <<a>> \o Append(<<>>, b) = <<a, b>>
<1> DEFINE S == {a, b}
           s == Append(<<a>>, b)
<1>1. a \in S /\ b \in S
  OBVIOUS
<1> HIDE DEF S
<1>2. <<a>> \in Seq(S) /\ <<b>> \in Seq(S) /\ <<>> \in Seq(S) /\ <<a, b>> \in Seq(S)
  BY <1>1
<1>3. s \in Seq(S) /\ Len(s) = 2 /\ s[2] = b /\ s[1] = a
  BY <1>1, <1>2, AppendFacts
<1>4. s = <<a, b>>
  <2> HIDE DEF s
  <2>1. \A i \in 1..Len(s) : s[i] = <<a, b>>[i]
    BY <1>3
  <2> QED
    BY <1>2, <1>3, <2>1, SeqEqual
<1>5. <<a>> \o <<>> = <<a>>
  BY <1>2, ConcatEmptySeq
<1>6. s = <<a>> \o <<b>> /\ Append(<<>>, b) = <<>> \o <<b>> /\ <<>> \o <<b>> = <<b>>
  BY <1>1, <1>2, AppendIsConcat, ConcatEmptySeq
<1> QED
  BY <1>4, <1>5, <1>6

\* Of no chunks, nothing is due.
LEMMA NothingDue == DueEvents(<<>>) = <<>>
<1> DEFINE P(p) == [i \in 1..Len(p) |-> i]
<1>1. Len(<<>>) = 0 /\ P(<<>>) = <<>>
  OBVIOUS
<1>2. Kept(P(<<>>), {i \in 1..Len(<<>>) : Due(<<>>[i])}) = <<>>
  BY <1>1, KeptEmpty
<1> QED
  BY <1>2 DEF DueEvents

\* What may follow the events due.
LEMMA ExpectedEnds ==
    ASSUME TypeOK
    PROVE  /\ Expected \o <<>> = Expected
           /\ \A e \in {Done, Error} : Expected \o <<e>> = Append(Expected, e)
<1> DEFINE S == DataOf \union {Role, Done, Error}
<1>1. DueEvents(passed) \in Seq(DataOf)
  <2>1. [choices |-> TRUE, content |-> TRUE, finish |-> TRUE, usage |-> TRUE] \in Upstream!Chunk
    BY DEF Upstream!Chunk
  <2>2. wantsUsage \in BOOLEAN /\ passed \in Seq(Upstream!Chunk)
    BY DEF TypeOK
  <2> QED
    BY <2>1, <2>2, DueEventsAppend
<1>2. DueEvents(passed) \in Seq(S) /\ <<Role>> \in Seq(S) /\ \A e \in {Done, Error} : e \in S
  BY <1>1
<1> HIDE DEF S
<1>3. Expected \in Seq(S)
  BY <1>2, ConcatProperties DEF Expected
<1>4. Expected \o <<>> = Expected
  BY <1>3, ConcatEmptySeq
<1>5. ASSUME NEW e \in {Done, Error} PROVE Expected \o <<e>> = Append(Expected, e)
  <2>1. e \in S
    BY <1>2
  <2> QED
    BY <1>3, <2>1, AppendIsConcat
<1> QED
  BY <1>4, <1>5

\* Every event went out when it was due, and none before.
LEMMA NextFaithful ==
    ASSUME IInv, AllPassedOn, FaithfulRelay, Next
    PROVE  AllPassedOn' /\ FaithfulRelay'
<1> USE RelayAssumption
<1>0. /\ TypeOK /\ Standing /\ Len(sent) \in Nat /\ Len(passed) \in Nat
      /\ sent \in Seq(Event) /\ passed \in Seq(Upstream!Chunk)
  BY DEF IInv, TypeOK
<1>1. ASSUME NEW b \in Backends, Open(b) PROVE AllPassedOn' /\ FaithfulRelay'
  BY <1>0, <1>1 DEF Open, Standing, AllPassedOn, FaithfulRelay
<1>2. ASSUME sent = <<>>, sent' = sent, passed' = passed PROVE AllPassedOn' /\ FaithfulRelay'
  BY <1>2 DEF AllPassedOn, FaithfulRelay
<1>3. ASSUME NEW c \in Upstream!Chunk, Upstream!Yield(c) PROVE AllPassedOn'
  <2>1. passed' = Append(passed, c) /\ Upstream!PassedOn(c)
    BY <1>3 DEF Upstream!Yield
  <2>2. /\ Len(passed') = Len(passed) + 1 /\ passed'[Len(passed) + 1] = c
        /\ \A i \in 1..Len(passed) : passed'[i] = passed[i]
    BY <1>0, <2>1, AppendFacts
  <2>3. \A i \in 1..Len(passed') : i \in 1..Len(passed) \/ i = Len(passed) + 1
    BY <1>0, <2>2
  <2> QED
    BY <2>1, <2>2, <2>3 DEF AllPassedOn, Upstream!PassedOn
<1>4. ASSUME NEW c \in Upstream!Chunk, FirstChunk(c) PROVE AllPassedOn' /\ FaithfulRelay'
  <2>1. passed' = Append(passed, c) /\ passed = <<>>
    BY <1>0, <1>4 DEF FirstChunk, Upstream!Yield, Standing
  <2>2. Len(passed') = 1
    BY <1>0, <2>1
  <2>3. sent' = <<Role>> /\ phase' = "offered" /\ outcome' = "cancelled"
    BY <1>0, <1>4 DEF FirstChunk, Standing
  <2> QED
    BY <1>3, <1>4, <2>2, <2>3 DEF FirstChunk, FaithfulRelay
\* What has gone out while the generator runs.
<1>5. ASSUME phase \in {"offered", "relaying"}, ~HoldsFirst
      PROVE  sent = Expected /\ outcome = "cancelled"
  <2>1. sent # <<>> /\ outcome = "cancelled"
    BY <1>0, <1>5 DEF Standing
  <2>2. sent = Expected \o <<>>
    BY <1>5, <2>1 DEF FaithfulRelay, HoldsFirst
  <2>3. Expected \o <<>> = Expected
    BY <1>0, ExpectedEnds
  <2> QED
    BY <2>1, <2>2, <2>3
\* It is enough that all that is due is out while the generator runs.
<1>6. ASSUME sent' = Expected', outcome' = "cancelled" PROVE FaithfulRelay'
  <2>1. (TypeOK => Expected \o <<>> = Expected)'
    BY ExpectedEnds, PTL
  <2>2. TypeOK'
    BY NextType
  <2> QED
    BY <1>6, <2>1, <2>2 DEF FaithfulRelay
<1>7. ASSUME passed[1] \in Upstream!Chunk, Len(passed) = 1, UNCHANGED <<wantsUsage, backend, passed>>
      PROVE  Expected' = IF Due(passed[1]) THEN <<Role, Data(passed[1], 1)>> ELSE <<Role>>
  <2> DEFINE c == passed[1]
  <2>1. passed = Append(<<>>, c) /\ <<>> \in Seq(Upstream!Chunk) /\ Len(<<>>) + 1 = 1
    BY <1>0, <1>7
  <2>2. DueEvents(<<>>) = <<>>
    BY NothingDue
  <2> HIDE DEF c
  <2>3. DueEvents(passed) = IF Due(c) THEN Append(<<>>, Data(c, 1)) ELSE <<>>
    <3>1. c \in Upstream!Chunk /\ wantsUsage \in BOOLEAN
      BY <1>0, <1>7 DEF TypeOK, c
    <3>2. DueEvents(Append(<<>>, c)) =
            IF Due(c) THEN Append(DueEvents(<<>>), Data(c, Len(<<>>) + 1)) ELSE DueEvents(<<>>)
      BY <2>1, <3>1, DueEventsAppend
    <3> QED
      BY <2>1, <2>2, <3>2
  <2>4. <<Role>> \o <<>> = <<Role>> /\ <<Role>> \o Append(<<>>, Data(c, 1)) = <<Role, Data(c, 1)>>
    BY ShortSeqs, Zenon
  <2> QED
    BY <1>7, <2>3, <2>4, SameDueEvents DEF Expected, c
<1>8. CASE Resume
  <2>1. /\ UNCHANGED <<wantsUsage, backend, passed>> /\ outcome' = "cancelled"
        /\ phase = "offered" /\ passed # <<>>
    BY <1>0, <1>8 DEF Resume, Standing
  <2>2. AllPassedOn'
    BY <2>1 DEF AllPassedOn
  <2>3. CASE HoldsFirst
    <3>1. Len(passed) = 1 /\ sent = <<Role>>
      BY <1>0, <2>3 DEF Standing, HoldsFirst
    <3>2. passed[1] \in Upstream!Chunk /\ Upstream!PassedOn(passed[1])
      BY <1>0, <3>1 DEF AllPassedOn
    <3>3. sent' = IF Due(passed[1]) THEN Append(sent, Data(passed[1], 1)) ELSE sent
      BY <1>8, <2>3, <3>2, GoesOutIfDue DEF Resume
    <3>4. Append(<<Role>>, Data(passed[1], 1)) = <<Role, Data(passed[1], 1)>>
      BY ShortSeqs, Zenon
    <3>5. Expected' = IF Due(passed[1]) THEN <<Role, Data(passed[1], 1)>> ELSE <<Role>>
      BY <1>7, <2>1, <3>1, <3>2
    <3>6. sent' = Expected'
      BY <3>1, <3>3, <3>4, <3>5
    <3> QED
      BY <1>6, <2>1, <2>2, <3>6
  <2>4. CASE ~HoldsFirst
    <3>1. sent' = sent
      BY <1>8, <2>4 DEF Resume
    <3> QED
      BY <1>5, <1>6, <2>1, <2>2, <2>4, <3>1, SameDueEvents
  <2> QED
    BY <2>3, <2>4
<1>9. ASSUME NEW c \in Upstream!Chunk, NextChunk(c) PROVE AllPassedOn' /\ FaithfulRelay'
  <2>1. /\ passed' = Append(passed, c) /\ Upstream!PassedOn(c)
        /\ UNCHANGED <<wantsUsage, backend>> /\ outcome' = outcome
        /\ phase = "relaying" /\ ~HoldsFirst
        /\ sent' = IF GoesOut(c) THEN Append(sent, Data(c, Len(passed) + 1)) ELSE sent
    BY <1>9 DEF NextChunk, Upstream!Yield, HoldsFirst
  <2>2. sent = Expected /\ outcome = "cancelled"
    BY <1>5, <2>1
  <2>3. Expected' = IF Due(c) THEN Append(Expected, Data(c, Len(passed) + 1)) ELSE Expected
    BY <1>0, <2>1, ExpectedGrows
  <2>4. AllPassedOn'
    BY <1>3, <1>9 DEF NextChunk
  <2> QED
    BY <1>6, <2>1, <2>2, <2>3, <2>4, GoesOutIfDue
<1>10. CASE Completes \/ Breaks
  <2> DEFINE e == IF Completes THEN Done ELSE Error
  <2>1. /\ UNCHANGED <<wantsUsage, backend, passed>> /\ phase = "relaying" /\ ~HoldsFirst
        /\ sent' = Append(sent, e) /\ outcome' = IF Completes THEN "success" ELSE "error"
    BY <1>10 DEF Completes, Breaks, HoldsFirst, Upstream!Return, Upstream!Raise
  <2>2. sent = Expected /\ Expected' = Expected
    BY <1>5, <2>1, SameDueEvents
  <2>3. sent' = Expected' \o <<e>>
    BY <1>0, <2>1, <2>2, ExpectedEnds
  <2> QED
    BY <2>1, <2>3 DEF AllPassedOn, FaithfulRelay
\* No other step touches what FaithfulRelay compares.
<1>11. CASE CancelledRelaying \/ ClosedAtYield \/ UpstreamCloses \/ Records
  <2>1. /\ UNCHANGED <<wantsUsage, backend, passed, sent, outcome>>
        /\ phase' # "relaying"
    BY <1>0, <1>11 DEF CancelledRelaying, ClosedAtYield, UpstreamCloses, Records, Upstream!Close
  <2>2. Expected' = Expected
    BY <2>1, SameDueEvents
  <2> QED
    BY <2>1, <2>2 DEF AllPassedOn, FaithfulRelay
<1>12. CASE Refuse \/ FailsToOpen \/ CancelledOpening
  <2>1. sent = <<>> /\ sent' = sent /\ passed' = passed
    BY <1>0, <1>12 DEF Refuse, FailsToOpen, CancelledOpening, Standing,
                       Upstream!Raise, Upstream!Return, Upstream!Close
  <2> QED
    BY <1>2, <2>1
<1> QED
  BY <1>1, <1>4, <1>8, <1>9, <1>10, <1>11, <1>12 DEF Next

\* What the client got is the role and every event due of the chunks of one
\* backend, in their order, and then at most the end: _stream drops, doubles and
\* reorders nothing, wherever the client left or the adapter failed.
THEOREM FaithfulRelayHolds == Spec => []FaithfulRelay
<1>1. Init => AllPassedOn /\ FaithfulRelay
  BY DEF Init, AllPassedOn, FaithfulRelay
<1>2. IInv /\ (AllPassedOn /\ FaithfulRelay) /\ [Next]_vars => (AllPassedOn /\ FaithfulRelay)'
  <2> SUFFICES ASSUME IInv, AllPassedOn, FaithfulRelay, [Next]_vars
               PROVE  AllPassedOn' /\ FaithfulRelay'
    OBVIOUS
  <2>1. CASE Next
    BY <2>1, NextFaithful
  <2>2. CASE UNCHANGED vars
    <3>1. UNCHANGED <<wantsUsage, backend, passed, sent, outcome, phase>>
      BY <2>2 DEF vars
    <3> QED
      BY <3>1, SameDueEvents DEF AllPassedOn, FaithfulRelay
  <2> QED
    BY <2>1, <2>2
<1> QED
  BY <1>1, <1>2, InductiveInvariant, PTL DEF Spec

=============================================================================
