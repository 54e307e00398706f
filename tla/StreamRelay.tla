----------------------------- MODULE StreamRelay -----------------------------
(***************************************************************************)
(* One streamed chat, from the first backend tried to the end of the       *)
(* response: the loop of prepare_stream and the generator _stream of       *)
(* service.py, over an adapter that keeps the promise of AdapterStream.    *)
(*                                                                         *)
(* Generators pull on each other, so an action is what one event makes     *)
(* them do until they wait for upstream or for the client again.  The      *)
(* place of a chunk in its upstream stream stands for its text.            *)
(***************************************************************************)
EXTENDS Integers, SequencesExt, Filters

CONSTANTS
    Backends,   \* the backends select may return for this request
    NoBackend,  \* stands for "no attempt in flight"
    MaxChunks   \* bound: chunks one upstream yields before it ends

ASSUME RelayAssumption == NoBackend \notin Backends /\ MaxChunks \in Nat

VARIABLES
    wantsUsage,  \* stream_options.include_usage
    phase,       \* where the generators stand
    excluded,    \* backends given up on
    backend,     \* decision.backend of the attempt in flight or just ended
    passed,      \* the chunks its adapter has yielded
    status,      \* what has become of its adapter's generator
    sent,        \* what _stream has yielded to the client, in order
    outcome,     \* `outcome` of _stream
    records      \* the calls of _record, in order

vars == <<wantsUsage, phase, excluded, backend, passed, status, sent, outcome, records>>

Upstream == INSTANCE AdapterStream

Phases == {"routing",   \* about to select a backend
           "opening",   \* prepare_stream awaits the first chunk
           "offered",   \* _stream is suspended at a yield, the client has the turn
           "relaying",  \* _stream awaits the next chunk
           "closing",   \* the response is over, upstream is being closed
           "ended",     \* the attempt is recorded
           "dropped",   \* Python has given up _stream at a yield (CloseFails)
           "refused"}   \* NoEligibleBackend, a 503

\* A fault of GoesOut: the last chunk before [DONE], all usage, is never dropped.
GoesOutAlways(c) == Upstream!PassedOn(c)

\* A fault of GoesOut: a chunk without content is taken for empty.
GoesOutWithContent(c) == c.content \/ (c.usage /\ wantsUsage)

\* _stream drops usage nobody asked for, and then the chunk if it is empty.
GoesOut(c) == c.choices \/ (c.usage /\ wantsUsage)

Role == [kind |-> "role"]
Done == [kind |-> "done"]
Error == [kind |-> "error"]

\* Chunk c, the i-th of this backend's stream, as it goes out.
Data(c, i) == [kind |-> "data", from |-> backend, place |-> i, usage |-> c.usage /\ wantsUsage]

IsSent(kind) == \E i \in 1..Len(sent) : sent[i].kind = kind

\* Only the role is out: the first chunk is still held, and _stream has not come
\* to the block in which it closes upstream unshielded.
HoldsFirst == phase = "offered" /\ sent = <<Role>>

Record(result) == Append(records, [backend |-> backend, outcome |-> result])

----------------------------------------------------------------------------
Init ==
    /\ wantsUsage \in BOOLEAN
    /\ phase = "routing"
    /\ excluded = {}
    /\ backend = NoBackend
    /\ passed = <<>> /\ status = "closed"
    /\ sent = <<>>
    /\ outcome = "cancelled"
    /\ records = <<>>

\* prepare_stream selects a backend it has not given up on and opens a stream.
Open(b) ==
    /\ phase = "routing" /\ b \notin excluded
    /\ phase' = "opening"
    /\ backend' = b
    /\ passed' = <<>> /\ status' = "open"
    /\ UNCHANGED <<wantsUsage, excluded, sent, outcome, records>>

\* select finds nothing: all are given up on, unhealthy, broken or saturated.
Refuse ==
    /\ phase = "routing"
    /\ phase' = "refused"
    /\ UNCHANGED <<wantsUsage, excluded, backend, passed, status, sent, outcome, records>>

\* prepare_stream has its first chunk, makes _stream and pulls the role chunk.
FirstChunk(c) ==
    /\ phase = "opening" /\ MaxChunks > 0
    /\ Upstream!Yield(c)
    /\ phase' = "offered"
    /\ sent' = <<Role>>
    /\ UNCHANGED <<wantsUsage, excluded, backend, outcome, records>>

\* BackendUnavailable or StopAsyncIteration instead of a first chunk.
FailsToOpen ==
    /\ phase = "opening" /\ (Upstream!Raise \/ Upstream!Return)
    /\ phase' = "routing"
    /\ excluded' = excluded \union {backend}
    /\ records' = Record("error")
    /\ UNCHANGED <<wantsUsage, backend, sent, outcome>>

\* The client takes what was yielded and asks for more: the chunk _stream holds
\* goes out, or it awaits the next.
Resume ==
    /\ phase = "offered"
    /\ IF HoldsFirst /\ GoesOut(passed[1])
       THEN sent' = Append(sent, Data(passed[1], 1)) /\ UNCHANGED phase
       ELSE phase' = "relaying" /\ UNCHANGED sent
    /\ UNCHANGED <<wantsUsage, excluded, backend, passed, status, outcome, records>>

NextChunk(c) ==
    /\ phase = "relaying" /\ Len(passed) < MaxChunks
    /\ Upstream!Yield(c)
    /\ IF GoesOut(c)
       THEN phase' = "offered" /\ sent' = Append(sent, Data(c, Len(passed) + 1))
       ELSE UNCHANGED <<phase, sent>>
    /\ UNCHANGED <<wantsUsage, excluded, backend, outcome, records>>

\* The adapter's generator returns, and _stream sends [DONE].
Completes ==
    /\ phase = "relaying" /\ Upstream!Return
    /\ phase' = "closing"
    /\ sent' = Append(sent, Done)
    /\ outcome' = "success"
    /\ UNCHANGED <<wantsUsage, excluded, backend, records>>

\* A fault of Breaks: prepare_stream's loop is entered again in midstream.
BreaksAndRetries ==
    /\ phase = "relaying" /\ Upstream!Raise
    /\ phase' = "routing"
    /\ excluded' = excluded \union {backend}
    /\ records' = Record("error")
    /\ UNCHANGED <<wantsUsage, backend, sent, outcome>>

\* BackendUnavailable in midstream: the client gets an error event.
Breaks ==
    /\ phase = "relaying" /\ Upstream!Raise
    /\ phase' = "closing"
    /\ sent' = Append(sent, Error)
    /\ outcome' = "error"
    /\ UNCHANGED <<wantsUsage, excluded, backend, records>>

\* The client leaves during prepare_stream, or an exception that says nothing of
\* the backend passes through.
CancelledOpening ==
    /\ phase = "opening" /\ Upstream!Close
    /\ phase' = "ended"
    /\ records' = Record("cancelled")
    /\ UNCHANGED <<wantsUsage, excluded, backend, sent, outcome>>

\* The same while _stream awaits a chunk: the adapter's generator is thrown out of.
CancelledRelaying ==
    /\ phase = "relaying" /\ Upstream!Close
    /\ phase' = "closing"
    /\ UNCHANGED <<wantsUsage, excluded, backend, sent, outcome, records>>

\* A fault of ClosedAtYield: the role chunk was not pulled in prepare_stream, and
\* aclose of a generator that was never started runs none of its code.
ClosedUnstarted ==
    /\ phase = "offered"
    /\ phase' = IF HoldsFirst THEN "ended" ELSE "closing"
    /\ UNCHANGED <<wantsUsage, excluded, backend, passed, status, sent, outcome, records>>

\* The client leaves at a yield: _stream is closed where it stands.  An error
\* while upstream is closed in turn changes nothing of what follows, unless it
\* is BackendUnavailable (CloseFails).
ClosedAtYield ==
    /\ phase = "offered"
    /\ phase' = "closing"
    /\ UNCHANGED <<wantsUsage, excluded, backend, passed, status, sent, outcome, records>>

\* A fault of UpstreamCloses: the last aclose is not shielded.
UpstreamClosesUnshielded ==
    /\ phase = "closing" /\ Upstream!Close
    /\ UNCHANGED <<wantsUsage, phase, excluded, backend, sent, outcome, records>>

\* upstream.aclose() comes to its end, in the block of _stream or in the task
\* that shields it, which may outlive _stream.
UpstreamCloses ==
    /\ phase \in {"closing", "ended"} /\ Upstream!Close
    /\ UNCHANGED <<wantsUsage, phase, excluded, backend, sent, outcome, records>>

\* The finally block records the attempt, once upstream is closed; a second
\* cancellation ends the shielded wait before that.
Records ==
    /\ phase = "closing" /\ (status # "open" \/ sent = <<Role>>)
    /\ phase' = "ended"
    /\ records' = Record(outcome)
    /\ UNCHANGED <<wantsUsage, excluded, backend, passed, status, sent, outcome>>

Next ==
    \/ \E b \in Backends : Open(b)
    \/ Refuse
    \/ \E c \in Upstream!Chunk : FirstChunk(c) \/ NextChunk(c)
    \/ FailsToOpen \/ Resume \/ Completes \/ Breaks
    \/ CancelledOpening \/ CancelledRelaying \/ ClosedAtYield
    \/ UpstreamCloses \/ Records

Spec == Init /\ [][Next]_vars

\* The response fails as it is closed under a client that leaves at a chunk.  The
\* adapter turns that into BackendUnavailable, on which _stream yields the error
\* event; but a generator that yields while it is closed is given up by Python
\* (RuntimeError), and its finally block never runs.
CloseFails ==
    /\ phase = "offered" /\ ~HoldsFirst
    /\ Upstream!Raise
    /\ phase' = "dropped"
    /\ outcome' = "error"
    /\ UNCHANGED <<wantsUsage, excluded, backend, sent, records>>

\* Spec takes it that closing a response does not fail; here it may.
CloseMayFailSpec == Init /\ [][Next \/ CloseFails]_vars

\* The event loop runs the tasks that close upstream and unwind _stream.
FairSpec == Spec /\ WF_vars(UpstreamCloses) /\ WF_vars(Records)

----------------------------------------------------------------------------
Event == {Role, Done, Error} \union
    [kind : {"data"}, from : Backends, place : 1..MaxChunks, usage : BOOLEAN]

TypeOK ==
    /\ wantsUsage \in BOOLEAN
    /\ phase \in Phases
    /\ excluded \in SUBSET Backends
    /\ backend \in Backends \union {NoBackend}
    /\ passed \in Seq(Upstream!Chunk) /\ Len(passed) <= MaxChunks
    /\ status \in Upstream!Statuses
    /\ sent \in Seq(Event) /\ Len(sent) <= MaxChunks + 2
    /\ outcome \in {"success", "error", "cancelled"}
    /\ records \in Seq([backend : Backends, outcome : {"success", "error", "cancelled"}])

\* A client must get every chunk with content or a finish reason, and those with
\* usage if they have choices or the client asked for usage.
Due(c) == c.content \/ c.finish \/ (c.usage /\ (c.choices \/ wantsUsage))

\* What it must get of these chunks, in the order upstream sent them.
DueEvents(chunks) ==
    LET places == 1..Len(chunks)
        relayed == Kept([i \in places |-> i], {i \in places : Due(chunks[i])})
    IN  [k \in 1..Len(relayed) |-> Data(chunks[relayed[k]], relayed[k])]

\* What it must have got of the chunks so far.
Expected == <<Role>> \o DueEvents(passed)

\* The client's stream is upstream's, in order and without gaps, duplicates or
\* another backend's text, whenever it broke off; then at most one more event.
\* All that can be missing is the first chunk, if the client left with the role.
FaithfulRelay == sent # <<>> =>
    \/ sent = Expected \o CASE outcome = "success" -> <<Done>>
                            [] outcome = "error" -> <<Error>>
                            [] outcome = "cancelled" -> <<>>
    \/ sent = <<Role>> /\ Len(passed) = 1 /\ outcome = "cancelled" /\ phase # "relaying"

\* [DONE] reaches the client only after a finish reason did, and only if the
\* adapter came to the end of its stream.
NoFalseDone == IsSent("done") =>
    /\ status = "returned"
    /\ \E i \in 1..Len(sent) : sent[i].kind = "data" /\ passed[sent[i].place].finish

\* What the router is told: each attempt is recorded, once, by the time it is
\* given up on or the stream is over; as "success" if the client got [DONE], as
\* "error" if the backend failed, as "cancelled" if the client saw no end of it.
RecordedAsSeen ==
    LET told == 1..Len(records)
        last == IF phase = "ended" THEN {backend} ELSE {}
    IN  /\ {records[i].backend : i \in told} = excluded \union last
        /\ Len(records) = Cardinality(excluded) + Cardinality(last)
        /\ \A i \in told : IF records[i].backend \in excluded
              THEN records[i].outcome = "error"
              ELSE /\ records[i].outcome = "success" <=> IsSent("done")
                   /\ records[i].outcome = "error" <=> IsSent("error")

\* From the first event on, the backend is settled: its failure is told to the
\* client and not repaired.
NoSwitchAfterOutput ==
    [][sent # <<>> => UNCHANGED backend /\ phase' \notin {"routing", "opening", "refused"}]_vars

\* However a stream ends, its upstream connection is given up ("HTTP connection
\* cleanup on client disconnect", README.md), also if a second cancellation
\* strikes while _stream closes it.
UpstreamIsReleased == phase \in {"closing", "ended"} ~> phase = "ended" /\ status # "open"

\* "Alternate backend attempts before streamed content begins" (README.md): a
\* client gets the error event only in a stream that had content or a finish
\* reason, or when every backend has been tried.  The code settles on a backend
\* at the first chunk with usage, too.
ErrorsFollowContent == IsSent("error") =>
    \/ \E i \in 1..Len(passed) : passed[i].content \/ passed[i].finish
    \/ excluded \union {backend} = Backends

\* test_disconnect_releases_backend_and_gateway_admission (tests/test_reliability.py)
\* expects the backend's load to be 0 once the client is gone: the attempt of a
\* response that is over has been recorded.
LeftIsRecorded == phase \in {"ended", "dropped"} =>
    backend \in {records[i].backend : i \in 1..Len(records)}
=============================================================================
