---------------------------- MODULE HTTPBackend ----------------------------
(***************************************************************************)
(* One call of the adapter of backends/http.py: `stream`, which reads the  *)
(* lines of a server-sent event stream and yields chunks, or one of the    *)
(* unary calls `complete` and `embed`.                                     *)
(*                                                                         *)
(* A line is the text of a data line, "" for a blank line or "other" for   *)
(* any line that is neither (a comment, an event name).  "{" and "}" are   *)
(* the two halves of one chunk with content, sent as two data lines, and   *)
(* "empty" is a data line with nothing in it.  Of a unary reply the JSON   *)
(* numbers that are converted are kept by kind, and an item of a list of   *)
(* embeddings by its index, which is also the place of the text that it is *)
(* the vector of.                                                          *)
(***************************************************************************)
EXTENDS SequencesExt, Filters

CONSTANTS
    MaxLines,  \* bound: lines upstream sends in a stream
    MaxTexts   \* bound: texts of one embedding call

ASSUME BackendAssumption == MaxLines \in Nat /\ MaxTexts \in Nat

VARIABLES
    call,      \* the operation, and the number of texts it embeds
    lines,     \* every line of the stream read so far
    data,      \* `data`: the data lines of the event that is still open
    finished,  \* `finished`: a finish reason was seen
    passed,    \* the chunks yielded
    reply,     \* the body that answers a unary call
    vectors,   \* what embed returns
    status     \* as in AdapterStream, or "escaped": an exception of another kind

streamVars == <<lines, data, finished, passed>>
unaryVars == <<reply, vectors>>
vars == <<call, streamVars, unaryVars, status>>

\* To service.py an exception that is not BackendUnavailable is a cancellation.
Promise == INSTANCE AdapterStream WITH
    status <- IF status = "escaped" THEN "closed" ELSE status

\* The payloads that decode to a chunk of the right shape.
Payloads == {<<"role">>, <<"content">>, <<"{", "}">>, <<"finish">>, <<"usage">>}

ChunkOf == [p \in Payloads |->
    [choices |-> p # <<"usage">>, content |-> p \in {<<"content">>, <<"{", "}">>},
     finish |-> p = <<"finish">>, usage |-> p = <<"usage">>]]

DoneMark == <<"[DONE]">>

Texts == {"role", "content", "finish", "usage", "[DONE]", "{", "}", "empty"}

\* json.loads of the joined data lines: the line breaks between them are white
\* space, so that empty ones leave no trace.
Json(event) == Kept(event, Texts \ {"empty"})

----------------------------------------------------------------------------
NoReply == [shaped |-> FALSE]

Init ==
    /\ \/ call \in [op : {"stream", "complete"}, texts : {0}]
       \/ call \in [op : {"embed"}, texts : 1..MaxTexts]
    /\ lines = <<>> /\ data = <<>>
    /\ finished = FALSE
    /\ passed = <<>>
    /\ reply = NoReply /\ vectors = <<>>
    /\ status = "open"

Reads(line) ==
    /\ call.op = "stream" /\ status = "open" /\ Len(lines) < MaxLines
    /\ lines' = Append(lines, line)
    /\ UNCHANGED <<call, unaryVars>>

DataLine(text) ==
    /\ Reads(text)
    /\ data' = Append(data, text)
    /\ UNCHANGED <<finished, passed, status>>

\* Neither data nor blank, or blank with no event open.
IgnoredLine ==
    /\ Reads("other") \/ (Reads("") /\ data = <<>>)
    /\ UNCHANGED <<data, finished, passed, status>>

\* A fault of EventEnds: data.clear() is forgotten.
EventEndsUncleared == Reads("") /\ data # <<>> /\ UNCHANGED data

\* A blank line dispatches the data lines before it.
EventEnds == Reads("") /\ data # <<>> /\ data' = <<>>

\* A fault of DoneArrives: [DONE] is believed without a finish reason.
DoneBelieved ==
    /\ EventEnds /\ data = DoneMark
    /\ status' = "returned"
    /\ UNCHANGED <<finished, passed>>

DoneArrives ==
    /\ EventEnds /\ data = DoneMark
    /\ status' = IF finished THEN "returned" ELSE "raised"
    /\ UNCHANGED <<finished, passed>>

\* No JSON, an error, or choices of the wrong shape.
BadEvent ==
    /\ EventEnds /\ data # DoneMark /\ Json(data) \notin Payloads
    /\ status' = "raised"
    /\ UNCHANGED <<finished, passed>>

ChunkArrives ==
    /\ EventEnds /\ Json(data) \in Payloads
    /\ LET chunk == ChunkOf[Json(data)]
       IN  /\ finished' = (finished \/ chunk.finish)
           /\ passed' = IF Promise!PassedOn(chunk) THEN Append(passed, chunk) ELSE passed
    /\ UNCHANGED status

\* A fault of Fails: a response that ends after a finish reason is complete.
FailsUnlessFinished ==
    /\ status = "open"
    /\ status' = IF finished THEN "returned" ELSE "raised"
    /\ UNCHANGED <<call, streamVars, unaryVars>>

\* The response ends before [DONE], has an error status, breaks off or times out.
Fails ==
    /\ status = "open"
    /\ status' = "raised"
    /\ UNCHANGED <<call, streamVars, unaryVars>>

\* The consumer closes the generator, or the caller is cancelled.
Closed ==
    /\ status = "open"
    /\ status' = "closed"
    /\ UNCHANGED <<call, streamVars, unaryVars>>

----------------------------------------------------------------------------
\* What int() or float() makes of a JSON value.  OverflowError, which int raises on
\* infinity (1e999 decodes to it) and float on an integer of 400 digits, is not
\* among the exceptions that the adapter catches.
Number == {"count", "negative", "overflows", "notANumber"}

\* How a call ends whose reply has its numbers converted one after the other.
Converted(numbers, bad) ==
    LET failing == SelectSeq(numbers, LAMBDA n : n \in bad)
    IN  IF failing = <<>> THEN "returned"
        ELSE IF Head(failing) = "overflows" THEN "escaped" ELSE "raised"

Replies(op, body) ==
    /\ call.op = op /\ status = "open"
    /\ reply' = body
    /\ UNCHANGED <<call, streamVars>>

\* complete: the shape is checked first, then prompt tokens, then completion tokens.
Completes(body) ==
    /\ Replies("complete", body)
    /\ status' = IF ~body.shaped THEN "raised"
                 ELSE Converted(<<body.prompt, body.completion>>, Number \ {"count"})
    /\ UNCHANGED vectors

\* A fault of Ordered: the items are taken as they come.
OrderedAsSent(items) == items

\* sorted(body["data"], key=index)
Ordered(items) ==
    LET place == CHOOSE p \in Bijection(DOMAIN items, DOMAIN items) :
                    \A i, j \in DOMAIN items : i < j => items[p[i]] <= items[p[j]]
    IN  [i \in DOMAIN items |-> items[place[i]]]

\* embed: the vectors by index, if there are as many as texts.  Their values are
\* converted, then the count of prompt tokens, which is not looked at.  Of all
\* the values the first that fails is kept.
Embeds(body) ==
    /\ Replies("embed", body)
    /\ status' = IF ~body.shaped \/ Len(body.items) # call.texts THEN "raised"
                 ELSE Converted(<<body.value, body.prompt>>, {"overflows", "notANumber"})
    /\ vectors' = IF status' = "returned" THEN Ordered(body.items) ELSE vectors

Items == UNION {[1..n -> 1..call.texts] : n \in 0..MaxTexts + 1}

Next ==
    \/ \E text \in Texts : DataLine(text)
    \/ IgnoredLine \/ DoneArrives \/ BadEvent \/ ChunkArrives
    \/ Fails \/ Closed
    \/ \E shaped \in BOOLEAN, prompt, completion \in Number :
          Completes([shaped |-> shaped, prompt |-> prompt, completion |-> completion])
    \/ \E shaped \in BOOLEAN, prompt, value \in Number, items \in Items :
          Embeds([shaped |-> shaped, prompt |-> prompt, value |-> value, items |-> items])

Spec == Init /\ [][Next]_vars

----------------------------------------------------------------------------
\* What the lines mean, read all at once: the data lines between one blank line
\* and the next are an event, if there are any; those after the last are none.
Blanks(log) == Kept([i \in 1..Len(log) |-> i], {i \in 1..Len(log) : log[i] = ""})

DataIn(log, first, last) == Kept(SubSeq(log, first, last), Texts)

Dispatched(log) ==
    LET Start(k) == IF k = 1 THEN 1 ELSE Blanks(log)[k - 1] + 1
    IN  [k \in 1..Len(Blanks(log)) |-> DataIn(log, Start(k), Blanks(log)[k] - 1)]

EventsIn(log) == Kept(Dispatched(log), Seq(Texts) \ {<<>>})

Events == EventsIn(lines)

Decoded(events) == [k \in 1..Len(events) |-> Json(events[k])]

\* The chunks that events carry, those of them that are worth passing on.
ChunksIn(events) ==
    LET chunks == Kept(Decoded(events), Payloads)
    IN  Kept([k \in 1..Len(chunks) |-> ChunkOf[chunks[k]]],
             {c \in Promise!Chunk : Promise!PassedOn(c)})

\* However upstream cuts its events into lines, and wherever it breaks off, the
\* reader yields the chunks of whole events that are worth passing on, each once
\* and in order: lines of two events are never joined, and an event that was cut
\* off is never dispatched.
PassesOnWholeEvents == passed = ChunksIn(Events)

\* The reader takes a stream for complete only at upstream's own [DONE], and
\* reads on only while every event so far was a chunk.
EndsWhereUpstreamEnds ==
    /\ call.op = "stream" /\ status = "returned" => Events # <<>> /\ Last(Events) = DoneMark
    /\ status = "open" => \A k \in 1..Len(Events) : Json(Events[k]) \in Payloads

\* The adapter keeps the promise that service.py relies on.
AdapterSpec == Promise!Spec

\* However upstream orders its list of embeddings, each text gets its own vector,
\* and a list with one lost or one too many is refused.  Upstream is trusted not
\* to give two items the same index.
VectorsInInputOrder ==
    call.op = "embed" /\ status = "returned" /\ IsInjective(reply.items)
        => vectors = [i \in 1..call.texts |-> i]

\* test_malformed_upstream_completion_is_sanitized (tests/test_http_backend.py): a
\* malformed completion is BackendUnavailable, on which the service fails over
\* and the router counts a failure.  A count that overflows is neither.
MalformedIsUnavailable ==
    call.op = "complete" /\ reply # NoReply
        /\ (~reply.shaped \/ {reply.prompt, reply.completion} # {"count"})
            => status = "raised"
=============================================================================
