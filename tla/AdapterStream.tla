--------------------------- MODULE AdapterStream ---------------------------
(***************************************************************************)
(* What service.py may rely on in the `stream` of a backend adapter        *)
(* (backends/base.py): chunks that are worth passing on, and then one of   *)
(* three ends.  A stream that has yielded anything returns only after a    *)
(* finish reason; whatever else stops it is an exception.                  *)
(*                                                                         *)
(* A chunk is kept as what service.py tests in it: whether its list of     *)
(* choices is not empty, whether one of them has content or a finish       *)
(* reason, and whether it carries usage.                                   *)
(***************************************************************************)
EXTENDS Integers, Sequences

VARIABLES
    passed,  \* the chunks yielded, in order
    status   \* open, returned, raised, or closed by its consumer

Chunk == {c \in [choices : BOOLEAN, content : BOOLEAN, finish : BOOLEAN, usage : BOOLEAN] :
            c.content \/ c.finish => c.choices}

\* Role-only chunks stay behind, so that failover is still possible.
PassedOn(c) == c.content \/ c.finish \/ c.usage

Statuses == {"open", "returned", "raised", "closed"}

Init == passed = <<>> /\ status = "open"

Yield(c) ==
    /\ status = "open" /\ PassedOn(c)
    /\ passed' = Append(passed, c)
    /\ UNCHANGED status

\* The generator runs to its end: StopAsyncIteration for its consumer.
Return ==
    /\ status = "open"
    /\ passed = <<>> \/ \E i \in 1..Len(passed) : passed[i].finish
    /\ status' = "returned"
    /\ UNCHANGED passed

\* BackendUnavailable.
Raise ==
    /\ status = "open"
    /\ status' = "raised"
    /\ UNCHANGED passed

\* The consumer calls aclose, or is cancelled while it waits for a chunk.
Close ==
    /\ status = "open"
    /\ status' = "closed"
    /\ UNCHANGED passed

Next == (\E c \in Chunk : Yield(c)) \/ Return \/ Raise \/ Close

Spec == Init /\ [][Next]_<<passed, status>>
=============================================================================
