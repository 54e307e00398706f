---------------------------- MODULE DemoStream -----------------------------
(***************************************************************************)
(* The deterministic backend of backends/fake.py: `complete`, which cuts a *)
(* fixed sentence and a preview of the prompt to max_tokens words, and     *)
(* `stream`, which yields that completion word by word.  The names of the  *)
(* specification say whose it is, since its proofs stand beside those of   *)
(* HTTPBackend in one module.                                              *)
(***************************************************************************)
EXTENDS Integers, Sequences

CONSTANTS
    TemplateWords,  \* words of the sentence before the preview
    MaxPreview,     \* bound: words of the preview
    MaxTokens       \* bound: max_tokens of a request

ASSUME DemoAssumption == TemplateWords \in Nat \ {0} /\ MaxPreview \in Nat /\ MaxTokens \in Nat

VARIABLES
    request,  \* max_tokens, and the number of words in the full answer
    yielded,  \* the chunks yielded, as far as they differ
    progress  \* as status in AdapterStream

demoVars == <<request, yielded, progress>>

----------------------------------------------------------------------------
\* A fault of Limited: the limit counts from zero.
LimitedOffByOne == IF request.max_tokens < request.words
                   THEN request.max_tokens + 1 ELSE request.words

\* words[: request.max_tokens]
Limited == IF request.max_tokens < request.words THEN request.max_tokens ELSE request.words

Completion == [tokens |-> Limited,
               reason |-> IF Limited < request.words THEN "length" ELSE "stop"]

Word(i) == [kind |-> "content", word |-> i]
FinishChunk == [kind |-> "finish", reason |-> Completion.reason]
UsageChunk == [kind |-> "usage", completion_tokens |-> Completion.tokens]

\* max_tokens is at least 1 (domain.py).
DemoInit ==
    /\ request \in [max_tokens : 1..MaxTokens, words : TemplateWords..(TemplateWords + MaxPreview)]
    /\ yielded = <<>>
    /\ progress = "open"

Yields(chunk) ==
    /\ progress = "open"
    /\ yielded' = Append(yielded, chunk)
    /\ UNCHANGED <<request, progress>>

NextWord == Len(yielded) < Completion.tokens /\ Yields(Word(Len(yielded) + 1))

Finish == Len(yielded) = Completion.tokens /\ Yields(FinishChunk)

Usage == Len(yielded) = Completion.tokens + 1 /\ Yields(UsageChunk)

\* A fault of Returns: the generator ends with the text.
ReturnsEarly ==
    /\ progress = "open" /\ Len(yielded) >= Completion.tokens
    /\ progress' = "returned"
    /\ UNCHANGED <<request, yielded>>

Returns ==
    /\ progress = "open" /\ Len(yielded) = Completion.tokens + 2
    /\ progress' = "returned"
    /\ UNCHANGED <<request, yielded>>

\* The consumer closes the generator at a yield, or is cancelled in the delay.
Abandoned ==
    /\ progress = "open"
    /\ progress' = "closed"
    /\ UNCHANGED <<request, yielded>>

DemoNext == NextWord \/ Finish \/ Usage \/ Returns \/ Abandoned

DemoSpec == DemoInit /\ [][DemoNext]_demoVars

----------------------------------------------------------------------------
\* A stream that ran to its end was billed as it was sent: as many completion
\* tokens as chunks with content, no more than max_tokens, and "length" as its
\* finish reason exactly if the answer was cut.
BilledAsSent == progress = "returned" =>
    LET content == {i \in 1..Len(yielded) : yielded[i].kind = "content"}
        last == Len(yielded)
    IN  /\ yielded[last].kind = "usage" /\ yielded[last - 1].kind = "finish"
        /\ content = 1..yielded[last].completion_tokens
        /\ yielded[last].completion_tokens <= request.max_tokens
        /\ yielded[last - 1].reason = "length" <=> \E w \in 1..request.words : w \notin content

\* What service.py sees of a chunk.
AsPassed(chunk) == [choices |-> chunk.kind # "usage", content |-> chunk.kind = "content",
                    finish |-> chunk.kind = "finish", usage |-> chunk.kind = "usage"]

\* The demo backend is an adapter stream: the same words, seen as chunks.
DemoPromise == INSTANCE AdapterStream WITH
    status <- progress,
    passed <- [i \in 1..Len(yielded) |-> AsPassed(yielded[i])]

DemoAdapterSpec == DemoPromise!Spec
=============================================================================
