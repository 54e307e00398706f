--------------------------- MODULE MCStreamRelay ---------------------------
(***************************************************************************)
(* A small instance of StreamRelay: two backends, streams of up to three   *)
(* chunks, enough for content, a finish reason and a usage chunk in any    *)
(* order and any of them twice.                                            *)
(***************************************************************************)
EXTENDS StreamRelay

CONSTANTS b1, b2
============================================================================
