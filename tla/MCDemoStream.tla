---------------------------- MODULE MCDemoStream ---------------------------
(***************************************************************************)
(* A small instance of DemoStream: the twelve words of the sentence, an    *)
(* answer that is cut in the sentence, in the preview, or not at all.      *)
(***************************************************************************)
EXTENDS DemoStream
============================================================================
