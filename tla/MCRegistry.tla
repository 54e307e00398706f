----------------------------- MODULE MCRegistry -----------------------------
(***************************************************************************)
(* A small instance of Registry: up to two backends of two names and two   *)
(* models, which may serve the same model, or different tasks of one.      *)
(***************************************************************************)
EXTENDS Registry

CONSTANTS n1, n2, m1, m2
============================================================================
