----------------------------- MODULE MCService -----------------------------
(***************************************************************************)
(* A small instance of Service: two backends, one of them full with one    *)
(* attempt, a streamed and a plain chat request that either may serve, and *)
(* a readiness probe, which routes nothing.                                *)
(***************************************************************************)
EXTENDS Service, TLC

CONSTANTS big, small, chat, stream, ready

MCCapacity == [b \in Backends |-> IF b = big THEN 2 ELSE 1]

MCServes == [r \in Requests |-> IF r = ready THEN {} ELSE Backends]
============================================================================
