------------------------------ MODULE MCRouter ------------------------------
(***************************************************************************)
(* Small instances of Router: two backends, one with room for three attempts *)
(* and one for a single attempt.                                           *)
(***************************************************************************)
EXTENDS Router

CONSTANTS big, small, r1, r2, r3, r4

MCCapacity == [b \in Backends |-> IF b = big THEN 3 ELSE 1]
============================================================================
