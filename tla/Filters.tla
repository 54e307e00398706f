------------------------------ MODULE Filters ------------------------------
(***************************************************************************)
(* The part of a sequence that lies in a set, in order.  It is SelectSeq   *)
(* of the standard modules, as a recursive function: SelectSeq is opaque   *)
(* to the provers.                                                         *)
(***************************************************************************)
EXTENDS Integers, Sequences

\* The elements of s that are in K, in the order of s.
Kept(s, K) ==
    LET kept[i \in 0..Len(s)] ==
            IF i = 0 THEN <<>>
            ELSE IF s[i] \in K THEN Append(kept[i - 1], s[i])
            ELSE kept[i - 1]
    IN  kept[Len(s)]
=============================================================================
