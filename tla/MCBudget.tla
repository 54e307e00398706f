----------------------------- MODULE MCBudget ------------------------------
(***************************************************************************)
(* A small instance of Budget: a window of three ticks, so that a          *)
(* reservation is new, aging and about to expire; three requests, and      *)
(* tokens for fewer than three of the larger amount.  An embedding         *)
(* reserves 0 tokens, and 5 is more than the budget can ever grant.        *)
(***************************************************************************)
EXTENDS Budget

CONSTANTS tenantA, tenantB
============================================================================
