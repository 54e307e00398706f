---------------------------- MODULE MCHTTPBackend --------------------------
(***************************************************************************)
(* A small instance of HTTPBackend: six lines hold a chunk, a finish       *)
(* reason and [DONE] with their blank lines, or two events split over      *)
(* lines; three texts can be answered in six orders, with one vector       *)
(* missing, repeated or too many.                                          *)
(***************************************************************************)
EXTENDS HTTPBackend
============================================================================
