--------------------------- MODULE MCHandleSession ---------------------------
(***************************************************************************)
(* TLC instance of HandleSession: three shapes of a dataset, of which one  *)
(* is inline, one is above the inline threshold and one above a page.      *)
(***************************************************************************)
EXTENDS HandleSession

MCShapes == {[rows |-> 1, bytes |-> 1], [rows |-> 2, bytes |-> 1], [rows |-> 3, bytes |-> 3]}

=============================================================================
