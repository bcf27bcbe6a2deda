--------------------------- MODULE MCCursorStore ----------------------------
(***************************************************************************)
(* TLC instance of CursorStore.                                            *)
(***************************************************************************)
EXTENDS CursorStore

=============================================================================
