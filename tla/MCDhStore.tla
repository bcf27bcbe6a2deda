----------------------------- MODULE MCDhStore ------------------------------
(***************************************************************************)
(* TLC instance of DhStore.                                                *)
(***************************************************************************)
EXTENDS DhStore

=============================================================================
