---------------------------- MODULE MCQueryExec -----------------------------
(***************************************************************************)
(* TLC instance of QueryExec.                                              *)
(***************************************************************************)
EXTENDS QueryExec

=============================================================================
