---------------------------- MODULE MCTokenCache ----------------------------
(***************************************************************************)
(* TLC instances of TokenCache: threads are interchangeable.               *)
(***************************************************************************)
EXTENDS TokenCache, TLC

Symmetry == Permutations(Callers)
=============================================================================
