---------------------------- MODULE MCTraceStore -----------------------------
(***************************************************************************)
(* TLC instances of TraceStore: writers are interchangeable.               *)
(***************************************************************************)
EXTENDS TraceStore, TLC

Symmetry == Permutations(Procs)
=============================================================================
