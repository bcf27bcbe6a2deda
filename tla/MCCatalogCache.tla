--------------------------- MODULE MCCatalogCache ---------------------------
(***************************************************************************)
(* TLC instance of CatalogCache.  Servers are interchangeable.             *)
(***************************************************************************)
EXTENDS CatalogCache, TLC

Symmetry == Permutations(Servers)
=============================================================================
