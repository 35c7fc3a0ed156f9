----------------------------- MODULE MCCatalog -----------------------------
(***************************************************************************)
(* Instances of Catalog for TLC. Declarations, terms and keys are alike.   *)
(***************************************************************************)
EXTENDS Catalog, TLC

Symmetry == Permutations(Declarations) \cup Permutations(Terms) \cup Permutations(Keys)
=============================================================================
