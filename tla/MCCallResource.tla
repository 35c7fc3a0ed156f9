--------------------------- MODULE MCCallResource ---------------------------
(* Small instances of CallResource. *)
EXTENDS CallResourceInv, TLC

\* Agents and invocations are interchangeable.
Symmetry == Permutations(Agents) \cup Permutations(Identifiers)
=============================================================================
