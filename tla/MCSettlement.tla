---------------------------- MODULE MCSettlement ----------------------------
(* Small instances of Settlement. *)
EXTENDS SettlementInv, TLC

\* Calls, replicas, fingerprints and amounts are interchangeable each among themselves.
Symmetry ==
  Permutations(Calls) \cup Permutations(Workers) \cup Permutations(Prints)
    \cup Permutations(Amounts)
=============================================================================
