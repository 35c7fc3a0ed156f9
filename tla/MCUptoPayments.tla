--------------------------- MODULE MCUptoPayments ---------------------------
(***************************************************************************)
(* Instances of UptoPayments for TLC.                                      *)
(***************************************************************************)
EXTENDS UptoPayments, TLC

CONSTANTS wallet, agent, merchant, contract, outside, policy, meddler, i1, i2

\* The contract was given a token by mistake; it must keep exactly that.
EndowmentDef == [h \in Holders |-> CASE h = contract -> 1 [] h \in Payers -> 2 [] OTHER -> 0]

LimitsDef == {2}
PeriodsDef == {2}

Offer(payer, payTo, max, id, hook, root, nested) ==
  [payer |-> payer, payTo |-> payTo, max |-> max, id |-> id, hook |-> hook, root |-> root,
   nested |-> nested]

\* A wallet pays itself without a hook, and another with a hook that meddles; an agent pays
\* with one identifier twice, and with another under its first budget or a later one.
OffersDef ==
  {Offer(wallet, wallet, 1, i1, None, 1, 1), Offer(wallet, merchant, 2, i1, meddler, 1, 1),
   Offer(agent, merchant, 1, i1, policy, 1, 2), Offer(agent, merchant, 2, i2, policy, 1, 2),
   Offer(agent, merchant, 2, i2, policy, 3, 4)}

Symmetry == Permutations(Signatures) \cup Permutations(Submissions)
=============================================================================
