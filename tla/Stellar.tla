------------------------------- MODULE Stellar -------------------------------
(***************************************************************************)
(* The Stellar network as the facilitator uses it through RPC and Horizon  *)
(* (external code): envelopes that consume the next sequence number of     *)
(* their channel account, a transaction queue, and ledgers.  An envelope   *)
(* is applied at most once, in sequence, before its maximum time; a        *)
(* payer's authorization nonce lets at most one envelope of a payment      *)
(* succeed.  Included envelopes have final status SUCCESS or FAILED.       *)
(***************************************************************************)
EXTENDS SettlementDomain

VARIABLES
  tx,      \* the envelope of each hash, None while it is not built
  ledSeq   \* sequence number of each channel account on the ledger

netVars == <<tx, ledSeq>>

\* state "held": signed, not in the network's queue.  late: a ledger closed
\* after the envelope's maximum time.
Envelope == [pay: Payments, actual: Amounts, seq: Nat,
             state: {"held", "sent", "SUCCESS", "FAILED"}, late: BOOLEAN]

ASSUME EnvelopeAssumption == None \notin Envelope

StellarInit ==
  /\ tx = [h \in Hashes |-> None]
  /\ ledSeq = [c \in Channels |-> 0]

Built(h) == tx[h] # None
Final(h) == Built(h) /\ tx[h].state \in {"SUCCESS", "FAILED"}
Paid(p) == \E h \in Hashes : Built(h) /\ tx[h].pay = p /\ tx[h].state = "SUCCESS"

\* The queue or a ledger may still make the envelope's payment happen.
Applicable(h) ==
  /\ Built(h) /\ ~tx[h].late
  /\ tx[h].seq = ledSeq[h[1]] + 1

Build(h, p, actual, seq) ==
  /\ tx' = [tx EXCEPT ![h] = [pay |-> p, actual |-> actual, seq |-> seq,
                              state |-> "held", late |-> FALSE]]
  /\ UNCHANGED ledSeq

\* sendTransaction answers PENDING, or DUPLICATE for an envelope already queued.
Accept(h) ==
  /\ Built(h)
  /\ \/ tx[h].state = "held" /\ Applicable(h)
     \/ tx[h].state = "sent"
  /\ tx' = [tx EXCEPT ![h].state = "sent"]
  /\ UNCHANGED ledSeq

Apply(h) ==
  /\ Applicable(h) /\ tx[h].state = "sent"
  /\ \E s \in {"SUCCESS", "FAILED"} :
       /\ s = "SUCCESS" => ~Paid(tx[h].pay)
       /\ tx' = [tx EXCEPT ![h].state = s]
  /\ ledSeq' = [ledSeq EXCEPT ![h[1]] = @ + 1]

PassMaximumTime(h) ==
  /\ Built(h) /\ ~tx[h].late
  /\ tx' = [tx EXCEPT ![h].late = TRUE]
  /\ UNCHANGED ledSeq

StellarTypeOK ==
  /\ tx \in [Hashes -> Envelope \cup {None}]
  /\ ledSeq \in [Channels -> Nat]
=============================================================================
