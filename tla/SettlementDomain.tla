-------------------------- MODULE SettlementDomain --------------------------
(* The values that the settlement tables and the network share. *)
EXTENDS Naturals

CONSTANTS
  Payments,     \* idempotency keys in their scope: one record each
  Prints,       \* request fingerprints
  Amounts,      \* settlement amounts (actual_amount)
  Principals,   \* API keys or addresses that a sponsor budget is kept for
  Workers,      \* instance ids of the replicas
  Channels,     \* channel accounts of the network
  ScopeLimit,   \* maxSponsoredStroopsPerKeyPerDay, in envelopes
  GlobalLimit,  \* maxGlobalSponsoredStroopsPerDay, in envelopes
  MaxToken,     \* bound of the model: leases granted per channel
  None          \* SQL NULL, and undefined

\* A fencing token is granted once per channel, so <<channel, token>> names a
\* lease, and the envelope that was built under it.
Hashes == Channels \X (1 .. MaxToken)

ASSUME NoneAssumption ==
  /\ None \notin Payments
  /\ None \notin Prints
  /\ None \notin Amounts
  /\ None \notin Workers
  /\ None \notin Hashes
  /\ None \notin {"success", "failed"}
ASSUME BoundsAssumption ==
  MaxToken \in Nat /\ ScopeLimit \in Nat /\ GlobalLimit \in Nat
ASSUME PrincipalsAssumption == "global" \notin Principals
=============================================================================
