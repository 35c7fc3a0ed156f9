--------------------------- MODULE PaymentPromise ---------------------------
(***************************************************************************)
(* What a client may rely on, whatever replicas, leases and networks do:   *)
(* the facilitator promises one hash per payment, answers it at most once  *)
(* and for good, and the answer is what the ledger did: after "success"    *)
(* the payment has been made, after "failed" it has not and never will be. *)
(***************************************************************************)
CONSTANTS
  Payments,
  Envelopes,   \* hashes that can be promised
  None

VARIABLES
  promise,   \* the envelope that was made durable for a payment
  paid,      \* the payments a ledger has made
  answer     \* the facilitator's decision

promiseVars == <<promise, paid, answer>>

Init ==
  /\ promise = [p \in Payments |-> None]
  /\ paid = {}
  /\ answer = [p \in Payments |-> None]

Promise(p, h) ==
  /\ promise[p] = None /\ answer[p] = None
  /\ promise' = [promise EXCEPT ![p] = h]
  /\ UNCHANGED <<paid, answer>>

\* Only a promised envelope can pay, and only while nobody was told it failed.
Pay(p) ==
  /\ promise[p] # None /\ answer[p] = None /\ p \notin paid
  /\ paid' = paid \cup {p}
  /\ UNCHANGED <<promise, answer>>

Decide(p) ==
  /\ answer[p] = None
  /\ answer' = [answer EXCEPT ![p] = IF p \in paid THEN "success" ELSE "failed"]
  /\ UNCHANGED <<promise, paid>>

Next ==
  \/ \E p \in Payments, h \in Envelopes : Promise(p, h)
  \/ \E p \in Payments : Pay(p) \/ Decide(p)

Spec == Init /\ [][Next]_promiseVars
=============================================================================
