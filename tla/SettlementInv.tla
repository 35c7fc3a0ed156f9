---------------------------- MODULE SettlementInv ----------------------------
(***************************************************************************)
(* The inductive invariants behind the theorems of SettlementProofs.       *)
(***************************************************************************)
EXTENDS Settlement

\* What a live call, and a recovery loop with an item in hand, have at hand.
CallShape ==
  \A r \in Calls :
    /\ Live(r) => /\ call[r].pay \in Payments /\ call[r].print \in Prints
                  /\ call[r].actual \in Amounts /\ call[r].who \in Principals
                  /\ call[r].worker \in Workers
    /\ call[r].pc \in {"prepare", "store", "release"} => call[r].lease # None
    /\ At(r, "reload") => rec[call[r].pay].tx # None
    /\ call[r].pc \in {"send", "mark", "poll", "giveup"} => call[r].tx # None

SweepShape ==
  \A w \in Workers : sweep[w].pc \in {"horizon", "expiry"} => sweep[w].item # None

\* A fencing token is granted once: no two calls have the same lease, and no
\* envelope is there before its lease is used.
LeasesUnique ==
  /\ \A r \in Calls : call[r].lease # None => call[r].lease[2] <= ch[call[r].lease[1]].token
  /\ \A r, q \in Calls : call[r].lease # None /\ call[r].lease = call[q].lease => r = q
  /\ \A h \in Hashes : Built(h) => h[2] <= ch[h[1]].token
  /\ \A r \in Calls : At(r, "prepare") => ~Built(call[r].lease)

EnvelopeOf(h, p) == Built(h) /\ tx[h].pay = p

\* Whoever refers to an envelope refers to one of the payment it works for.
ReferencesMatch ==
  /\ \A p \in Payments : rec[p].tx # None => EnvelopeOf(rec[p].tx, p)
  /\ \A r \in Calls : call[r].tx # None => EnvelopeOf(call[r].tx, call[r].pay)
  /\ \A r \in Calls : At(r, "store") => EnvelopeOf(call[r].lease, call[r].pay)
  /\ \A w \in Workers :
       /\ \A i \in sweep[w].todo : EnvelopeOf(i.tx, i.pay)
       /\ sweep[w].item # None => EnvelopeOf(sweep[w].item.tx, sweep[w].item.pay)

\* Holds in every environment.
Inv == TypeOK /\ CallShape /\ SweepShape /\ LeasesUnique /\ ReferencesMatch /\ TruthfulSuccess

-----------------------------------------------------------------------------
(* One owner per record: what holds as long as a payment's calls at one      *)
(* replica do not overlap and owners store their envelope within the lease.  *)

OneOwner == "duplicate" \notin Hazards /\ "slow" \notin Hazards

OneCallEach ==
  \A r, q \in Calls :
    /\ Live(r) /\ Live(q)
    /\ call[r].pay = call[q].pay /\ call[r].worker = call[q].worker
    => r = q

OwnedBy(p, w) ==
  /\ rec[p].status = "preparing" /\ rec[p].alive /\ rec[p].worker = w
  /\ rec[p].print # None /\ rec[p].tx = None /\ rec[p].response = None

RecordsOwned == \A r \in Calls : Owning(r) => OwnedBy(call[r].pay, call[r].worker)

Early == {"claim", "wait", "lease", "prepare", "store", "release", "reload"}

\* Whoever has a hash in hand has the one that the record holds.
HashesHeld ==
  /\ \A r \in Calls : call[r].pc \in Early => call[r].tx = None
  /\ \A r \in Calls : call[r].tx # None => rec[call[r].pay].tx = call[r].tx
  /\ \A w \in Workers :
       /\ \A i \in sweep[w].todo : rec[i.pay].tx = i.tx
       /\ sweep[w].item # None => rec[sweep[w].item.pay].tx = sweep[w].item.tx

\* The call that stored an envelope has not submitted it yet, or was refused.
Sending(r) == call[r].pc \in {"reload", "send"} \/ (At(r, "fail") /\ call[r].tx # None)

OneSender ==
  /\ \A r \in Calls : Sending(r) => tx[rec[call[r].pay].tx].state = "held"
  /\ \A r, q \in Calls : Sending(r) /\ Sending(q) /\ call[r].pay = call[q].pay => r = q

\* A channel is quarantined for the one undecided record that names it.
Quarantined ==
  /\ \A c \in Channels : ch[c].status = "unresolved" <=> ch[c].rec # None
  /\ QuarantineEnds
  /\ \A p \in Payments :
       rec[p].tx # None /\ rec[p].response = None => ch[rec[p].tx[1]].rec = p

\* Sequence numbers on ledgers are behind the channel's, and recorded as they are.
Sequenced ==
  /\ SequenceConfirmed
  /\ \A h \in Hashes : Final(h) => tx[h].seq <= ledSeq[h[1]]
  /\ \A p \in Payments : rec[p].tx # None => rec[p].seq = tx[rec[p].tx].seq

OwnerInv ==
  /\ Inv /\ OneCallEach /\ RecordsOwned /\ HashesHeld /\ OneSender /\ Anchored
  /\ Quarantined /\ Sequenced

\* The envelope of an answered payment is on a ledger, or no ledger can apply it any
\* more, or nobody will submit it.
Over(p, h) ==
  \/ Final(h) \/ tx[h].late
  \/ tx[h].state = "held" /\ \A r \in Calls : Sending(r) => call[r].pay # p

AnsweredIsOver ==
  \A p \in Payments : rec[p].response # None /\ rec[p].tx # None => Over(p, rec[p].tx)

OverInv == OwnerInv /\ AnsweredIsOver

\* With no ledger between its two reads, recovery gives up what no ledger has.
Watched == \A w \in Workers : sweep[w].pc = "expiry" => ~Final(sweep[w].item.tx)

FailedNotPaid ==
  \A p \in Payments :
    rec[p].response = "failed" /\ rec[p].tx # None => tx[rec[p].tx].state # "SUCCESS"

DecisionInv == OverInv /\ Watched /\ FailedNotPaid

-----------------------------------------------------------------------------
(* In every environment: amounts and budgets. *)

\* Owners build, and envelopes carry, the amount that the record was claimed with.
AmountsAgree ==
  /\ \A r \in Calls : call[r].pc \in {"lease", "prepare"} =>
       rec[call[r].pay].actual = call[r].actual
  /\ \A h \in Hashes : Built(h) => tx[h].actual = rec[tx[h].pay].actual

\* Rows are claimed before they hold an envelope, and a row with an envelope and no
\* response has one of the statuses by which recovery looks for it.
RowsListed ==
  \A p \in Payments :
    /\ rec[p].actual # None => rec[p].print # None
    /\ rec[p].tx # None /\ rec[p].response = None => p \in listUnresolved

\* The envelopes that somebody stored, as far as a ledger may still get to see them.
Charged ==
  {h \in Hashes : \/ Built(h) /\ tx[h].state # "held"
                  \/ \E p \in Payments : rec[p].tx = h
                  \/ \E r \in Calls : call[r].tx = h}

\* Each of them was charged to the budgets, which were not exceeded.
ChargedOnce ==
  /\ IsFiniteSet(Charged) /\ Cardinality(Charged) <= spent["global"]
  /\ spent["global"] <= GlobalLimit
  /\ \A who \in Principals : spent[who] <= ScopeLimit

=============================================================================
