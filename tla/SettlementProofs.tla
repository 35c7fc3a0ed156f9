-------------------------- MODULE SettlementProofs --------------------------
(***************************************************************************)
(* Proofs about Settlement, for every value of its constants.              *)
(***************************************************************************)
EXTENDS SettlementInv, TLAPS

-----------------------------------------------------------------------------
(* Type correctness: the tables. *)

LEMMA ClaimTyped ==
  ASSUME StoreTypeOK, NEW p \in Payments, NEW print \in Prints, NEW actual \in Amounts,
         NEW w \in Workers, claimSettlement(p, print, actual, w)
  PROVE  StoreTypeOK'
<1>1. [rec[p] EXCEPT !.print = print, !.actual = actual, !.status = "preparing",
                    !.worker = w, !.alive = TRUE] \in RecordRow
  BY DEF StoreTypeOK, RecordRow, UndecidedStatus
<1>2. QED
  BY <1>1 DEF StoreTypeOK, claimSettlement

LEMMA RegisterTyped ==
  ASSUME StoreTypeOK, NEW p \in Payments, NEW print \in Prints, registerIdempotency(p, print)
  PROVE  StoreTypeOK'
<1>1. [rec[p] EXCEPT !.print = print, !.status = "verified"] \in RecordRow
  BY DEF StoreTypeOK, RecordRow
<1>2. QED
  BY <1>1 DEF StoreTypeOK, registerIdempotency

LEMMA MarkTyped ==
  ASSUME StoreTypeOK, NEW p \in Payments, markPending(p) \/ markUnknown(p)
  PROVE  StoreTypeOK'
<1>1. CASE markPending(p)
  <2>1. [rec[p] EXCEPT !.status = "pending"] \in RecordRow
    BY DEF StoreTypeOK, RecordRow, UndecidedStatus
  <2>2. QED
    BY <1>1, <2>1 DEF StoreTypeOK, markPending
<1>2. CASE markUnknown(p)
  <2>1. [rec[p] EXCEPT !.status = "unknown", !.worker = None, !.alive = FALSE] \in RecordRow
    BY DEF StoreTypeOK, RecordRow, UndecidedStatus
  <2>2. QED
    BY <1>2, <2>1 DEF StoreTypeOK, markUnknown
<1>3. QED
  BY <1>1, <1>2

LEMMA CompleteTyped ==
  ASSUME StoreTypeOK, NEW p \in Payments, NEW outcome \in {"success", "failed"},
         NEW applied \in BOOLEAN, complete(p, outcome, applied)
  PROVE  StoreTypeOK'
<1>1. [rec[p] EXCEPT !.status = outcome, !.response = outcome] \in RecordRow
  BY DEF StoreTypeOK, RecordRow, UndecidedStatus
<1>2. ASSUME NEW c \in Channels, NEW last \in Nat
      PROVE  [ch[c] EXCEPT !.status = "idle", !.alive = FALSE, !.rec = None, !.last = last]
               \in ChannelRow
  BY DEF StoreTypeOK, ChannelRow
<1>3. rec[p].seq \in Nat /\ \A c \in Channels : ch[c].last \in Nat
  BY DEF StoreTypeOK, RecordRow, ChannelRow
<1>4. rec[p].tx # None => rec[p].tx[1] \in Channels
  BY DEF StoreTypeOK, RecordRow, Hashes
<1>5. rec' \in [Payments -> RecordRow] /\ spent' \in [Principals \cup {"global"} -> Nat]
  BY <1>1 DEF StoreTypeOK, complete
<1>6. ch' \in [Channels -> ChannelRow]
  BY <1>2, <1>3, <1>4 DEF StoreTypeOK, complete
<1>7. QED
  BY <1>5, <1>6 DEF StoreTypeOK

LEMMA LeaseTyped ==
  ASSUME StoreTypeOK, NEW c \in Channels, leaseChannel(c)
  PROVE  StoreTypeOK' /\ <<c, ch[c].token + 1>> \in Hashes
<1>1. ch[c].token + 1 \in 1 .. MaxToken
  BY BoundsAssumption DEF StoreTypeOK, ChannelRow, leaseChannel
<1>2. \A t \in 0 .. MaxToken :
        [ch[c] EXCEPT !.status = "leased", !.alive = TRUE, !.token = t] \in ChannelRow
  BY DEF StoreTypeOK, ChannelRow
<1>3. ch[c].token + 1 \in 0 .. MaxToken
  BY <1>1, BoundsAssumption
<1>4. StoreTypeOK'
  BY <1>2, <1>3 DEF StoreTypeOK, leaseChannel
<1>5. QED
  BY <1>1, <1>4 DEF Hashes

LEMMA ReleaseTyped ==
  ASSUME StoreTypeOK, NEW lease \in Hashes, releaseChannel(lease)
  PROVE  StoreTypeOK'
  BY DEF StoreTypeOK, ChannelRow, releaseChannel, Hashes

LEMMA SyncTyped == ASSUME StoreTypeOK, syncChannels PROVE StoreTypeOK'
  BY DEF StoreTypeOK, ChannelRow, syncChannels

LEMMA StoreTyped ==
  ASSUME StoreTypeOK, NEW p \in Payments, NEW lease \in Hashes, NEW seq \in Nat,
         NEW who \in Principals, storePreparedAndReserve(p, lease, seq, who)
  PROVE  StoreTypeOK'
<1>1. lease[1] \in Channels
  BY DEF Hashes
<1>2. CASE StoreResult(lease, seq, who) = "stored"
  <2>1. [rec[p] EXCEPT !.status = "submitting", !.tx = lease, !.seq = seq] \in RecordRow
    BY DEF StoreTypeOK, RecordRow, UndecidedStatus
  <2>2. [ch[lease[1]] EXCEPT !.status = "unresolved", !.rec = p] \in ChannelRow
    BY <1>1 DEF StoreTypeOK, ChannelRow
  <2>3. QED
    BY <1>1, <1>2, <2>1, <2>2 DEF StoreTypeOK, storePreparedAndReserve
<1>3. CASE StoreResult(lease, seq, who) # "stored"
  BY <1>3 DEF StoreTypeOK, storePreparedAndReserve, storeVars
<1>4. QED
  BY <1>2, <1>3

LEMMA LeasesRunOutTyped ==
  ASSUME StoreTypeOK,
         \/ \E p \in Payments : RecordLeaseRunsOut(p)
         \/ \E c \in Channels : ChannelLeaseRunsOut(c)
  PROVE  StoreTypeOK'
<1>1. ASSUME NEW p \in Payments, RecordLeaseRunsOut(p) PROVE StoreTypeOK'
  <2>1. [rec[p] EXCEPT !.alive = FALSE] \in RecordRow
    BY DEF StoreTypeOK, RecordRow
  <2>2. QED
    BY <1>1, <2>1 DEF StoreTypeOK, RecordLeaseRunsOut
<1>2. ASSUME NEW c \in Channels, ChannelLeaseRunsOut(c) PROVE StoreTypeOK'
  <2>1. [ch[c] EXCEPT !.alive = FALSE] \in ChannelRow
    BY DEF StoreTypeOK, ChannelRow
  <2>2. QED
    BY <1>2, <2>1 DEF StoreTypeOK, ChannelLeaseRunsOut
<1>3. QED
  BY <1>1, <1>2

-----------------------------------------------------------------------------
(* Type correctness: the network. *)

LEMMA BuildTyped ==
  ASSUME StellarTypeOK, NEW h \in Hashes, NEW p \in Payments, NEW actual \in Amounts,
         NEW seq \in Nat, Build(h, p, actual, seq)
  PROVE  StellarTypeOK'
  BY DEF StellarTypeOK, Build, Envelope

LEMMA AcceptTyped ==
  ASSUME StellarTypeOK, NEW h \in Hashes, Accept(h)
  PROVE  StellarTypeOK'
  BY DEF StellarTypeOK, Accept, Built, Envelope

LEMMA LedgerTyped ==
  ASSUME StellarTypeOK, NEW h \in Hashes, Apply(h) \/ PassMaximumTime(h)
  PROVE  StellarTypeOK'
<1>1. h[1] \in Channels /\ tx[h] \in Envelope \cup {None}
  BY DEF Hashes, StellarTypeOK
<1>2. CASE Apply(h)
  <2>1. \A s \in {"SUCCESS", "FAILED"} : [tx[h] EXCEPT !.state = s] \in Envelope
    BY <1>1, <1>2 DEF Apply, Applicable, Built, Envelope
  <2>2. ledSeq' \in [Channels -> Nat]
    BY <1>1, <1>2 DEF Apply, StellarTypeOK
  <2>3. QED
    BY <1>2, <2>1, <2>2 DEF Apply, StellarTypeOK
<1>3. CASE PassMaximumTime(h)
  BY <1>1, <1>3 DEF StellarTypeOK, PassMaximumTime, Built, Envelope
<1>4. QED
  BY <1>2, <1>3

-----------------------------------------------------------------------------
(* Type correctness: the processes. *)

\* What may be written into the row of a call.
LEMMA CallWritten ==
  ASSUME NEW c \in CallRecord
  PROVE  /\ \A pc \in Pcs : [c EXCEPT !.pc = pc] \in CallRecord
         /\ \A a \in Answers : [c EXCEPT !.answer = a] \in CallRecord
         /\ \A n \in Notes : [c EXCEPT !.note = n] \in CallRecord
         /\ \A h \in Hashes \cup {None} : [c EXCEPT !.tx = h] \in CallRecord
         /\ \A h \in Hashes : [c EXCEPT !.lease = h] \in CallRecord
<1>1. \A pc \in Pcs : [c EXCEPT !.pc = pc] \in CallRecord
  BY DEF CallRecord
<1>2. \A a \in Answers : [c EXCEPT !.answer = a] \in CallRecord
  BY DEF CallRecord
<1>3. \A n \in Notes : [c EXCEPT !.note = n] \in CallRecord
  BY DEF CallRecord
<1>4. \A h \in Hashes \cup {None} : [c EXCEPT !.tx = h] \in CallRecord
  BY DEF CallRecord
<1>5. \A h \in Hashes : [c EXCEPT !.lease = h] \in CallRecord
  BY DEF CallRecord
<1>6. QED
  BY <1>1, <1>2, <1>3, <1>4, <1>5

LEMMA CallTyped ==
  ASSUME call \in [Calls -> CallRecord], NEW r \in Calls
  PROVE  /\ \A pc \in Pcs : Goto(r, pc) => call' \in [Calls -> CallRecord]
         /\ \A a \in Answers : [call[r] EXCEPT !.pc = "done", !.answer = a] \in CallRecord
         /\ \A a \in Answers : Answer(r, a) => call' \in [Calls -> CallRecord]
<1>1. call[r] \in CallRecord
  OBVIOUS
<1>2. \A pc \in Pcs : [call[r] EXCEPT !.pc = pc] \in CallRecord
  BY <1>1, CallWritten
<1>3. \A a \in Answers : [call[r] EXCEPT !.pc = "done", !.answer = a] \in CallRecord
  <2>1. TAKE a \in Answers
  <2>2. [call[r] EXCEPT !.pc = "done"] \in CallRecord
    BY <1>2 DEF Pcs
  <2>3. [[call[r] EXCEPT !.pc = "done"] EXCEPT !.answer = a] \in CallRecord
    BY <2>2, CallWritten
  <2>4. QED
    BY <2>3
<1>4. QED
  BY <1>2, <1>3 DEF Goto, Answer

\* The steps of a call leave the call table well typed.
LEMMA CallStepTyped ==
  ASSUME TypeOK, CallShape, NEW r \in Calls, CallStep(r)
  PROVE  call' \in [Calls -> CallRecord]
<1>1. /\ call \in [Calls -> CallRecord] /\ call[r] \in CallRecord
      /\ rec \in [Payments -> RecordRow]
  BY DEF TypeOK, ProcTypeOK, StoreTypeOK
<1>2. Live(r) => call[r].pay \in Payments
  BY DEF CallShape
<1>3. Live(r) => rec[call[r].pay].tx \in Hashes \cup {None}
  BY <1>1, <1>2 DEF RecordRow
<1>4. \A pc \in Pcs : Goto(r, pc) => call' \in [Calls -> CallRecord]
  BY <1>1, CallTyped
<1>5. \A a \in Answers : Answer(r, a) => call' \in [Calls -> CallRecord]
  BY <1>1, CallTyped
<1>6. \A n \in {"busy", "failed", "pending", "unknown"}, pc \in Pcs :
        [call[r] EXCEPT !.pc = pc, !.note = n] \in CallRecord
  <2>1. TAKE n \in {"busy", "failed", "pending", "unknown"}, pc \in Pcs
  <2>2. [[call[r] EXCEPT !.pc = pc] EXCEPT !.note = n] \in CallRecord
    BY <1>1, CallWritten DEF Notes
  <2>3. QED
    BY <2>2
<1>7. \A h \in Hashes \cup {None}, pc \in Pcs :
        [call[r] EXCEPT !.pc = pc, !.tx = h] \in CallRecord
  <2>1. TAKE h \in Hashes \cup {None}, pc \in Pcs
  <2>2. [[call[r] EXCEPT !.pc = pc] EXCEPT !.tx = h] \in CallRecord
    BY <1>1, CallWritten
  <2>3. QED
    BY <2>2
<1>8. CASE Refuse(r) \/ WaitForOwner(r) \/ Fail(r) \/ PollResolves(r) \/ GiveUp(r)
  <2>1. Live(r) => rec[call[r].pay].response \in {"success", "failed", None}
    BY <1>1, <1>2 DEF RecordRow
  <2>2. WaitForOwner(r) => Live(r)
    BY DEF WaitForOwner, At, Live
  <2>3. \A h : Outcome(h) \in Answers
    BY DEF Outcome, Answers
  <2>4. QED
    BY <1>5, <1>8, <2>1, <2>2, <2>3
    DEF Refuse, WaitForOwner, Fail, PollResolves, GiveUp, Answers
<1>9. CASE Claim(r)
  <2>1. Live(r)
    BY <1>9 DEF Claim, At, Live
  <2>2. rec[call[r].pay].response # None => rec[call[r].pay].response \in {"success", "failed"}
    BY <1>1, <1>2, <2>1 DEF RecordRow
  <2>3. ClaimKind(call[r].pay, call[r].print, call[r].actual, call[r].worker) = "cached"
          => rec[call[r].pay].response # None
    BY DEF ClaimKind
  <2>4. QED
    BY <1>1, <1>3, <1>4, <1>5, <1>7, <1>9, <2>1, <2>2, <2>3 DEF Claim, Pcs, Answers
<1>10. CASE LeaseChannel(r)
  <2>1. \A h \in Hashes : [call[r] EXCEPT !.pc = "prepare", !.lease = h] \in CallRecord
    <3>1. TAKE h \in Hashes
    <3>2. [[call[r] EXCEPT !.pc = "prepare"] EXCEPT !.lease = h] \in CallRecord
      BY <1>1, CallWritten DEF Pcs
    <3>3. QED
      BY <3>2
  <2>2. \A c \in Channels : leaseChannel(c) => <<c, ch[c].token + 1>> \in Hashes
    BY LeaseTyped DEF TypeOK
  <2>3. QED
    BY <1>1, <1>5, <1>10, <2>1, <2>2 DEF LeaseChannel, Answers
<1>11. CASE Prepare(r) \/ SendRejected(r) \/ Mark(r) \/ PollTimesOut(r)
  BY <1>4, <1>11 DEF Prepare, SendRejected, Mark, PollTimesOut, Pcs
<1>12. CASE PrepareFails(r) \/ SendAccepted(r) \/ SendNotAccepted(r)
  BY <1>1, <1>6, <1>12 DEF PrepareFails, SendAccepted, SendNotAccepted, Noting, Pcs
<1>13. CASE Store(r)
  BY <1>1, <1>4, <1>6, <1>13 DEF Store, Pcs
<1>14. CASE Release(r)
  BY <1>4, <1>5, <1>14 DEF Release, Pcs, Answers
<1>15. CASE Reload(r)
  BY <1>1, <1>3, <1>7, <1>15 DEF Reload, Pcs, At, Live
<1>16. QED
  BY <1>8, <1>9, <1>10, <1>11, <1>12, <1>13, <1>14, <1>15 DEF CallStep

\* The steps of a call leave the tables and the network well typed.
LEMMA CallStepKeepsTables ==
  ASSUME TypeOK, CallShape, ReferencesMatch, NEW r \in Calls, CallStep(r)
  PROVE  StoreTypeOK' /\ StellarTypeOK'
<1>1. StoreTypeOK /\ StellarTypeOK /\ call[r] \in CallRecord
  BY DEF TypeOK, ProcTypeOK
<1>2. Live(r) => /\ call[r].pay \in Payments /\ call[r].print \in Prints
                 /\ call[r].actual \in Amounts /\ call[r].who \in Principals
                 /\ call[r].worker \in Workers
  BY DEF CallShape
<1>3. call[r].pc \in {"prepare", "store", "release"} => call[r].lease \in Hashes
  BY <1>1 DEF CallShape, CallRecord
<1>4. UNCHANGED storeVars => StoreTypeOK'
  BY <1>1 DEF StoreTypeOK, storeVars
<1>5. UNCHANGED netVars => StellarTypeOK'
  BY <1>1 DEF StellarTypeOK, netVars
<1>6. CASE \/ Refuse(r) \/ WaitForOwner(r) \/ PrepareFails(r) \/ Reload(r)
           \/ SendNotAccepted(r) \/ SendRejected(r) \/ PollTimesOut(r)
  BY <1>4, <1>5, <1>6
  DEF Refuse, WaitForOwner, PrepareFails, Reload, SendNotAccepted, SendRejected, PollTimesOut
<1>7. CASE Claim(r)
  BY <1>1, <1>2, <1>5, <1>7, ClaimTyped DEF Claim, At, Live
<1>8. CASE LeaseChannel(r)
  BY <1>1, <1>4, <1>5, <1>8, LeaseTyped DEF LeaseChannel
<1>9. CASE Prepare(r)
  <2>1. call[r].lease \in Hashes /\ Live(r) /\ call[r].lease[1] \in Channels
    BY <1>3, <1>9 DEF Prepare, At, Live, Hashes
  <2>2. \A s \in 0 .. ledSeq[call[r].lease[1]] : s + 1 \in Nat
    OBVIOUS
  <2>3. StellarTypeOK'
    BY <1>1, <1>2, <1>9, <2>1, <2>2, BuildTyped DEF Prepare
  <2>4. QED
    BY <1>4, <1>9, <2>3 DEF Prepare
<1>10. CASE Store(r)
  <2>1. call[r].lease \in Hashes /\ Live(r) /\ Built(call[r].lease)
    BY <1>3, <1>10 DEF Store, At, Live, ReferencesMatch, EnvelopeOf
  <2>2. tx[call[r].lease].seq \in Nat
    BY <1>1, <2>1 DEF StellarTypeOK, Envelope, Built
  <2>3. QED
    BY <1>1, <1>2, <1>5, <1>10, <2>1, <2>2, StoreTyped DEF Store
<1>11. CASE Release(r)
  BY <1>1, <1>3, <1>5, <1>11, ReleaseTyped DEF Release, At
<1>12. CASE Fail(r) \/ PollResolves(r)
  <2>1. Live(r) /\ Outcome(call[r].tx) \in {"success", "failed"}
    BY <1>12 DEF Fail, PollResolves, At, Live, Outcome
  <2>2. QED
    BY <1>1, <1>2, <1>5, <1>12, <2>1, CompleteTyped DEF Fail, PollResolves
<1>13. CASE SendAccepted(r)
  <2>1. call[r].tx \in Hashes
    BY <1>1, <1>13 DEF SendAccepted, At, CallShape, CallRecord
  <2>2. QED
    BY <1>1, <1>4, <1>13, <2>1, AcceptTyped DEF SendAccepted
<1>14. CASE Mark(r) \/ GiveUp(r)
  <2>1. Live(r)
    BY <1>14 DEF Mark, GiveUp, At, Live
  <2>2. QED
    BY <1>1, <1>2, <1>5, <1>14, <2>1, MarkTyped DEF Mark, GiveUp
<1>15. QED
  BY <1>6, <1>7, <1>8, <1>9, <1>10, <1>11, <1>12, <1>13, <1>14 DEF CallStep

\* The steps of a recovery loop, a crash and a boot.
LEMMA ReplicaStepTyped ==
  ASSUME TypeOK, SweepShape, NEW w \in Workers, ReplicaStep(w)
  PROVE  TypeOK'
<1>1. /\ StoreTypeOK /\ StellarTypeOK /\ ProcTypeOK
      /\ sweep[w] \in SweepRecord /\ rec \in [Payments -> RecordRow]
      /\ call \in [Calls -> CallRecord]
  BY DEF TypeOK, ProcTypeOK, StoreTypeOK
<1>2. UNCHANGED storeVars => StoreTypeOK'
  BY <1>1 DEF StoreTypeOK, storeVars
<1>3. UNCHANGED netVars => StellarTypeOK'
  BY <1>1 DEF StellarTypeOK, netVars
<1>4. \A i : Swept(w, i) => sweep' \in [Workers -> SweepRecord]
  <2>1. ASSUME NEW i
        PROVE  [pc |-> IF sweep[w].todo \ {i} = {} THEN "idle" ELSE "next", item |-> None,
                todo |-> sweep[w].todo \ {i}] \in SweepRecord
    BY <1>1 DEF SweepRecord
  <2>2. QED
    BY <1>1, <2>1 DEF Swept, ProcTypeOK
<1>5. Outage => outages' \in 0 .. MaxOutages
  BY <1>1, SettlementAssumption DEF ProcTypeOK, Outage
<1>6. ASSUME NEW i \in SweepItems, SweepResolves(w, i) PROVE TypeOK'
  <2>1. i.pay \in Payments /\ Outcome(i.tx) \in {"success", "failed"}
    BY DEF SweepItems, Outcome
  <2>2. StoreTypeOK'
    BY <1>1, <1>6, <2>1, CompleteTyped DEF SweepResolves
  <2>3. QED
    BY <1>1, <1>3, <1>4, <1>6, <2>2 DEF SweepResolves, TypeOK, ProcTypeOK, Foreground
<1>7. ASSUME NEW i \in SweepItems, SweepPollTimesOut(w, i) PROVE TypeOK'
  <2>1. [sweep[w] EXCEPT !.pc = "horizon", !.item = i] \in SweepRecord
    BY <1>1 DEF SweepRecord
  <2>2. sweep' \in [Workers -> SweepRecord]
    BY <1>1, <1>7, <2>1 DEF SweepPollTimesOut, ProcTypeOK
  <2>3. QED
    BY <1>1, <1>2, <1>3, <1>5, <1>7, <2>2
    DEF SweepPollTimesOut, TypeOK, ProcTypeOK, Foreground
<1>8. CASE SweepList(w)
  <2>1. \A p \in listUnresolved : [pay |-> p, tx |-> rec[p].tx] \in SweepItems
    BY <1>1 DEF listUnresolved, RecordRow, SweepItems
  <2>2. [pc |-> "next", item |-> None,
         todo |-> {[pay |-> p, tx |-> rec[p].tx] : p \in listUnresolved}] \in SweepRecord
    BY <2>1 DEF SweepRecord
  <2>3. QED
    BY <1>1, <1>2, <1>3, <1>8, <2>2 DEF SweepList, TypeOK, ProcTypeOK, Foreground
<1>9. CASE HorizonNotFound(w)
  <2>1. [sweep[w] EXCEPT !.pc = "expiry"] \in SweepRecord
    BY <1>1 DEF SweepRecord
  <2>2. QED
    BY <1>1, <1>2, <1>3, <1>9, <2>1 DEF HorizonNotFound, TypeOK, ProcTypeOK, Foreground
<1>10. CASE ExpiryElapsed(w)
  <2>1. sweep[w].item.pay \in Payments
    BY <1>1, <1>10 DEF ExpiryElapsed, SweepShape, SweepRecord, SweepItems
  <2>2. StoreTypeOK'
    BY <1>1, <1>10, <2>1, CompleteTyped DEF ExpiryElapsed
  <2>3. QED
    BY <1>1, <1>3, <1>4, <1>10, <2>2 DEF ExpiryElapsed, TypeOK, ProcTypeOK, Foreground
<1>11. CASE LeaveUnresolved(w)
  BY <1>1, <1>2, <1>3, <1>4, <1>5, <1>11 DEF LeaveUnresolved, TypeOK, ProcTypeOK, Foreground
<1>12. CASE Crash(w)
  <2>1. \A r \in Calls : [call[r] EXCEPT !.pc = "done", !.answer = "lost"] \in CallRecord
    BY <1>1, CallTyped DEF Answers
  <2>2. call' \in [Calls -> CallRecord]
    BY <1>1, <1>12, <2>1 DEF Crash
  <2>3. crashes' \in 0 .. MaxCrashes
    <3>1. crashes \in 0 .. MaxCrashes /\ crashes < MaxCrashes /\ crashes' = crashes + 1
      BY <1>1, <1>12 DEF Crash, ProcTypeOK
    <3>2. QED
      BY <3>1, SettlementAssumption
  <2>4. sweep' \in [Workers -> SweepRecord]
    BY <1>1, <1>12 DEF Crash, Resting, SweepRecord, ProcTypeOK
  <2>5. QED
    BY <1>1, <1>2, <1>3, <1>12, <2>2, <2>3, <2>4 DEF Crash, TypeOK, ProcTypeOK
<1>13. CASE Boot(w)
  BY <1>1, <1>3, <1>13, SyncTyped DEF Boot, TypeOK, ProcTypeOK
<1>14. QED
  BY <1>6, <1>7, <1>8, <1>9, <1>10, <1>11, <1>12, <1>13 DEF ReplicaStep, SweepStep

LEMMA TypeStep ==
  ASSUME TypeOK, CallShape, SweepShape, ReferencesMatch, [Next]_vars
  PROVE  TypeOK'
<1>1. StoreTypeOK /\ StellarTypeOK /\ ProcTypeOK
  BY DEF TypeOK
<1>2. UNCHANGED <<netVars, procVars>> => StellarTypeOK' /\ ProcTypeOK'
  BY <1>1 DEF StellarTypeOK, ProcTypeOK, netVars, procVars
<1>3. ASSUME NEW r \in Calls, CallStep(r) PROVE TypeOK'
  <2>1. UNCHANGED Background
    BY <1>3 DEF CallStep, Refuse, Claim, WaitForOwner, LeaseChannel, Prepare, PrepareFails, Store,
       Release, Fail, Reload, SendAccepted, SendNotAccepted, SendRejected, Mark, PollResolves,
       PollTimesOut, GiveUp
  <2>2. QED
    BY <1>1, <1>3, <2>1, CallStepTyped, CallStepKeepsTables DEF TypeOK, ProcTypeOK, Background
<1>4. ASSUME NEW p \in Payments, NEW print \in Prints, Verify(p, print) PROVE TypeOK'
  BY <1>1, <1>2, <1>4, RegisterTyped DEF Verify, TypeOK
<1>5. ASSUME NEW r \in Calls, NEW w \in Workers, NEW p \in Payments, NEW print \in Prints,
             NEW actual \in Amounts, NEW who \in Principals, Admit(r, w, p, print, actual, who)
      PROVE  TypeOK'
  <2>1. [Idle EXCEPT !.pc = "claim", !.pay = p, !.print = print, !.actual = actual, !.who = who,
                     !.worker = w] \in CallRecord
    <3>1. "claim" \in Pcs
      BY DEF Pcs
    <3>2. QED
      BY <3>1 DEF Idle, CallRecord
  <2>2. call' \in [Calls -> CallRecord]
    BY <1>1, <1>5, <2>1 DEF Admit, ProcTypeOK
  <2>3. QED
    BY <1>1, <1>5, <2>2
    DEF Admit, TypeOK, StoreTypeOK, StellarTypeOK, ProcTypeOK, storeVars, netVars, Background
<1>6. ASSUME NEW p \in Payments, RecordLeaseExpires(p) PROVE TypeOK'
  BY <1>1, <1>2, <1>6, LeasesRunOutTyped DEF RecordLeaseExpires, TypeOK
<1>7. ASSUME NEW c \in Channels, ChannelLeaseExpires(c) PROVE TypeOK'
  BY <1>1, <1>2, <1>7, LeasesRunOutTyped DEF ChannelLeaseExpires, TypeOK
<1>8. ASSUME NEW h \in Hashes, NetworkStep(h) PROVE TypeOK'
  BY <1>1, <1>8, LedgerTyped
  DEF NetworkStep, LedgerApplies, MaximumTimePasses, TypeOK, StoreTypeOK, ProcTypeOK, storeVars,
      procVars
<1>9. CASE UNCHANGED vars
  BY <1>1, <1>9 DEF vars, TypeOK, StoreTypeOK, StellarTypeOK, ProcTypeOK
<1>10. QED
  BY <1>3, <1>4, <1>5, <1>6, <1>7, <1>8, <1>9, ReplicaStepTyped DEF Next

-----------------------------------------------------------------------------
(* What a step does to envelopes, records and channels. *)

LEMMA HashParts ==
  \A h \in Hashes : h = <<h[1], h[2]>> /\ h[1] \in Channels /\ h[2] \in 1 .. MaxToken
  BY DEF Hashes

\* Steps that leave the network as it is.
LEMMA NetworkFrame ==
  ASSUME [Next]_vars
  PROVE  \/ UNCHANGED netVars
         \/ \E r \in Calls : Prepare(r) \/ SendAccepted(r)
         \/ \E h \in Hashes : NetworkStep(h)
<1>1. ASSUME NEW r \in Calls, CallStep(r)
      PROVE  UNCHANGED netVars \/ Prepare(r) \/ SendAccepted(r)
  BY <1>1 DEF CallStep, Refuse, Claim, WaitForOwner, LeaseChannel, PrepareFails, Store,
     Release, Fail, Reload, SendNotAccepted, SendRejected, Mark, PollResolves, PollTimesOut, GiveUp
<1>2. ASSUME NEW w \in Workers, ReplicaStep(w) PROVE UNCHANGED netVars
  BY <1>2 DEF ReplicaStep, SweepStep, SweepList, HorizonNotFound, ExpiryElapsed, LeaveUnresolved,
     SweepResolves, SweepPollTimesOut, Crash, Boot
<1>3. CASE \/ \E p \in Payments, print \in Prints : Verify(p, print)
           \/ \E r \in Calls, w \in Workers, p \in Payments, print \in Prints,
                 actual \in Amounts, who \in Principals : Admit(r, w, p, print, actual, who)
           \/ \E p \in Payments : RecordLeaseExpires(p)
           \/ \E c \in Channels : ChannelLeaseExpires(c)
  BY <1>3 DEF Verify, Admit, RecordLeaseExpires, ChannelLeaseExpires
<1>4. CASE UNCHANGED vars
  BY <1>4 DEF vars, netVars
<1>5. QED
  BY <1>1, <1>2, <1>3, <1>4 DEF Next

\* Envelopes are built once, stay what they are, and a payment stays made.
LEMMA EnvelopesKept ==
  ASSUME TypeOK, CallShape, LeasesUnique, [Next]_vars, NEW h \in Hashes, Built(h)
  PROVE  /\ Built(h)' /\ tx'[h].pay = tx[h].pay
         /\ tx[h].state = "SUCCESS" => tx'[h].state = "SUCCESS"
<1>1. tx \in [Hashes -> Envelope \cup {None}] /\ tx[h] \in Envelope
  BY DEF TypeOK, StellarTypeOK, Built
<1>2. CASE UNCHANGED netVars
  BY <1>2 DEF netVars, Built
<1>3. ASSUME NEW r \in Calls, Prepare(r) PROVE tx'[h] = tx[h]
  <2>1. call[r].lease # h
    BY <1>3 DEF Prepare, LeasesUnique
  <2>2. QED
    BY <1>1, <1>3, <2>1 DEF Prepare, Build
<1>4. ASSUME NEW g \in Hashes, NEW e \in Envelope, tx' = [tx EXCEPT ![g] = e],
             e.pay = tx[g].pay, tx[g].state = "SUCCESS" => e.state = "SUCCESS"
      PROVE  /\ Built(h)' /\ tx'[h].pay = tx[h].pay
             /\ tx[h].state = "SUCCESS" => tx'[h].state = "SUCCESS"
  <2>1. tx'[h] = IF g = h THEN e ELSE tx[h]
    BY <1>1, <1>4
  <2>2. QED
    BY <1>1, <1>4, <2>1, EnvelopeAssumption DEF Built
<1>5. ASSUME NEW g \in Hashes, Built(g)
      PROVE  \A s \in {"held", "sent", "SUCCESS", "FAILED"} :
               [tx[g] EXCEPT !.state = s] \in Envelope /\ [tx[g] EXCEPT !.late = TRUE] \in Envelope
  BY <1>1, <1>5 DEF Built, Envelope
<1>6. ASSUME NEW g \in Hashes, Built(g) PROVE tx[g] \in Envelope
  BY <1>1, <1>6 DEF Built
<1>7. ASSUME NEW g \in Hashes, NEW s \in {"sent", "SUCCESS", "FAILED"}, Built(g),
             tx[g].state \in {"held", "sent"}, tx' = [tx EXCEPT ![g].state = s]
      PROVE  /\ Built(h)' /\ tx'[h].pay = tx[h].pay
             /\ tx[h].state = "SUCCESS" => tx'[h].state = "SUCCESS"
  <2>1. [tx[g] EXCEPT !.state = s].pay = tx[g].pay
    BY <1>6, <1>7 DEF Envelope
  <2>2. [tx[g] EXCEPT !.state = s] \in Envelope
    BY <1>5, <1>7
  <2>3. QED
    BY <1>4, <1>7, <2>1, <2>2
<1>8. ASSUME NEW g \in Hashes, PassMaximumTime(g)
      PROVE  /\ Built(h)' /\ tx'[h].pay = tx[h].pay
             /\ tx[h].state = "SUCCESS" => tx'[h].state = "SUCCESS"
  <2>1. /\ [tx[g] EXCEPT !.late = TRUE].pay = tx[g].pay
        /\ [tx[g] EXCEPT !.late = TRUE].state = tx[g].state
    BY <1>6, <1>8 DEF Envelope, PassMaximumTime
  <2>2. [tx[g] EXCEPT !.late = TRUE] \in Envelope
    BY <1>5, <1>8 DEF PassMaximumTime
  <2>3. QED
    BY <1>4, <1>8, <2>1, <2>2 DEF PassMaximumTime
<1>9. ASSUME NEW r \in Calls, SendAccepted(r)
      PROVE  /\ Built(h)' /\ tx'[h].pay = tx[h].pay
             /\ tx[h].state = "SUCCESS" => tx'[h].state = "SUCCESS"
  <2>1. call[r].tx \in Hashes
    BY <1>9 DEF SendAccepted, At, CallShape, CallRecord, TypeOK, ProcTypeOK
  <2>2. QED
    BY <1>7, <1>9, <2>1 DEF SendAccepted, Accept
<1>10. ASSUME NEW g \in Hashes, LedgerApplies(g)
       PROVE  /\ Built(h)' /\ tx'[h].pay = tx[h].pay
              /\ tx[h].state = "SUCCESS" => tx'[h].state = "SUCCESS"
  BY <1>7, <1>10 DEF LedgerApplies, Apply, Applicable
<1>11. QED
  BY <1>1, <1>2, <1>3, <1>8, <1>9, <1>10, NetworkFrame
  DEF NetworkStep, MaximumTimePasses, Built

\* What a step may do to a record: a hash is only replaced by the one a call
\* stores, a response only written by whoever saw the payment made, or failed.
RecordMoves(p) ==
  /\ \/ rec'[p].tx = rec[p].tx
     \/ \E r \in Calls : At(r, "store") /\ call[r].pay = p /\ rec'[p].tx = call[r].lease
  /\ \/ rec'[p].response \in {rec[p].response, "failed"}
     \/ rec'[p].response = "success" /\ Paid(p)

LEMMA SuccessIsPaid ==
  ASSUME ReferencesMatch, NEW p \in Payments, NEW h \in Hashes,
         EnvelopeOf(h, p), Final(h), Outcome(h) = "success"
  PROVE  Paid(p)
  BY DEF EnvelopeOf, Final, Outcome, Paid

LEMMA CompleteMoves ==
  ASSUME StoreTypeOK, NEW p \in Payments, NEW q \in Payments,
         NEW outcome \in {"success", "failed"}, NEW applied, complete(p, outcome, applied)
  PROVE  /\ rec'[q].tx = rec[q].tx
         /\ rec'[q].response = rec[q].response \/ (q = p /\ rec'[q].response = outcome)
<1>1. rec' = [rec EXCEPT ![p] = [@ EXCEPT !.status = outcome, !.response = outcome]]
  BY DEF complete
<1>2. rec[q] \in RecordRow /\ rec[p] \in RecordRow /\ rec \in [Payments -> RecordRow]
  BY DEF StoreTypeOK
<1>3. QED
  BY <1>1, <1>2 DEF RecordRow

LEMMA RecordFrame ==
  ASSUME TypeOK, CallShape, SweepShape, ReferencesMatch, [Next]_vars, NEW p \in Payments
  PROVE  RecordMoves(p)
<1>1. /\ rec \in [Payments -> RecordRow] /\ rec[p] \in RecordRow /\ StoreTypeOK
      /\ ProcTypeOK
  BY DEF TypeOK, StoreTypeOK
<1>2. UNCHANGED rec => RecordMoves(p)
  BY DEF RecordMoves
<1>3. UNCHANGED storeVars => UNCHANGED rec
  BY DEF storeVars
<1>4. ASSUME NEW q \in Payments, NEW outcome \in {"success", "failed"}, NEW applied,
             complete(q, outcome, applied), outcome = "success" => Paid(q)
      PROVE  RecordMoves(p)
  BY <1>1, <1>4, CompleteMoves DEF RecordMoves
<1>5. ASSUME NEW q \in Payments,
             \/ \E print \in Prints : registerIdempotency(q, print)
             \/ \E print \in Prints, actual \in Amounts, w \in Workers :
                  claimSettlement(q, print, actual, w)
             \/ markPending(q) \/ markUnknown(q) \/ RecordLeaseRunsOut(q)
      PROVE  RecordMoves(p)
  <2>1. ASSUME NEW row, row.tx = rec[q].tx, row.response = rec[q].response,
               rec' = [rec EXCEPT ![q] = row]
        PROVE  RecordMoves(p)
    BY <1>1, <2>1 DEF RecordMoves
  <2>2. rec[q] \in RecordRow
    BY <1>1
  <2>3. CASE markPending(q) \/ markUnknown(q) \/ RecordLeaseRunsOut(q)
    <3>1. /\ [rec[q] EXCEPT !.status = "unknown", !.worker = None, !.alive = FALSE].tx = rec[q].tx
          /\ [rec[q] EXCEPT !.status = "unknown", !.worker = None, !.alive = FALSE].response
               = rec[q].response
      BY <2>2 DEF RecordRow
    <3>2. CASE markPending(q)
      BY <1>1, <2>2, <3>2 DEF RecordMoves, RecordRow, markPending
    <3>3. CASE markUnknown(q)
      BY <1>1, <2>1, <3>1, <3>3 DEF markUnknown
    <3>4. CASE RecordLeaseRunsOut(q)
      BY <1>1, <2>2, <3>4 DEF RecordMoves, RecordRow, RecordLeaseRunsOut
    <3>5. QED
      BY <2>3, <3>2, <3>3, <3>4
  <2>4. ASSUME NEW print \in Prints, registerIdempotency(q, print) PROVE RecordMoves(p)
    BY <1>1, <1>2, <2>1, <2>2, <2>4 DEF RecordRow, registerIdempotency
  <2>5. ASSUME NEW print \in Prints, NEW actual \in Amounts, NEW w \in Workers,
               claimSettlement(q, print, actual, w)
        PROVE  RecordMoves(p)
    <3>1. rec' = rec \/ rec' = [rec EXCEPT ![q] =
                          [rec[q] EXCEPT !.print = print, !.actual = actual,
                                         !.status = "preparing", !.worker = w, !.alive = TRUE]]
      BY <2>5 DEF claimSettlement
    <3>2. QED
      BY <1>1, <1>2, <2>1, <2>2, <3>1 DEF RecordRow
  <2>6. QED
    BY <1>5, <2>3, <2>4, <2>5
<1>6. ASSUME NEW r \in Calls, Store(r) PROVE RecordMoves(p)
  <2>1. At(r, "store") /\ call[r].pay \in Payments
    BY <1>6 DEF Store, At, Live, CallShape
  <2>2. storePreparedAndReserve(call[r].pay, call[r].lease, tx[call[r].lease].seq, call[r].who)
    BY <1>6 DEF Store
  <2>3. QED
    <3>1. CASE UNCHANGED storeVars
      BY <1>2, <1>3, <3>1
    <3>2. CASE rec' = [rec EXCEPT ![call[r].pay] =
                         [rec[call[r].pay] EXCEPT !.status = "submitting", !.tx = call[r].lease,
                                                  !.seq = tx[call[r].lease].seq]]
      <4>1. rec[call[r].pay] \in RecordRow
        BY <1>1, <2>1
      <4>2. rec'[p].response = rec[p].response
        BY <1>1, <2>1, <3>2, <4>1 DEF RecordRow
      <4>3. rec'[p].tx = rec[p].tx \/ (call[r].pay = p /\ rec'[p].tx = call[r].lease)
        BY <1>1, <2>1, <3>2, <4>1 DEF RecordRow
      <4>4. QED
        BY <2>1, <4>2, <4>3 DEF RecordMoves
    <3>3. QED
      BY <2>2, <3>1, <3>2 DEF storePreparedAndReserve
<1>7. ASSUME NEW r \in Calls, CallStep(r), ~Store(r) PROVE RecordMoves(p)
  <2>1. Live(r) => /\ call[r].pay \in Payments /\ call[r].print \in Prints
                   /\ call[r].actual \in Amounts /\ call[r].worker \in Workers
    BY DEF CallShape
  <2>2. CASE \/ Refuse(r) \/ WaitForOwner(r) \/ PrepareFails(r) \/ Reload(r) \/ LeaseChannel(r)
             \/ SendNotAccepted(r) \/ SendRejected(r) \/ PollTimesOut(r) \/ Prepare(r)
             \/ Release(r) \/ SendAccepted(r)
    BY <1>2, <1>3, <2>2
    DEF Refuse, WaitForOwner, PrepareFails, Reload, LeaseChannel, SendNotAccepted, SendRejected,
        PollTimesOut, Prepare, Release, SendAccepted, leaseChannel, releaseChannel
  <2>3. CASE Claim(r) \/ Mark(r) \/ GiveUp(r)
    BY <1>5, <2>1, <2>3 DEF Claim, Mark, GiveUp, At, Live
  <2>4. CASE Fail(r)
    BY <1>4, <2>1, <2>4 DEF Fail, At, Live
  <2>5. CASE PollResolves(r)
    <3>1. EnvelopeOf(call[r].tx, call[r].pay) /\ call[r].tx \in Hashes
      BY <1>1, <2>5 DEF PollResolves, At, CallShape, ReferencesMatch, ProcTypeOK, CallRecord
    <3>2. call[r].pay \in Payments /\ Final(call[r].tx)
      BY <2>1, <2>5 DEF PollResolves, At, Live
    <3>3. Outcome(call[r].tx) \in {"success", "failed"}
      BY DEF Outcome
    <3>4. QED
      BY <1>4, <2>5, <3>1, <3>2, <3>3, SuccessIsPaid DEF PollResolves
  <2>6. QED
    BY <1>7, <2>2, <2>3, <2>4, <2>5 DEF CallStep
<1>8. ASSUME NEW w \in Workers, NEW i \in SweepItems, SweepResolves(w, i) PROVE RecordMoves(p)
  <2>1. EnvelopeOf(i.tx, i.pay) /\ i.tx \in Hashes /\ i.pay \in Payments
    BY <1>8 DEF SweepResolves, SweepShape, ReferencesMatch, SweepItems
  <2>2. Outcome(i.tx) \in {"success", "failed"} /\ Final(i.tx)
    BY <1>8 DEF Outcome, SweepResolves
  <2>3. QED
    BY <1>4, <1>8, <2>1, <2>2, SuccessIsPaid DEF SweepResolves
<1>9. ASSUME NEW w \in Workers, ReplicaStep(w), ~\E i \in SweepItems : SweepResolves(w, i)
      PROVE  RecordMoves(p)
  <2>1. ExpiryElapsed(w) => sweep[w].item.pay \in Payments
    BY <1>1 DEF ExpiryElapsed, SweepShape, ProcTypeOK, SweepRecord, SweepItems
  <2>2. CASE ExpiryElapsed(w)
    BY <1>4, <2>1, <2>2 DEF ExpiryElapsed
  <2>3. CASE ~ExpiryElapsed(w)
    BY <1>2, <1>3, <1>9, <2>3
    DEF ReplicaStep, SweepStep, SweepList, HorizonNotFound, LeaveUnresolved, SweepPollTimesOut,
        Crash, Boot, syncChannels
  <2>4. QED
    BY <2>2, <2>3
<1>10. CASE \/ \E q \in Payments, print \in Prints : Verify(q, print)
            \/ \E r \in Calls, w \in Workers, q \in Payments, print \in Prints,
                  actual \in Amounts, who \in Principals : Admit(r, w, q, print, actual, who)
            \/ \E q \in Payments : RecordLeaseExpires(q)
            \/ \E c \in Channels : ChannelLeaseExpires(c)
            \/ \E h \in Hashes : NetworkStep(h)
            \/ UNCHANGED vars
  BY <1>2, <1>3, <1>5, <1>10
  DEF Verify, Admit, RecordLeaseExpires, ChannelLeaseExpires, ChannelLeaseRunsOut, NetworkStep,
      LedgerApplies, MaximumTimePasses, vars
<1>11. QED
  BY <1>6, <1>7, <1>8, <1>9, <1>10 DEF Next

\* What a step may do to a call: nothing; admit it; crash it; or go on with it.
NewCall(r) ==
  /\ call'[r].pc = "claim" /\ call'[r].lease = None /\ call'[r].tx = None
  /\ call'[r].answer = None
  /\ call'[r].pay \in Payments /\ call'[r].print \in Prints /\ call'[r].actual \in Amounts
  /\ call'[r].who \in Principals /\ call'[r].worker \in Workers

SameParameters(r) ==
  /\ call'[r].pay = call[r].pay /\ call'[r].print = call[r].print
  /\ call'[r].actual = call[r].actual /\ call'[r].who = call[r].who
  /\ call'[r].worker = call[r].worker

CallGoesOn(r) ==
  /\ SameParameters(r)
  /\ call'[r].pc \notin {"idle", "done"} => Live(r)
  /\ \/ call'[r].lease = call[r].lease /\ call'[r].pc # "prepare"
     \/ LeaseChannel(r) /\ call'[r].lease # None /\ call'[r].pc = "prepare"
  /\ call'[r].pc \in {"prepare", "store", "release"} => call'[r].lease # None
  /\ call'[r].pc = "store" => Prepare(r)
  /\ call'[r].pc = "reload" => Store(r) /\ StoreResult(call[r].lease, tx[call[r].lease].seq,
                                                       call[r].who) = "stored"
  /\ call'[r].tx \in {call[r].tx, rec[call[r].pay].tx}
  /\ call'[r].tx # call[r].tx => Live(r)
  /\ call'[r].pc \in {"send", "mark", "poll", "giveup"} => call'[r].tx # None
  /\ \/ call'[r].answer # "success"
     \/ call'[r].answer = call[r].answer
     \/ Live(r) /\ rec[call[r].pay].response = "success"
     \/ PollResolves(r) /\ Outcome(call[r].tx) = "success"

CallMoves(r) ==
  \/ call'[r] = call[r]
  \/ NewCall(r)
  \/ SameParameters(r) /\ call'[r].pc = "done" /\ call'[r].answer = "lost"
       /\ call'[r].lease = call[r].lease /\ call'[r].tx = call[r].tx
  \/ CallGoesOn(r)

LEMMA CallStepMoves ==
  ASSUME TypeOK, CallShape, NEW r \in Calls, CallStep(r)
  PROVE  CallGoesOn(r) /\ \A q \in Calls \ {r} : call'[q] = call[q]
<1>1. call \in [Calls -> CallRecord] /\ call[r] \in CallRecord
  BY DEF TypeOK, ProcTypeOK
<1>2. /\ call[r].pc \in {"prepare", "store", "release"} => call[r].lease # None
      /\ At(r, "reload") => rec[call[r].pay].tx # None
      /\ call[r].pc \in {"send", "mark", "poll", "giveup"} => call[r].tx # None
  BY DEF CallShape
<1>3. ASSUME NEW a, Answer(r, a),
             \/ a # "success"
             \/ Live(r) /\ a = rec[call[r].pay].response
             \/ PollResolves(r) /\ a = Outcome(call[r].tx)
      PROVE  CallGoesOn(r) /\ \A q \in Calls \ {r} : call'[q] = call[q]
  <2>1. call'[r] = [call[r] EXCEPT !.pc = "done", !.answer = a]
    BY <1>1, <1>3 DEF Answer
  <2>2. QED
    BY <1>1, <1>3, <2>1 DEF Answer, CallGoesOn, SameParameters, CallRecord
<1>4. ASSUME NEW pc, Goto(r, pc), Live(r), pc \notin {"prepare"},
             pc = "release" => call[r].lease # None,
             pc = "store" => Prepare(r),
             pc = "reload" => Store(r) /\ StoreResult(call[r].lease, tx[call[r].lease].seq,
                                                      call[r].who) = "stored",
             pc \in {"send", "mark", "poll", "giveup"} => call[r].tx # None,
             pc = "store" => call[r].lease # None
      PROVE  CallGoesOn(r) /\ \A q \in Calls \ {r} : call'[q] = call[q]
  BY <1>1, <1>4 DEF Goto, CallGoesOn, SameParameters, CallRecord
<1>5. ASSUME NEW pc, NEW note, Live(r), pc \in {"release", "mark"},
             call' = [call EXCEPT ![r] = [call[r] EXCEPT !.pc = pc, !.note = note]],
             pc = "release" => call[r].lease # None,
             pc = "mark" => call[r].tx # None
      PROVE  CallGoesOn(r) /\ \A q \in Calls \ {r} : call'[q] = call[q]
  <2>1. call'[r] = [call[r] EXCEPT !.pc = pc, !.note = note]
    BY <1>1, <1>5
  <2>2. QED
    BY <1>1, <1>5, <2>1 DEF CallGoesOn, SameParameters, CallRecord
<1>6. ASSUME NEW pc, NEW h, Live(r), pc \in {"send", "poll"}, h = rec[call[r].pay].tx, h # None,
             call' = [call EXCEPT ![r] = [call[r] EXCEPT !.pc = pc, !.tx = h]]
      PROVE  CallGoesOn(r) /\ \A q \in Calls \ {r} : call'[q] = call[q]
  <2>1. call'[r] = [call[r] EXCEPT !.pc = pc, !.tx = h]
    BY <1>1, <1>6
  <2>2. QED
    BY <1>1, <1>6, <2>1 DEF CallGoesOn, SameParameters, CallRecord
<1>7. CASE Refuse(r) \/ WaitForOwner(r) \/ Fail(r) \/ PollResolves(r) \/ GiveUp(r)
  BY <1>3, <1>7 DEF Refuse, WaitForOwner, Fail, PollResolves, GiveUp, At, Live
<1>8. CASE Claim(r)
  <2>1. ClaimKind(call[r].pay, call[r].print, call[r].actual, call[r].worker) = "resume"
          => rec[call[r].pay].tx # None
    BY DEF ClaimKind
  <2>2. Live(r)
    BY <1>8 DEF Claim, At, Live
  <2>3. QED
    BY <1>1, <1>3, <1>4, <1>6, <1>8, <2>1, <2>2 DEF Claim
<1>9. CASE LeaseChannel(r)
  <2>1. Live(r)
    BY <1>9 DEF LeaseChannel, At, Live
  <2>2. ASSUME NEW c \in Channels, leaseChannel(c),
               call' = [call EXCEPT ![r] = [call[r] EXCEPT !.pc = "prepare",
                                                           !.lease = <<c, ch[c].token + 1>>]]
        PROVE  CallGoesOn(r) /\ \A q \in Calls \ {r} : call'[q] = call[q]
    <3>1. <<c, ch[c].token + 1>> \in Hashes /\ <<c, ch[c].token + 1>> # None
      BY <2>2, LeaseTyped, NoneAssumption DEF TypeOK
    <3>2. call'[r] = [call[r] EXCEPT !.pc = "prepare", !.lease = <<c, ch[c].token + 1>>]
      BY <1>1, <2>2
    <3>3. QED
      BY <1>1, <1>9, <2>1, <2>2, <3>1, <3>2 DEF CallGoesOn, SameParameters, CallRecord
  <2>3. QED
    BY <1>3, <1>9, <2>2 DEF LeaseChannel
<1>10. CASE Prepare(r) \/ SendRejected(r) \/ Mark(r) \/ PollTimesOut(r)
  BY <1>2, <1>4, <1>10 DEF Prepare, SendRejected, Mark, PollTimesOut, At, Live
<1>11. CASE PrepareFails(r) \/ SendAccepted(r) \/ SendNotAccepted(r)
  BY <1>2, <1>5, <1>11 DEF PrepareFails, SendAccepted, SendNotAccepted, Noting, At, Live
<1>12. CASE Store(r)
  BY <1>2, <1>4, <1>5, <1>12 DEF Store, At, Live
<1>13. CASE Release(r)
  BY <1>3, <1>4, <1>13 DEF Release, At, Live
<1>14. CASE Reload(r)
  BY <1>2, <1>6, <1>14 DEF Reload, At, Live
<1>15. QED
  BY <1>7, <1>8, <1>9, <1>10, <1>11, <1>12, <1>13, <1>14 DEF CallStep

LEMMA CallFrame ==
  ASSUME TypeOK, CallShape, [Next]_vars, NEW r \in Calls
  PROVE  CallMoves(r)
<1>1. call \in [Calls -> CallRecord]
  BY DEF TypeOK, ProcTypeOK
<1>2. ASSUME NEW q \in Calls, CallStep(q) PROVE CallMoves(r)
  BY <1>2, CallStepMoves DEF CallMoves
<1>3. ASSUME NEW q \in Calls, NEW w \in Workers, NEW p \in Payments, NEW print \in Prints,
             NEW actual \in Amounts, NEW who \in Principals, Admit(q, w, p, print, actual, who)
      PROVE  CallMoves(r)
  <2>1. call' = [call EXCEPT ![q] =
          [Idle EXCEPT !.pc = "claim", !.pay = p, !.print = print, !.actual = actual,
                       !.who = who, !.worker = w]]
    BY <1>3 DEF Admit
  <2>2. QED
    BY <1>1, <1>3, <2>1 DEF Idle, CallMoves, NewCall
<1>4. ASSUME NEW w \in Workers, Crash(w) PROVE CallMoves(r)
  <2>1. call'[r] = call[r] \/ call'[r] = [call[r] EXCEPT !.pc = "done", !.answer = "lost"]
    BY <1>1, <1>4 DEF Crash
  <2>2. call[r] \in CallRecord
    BY <1>1
  <2>3. QED
    BY <2>1, <2>2 DEF CallMoves, SameParameters, CallRecord
<1>5. ASSUME NEW w \in Workers, ReplicaStep(w), ~Crash(w) PROVE UNCHANGED call
  BY <1>5 DEF ReplicaStep, SweepStep, SweepList, HorizonNotFound, ExpiryElapsed, LeaveUnresolved,
     SweepResolves, SweepPollTimesOut, Boot, Foreground
<1>6. CASE \/ \E p \in Payments, print \in Prints : Verify(p, print)
           \/ \E p \in Payments : RecordLeaseExpires(p)
           \/ \E c \in Channels : ChannelLeaseExpires(c)
           \/ \E h \in Hashes : NetworkStep(h)
           \/ UNCHANGED vars
  BY <1>6 DEF Verify, RecordLeaseExpires, ChannelLeaseExpires, NetworkStep, LedgerApplies,
     MaximumTimePasses, procVars, vars, CallMoves
<1>7. QED
  BY <1>2, <1>3, <1>4, <1>5, <1>6 DEF Next, CallMoves

\* Fencing tokens only grow, and a lease carries the one it was granted.
LEMMA TokensGrow ==
  ASSUME TypeOK, CallShape, SweepShape, ReferencesMatch, [Next]_vars, NEW c \in Channels
  PROVE  ch[c].token <= ch'[c].token
<1>1. /\ StoreTypeOK /\ ProcTypeOK /\ ch \in [Channels -> ChannelRow] /\ ch[c] \in ChannelRow
      /\ ch[c].token \in Nat
  BY BoundsAssumption DEF TypeOK, StoreTypeOK, ChannelRow
<1>2. UNCHANGED ch => ch[c].token <= ch'[c].token
  BY <1>1
<1>3. UNCHANGED storeVars => UNCHANGED ch
  BY DEF storeVars
<1>4. ASSUME NEW row, row.token = ch[c].token, ch'[c] \in {row, ch[c]}
      PROVE  ch[c].token <= ch'[c].token
  BY <1>1, <1>4
<1>5. ASSUME NEW p \in Payments, NEW outcome, NEW applied, complete(p, outcome, applied)
      PROVE  ch[c].token <= ch'[c].token
  <2>1. \A last : [ch[c] EXCEPT !.status = "idle", !.alive = FALSE, !.rec = None,
                               !.last = last].token = ch[c].token
    BY <1>1 DEF ChannelRow
  <2>2. \/ ch' = ch
        \/ \E d \in Channels, last \in Nat :
             ch' = [ch EXCEPT ![d] = [ch[d] EXCEPT !.status = "idle", !.alive = FALSE,
                                                   !.rec = None, !.last = last]]
    <3>1. rec[p].tx \in Hashes \cup {None} /\ rec[p].seq \in Nat
      BY <1>1 DEF StoreTypeOK, RecordRow
    <3>2. rec[p].tx # None => rec[p].tx[1] \in Channels
      BY <3>1, HashParts
    <3>3. \A d \in Channels : ch[d].last \in Nat
      BY <1>1 DEF ChannelRow
    <3>4. QED
      BY <1>5, <3>1, <3>2, <3>3 DEF complete
  <2>3. ASSUME NEW d \in Channels, NEW last \in Nat,
               ch' = [ch EXCEPT ![d] = [ch[d] EXCEPT !.status = "idle", !.alive = FALSE,
                                                     !.rec = None, !.last = last]]
        PROVE  ch[c].token <= ch'[c].token
    <3>1. ch'[c] = IF d = c
                   THEN [ch[c] EXCEPT !.status = "idle", !.alive = FALSE, !.rec = None,
                                      !.last = last]
                   ELSE ch[c]
      BY <1>1, <2>3
    <3>2. QED
      BY <1>1, <1>4, <2>1, <3>1
  <2>4. QED
    BY <1>2, <2>2, <2>3
<1>6. ASSUME NEW d \in Channels, leaseChannel(d) PROVE ch[c].token <= ch'[c].token
  <2>1. [ch[c] EXCEPT !.status = "leased", !.alive = TRUE, !.token = ch[c].token + 1].token
          = ch[c].token + 1
    BY <1>1 DEF ChannelRow
  <2>2. ch'[c] = IF d = c
                 THEN [ch[c] EXCEPT !.status = "leased", !.alive = TRUE, !.token = ch[c].token + 1]
                 ELSE ch[c]
    BY <1>1, <1>6 DEF leaseChannel
  <2>3. QED
    BY <1>1, <2>1, <2>2
<1>7. ASSUME NEW lease \in Hashes, releaseChannel(lease) PROVE ch[c].token <= ch'[c].token
  <2>1. [ch[c] EXCEPT !.status = "idle", !.alive = FALSE, !.rec = None].token = ch[c].token
    BY <1>1 DEF ChannelRow
  <2>2. QED
    BY <1>1, <1>4, <1>7, <2>1, HashParts DEF releaseChannel
<1>8. ASSUME NEW p \in Payments, NEW lease \in Hashes, NEW seq, NEW who,
             storePreparedAndReserve(p, lease, seq, who)
      PROVE  ch[c].token <= ch'[c].token
  <2>1. [ch[c] EXCEPT !.status = "unresolved", !.rec = p].token = ch[c].token
    BY <1>1 DEF ChannelRow
  <2>2. QED
    BY <1>1, <1>2, <1>3, <1>4, <1>8, <2>1, HashParts DEF storePreparedAndReserve
<1>9. syncChannels => ch[c].token <= ch'[c].token
  <2>1. [ch[c] EXCEPT !.status = "idle"].token = ch[c].token
    BY <1>1 DEF ChannelRow
  <2>2. QED
    BY <1>4, <2>1 DEF syncChannels
<1>10. ASSUME NEW d \in Channels, ChannelLeaseRunsOut(d) PROVE ch[c].token <= ch'[c].token
  BY <1>1, <1>10 DEF ChannelLeaseRunsOut, ChannelRow
<1>11. ASSUME NEW r \in Calls, CallStep(r) PROVE ch[c].token <= ch'[c].token
  <2>1. Live(r) => call[r].pay \in Payments
    BY DEF CallShape
  <2>2. call[r].pc \in {"store", "release"} => call[r].lease \in Hashes
    BY <1>1 DEF CallShape, ProcTypeOK, CallRecord
  <2>3. CASE Fail(r) \/ PollResolves(r)
    BY <1>5, <2>1, <2>3 DEF Fail, PollResolves, At, Live
  <2>4. CASE LeaseChannel(r)
    BY <1>2, <1>3, <1>6, <2>4 DEF LeaseChannel
  <2>5. CASE Store(r)
    BY <1>8, <2>1, <2>2, <2>5 DEF Store, At, Live
  <2>6. CASE Release(r)
    BY <1>7, <2>2, <2>6 DEF Release, At
  <2>7. CASE \/ Refuse(r) \/ Claim(r) \/ WaitForOwner(r) \/ Prepare(r) \/ PrepareFails(r)
             \/ Reload(r) \/ SendAccepted(r) \/ SendNotAccepted(r) \/ SendRejected(r) \/ Mark(r)
             \/ PollTimesOut(r) \/ GiveUp(r)
    BY <1>2, <1>3, <2>7
    DEF Refuse, Claim, WaitForOwner, Prepare, PrepareFails, Reload, SendAccepted,
        SendNotAccepted, SendRejected, Mark, PollTimesOut, GiveUp, claimSettlement, markPending,
        markUnknown
  <2>8. QED
    BY <1>11, <2>3, <2>4, <2>5, <2>6, <2>7 DEF CallStep
<1>12. ASSUME NEW w \in Workers, ReplicaStep(w) PROVE ch[c].token <= ch'[c].token
  <2>1. ExpiryElapsed(w) => sweep[w].item.pay \in Payments
    BY <1>1 DEF ExpiryElapsed, SweepShape, ProcTypeOK, SweepRecord, SweepItems
  <2>2. CASE ExpiryElapsed(w) \/ \E i \in SweepItems : SweepResolves(w, i)
    BY <1>5, <2>1, <2>2 DEF ExpiryElapsed, SweepResolves, SweepItems
  <2>3. CASE Boot(w)
    BY <1>9, <2>3 DEF Boot
  <2>4. QED
    BY <1>2, <1>3, <1>12, <2>2, <2>3
    DEF ReplicaStep, SweepStep, SweepList, HorizonNotFound, LeaveUnresolved, SweepPollTimesOut,
        Crash
<1>13. CASE \/ \E p \in Payments, print \in Prints : Verify(p, print)
            \/ \E r \in Calls, w \in Workers, p \in Payments, print \in Prints,
                  actual \in Amounts, who \in Principals : Admit(r, w, p, print, actual, who)
            \/ \E p \in Payments : RecordLeaseExpires(p)
            \/ \E h \in Hashes : NetworkStep(h)
            \/ UNCHANGED vars
  BY <1>2, <1>3, <1>13
  DEF Verify, Admit, RecordLeaseExpires, NetworkStep, LedgerApplies, MaximumTimePasses, vars,
      registerIdempotency, RecordLeaseRunsOut
<1>14. QED
  BY <1>10, <1>11, <1>12, <1>13 DEF Next, ChannelLeaseExpires

LEMMA LeaseIsFresh ==
  ASSUME TypeOK, NEW r \in Calls, LeaseChannel(r), call'[r].pc = "prepare"
  PROVE  \E c \in Channels : /\ call'[r].lease = <<c, ch[c].token + 1>>
                             /\ ch'[c].token = ch[c].token + 1
<1>1. /\ call \in [Calls -> CallRecord] /\ call[r] \in CallRecord
      /\ ch \in [Channels -> ChannelRow]
  BY DEF TypeOK, ProcTypeOK, StoreTypeOK
<1>2. ~Answer(r, "busy")
  BY <1>1 DEF Answer, CallRecord
<1>3. PICK c \in Channels :
        /\ leaseChannel(c)
        /\ call' = [call EXCEPT ![r] = [call[r] EXCEPT !.pc = "prepare",
                                                       !.lease = <<c, ch[c].token + 1>>]]
  BY <1>2 DEF LeaseChannel
<1>4. [ch[c] EXCEPT !.status = "leased", !.alive = TRUE, !.token = ch[c].token + 1].token
        = ch[c].token + 1
  BY <1>1 DEF ChannelRow
<1>5. [call[r] EXCEPT !.pc = "prepare", !.lease = <<c, ch[c].token + 1>>].lease
        = <<c, ch[c].token + 1>>
  BY <1>1 DEF CallRecord
<1>6. QED
  BY <1>1, <1>3, <1>4, <1>5 DEF leaseChannel

\* What a step may do to a recovery loop: list the hashes of undecided records,
\* take an item of the list in hand, and drop it.
SweepMoves(w) ==
  /\ \A i \in sweep'[w].todo :
       \/ i \in sweep[w].todo
       \/ i.pay \in Payments /\ rec[i.pay].tx = i.tx /\ i.tx # None
  /\ sweep'[w].item # None => sweep'[w].item = sweep[w].item \/ sweep'[w].item \in sweep[w].todo
  /\ sweep'[w].pc \in {"horizon", "expiry"} => sweep'[w].item # None

LEMMA SweepFrame ==
  ASSUME TypeOK, SweepShape, [Next]_vars, NEW w \in Workers
  PROVE  SweepMoves(w)
<1>1. sweep \in [Workers -> SweepRecord] /\ sweep[w] \in SweepRecord
  BY DEF TypeOK, ProcTypeOK
<1>2. sweep'[w] = sweep[w] => SweepMoves(w)
  BY <1>1 DEF SweepShape, SweepMoves
<1>3. ASSUME NEW v \in Workers, ReplicaStep(v), UNCHANGED sweep \/ v # w PROVE SweepMoves(w)
  BY <1>1, <1>2, <1>3
  DEF ReplicaStep, SweepStep, SweepList, HorizonNotFound, ExpiryElapsed, LeaveUnresolved,
      SweepResolves, SweepPollTimesOut, Crash, Boot, Swept
<1>4. ASSUME NEW i, Swept(w, i) PROVE SweepMoves(w)
  BY <1>1, <1>4 DEF Swept, SweepMoves
<1>5. CASE SweepList(w)
  BY <1>1, <1>5 DEF SweepList, SweepMoves, listUnresolved
<1>6. CASE HorizonNotFound(w)
  BY <1>1, <1>6 DEF HorizonNotFound, SweepMoves, SweepShape, SweepRecord
<1>7. ASSUME NEW i \in SweepItems, SweepPollTimesOut(w, i) PROVE SweepMoves(w)
  <2>1. sweep'[w] = [sweep[w] EXCEPT !.pc = "horizon", !.item = i] /\ i \in sweep[w].todo
    BY <1>1, <1>7 DEF SweepPollTimesOut
  <2>2. QED
    BY <1>1, <2>1, ItemsAssumption DEF SweepMoves, SweepRecord
<1>8. CASE Crash(w)
  BY <1>1, <1>8 DEF Crash, Resting, SweepMoves
<1>9. CASE ReplicaStep(w)
  BY <1>3, <1>4, <1>5, <1>6, <1>7, <1>8, <1>9
  DEF ReplicaStep, SweepStep, ExpiryElapsed, LeaveUnresolved, SweepResolves, Boot
<1>10. ASSUME NEW r \in Calls, CallStep(r) PROVE UNCHANGED sweep
  BY <1>10 DEF CallStep, Refuse, Claim, WaitForOwner, LeaseChannel, Prepare, PrepareFails, Store,
     Release, Fail, Reload, SendAccepted, SendNotAccepted, SendRejected, Mark, PollResolves,
     PollTimesOut, GiveUp, Background
<1>11. CASE \/ \E p \in Payments, print \in Prints : Verify(p, print)
            \/ \E r \in Calls, v \in Workers, p \in Payments, print \in Prints,
                  actual \in Amounts, who \in Principals : Admit(r, v, p, print, actual, who)
            \/ \E p \in Payments : RecordLeaseExpires(p)
            \/ \E c \in Channels : ChannelLeaseExpires(c)
            \/ \E h \in Hashes : NetworkStep(h)
            \/ UNCHANGED vars
  BY <1>2, <1>11 DEF Verify, Admit, RecordLeaseExpires, ChannelLeaseExpires, NetworkStep,
     LedgerApplies, MaximumTimePasses, procVars, Background, vars
<1>12. QED
  BY <1>2, <1>3, <1>9, <1>10, <1>11 DEF Next

-----------------------------------------------------------------------------
(* The inductive invariant. *)

LEMMA InitInv == Init => Inv
<1>1. SUFFICES ASSUME Init PROVE Inv
  OBVIOUS
<1>2. StoreTypeOK
  BY <1>1, BoundsAssumption
  DEF Init, StoreInit, StoreTypeOK, NoRow, RecordRow, ChannelRow
<1>3. StellarTypeOK
  BY <1>1 DEF Init, StellarInit, StellarTypeOK
<1>4. ProcTypeOK
  <2>1. Idle \in CallRecord
    BY DEF Idle, CallRecord, Pcs
  <2>2. QED
    BY <1>1, <2>1, SettlementAssumption DEF Init, ProcTypeOK, Resting, SweepRecord
<1>5. \A p \in Payments : rec[p].tx = None /\ rec[p].response = None
  BY <1>1 DEF Init, StoreInit, NoRow
<1>6. \A r \in Calls : call[r] = Idle
  BY <1>1 DEF Init
<1>7. \A w \in Workers : sweep[w] = Resting
  BY <1>1 DEF Init
<1>8. \A h \in Hashes : ~Built(h)
  BY <1>1 DEF Init, StellarInit, Built
<1>9. CallShape /\ SweepShape
  BY <1>6, <1>7 DEF CallShape, SweepShape, Idle, Resting, At, Live
<1>10. LeasesUnique
  BY <1>6, <1>8 DEF LeasesUnique, Idle, At
<1>11. ReferencesMatch
  BY <1>5, <1>6, <1>7 DEF ReferencesMatch, Idle, Resting, At
<1>12. TruthfulSuccess
  BY <1>5, <1>6, NoneAssumption DEF TruthfulSuccess, Idle
<1>13. QED
  BY <1>2, <1>3, <1>4, <1>9, <1>10, <1>11, <1>12 DEF Inv, TypeOK

LEMMA RecordTyped ==
  ASSUME TypeOK, NEW p \in Payments
  PROVE  rec[p] \in RecordRow /\ rec[p].tx \in Hashes \cup {None}
  BY DEF TypeOK, StoreTypeOK, RecordRow

LEMMA CallShapeStep ==
  ASSUME Inv, [Next]_vars
  PROVE  CallShape'
<1>1. TypeOK /\ CallShape /\ SweepShape /\ ReferencesMatch
  BY DEF Inv
<1>2. ASSUME NEW r \in Calls, call[r].pay \in Payments, rec[call[r].pay].tx # None
      PROVE  rec'[call[r].pay].tx # None
  <2>1. RecordMoves(call[r].pay)
    BY <1>1, <1>2, RecordFrame
  <2>2. \A q \in Calls : At(q, "store") => call[q].lease # None
    BY <1>1 DEF CallShape, At
  <2>3. QED
    BY <1>2, <2>1, <2>2 DEF RecordMoves
<1>3. ASSUME NEW r \in Calls
      PROVE  /\ Live(r)' => /\ call'[r].pay \in Payments /\ call'[r].print \in Prints
                            /\ call'[r].actual \in Amounts /\ call'[r].who \in Principals
                            /\ call'[r].worker \in Workers
             /\ call'[r].pc \in {"prepare", "store", "release"} => call'[r].lease # None
             /\ At(r, "reload")' => rec'[call'[r].pay].tx # None
             /\ call'[r].pc \in {"send", "mark", "poll", "giveup"} => call'[r].tx # None
  <2>1. CallMoves(r)
    BY <1>1, CallFrame
  <2>2. CASE call'[r] = call[r]
    BY <1>1, <1>2, <2>2 DEF CallShape, Live, At
  <2>3. CASE NewCall(r) \/ call'[r].pc = "done"
    BY <2>3 DEF NewCall, Live, At
  <2>4. CASE CallGoesOn(r)
    <3>1. ASSUME At(r, "reload")' PROVE rec'[call'[r].pay].tx # None
      <4>1. Store(r) /\ StoreResult(call[r].lease, tx[call[r].lease].seq, call[r].who) = "stored"
        BY <2>4, <3>1 DEF CallGoesOn, At
      <4>2. call[r].lease # None /\ call[r].pay \in Payments
        BY <1>1, <4>1 DEF CallShape, Store, At, Live
      <4>3. rec'[call[r].pay].tx = call[r].lease
        <5>1. rec' = [rec EXCEPT ![call[r].pay] =
                        [rec[call[r].pay] EXCEPT !.status = "submitting", !.tx = call[r].lease,
                                                 !.seq = tx[call[r].lease].seq]]
          BY <4>1 DEF Store, storePreparedAndReserve
        <5>2. QED
          BY <1>1, <4>2, <5>1, RecordTyped DEF RecordRow, TypeOK, StoreTypeOK
      <4>4. QED
        BY <2>4, <4>2, <4>3 DEF CallGoesOn, SameParameters
    <3>2. QED
      BY <1>1, <2>4, <3>1 DEF CallGoesOn, SameParameters, CallShape, Live
  <2>5. QED
    BY <2>1, <2>2, <2>3, <2>4 DEF CallMoves
<1>4. QED
  BY <1>3 DEF CallShape

LEMMA SweepShapeStep ==
  ASSUME Inv, [Next]_vars
  PROVE  SweepShape'
<1>1. TypeOK /\ SweepShape
  BY DEF Inv
<1>2. \A w \in Workers : SweepMoves(w)
  BY <1>1, SweepFrame
<1>3. QED
  BY <1>2 DEF SweepShape, SweepMoves

LEMMA LeasesUniqueStep ==
  ASSUME Inv, [Next]_vars
  PROVE  LeasesUnique'
<1>1. /\ TypeOK /\ CallShape /\ SweepShape /\ ReferencesMatch /\ LeasesUnique
      /\ call \in [Calls -> CallRecord]
  BY DEF Inv, TypeOK, ProcTypeOK
<1>2. \A c \in Channels : ch[c].token \in Nat /\ ch[c].token <= ch'[c].token
  BY <1>1, TokensGrow, BoundsAssumption DEF TypeOK, StoreTypeOK, ChannelRow
<1>3. TypeOK'
  BY <1>1, TypeStep
<1>4. \A c \in Channels : ch'[c].token \in Nat
  BY <1>3, BoundsAssumption DEF TypeOK, StoreTypeOK, ChannelRow
<1>5. \A r \in Calls : call[r].lease \in Hashes \cup {None} /\ call'[r].lease \in Hashes \cup {None}
  BY <1>1, <1>3 DEF TypeOK, ProcTypeOK, CallRecord
\* A call's lease is new, old, or given up.
<1>6. ASSUME NEW r \in Calls, call'[r].lease # None
      PROVE  \/ call'[r].lease = call[r].lease
             \/ /\ CallStep(r) /\ LeaseChannel(r) /\ call'[r].pc = "prepare"
                /\ \E c \in Channels : /\ call'[r].lease = <<c, ch[c].token + 1>>
                                       /\ ch'[c].token = ch[c].token + 1
  <2>1. CallMoves(r)
    BY <1>1, CallFrame
  <2>2. LeaseChannel(r) => CallStep(r)
    BY DEF CallStep
  <2>3. QED
    BY <1>1, <1>6, <2>1, <2>2, LeaseIsFresh DEF CallMoves, NewCall, CallGoesOn
<1>7. ASSUME NEW r \in Calls, call'[r].lease # None
      PROVE  call'[r].lease[2] <= ch'[call'[r].lease[1]].token
  <2>1. CASE call'[r].lease = call[r].lease
    <3>1. call[r].lease[2] \in Nat /\ call[r].lease[1] \in Channels
      BY <1>5, <1>7, <2>1, HashParts, BoundsAssumption
    <3>2. call[r].lease[2] <= ch[call[r].lease[1]].token
      BY <1>1, <1>7, <2>1 DEF LeasesUnique
    <3>3. QED
      BY <1>2, <1>4, <2>1, <3>1, <3>2
  <2>2. CASE call'[r].lease # call[r].lease
    BY <1>2, <1>4, <1>6, <1>7, <2>2
  <2>3. QED
    BY <2>1, <2>2
<1>8. ASSUME NEW r \in Calls, NEW q \in Calls, call'[r].lease # None,
             call'[r].lease = call'[q].lease, r # q
      PROVE  FALSE
  <2>1. ~(call'[r].lease = call[r].lease /\ call'[q].lease = call[q].lease)
    BY <1>1, <1>8 DEF LeasesUnique
  <2>2. ASSUME NEW a \in Calls, NEW b \in Calls, a # b, call'[a].lease # None,
               call'[a].lease = call'[b].lease, call'[a].lease # call[a].lease
        PROVE  FALSE
    <3>1. CallStep(a)
      BY <1>6, <2>2
    <3>2. call'[b] = call[b]
      BY <1>1, <2>2, <3>1, CallStepMoves
    <3>3. call[b].lease[2] <= ch[call[b].lease[1]].token
      BY <1>1, <2>2, <3>2 DEF LeasesUnique
    <3>4. PICK c \in Channels : call[b].lease = <<c, ch[c].token + 1>>
      BY <1>6, <2>2, <3>2
    <3>5. QED
      BY <1>2, <3>3, <3>4
  <2>3. QED
    BY <1>8, <2>1, <2>2
<1>9. ASSUME NEW h \in Hashes, Built(h)' PROVE Built(h) \/ \E r \in Calls : Prepare(r) /\ call[r].lease = h
  <2>1. CASE UNCHANGED netVars
    BY <1>9, <2>1 DEF netVars, Built
  <2>2. tx \in [Hashes -> Envelope \cup {None}]
    BY <1>1 DEF TypeOK, StellarTypeOK
  <2>3. ASSUME NEW r \in Calls, Prepare(r)
        PROVE  Built(h) \/ call[r].lease = h
    BY <1>9, <2>2, <2>3 DEF Prepare, Build, Built
  <2>4. ASSUME NEW r \in Calls, SendAccepted(r) PROVE Built(h)
    BY <1>9, <2>2, <2>4 DEF SendAccepted, Accept, Built
  <2>5. ASSUME NEW g \in Hashes, NetworkStep(g) PROVE Built(h)
    BY <1>9, <2>2, <2>5
    DEF NetworkStep, LedgerApplies, MaximumTimePasses, Apply, Applicable, PassMaximumTime, Built
  <2>6. QED
    BY <2>1, <2>3, <2>4, <2>5, NetworkFrame
<1>10. ASSUME NEW h \in Hashes, Built(h)' PROVE h[2] <= ch'[h[1]].token
  <2>1. h[2] \in Nat /\ h[1] \in Channels
    BY HashParts, BoundsAssumption
  <2>2. CASE Built(h)
    BY <1>1, <1>2, <1>4, <2>1, <2>2 DEF LeasesUnique
  <2>3. ASSUME NEW r \in Calls, Prepare(r), call[r].lease = h PROVE h[2] <= ch'[h[1]].token
    <3>1. h # None
      BY NoneAssumption
    <3>2. h[2] <= ch[h[1]].token
      BY <1>1, <2>3, <3>1 DEF LeasesUnique
    <3>3. QED
      BY <1>2, <1>4, <2>1, <3>2
  <2>4. QED
    BY <1>9, <1>10, <2>2, <2>3
<1>11. ASSUME NEW r \in Calls, At(r, "prepare")' PROVE tx'[call'[r].lease] = None
  <2>1. call'[r].lease # None /\ call'[r].lease \in Hashes
    BY <1>1, <1>5, <1>11, CallShapeStep DEF CallShape, At
  <2>2. SUFFICES ASSUME tx'[call'[r].lease] # None PROVE FALSE
    OBVIOUS
  <2>3. Built(call'[r].lease) \/ \E q \in Calls : Prepare(q) /\ call[q].lease = call'[r].lease
    BY <1>9, <2>1, <2>2 DEF Built
  <2>4. CASE call'[r].lease # call[r].lease
    <3>1. PICK c \in Channels : call'[r].lease = <<c, ch[c].token + 1>>
      BY <1>6, <2>1, <2>4
    <3>2. ~Built(call'[r].lease)
      BY <1>1, <1>2, <2>1, <3>1 DEF LeasesUnique
    <3>3. ASSUME NEW q \in Calls, call[q].lease = call'[r].lease PROVE FALSE
      BY <1>1, <1>2, <2>1, <3>1, <3>3 DEF LeasesUnique
    <3>4. QED
      BY <2>3, <3>2, <3>3
  <2>5. CASE call'[r].lease = call[r].lease
    <3>1. CallMoves(r)
      BY <1>1, CallFrame
    <3>2. call'[r] = call[r] \/ CallGoesOn(r)
      BY <1>11, <2>1, <3>1 DEF CallMoves, NewCall, At
    <3>3. ~LeaseChannel(r)
      BY <1>1, <1>2, <1>6, <1>11, <2>1, <2>5, LeaseIsFresh DEF LeasesUnique, At
    <3>4. call'[r] = call[r]
      BY <1>11, <3>2, <3>3 DEF CallGoesOn, At
    <3>5. ~Built(call'[r].lease) /\ At(r, "prepare")
      BY <1>1, <1>11, <3>4 DEF LeasesUnique, At
    <3>6. PICK q \in Calls : Prepare(q) /\ call[q].lease = call[r].lease
      BY <2>3, <2>5, <3>5
    <3>7. q = r
      BY <1>1, <2>1, <2>5, <3>6 DEF LeasesUnique
    <3>8. call'[q].pc = "store"
      BY <1>1, <3>6 DEF Prepare, Goto, CallRecord
    <3>9. QED
      BY <1>11, <3>7, <3>8 DEF At
  <2>6. QED
    BY <2>4, <2>5
<1>12. QED
  BY <1>7, <1>8, <1>10, <1>11 DEF LeasesUnique, Built

LEMMA ReferencesKept ==
  ASSUME Inv, [Next]_vars, NEW h \in Hashes, NEW p, EnvelopeOf(h, p)
  PROVE  tx'[h] # None /\ tx'[h].pay = p
  BY EnvelopesKept DEF Inv, EnvelopeOf, Built

LEMMA ReferencesMatchStep ==
  ASSUME Inv, [Next]_vars
  PROVE  ReferencesMatch'
<1>1. /\ TypeOK /\ CallShape /\ SweepShape /\ ReferencesMatch
      /\ call \in [Calls -> CallRecord] /\ sweep \in [Workers -> SweepRecord]
  BY DEF Inv, TypeOK, ProcTypeOK
<1>2. TypeOK' /\ call' \in [Calls -> CallRecord]
  BY <1>1, TypeStep DEF TypeOK, ProcTypeOK
<1>3. \A r \in Calls : call[r].lease \in Hashes \cup {None} /\ call[r].tx \in Hashes \cup {None}
  BY <1>1 DEF CallRecord
<1>4. ASSUME NEW p \in Payments, rec'[p].tx # None
      PROVE  tx'[rec'[p].tx] # None /\ tx'[rec'[p].tx].pay = p
  <2>1. RecordMoves(p) /\ rec[p].tx \in Hashes \cup {None}
    BY <1>1, RecordFrame, RecordTyped
  <2>2. CASE rec'[p].tx = rec[p].tx
    BY <1>1, <1>4, <2>1, <2>2, ReferencesKept DEF ReferencesMatch
  <2>3. ASSUME NEW r \in Calls, At(r, "store"), call[r].pay = p, rec'[p].tx = call[r].lease
        PROVE  tx'[rec'[p].tx] # None /\ tx'[rec'[p].tx].pay = p
    BY <1>1, <1>3, <1>4, <2>3, ReferencesKept DEF ReferencesMatch
  <2>4. QED
    BY <2>1, <2>2, <2>3 DEF RecordMoves
<1>5. ASSUME NEW r \in Calls, call'[r].tx # None
      PROVE  tx'[call'[r].tx] # None /\ tx'[call'[r].tx].pay = call'[r].pay
  <2>1. CallMoves(r)
    BY <1>1, CallFrame
  <2>2. CASE call'[r].tx = call[r].tx /\ call'[r].pay = call[r].pay
    BY <1>1, <1>3, <1>5, <2>2, ReferencesKept DEF ReferencesMatch
  <2>3. CASE CallGoesOn(r) /\ call'[r].tx # call[r].tx
    <3>1. call'[r].tx = rec[call[r].pay].tx /\ call[r].pay \in Payments
          /\ call'[r].pay = call[r].pay
      BY <1>1, <2>3 DEF CallGoesOn, SameParameters, CallShape
    <3>2. QED
      BY <1>1, <1>5, <3>1, RecordTyped, ReferencesKept DEF ReferencesMatch
  <2>4. QED
    BY <1>5, <2>1, <2>2, <2>3 DEF CallMoves, NewCall, SameParameters, CallGoesOn
<1>6. ASSUME NEW r \in Calls, call'[r].pc = "store"
      PROVE  tx'[call'[r].lease] # None /\ tx'[call'[r].lease].pay = call'[r].pay
  <2>1. CallMoves(r)
    BY <1>1, CallFrame
  <2>2. CASE call'[r] = call[r]
    BY <1>1, <1>3, <1>6, <2>2, ReferencesKept DEF ReferencesMatch, At, CallShape
  <2>3. CASE CallGoesOn(r)
    <3>1. Prepare(r) /\ call'[r].lease = call[r].lease /\ call'[r].pay = call[r].pay
      BY <1>6, <2>3 DEF CallGoesOn, SameParameters
    <3>2. call[r].lease \in Hashes /\ call[r].pay \in Payments /\ call[r].actual \in Amounts
      BY <1>1, <1>3, <3>1 DEF CallShape, Prepare, At, Live
    <3>3. PICK seen \in 0 .. ledSeq[call[r].lease[1]] :
            Build(call[r].lease, call[r].pay, call[r].actual, seen + 1)
      BY <3>1 DEF Prepare
    <3>4. tx'[call[r].lease] = [pay |-> call[r].pay, actual |-> call[r].actual,
                                seq |-> seen + 1, state |-> "held", late |-> FALSE]
      BY <1>1, <3>2, <3>3 DEF Build, TypeOK, StellarTypeOK
    <3>5. call[r].lease[1] \in Channels
      BY <3>2, HashParts
    <3>6. tx'[call[r].lease] \in Envelope
      <4>1. ledSeq[call[r].lease[1]] \in Nat
        BY <1>1, <3>5 DEF TypeOK, StellarTypeOK
      <4>2. seen + 1 \in Nat
        BY <4>1
      <4>3. QED
        BY <3>2, <3>4, <4>2 DEF Envelope
    <3>7. tx'[call[r].lease] # None
      BY <3>6, EnvelopeAssumption
    <3>8. tx'[call[r].lease].pay = call[r].pay
      BY <3>4
    <3>9. QED
      BY <3>1, <3>7, <3>8
  <2>4. QED
    BY <1>6, <2>1, <2>2, <2>3 DEF CallMoves, NewCall
<1>7. ASSUME NEW w \in Workers
      PROVE  /\ \A i \in sweep'[w].todo : tx'[i.tx] # None /\ tx'[i.tx].pay = i.pay
             /\ sweep'[w].item # None => /\ tx'[sweep'[w].item.tx] # None
                                         /\ tx'[sweep'[w].item.tx].pay = sweep'[w].item.pay
  <2>1. SweepMoves(w)
    BY <1>1, SweepFrame
  <2>2. /\ \A i \in sweep[w].todo : i.tx \in Hashes
        /\ sweep[w].item # None => sweep[w].item.tx \in Hashes
    BY <1>1 DEF SweepRecord, SweepItems
  <2>3. \A i \in sweep[w].todo : tx'[i.tx] # None /\ tx'[i.tx].pay = i.pay
    BY <1>1, <2>2, ReferencesKept DEF ReferencesMatch
  <2>4. ASSUME NEW i \in sweep'[w].todo PROVE tx'[i.tx] # None /\ tx'[i.tx].pay = i.pay
    <3>1. CASE i \in sweep[w].todo
      BY <2>3, <3>1
    <3>2. CASE i.pay \in Payments /\ rec[i.pay].tx = i.tx /\ i.tx # None
      <4>1. i.tx \in Hashes
        <5>1. rec[i.pay].tx \in Hashes \cup {None}
          BY <3>2, <1>1, RecordTyped
        <5>2. QED
          BY <3>2, <5>1
      <4>2. EnvelopeOf(i.tx, i.pay)
        BY <1>1, <3>2 DEF ReferencesMatch
      <4>3. QED
        BY <4>1, <4>2, ReferencesKept
    <3>3. QED
      BY <2>1, <3>1, <3>2 DEF SweepMoves
  <2>5. sweep[w].item # None => /\ tx'[sweep[w].item.tx] # None
                                /\ tx'[sweep[w].item.tx].pay = sweep[w].item.pay
    BY <1>1, <2>2, ReferencesKept DEF ReferencesMatch
  <2>6. QED
    BY <2>1, <2>3, <2>4, <2>5 DEF SweepMoves
<1>8. QED
  BY <1>4, <1>5, <1>6, <1>7 DEF ReferencesMatch, EnvelopeOf, Built, At

LEMMA PaidStaysPaid ==
  ASSUME Inv, [Next]_vars, NEW p, Paid(p)
  PROVE  Paid(p)'
<1>1. PICK h \in Hashes : Built(h) /\ tx[h].pay = p /\ tx[h].state = "SUCCESS"
  BY DEF Paid
<1>2. Built(h)' /\ tx'[h].pay = p /\ tx'[h].state = "SUCCESS"
  BY <1>1, EnvelopesKept DEF Inv
<1>3. QED
  BY <1>2 DEF Paid

LEMMA TruthfulSuccessStep ==
  ASSUME Inv, [Next]_vars
  PROVE  TruthfulSuccess'
<1>1. TypeOK /\ CallShape /\ SweepShape /\ ReferencesMatch /\ TruthfulSuccess
  BY DEF Inv
<1>2. ASSUME NEW p \in Payments, rec'[p].response = "success" PROVE Paid(p)
  <2>1. RecordMoves(p)
    BY <1>1, RecordFrame
  <2>2. QED
    BY <1>1, <1>2, <2>1 DEF RecordMoves, TruthfulSuccess
<1>3. ASSUME NEW r \in Calls, call'[r].answer = "success"
      PROVE  Paid(call[r].pay) /\ call'[r].pay = call[r].pay
  <2>1. CallMoves(r)
    BY <1>1, CallFrame
  <2>2. CASE call'[r] = call[r]
    BY <1>1, <1>3, <2>2 DEF TruthfulSuccess
  <2>3. CASE CallGoesOn(r)
    <3>1. call'[r].pay = call[r].pay
      BY <2>3 DEF CallGoesOn, SameParameters
    <3>2. CASE call'[r].answer = call[r].answer
      BY <1>1, <1>3, <3>1, <3>2 DEF TruthfulSuccess
    <3>3. CASE Live(r) /\ rec[call[r].pay].response = "success"
      BY <1>1, <3>1, <3>3 DEF TruthfulSuccess, CallShape
    <3>4. CASE PollResolves(r) /\ Outcome(call[r].tx) = "success"
      <4>1. /\ call[r].pay \in Payments /\ call[r].tx # None /\ Final(call[r].tx)
            /\ call[r].tx \in Hashes
        BY <1>1, <3>4 DEF PollResolves, At, Live, CallShape, TypeOK, ProcTypeOK, CallRecord
      <4>2. EnvelopeOf(call[r].tx, call[r].pay)
        BY <1>1, <4>1 DEF ReferencesMatch
      <4>3. QED
        BY <1>1, <3>1, <3>4, <4>1, <4>2, SuccessIsPaid
    <3>5. QED
      BY <1>3, <2>3, <3>2, <3>3, <3>4 DEF CallGoesOn
  <2>4. QED
    BY <1>1, <1>3, <2>1, <2>2, <2>3, NoneAssumption DEF CallMoves, NewCall
<1>4. ASSUME NEW p \in Payments, rec'[p].response = "success"
      PROVE  \E h \in Hashes : tx'[h] # None /\ tx'[h].pay = p /\ tx'[h].state = "SUCCESS"
  BY <1>2, <1>4, PaidStaysPaid DEF Paid, Built
<1>5. ASSUME NEW r \in Calls, call'[r].answer = "success"
      PROVE  \E h \in Hashes : /\ tx'[h] # None /\ tx'[h].pay = call'[r].pay
                               /\ tx'[h].state = "SUCCESS"
  BY <1>3, <1>5, PaidStaysPaid DEF Paid, Built
<1>6. QED
  BY <1>4, <1>5 DEF TruthfulSuccess, Paid, Built

LEMMA InvStep == Inv /\ [Next]_vars => Inv'
<1>1. SUFFICES ASSUME Inv, [Next]_vars PROVE Inv'
  OBVIOUS
<1>2. TypeOK'
  BY <1>1, TypeStep DEF Inv
<1>3. QED
  BY <1>1, <1>2, CallShapeStep, SweepShapeStep, LeasesUniqueStep, ReferencesMatchStep,
     TruthfulSuccessStep DEF Inv

LEMMA InvAlways == Spec => []Inv
  BY InitInv, InvStep, PTL DEF Spec

\* Rows, envelopes, calls and loops keep their types, in every environment.
THEOREM TypeCorrect == Spec => []TypeOK
<1>1. Inv => TypeOK
  BY DEF Inv
<1>2. QED
  BY <1>1, InvAlways, PTL

\* No record and no reply says "success" of a payment that no ledger has made:
\* with duplicate calls, lost leases, crashes and ledgers that close between two
\* reads, too.
THEOREM SuccessTruthful == Spec => []TruthfulSuccess
<1>1. Inv => TruthfulSuccess
  BY DEF Inv
<1>2. QED
  BY <1>1, InvAlways, PTL

=============================================================================
