---------------------------- MODULE PromiseProofs ----------------------------
(***************************************************************************)
(* Proofs about Settlement: where records have one owner, one hash per     *)
(* payment, quarantine, final answers and the refinement of PaymentPromise *)
(* hold; amounts and budgets hold in every environment.                    *)
(***************************************************************************)
EXTENDS SettlementProofs, FiniteSetTheorems

-----------------------------------------------------------------------------
(* What a step does to envelopes and ledgers. *)

\* An envelope stays what it is until somebody submits it or a ledger applies it.
EnvelopeMoves(h) ==
  /\ Built(h)' /\ tx'[h].pay = tx[h].pay /\ tx'[h].actual = tx[h].actual
  /\ tx'[h].seq = tx[h].seq /\ (tx[h].late => tx'[h].late)
  /\ \/ tx'[h].state = tx[h].state
     \/ /\ tx[h].state = "held" /\ Applicable(h) /\ tx'[h].state = "sent"
        /\ \E r \in Calls : SendAccepted(r) /\ call[r].tx = h
     \/ /\ tx[h].state = "sent" /\ LedgerApplies(h) /\ tx'[h].state \in {"SUCCESS", "FAILED"}
        /\ tx'[h].state = "SUCCESS" => ~Paid(tx[h].pay)

LEMMA EnvelopeFrame ==
  ASSUME TypeOK, CallShape, LeasesUnique, [Next]_vars, NEW h \in Hashes, Built(h)
  PROVE  EnvelopeMoves(h)
<1>1. tx \in [Hashes -> Envelope \cup {None}] /\ tx[h] \in Envelope
  BY DEF TypeOK, StellarTypeOK, Built
<1>2. ASSUME tx'[h] = tx[h] PROVE EnvelopeMoves(h)
  BY <1>2 DEF EnvelopeMoves, Built
<1>3. UNCHANGED netVars => EnvelopeMoves(h)
  BY <1>2 DEF netVars
<1>4. ASSUME NEW r \in Calls, Prepare(r) PROVE EnvelopeMoves(h)
  <2>1. call[r].lease # h
    BY <1>4 DEF Prepare, LeasesUnique
  <2>2. QED
    BY <1>1, <1>2, <1>4, <2>1 DEF Prepare, Build
<1>5. \A s \in {"held", "sent", "SUCCESS", "FAILED"} :
        /\ [tx[h] EXCEPT !.state = s] \in Envelope
        /\ [tx[h] EXCEPT !.state = s].pay = tx[h].pay
        /\ [tx[h] EXCEPT !.state = s].actual = tx[h].actual
        /\ [tx[h] EXCEPT !.state = s].seq = tx[h].seq
        /\ [tx[h] EXCEPT !.state = s].late = tx[h].late
        /\ [tx[h] EXCEPT !.state = s].state = s
  BY <1>1 DEF Envelope
<1>6. ASSUME NEW r \in Calls, SendAccepted(r) PROVE EnvelopeMoves(h)
  <2>1. call[r].tx \in Hashes
    BY <1>6 DEF SendAccepted, At, CallShape, CallRecord, TypeOK, ProcTypeOK
  <2>2. tx' = [tx EXCEPT ![call[r].tx].state = "sent"]
    BY <1>6 DEF SendAccepted, Accept
  <2>3. CASE call[r].tx # h
    BY <1>1, <1>2, <2>1, <2>2, <2>3
  <2>4. CASE call[r].tx = h
    <3>1. tx'[h] = [tx[h] EXCEPT !.state = "sent"]
      BY <1>1, <2>2, <2>4
    <3>2. (tx[h].state = "held" /\ Applicable(h)) \/ tx[h].state = "sent"
      BY <1>6, <2>4 DEF SendAccepted, Accept
    <3>3. QED
      BY <1>5, <1>6, <2>4, <3>1, <3>2, EnvelopeAssumption DEF EnvelopeMoves, Built
  <2>5. QED
    BY <2>3, <2>4
<1>7. ASSUME NEW g \in Hashes, LedgerApplies(g) PROVE EnvelopeMoves(h)
  <2>1. PICK s \in {"SUCCESS", "FAILED"} :
          /\ s = "SUCCESS" => ~Paid(tx[g].pay)
          /\ tx' = [tx EXCEPT ![g].state = s]
    BY <1>7 DEF LedgerApplies, Apply
  <2>2. CASE g # h
    BY <1>1, <1>2, <2>1, <2>2
  <2>3. CASE g = h
    <3>1. tx'[h] = [tx[h] EXCEPT !.state = s]
      BY <1>1, <2>1, <2>3
    <3>2. tx[h].state = "sent"
      BY <1>7, <2>3 DEF LedgerApplies, Apply
    <3>3. QED
      BY <1>5, <1>7, <2>1, <2>3, <3>1, <3>2, EnvelopeAssumption DEF EnvelopeMoves, Built
  <2>4. QED
    BY <2>2, <2>3
<1>8. ASSUME NEW g \in Hashes, MaximumTimePasses(g) PROVE EnvelopeMoves(h)
  <2>1. tx' = [tx EXCEPT ![g].late = TRUE]
    BY <1>8 DEF MaximumTimePasses, PassMaximumTime
  <2>2. CASE g # h
    BY <1>1, <1>2, <2>1, <2>2
  <2>3. CASE g = h
    <3>1. tx'[h] = [tx[h] EXCEPT !.late = TRUE]
      BY <1>1, <2>1, <2>3
    <3>2. [tx[h] EXCEPT !.late = TRUE] \in Envelope
      BY <1>1 DEF Envelope
    <3>3. QED
      BY <1>1, <3>1, <3>2, EnvelopeAssumption DEF EnvelopeMoves, Built, Envelope
  <2>4. QED
    BY <2>2, <2>3
<1>9. QED
  BY <1>3, <1>4, <1>6, <1>7, <1>8, NetworkFrame DEF NetworkStep

\* An envelope that was not there before is the one that a call prepares.
LEMMA EnvelopeIsNew ==
  ASSUME TypeOK, CallShape, [Next]_vars, NEW h \in Hashes, ~Built(h), Built(h)'
  PROVE  \E r \in Calls : /\ Prepare(r) /\ call[r].lease = h
                          /\ tx'[h].pay = call[r].pay /\ tx'[h].actual = call[r].actual
                          /\ tx'[h].state = "held"
<1>1. tx \in [Hashes -> Envelope \cup {None}] /\ tx[h] = None
  BY DEF TypeOK, StellarTypeOK, Built
<1>2. UNCHANGED netVars => FALSE
  BY DEF netVars, Built
<1>3. ASSUME NEW r \in Calls, SendAccepted(r) PROVE FALSE
  BY <1>1, <1>3 DEF SendAccepted, Accept, Built
<1>4. ASSUME NEW g \in Hashes, NetworkStep(g) PROVE FALSE
  BY <1>1, <1>4
  DEF NetworkStep, LedgerApplies, MaximumTimePasses, Apply, Applicable, PassMaximumTime, Built
<1>5. PICK r \in Calls : Prepare(r)
  BY <1>2, <1>3, <1>4, NetworkFrame
<1>6. PICK seq : Build(call[r].lease, call[r].pay, call[r].actual, seq)
  BY <1>5 DEF Prepare
<1>7. call[r].lease = h
  BY <1>1, <1>6 DEF Build, Built
<1>8. QED
  BY <1>1, <1>5, <1>6, <1>7 DEF Build

LEMMA LedgerFrame ==
  ASSUME TypeOK, [Next]_vars, NEW c \in Channels
  PROVE  /\ ledSeq[c] \in Nat /\ ledSeq'[c] \in Nat /\ ledSeq[c] <= ledSeq'[c]
         /\ \A h \in Hashes : LedgerApplies(h) => tx[h].seq <= ledSeq'[h[1]]
<1>1. ledSeq \in [Channels -> Nat]
  BY DEF TypeOK, StellarTypeOK
<1>2. UNCHANGED ledSeq => ledSeq[c] \in Nat /\ ledSeq'[c] \in Nat /\ ledSeq[c] <= ledSeq'[c]
  BY <1>1
<1>3. ASSUME NEW h \in Hashes, LedgerApplies(h)
      PROVE  /\ ledSeq[c] \in Nat /\ ledSeq'[c] \in Nat /\ ledSeq[c] <= ledSeq'[c]
             /\ tx[h].seq <= ledSeq'[h[1]]
  <2>1. /\ ledSeq' = [ledSeq EXCEPT ![h[1]] = ledSeq[h[1]] + 1] /\ h[1] \in Channels
        /\ tx[h].seq = ledSeq[h[1]] + 1
    BY <1>3, HashParts DEF LedgerApplies, Apply, Applicable
  <2>2. QED
    BY <1>1, <2>1
<1>4. QED
  BY <1>2, <1>3, NetworkFrame
  DEF netVars, Prepare, Build, SendAccepted, Accept, NetworkStep, MaximumTimePasses,
      PassMaximumTime

-----------------------------------------------------------------------------
(* What a step does to records and channels: nothing that matters here, the  *)
(* completion of a record, or the storing of an envelope.                    *)

RowKept(p) ==
  /\ rec'[p].tx = rec[p].tx /\ rec'[p].seq = rec[p].seq
  /\ rec'[p].response = rec[p].response

ChannelKept(c) ==
  /\ ch'[c].rec = ch[c].rec /\ ch'[c].last = ch[c].last
  /\ ch'[c].status = "unresolved" <=> ch[c].status = "unresolved"

TablesKept ==
  /\ \A p \in Payments : RowKept(p)
  /\ \A c \in Channels : ChannelKept(c)

\* Who completes a record, and with what outcome.
Cause(p, outcome, applied) ==
  \/ /\ outcome = "failed" /\ ~applied
     /\ \E r \in Calls : Fail(r) /\ call[r].pay = p
  \/ /\ applied
     /\ \E r \in Calls : PollResolves(r) /\ call[r].pay = p /\ outcome = Outcome(call[r].tx)
  \/ /\ applied
     /\ \E w \in Workers, i \in SweepItems :
          SweepResolves(w, i) /\ i.pay = p /\ outcome = Outcome(i.tx)
  \/ /\ outcome = "failed" /\ ~applied
     /\ \E w \in Workers : ExpiryElapsed(w) /\ sweep[w].item.pay = p

Completion(p, outcome, applied) ==
  complete(p, outcome, applied) /\ Cause(p, outcome, applied) /\ UNCHANGED netVars

Completes ==
  \E p \in Payments, outcome \in {"success", "failed"}, applied \in BOOLEAN :
    Completion(p, outcome, applied)

Stores(r) == Store(r) /\ StoreResult(call[r].lease, tx[call[r].lease].seq, call[r].who) = "stored"

LEMMA RowUpdate ==
  ASSUME StoreTypeOK, NEW p \in Payments, NEW row,
         row.tx = rec[p].tx, row.seq = rec[p].seq, row.response = rec[p].response,
         rec' = [rec EXCEPT ![p] = row], UNCHANGED ch
  PROVE  TablesKept
<1>1. rec \in [Payments -> RecordRow]
  BY DEF StoreTypeOK
<1>2. QED
  BY <1>1 DEF TablesKept, RowKept, ChannelKept

LEMMA ChannelUpdate ==
  ASSUME StoreTypeOK, NEW c \in Channels, NEW row,
         row.rec = ch[c].rec, row.last = ch[c].last,
         row.status = "unresolved" <=> ch[c].status = "unresolved",
         ch' = [ch EXCEPT ![c] = row], UNCHANGED rec
  PROVE  TablesKept
<1>1. ch \in [Channels -> ChannelRow]
  BY DEF StoreTypeOK
<1>2. QED
  BY <1>1 DEF TablesKept, RowKept, ChannelKept

LEMMA TablesUnchanged == UNCHANGED <<rec, ch>> => TablesKept
  BY DEF TablesKept, RowKept, ChannelKept

LEMMA RecordsMarked ==
  ASSUME StoreTypeOK, NEW p \in Payments,
         \/ \E print \in Prints : registerIdempotency(p, print)
         \/ \E print \in Prints, actual \in Amounts, w \in Workers :
              claimSettlement(p, print, actual, w)
         \/ markPending(p) \/ markUnknown(p) \/ RecordLeaseRunsOut(p)
  PROVE  TablesKept
<1>1. rec[p] \in RecordRow
  BY DEF StoreTypeOK
<1>2. CASE markPending(p)
  <2>1. /\ [rec[p] EXCEPT !.status = "pending"].tx = rec[p].tx
        /\ [rec[p] EXCEPT !.status = "pending"].seq = rec[p].seq
        /\ [rec[p] EXCEPT !.status = "pending"].response = rec[p].response
    BY <1>1 DEF RecordRow
  <2>2. QED
    BY <1>2, <2>1, RowUpdate DEF markPending
<1>3. CASE markUnknown(p)
  <2> DEFINE row == [rec[p] EXCEPT !.status = "unknown", !.worker = None, !.alive = FALSE]
  <2>1. row.tx = rec[p].tx /\ row.seq = rec[p].seq /\ row.response = rec[p].response
    BY <1>1 DEF RecordRow
  <2>2. rec' = [rec EXCEPT ![p] = row] /\ UNCHANGED ch
    BY <1>3 DEF markUnknown
  <2> HIDE DEF row
  <2>3. QED
    BY <2>1, <2>2, RowUpdate
<1>4. CASE RecordLeaseRunsOut(p)
  <2>1. /\ [rec[p] EXCEPT !.alive = FALSE].tx = rec[p].tx
        /\ [rec[p] EXCEPT !.alive = FALSE].seq = rec[p].seq
        /\ [rec[p] EXCEPT !.alive = FALSE].response = rec[p].response
    BY <1>1 DEF RecordRow
  <2>2. QED
    BY <1>4, <2>1, RowUpdate DEF RecordLeaseRunsOut
<1>5. ASSUME NEW print \in Prints, registerIdempotency(p, print) PROVE TablesKept
  <2> DEFINE row == [rec[p] EXCEPT !.print = print, !.status = "verified"]
  <2>1. row.tx = rec[p].tx /\ row.seq = rec[p].seq /\ row.response = rec[p].response
    BY <1>1 DEF RecordRow
  <2>2. (rec' = [rec EXCEPT ![p] = row] \/ rec' = rec) /\ UNCHANGED ch
    BY <1>5 DEF registerIdempotency
  <2> HIDE DEF row
  <2>3. QED
    BY <2>1, <2>2, RowUpdate, TablesUnchanged
<1>6. ASSUME NEW print \in Prints, NEW actual \in Amounts, NEW w \in Workers,
             claimSettlement(p, print, actual, w)
      PROVE  TablesKept
  <2> DEFINE row == [rec[p] EXCEPT !.print = print, !.actual = actual, !.status = "preparing",
                                   !.worker = w, !.alive = TRUE]
  <2>1. row.tx = rec[p].tx /\ row.seq = rec[p].seq /\ row.response = rec[p].response
    BY <1>1 DEF RecordRow
  <2>2. (rec' = [rec EXCEPT ![p] = row] \/ rec' = rec) /\ UNCHANGED ch
    BY <1>6 DEF claimSettlement
  <2> HIDE DEF row
  <2>3. QED
    BY <2>1, <2>2, RowUpdate, TablesUnchanged
<1>7. QED
  BY <1>2, <1>3, <1>4, <1>5, <1>6

\* Leases of channels come and go beside quarantine.
LEMMA ChannelsLeased ==
  ASSUME StoreTypeOK, Quarantined,
         \/ \E c \in Channels : leaseChannel(c) \/ ChannelLeaseRunsOut(c)
         \/ \E lease \in Hashes : releaseChannel(lease)
         \/ syncChannels
  PROVE  TablesKept
<1>1. /\ ch \in [Channels -> ChannelRow]
      /\ \A c \in Channels : ch[c].status = "unresolved" <=> ch[c].rec # None
  BY DEF StoreTypeOK, Quarantined
<1>2. ASSUME NEW c \in Channels, leaseChannel(c) PROVE TablesKept
  <2> DEFINE row == [ch[c] EXCEPT !.status = "leased", !.alive = TRUE, !.token = ch[c].token + 1]
  <2>1. /\ row.rec = ch[c].rec /\ row.last = ch[c].last
        /\ row.status = "unresolved" <=> ch[c].status = "unresolved"
    BY <1>1, <1>2 DEF ChannelRow, leaseChannel, Leasable
  <2>2. ch' = [ch EXCEPT ![c] = row] /\ UNCHANGED rec
    BY <1>2 DEF leaseChannel
  <2> HIDE DEF row
  <2>3. QED
    BY <2>1, <2>2, ChannelUpdate
<1>3. ASSUME NEW c \in Channels, ChannelLeaseRunsOut(c) PROVE TablesKept
  <2> DEFINE row == [ch[c] EXCEPT !.alive = FALSE]
  <2>1. /\ row.rec = ch[c].rec /\ row.last = ch[c].last
        /\ row.status = "unresolved" <=> ch[c].status = "unresolved"
    BY <1>1 DEF ChannelRow
  <2>2. ch' = [ch EXCEPT ![c] = row] /\ UNCHANGED rec
    BY <1>3 DEF ChannelLeaseRunsOut
  <2> HIDE DEF row
  <2>3. QED
    BY <2>1, <2>2, ChannelUpdate
<1>4. ASSUME NEW lease \in Hashes, releaseChannel(lease) PROVE TablesKept
  <2> DEFINE row == [ch[lease[1]] EXCEPT !.status = "idle", !.alive = FALSE, !.rec = None]
  <2>1. lease[1] \in Channels
    BY HashParts
  <2>2. CASE HoldsFence(lease)
    <3>1. /\ row.rec = ch[lease[1]].rec /\ row.last = ch[lease[1]].last
          /\ row.status = "unresolved" <=> ch[lease[1]].status = "unresolved"
      BY <1>1, <2>1, <2>2 DEF ChannelRow, HoldsFence
    <3>2. ch' = [ch EXCEPT ![lease[1]] = row] /\ UNCHANGED rec
      BY <1>4, <2>2 DEF releaseChannel
    <3> HIDE DEF row
    <3>3. QED
      BY <2>1, <3>1, <3>2, ChannelUpdate
  <2>3. CASE ~HoldsFence(lease)
    BY <1>4, <2>3, TablesUnchanged DEF releaseChannel
  <2>4. QED
    BY <2>2, <2>3
<1>5. CASE syncChannels
  <2>1. \A c \in Channels : /\ [ch[c] EXCEPT !.status = "idle"].rec = ch[c].rec
                            /\ [ch[c] EXCEPT !.status = "idle"].last = ch[c].last
                            /\ [ch[c] EXCEPT !.status = "idle"].status = "idle"
    BY <1>1 DEF ChannelRow
  <2>2. QED
    BY <1>1, <1>5, <2>1 DEF syncChannels, TablesKept, RowKept, ChannelKept
<1>6. QED
  BY <1>2, <1>3, <1>4, <1>5

LEMMA StepKinds ==
  ASSUME Inv, Quarantined, [Next]_vars
  PROVE  TablesKept \/ Completes \/ \E r \in Calls : Stores(r)
<1>1. /\ StoreTypeOK /\ CallShape /\ SweepShape /\ call \in [Calls -> CallRecord]
      /\ sweep \in [Workers -> SweepRecord]
  BY DEF Inv, TypeOK, ProcTypeOK
<1>2. UNCHANGED storeVars => TablesKept
  BY TablesUnchanged DEF storeVars
<1>3. ASSUME NEW r \in Calls, CallStep(r)
      PROVE  TablesKept \/ Completes \/ Stores(r)
  <2>1. Live(r) => /\ call[r].pay \in Payments /\ call[r].print \in Prints
                   /\ call[r].actual \in Amounts /\ call[r].worker \in Workers
    BY <1>1 DEF CallShape
  <2>2. CASE \/ Refuse(r) \/ WaitForOwner(r) \/ PrepareFails(r) \/ Reload(r)
             \/ SendNotAccepted(r) \/ SendRejected(r) \/ PollTimesOut(r) \/ Prepare(r)
             \/ SendAccepted(r)
    BY <1>2, <2>2
    DEF Refuse, WaitForOwner, PrepareFails, Reload, SendNotAccepted, SendRejected, PollTimesOut,
        Prepare, SendAccepted
  <2>3. CASE Claim(r) \/ Mark(r) \/ GiveUp(r)
    BY <1>1, <2>1, <2>3, RecordsMarked DEF Claim, Mark, GiveUp, At, Live
  <2>4. CASE LeaseChannel(r)
    BY <1>1, <1>2, <2>4, ChannelsLeased DEF LeaseChannel
  <2>5. CASE Release(r)
    <3>1. call[r].lease \in Hashes
      BY <1>1, <2>5 DEF CallShape, CallRecord, Release, At
    <3>2. QED
      BY <1>1, <2>5, <3>1, ChannelsLeased DEF Release
  <2>6. CASE Store(r)
    BY <1>2, <2>6 DEF Store, Stores, storePreparedAndReserve
  <2>7. CASE Fail(r)
    <3>1. Completion(call[r].pay, "failed", FALSE)
      BY <2>7 DEF Fail, Completion, Cause
    <3>2. QED
      BY <2>1, <2>7, <3>1 DEF Completes, Fail, At, Live
  <2>8. CASE PollResolves(r)
    <3>1. Completion(call[r].pay, Outcome(call[r].tx), TRUE)
      BY <2>8 DEF PollResolves, Completion, Cause
    <3>2. Outcome(call[r].tx) \in {"success", "failed"}
      BY DEF Outcome
    <3>3. QED
      BY <2>1, <2>8, <3>1, <3>2 DEF Completes, PollResolves, At, Live
  <2>9. QED
    BY <1>3, <2>2, <2>3, <2>4, <2>5, <2>6, <2>7, <2>8 DEF CallStep
<1>4. ASSUME NEW w \in Workers, ReplicaStep(w) PROVE TablesKept \/ Completes
  <2>1. CASE SweepList(w) \/ HorizonNotFound(w) \/ LeaveUnresolved(w) \/ Crash(w)
    BY <1>2, <2>1 DEF SweepList, HorizonNotFound, LeaveUnresolved, Crash
  <2>2. CASE Boot(w)
    BY <1>1, <2>2, ChannelsLeased DEF Boot
  <2>3. CASE ExpiryElapsed(w)
    <3>1. Completion(sweep[w].item.pay, "failed", FALSE)
      BY <2>3 DEF ExpiryElapsed, Completion, Cause
    <3>2. sweep[w].item.pay \in Payments
      BY <1>1, <2>3 DEF ExpiryElapsed, SweepShape, SweepRecord, SweepItems
    <3>3. QED
      BY <3>1, <3>2 DEF Completes
  <2>4. ASSUME NEW i \in SweepItems, SweepResolves(w, i) PROVE Completes
    <3>1. Completion(i.pay, Outcome(i.tx), TRUE)
      BY <2>4 DEF SweepResolves, Completion, Cause
    <3>2. i.pay \in Payments /\ Outcome(i.tx) \in {"success", "failed"}
      BY DEF SweepItems, Outcome
    <3>3. QED
      BY <3>1, <3>2 DEF Completes
  <2>5. ASSUME NEW i \in SweepItems, SweepPollTimesOut(w, i) PROVE TablesKept
    BY <1>2, <2>5 DEF SweepPollTimesOut
  <2>6. QED
    BY <1>4, <2>1, <2>2, <2>3, <2>4, <2>5 DEF ReplicaStep, SweepStep
<1>5. ASSUME NEW p \in Payments, NEW print \in Prints, Verify(p, print) PROVE TablesKept
  BY <1>1, <1>5, RecordsMarked DEF Verify
<1>6. ASSUME NEW p \in Payments, RecordLeaseExpires(p) PROVE TablesKept
  BY <1>1, <1>6, RecordsMarked DEF RecordLeaseExpires
<1>7. ASSUME NEW c \in Channels, ChannelLeaseExpires(c) PROVE TablesKept
  BY <1>1, <1>7, ChannelsLeased DEF ChannelLeaseExpires
<1>8. CASE \/ \E r \in Calls, w \in Workers, p \in Payments, print \in Prints,
                 actual \in Amounts, who \in Principals : Admit(r, w, p, print, actual, who)
           \/ \E h \in Hashes : NetworkStep(h)
           \/ UNCHANGED vars
  BY <1>2, <1>8, TablesUnchanged
  DEF Admit, NetworkStep, LedgerApplies, MaximumTimePasses, vars
<1>9. QED
  BY <1>3, <1>4, <1>5, <1>6, <1>7, <1>8 DEF Next

-----------------------------------------------------------------------------
(* What a step does to the part that a call plays. *)

ClaimsAsOwner(r) ==
  /\ Claim(r)
  /\ ClaimKind(call[r].pay, call[r].print, call[r].actual, call[r].worker) = "owner"

\* Calls become owners by a claim, senders by storing, and nothing else.
LEMMA CallRoles ==
  ASSUME TypeOK, CallShape, HashesHeld, NEW r \in Calls, CallStep(r)
  PROVE  /\ Owning(r)' => Owning(r) \/ ClaimsAsOwner(r)
         /\ Sending(r)' => Sending(r) \/ Stores(r)
         /\ Stores(r) => ~Owning(r)'
         /\ SendAccepted(r) => ~Sending(r)'
         /\ call'[r].pc \in Early => call'[r].tx = None
<1>1. call \in [Calls -> CallRecord] /\ call[r] \in CallRecord
  BY DEF TypeOK, ProcTypeOK
<1>2. /\ call[r].pc \in Early => call[r].tx = None
      /\ call[r].pc \in {"send", "mark", "poll", "giveup"} => call[r].tx # None
  BY DEF CallShape, HashesHeld
<1>3. \A a : Answer(r, a) => call'[r].pc = "done"
  BY <1>1 DEF Answer, CallRecord
<1>4. \A pc : Goto(r, pc) => call'[r].pc = pc /\ call'[r].tx = call[r].tx
  BY <1>1 DEF Goto, CallRecord
<1>5. ASSUME NEW pc, NEW note,
             call' = [call EXCEPT ![r] = [call[r] EXCEPT !.pc = pc, !.note = note]]
      PROVE  call'[r].pc = pc /\ call'[r].tx = call[r].tx
  BY <1>1, <1>5 DEF CallRecord
<1>6. ASSUME NEW pc, NEW h,
             call' = [call EXCEPT ![r] = [call[r] EXCEPT !.pc = pc, !.tx = h]]
      PROVE  call'[r].pc = pc /\ call'[r].tx = h
  BY <1>1, <1>6 DEF CallRecord
<1>7. Stores(r) => call'[r].pc = "reload"
  BY <1>4 DEF Stores, Store
<1>8. SendAccepted(r) => call'[r].pc = "mark"
  BY <1>5 DEF SendAccepted, Noting
<1>9. Stores(r) => ~Owning(r)'
  BY <1>7 DEF Owning
<1>10. SendAccepted(r) => ~Sending(r)'
  BY <1>8 DEF Sending, At
<1> SUFFICES /\ Owning(r)' => Owning(r) \/ ClaimsAsOwner(r)
             /\ Sending(r)' => Sending(r) \/ Stores(r)
             /\ call'[r].pc \in Early => call'[r].tx = None
  BY <1>9, <1>10
<1>11. CASE Refuse(r) \/ WaitForOwner(r) \/ Fail(r) \/ PollResolves(r) \/ GiveUp(r)
  <2>1. call'[r].pc = "done"
    BY <1>3, <1>11 DEF Refuse, WaitForOwner, Fail, PollResolves, GiveUp
  <2>2. QED
    BY <2>1 DEF Owning, Sending, At, Early
<1>12. CASE Claim(r)
  <2> DEFINE kind == ClaimKind(call[r].pay, call[r].print, call[r].actual, call[r].worker)
  <2>1. kind \in {"conflict", "cached", "resume", "wait", "owner"}
    BY DEF ClaimKind
  <2>2. kind = "resume" => call'[r].pc = "poll"
    BY <1>6, <1>12 DEF Claim
  <2>3. kind \in {"conflict", "cached"} => call'[r].pc = "done"
    BY <1>3, <1>12 DEF Claim
  <2>4. kind = "wait" => call'[r].pc = "wait" /\ call'[r].tx = call[r].tx
    BY <1>4, <1>12 DEF Claim
  <2>5. kind = "owner" => call'[r].pc = "lease" /\ call'[r].tx = call[r].tx
    BY <1>4, <1>12 DEF Claim
  <2>6. call[r].tx = None /\ (kind = "owner" => ClaimsAsOwner(r))
    BY <1>2, <1>12 DEF Claim, At, Early, ClaimsAsOwner
  <2>7. QED
    BY <2>1, <2>2, <2>3, <2>4, <2>5, <2>6 DEF Owning, Sending, At, Early
<1>13. CASE LeaseChannel(r)
  <2>1. ASSUME NEW h, call' = [call EXCEPT ![r] = [call[r] EXCEPT !.pc = "prepare", !.lease = h]]
        PROVE  call'[r].pc = "prepare" /\ call'[r].tx = call[r].tx
    BY <1>1, <2>1 DEF CallRecord
  <2>2. call'[r].pc = "done" \/ (call'[r].pc = "prepare" /\ call'[r].tx = call[r].tx)
    BY <1>3, <1>13, <2>1 DEF LeaseChannel
  <2>3. At(r, "lease") /\ call[r].tx = None
    BY <1>2, <1>13 DEF LeaseChannel, At, Early
  <2>4. QED
    BY <2>2, <2>3 DEF Owning, Sending, At, Early
<1>14. CASE Prepare(r)
  <2>1. At(r, "prepare") /\ call'[r].pc = "store" /\ call'[r].tx = call[r].tx
    BY <1>4, <1>14 DEF Prepare
  <2>2. QED
    BY <1>2, <2>1 DEF Owning, Sending, At, Early
<1>15. CASE PrepareFails(r)
  <2>1. At(r, "prepare") /\ call'[r].pc = "release" /\ call'[r].tx = call[r].tx
    BY <1>5, <1>15 DEF PrepareFails
  <2>2. QED
    BY <1>2, <2>1 DEF Owning, Sending, At, Early
<1>16. CASE Store(r)
  <2>1. /\ At(r, "store") /\ call'[r].tx = call[r].tx
        /\ call'[r].pc = "release" \/ (call'[r].pc = "reload" /\ Stores(r))
    BY <1>4, <1>5, <1>16 DEF Store, Stores
  <2>2. QED
    BY <1>2, <2>1 DEF Owning, Sending, At, Early
<1>17. CASE Release(r)
  <2>1. At(r, "release") /\ (call'[r].pc = "done" \/ (call'[r].pc = "fail" /\ call'[r].tx = call[r].tx))
    BY <1>3, <1>4, <1>17 DEF Release
  <2>2. QED
    BY <1>2, <2>1 DEF Owning, Sending, At, Early
<1>18. CASE Reload(r)
  <2>1. At(r, "reload") /\ call'[r].pc = "send"
    BY <1>6, <1>18 DEF Reload
  <2>2. QED
    BY <2>1 DEF Owning, Sending, At, Early
<1>19. CASE SendAccepted(r) \/ SendNotAccepted(r)
  <2>1. call'[r].pc = "mark"
    BY <1>5, <1>19 DEF SendAccepted, SendNotAccepted, Noting
  <2>2. QED
    BY <2>1 DEF Owning, Sending, At, Early
<1>20. CASE SendRejected(r)
  <2>1. At(r, "send") /\ call'[r].pc = "fail" /\ call'[r].tx = call[r].tx
    BY <1>4, <1>20 DEF SendRejected
  <2>2. QED
    BY <1>2, <2>1 DEF Owning, Sending, At, Early
<1>21. CASE Mark(r) \/ PollTimesOut(r)
  <2>1. call'[r].pc \in {"poll", "giveup"}
    BY <1>4, <1>21 DEF Mark, PollTimesOut
  <2>2. QED
    BY <2>1 DEF Owning, Sending, At, Early
<1>22. QED
  BY <1>11, <1>12, <1>13, <1>14, <1>15, <1>16, <1>17, <1>18, <1>19, <1>20, <1>21 DEF CallStep

RoleMoves(r) ==
  /\ Owning(r)' => SameParameters(r) /\ (Owning(r) \/ ClaimsAsOwner(r))
  /\ Sending(r)' => SameParameters(r) /\ (Sending(r) \/ Stores(r))
  /\ call'[r].pc \in Early => call'[r].tx = None
  /\ \/ Live(r)' => Live(r) /\ SameParameters(r)
     \/ \E w \in Workers, p \in Payments, print \in Prints, actual \in Amounts,
           who \in Principals : Admit(r, w, p, print, actual, who)

LEMMA RoleFrame ==
  ASSUME Inv, HashesHeld, [Next]_vars, NEW r \in Calls
  PROVE  /\ RoleMoves(r)
         /\ Stores(r) => ~Owning(r)'
         /\ SendAccepted(r) => ~Sending(r)'
<1>1. TypeOK /\ CallShape /\ call \in [Calls -> CallRecord]
  BY DEF Inv, TypeOK, ProcTypeOK
<1>2. (Stores(r) => ~Owning(r)') /\ (SendAccepted(r) => ~Sending(r)')
  BY <1>1, CallRoles DEF CallStep, Stores
<1>3. ASSUME call'[r] = call[r] PROVE RoleMoves(r)
  BY <1>3 DEF RoleMoves, HashesHeld, Owning, Sending, Live, At, SameParameters
<1>4. ASSUME NEW q \in Calls, CallStep(q) PROVE RoleMoves(r)
  <2>1. CASE q = r
    <3>1. CallGoesOn(r)
      BY <1>1, <1>4, <2>1, CallStepMoves
    <3>2. SameParameters(r) /\ (Live(r)' => Live(r))
      BY <3>1 DEF CallGoesOn, Live
    <3>3. QED
      BY <1>1, <1>4, <2>1, <3>2, CallRoles DEF RoleMoves
  <2>2. CASE q # r
    <3>1. call'[r] = call[r]
      BY <1>1, <1>4, <2>2, CallStepMoves
    <3>2. QED
      BY <1>3, <3>1
  <2>3. QED
    BY <2>1, <2>2
<1>5. ASSUME NEW q \in Calls, NEW w \in Workers, NEW p \in Payments, NEW print \in Prints,
             NEW actual \in Amounts, NEW who \in Principals, Admit(q, w, p, print, actual, who)
      PROVE  RoleMoves(r)
  <2>1. call' = [call EXCEPT ![q] =
          [Idle EXCEPT !.pc = "claim", !.pay = p, !.print = print, !.actual = actual,
                       !.who = who, !.worker = w]]
    BY <1>5 DEF Admit
  <2>2. CASE q = r
    <3>1. call'[r].pc = "claim" /\ call'[r].tx = None
      BY <1>1, <2>1, <2>2 DEF Idle
    <3>2. QED
      BY <1>5, <2>2, <3>1 DEF RoleMoves, Owning, Sending, At, Early
  <2>3. CASE q # r
    <3>1. call'[r] = call[r]
      BY <1>1, <2>1, <2>3
    <3>2. QED
      BY <1>3, <3>1
  <2>4. QED
    BY <2>2, <2>3
<1>6. ASSUME NEW w \in Workers, Crash(w) PROVE RoleMoves(r)
  <2>1. call'[r] = call[r] \/ call'[r] = [call[r] EXCEPT !.pc = "done", !.answer = "lost"]
    BY <1>1, <1>6 DEF Crash
  <2>2. CASE call'[r] = [call[r] EXCEPT !.pc = "done", !.answer = "lost"]
    <3>1. call[r] \in CallRecord
      BY <1>1
    <3>2. call'[r].pc = "done"
      BY <2>2, <3>1 DEF CallRecord
    <3>3. QED
      BY <3>2 DEF RoleMoves, Owning, Sending, Live, At, Early
  <2>3. QED
    BY <1>3, <2>1, <2>2
<1>7. ASSUME UNCHANGED call PROVE RoleMoves(r)
  <2>1. call'[r] = call[r]
    BY <1>7
  <2>2. QED
    BY <1>3, <2>1
<1>8. ASSUME NEW w \in Workers, ReplicaStep(w), ~Crash(w) PROVE UNCHANGED call
  BY <1>8 DEF ReplicaStep, SweepStep, SweepList, HorizonNotFound, ExpiryElapsed, LeaveUnresolved,
     SweepResolves, SweepPollTimesOut, Boot, Foreground
<1>9. ASSUME \/ \E p \in Payments, print \in Prints : Verify(p, print)
             \/ \E p \in Payments : RecordLeaseExpires(p)
             \/ \E c \in Channels : ChannelLeaseExpires(c)
             \/ \E h \in Hashes : NetworkStep(h)
             \/ UNCHANGED vars
      PROVE  UNCHANGED call
  BY <1>9 DEF Verify, RecordLeaseExpires, ChannelLeaseExpires, NetworkStep, LedgerApplies,
     MaximumTimePasses, procVars, vars
<1>10. RoleMoves(r)
  BY <1>4, <1>5, <1>6, <1>7, <1>8, <1>9 DEF Next
<1>11. QED
  BY <1>2, <1>10

-----------------------------------------------------------------------------
(* One owner per record. *)

LEMMA OneCallEachStep ==
  ASSUME OneOwner, Inv, HashesHeld, OneCallEach, [Next]_vars
  PROVE  OneCallEach'
<1>1. call \in [Calls -> CallRecord] /\ CallShape
  BY DEF Inv, TypeOK, ProcTypeOK
<1>2. ASSUME NEW r \in Calls, NEW w \in Workers, NEW p \in Payments, NEW print \in Prints,
             NEW actual \in Amounts, NEW who \in Principals, Admit(r, w, p, print, actual, who)
      PROVE  OneCallEach'
  <2>1. /\ \A q \in Calls : Live(q) => call[q].pay # p \/ call[q].worker # w
        /\ call' = [call EXCEPT ![r] =
             [Idle EXCEPT !.pc = "claim", !.pay = p, !.print = print, !.actual = actual,
                          !.who = who, !.worker = w]]
    BY <1>2 DEF Admit, OneOwner
  <2>2. call'[r].pay = p /\ call'[r].worker = w
    BY <1>1, <2>1 DEF Idle
  <2>3. \A q \in Calls : q # r => call'[q] = call[q]
    BY <1>1, <2>1
  <2>4. QED
    BY <2>1, <2>2, <2>3 DEF OneCallEach, Live
<1>3. CASE \A r \in Calls : Live(r)' => Live(r) /\ SameParameters(r)
  BY <1>3 DEF OneCallEach, SameParameters
<1>4. QED
  BY <1>2, <1>3, RoleFrame DEF RoleMoves

\* Two owners of one record would be at one replica.
LEMMA OneOwnerEach ==
  ASSUME RecordsOwned, OneCallEach, NEW r \in Calls, NEW q \in Calls,
         Owning(r), Owning(q), call[r].pay = call[q].pay
  PROVE  r = q
<1>1. Live(r) /\ Live(q)
  BY DEF Owning, Live
<1>2. call[r].worker = call[q].worker
  BY DEF RecordsOwned, OwnedBy
<1>3. QED
  BY <1>1, <1>2 DEF OneCallEach

\* Storing is what owners do.
LEMMA StorerOwns ==
  ASSUME Inv, HashesHeld, NEW r \in Calls, Store(r)
  PROVE  /\ Owning(r) /\ call[r].pay \in Payments /\ call[r].lease \in Hashes
         /\ call[r].lease # None /\ call[r].lease[1] \in Channels
         /\ EnvelopeOf(call[r].lease, call[r].pay)
<1>1. At(r, "store") /\ call[r].tx = None
  BY DEF Store, HashesHeld, At, Early
<1>2. /\ call[r].lease \in Hashes /\ call[r].lease # None /\ call[r].pay \in Payments
      /\ EnvelopeOf(call[r].lease, call[r].pay)
  BY <1>1 DEF Inv, TypeOK, ProcTypeOK, CallShape, CallRecord, ReferencesMatch, At, Live
<1>3. QED
  BY <1>1, <1>2, HashParts DEF Owning, At

LEMMA RowsStored ==
  ASSUME Inv, HashesHeld, RecordsOwned, NEW r \in Calls, Stores(r),
         NEW p, p = call[r].pay, NEW h, h = call[r].lease
  PROVE  /\ p \in Payments /\ h \in Hashes /\ h # None /\ h[1] \in Channels /\ EnvelopeOf(h, p)
         /\ rec[p].tx = None /\ rec[p].response = None /\ ch[h[1]].status = "leased"
         /\ rec'[p].tx = h /\ rec'[p].seq = tx[h].seq /\ rec'[p].response = None
         /\ \A q \in Payments \ {p} : rec'[q] = rec[q]
         /\ ch'[h[1]].status = "unresolved" /\ ch'[h[1]].rec = p /\ ch'[h[1]].last = ch[h[1]].last
         /\ \A c \in Channels \ {h[1]} : ch'[c] = ch[c]
         /\ UNCHANGED netVars
<1>1. /\ Store(r) /\ StoreResult(h, tx[h].seq, call[r].who) = "stored"
      /\ storePreparedAndReserve(p, h, tx[h].seq, call[r].who) /\ UNCHANGED netVars
  BY DEF Stores, Store
<1>2. /\ Owning(r) /\ p \in Payments /\ h \in Hashes /\ h # None /\ h[1] \in Channels
      /\ EnvelopeOf(h, p)
  BY <1>1, StorerOwns
<1>3. rec[p].tx = None /\ rec[p].response = None
  BY <1>2 DEF RecordsOwned, OwnedBy
<1>4. ch[h[1]].status = "leased"
  BY <1>1 DEF StoreResult, HoldsFence
<1>5. /\ rec \in [Payments -> RecordRow] /\ rec[p] \in RecordRow
      /\ ch \in [Channels -> ChannelRow] /\ ch[h[1]] \in ChannelRow
  BY <1>2 DEF Inv, TypeOK, StoreTypeOK
<1>6. /\ rec' = [rec EXCEPT ![p] = [rec[p] EXCEPT !.status = "submitting", !.tx = h,
                                                  !.seq = tx[h].seq]]
      /\ ch' = [ch EXCEPT ![h[1]] = [ch[h[1]] EXCEPT !.status = "unresolved", !.rec = p]]
  BY <1>1 DEF storePreparedAndReserve
<1>7. rec'[p].tx = h /\ rec'[p].seq = tx[h].seq /\ rec'[p].response = None
  <2>1. rec'[p] = [rec[p] EXCEPT !.status = "submitting", !.tx = h, !.seq = tx[h].seq]
    BY <1>2, <1>5, <1>6
  <2>2. QED
    BY <1>3, <1>5, <2>1 DEF RecordRow
<1>8. ch'[h[1]].status = "unresolved" /\ ch'[h[1]].rec = p /\ ch'[h[1]].last = ch[h[1]].last
  <2>1. ch'[h[1]] = [ch[h[1]] EXCEPT !.status = "unresolved", !.rec = p]
    BY <1>2, <1>5, <1>6
  <2>2. QED
    BY <1>5, <2>1 DEF ChannelRow
<1>9. /\ \A q \in Payments \ {p} : rec'[q] = rec[q]
      /\ \A c \in Channels \ {h[1]} : ch'[c] = ch[c]
  BY <1>5, <1>6
<1>10. QED
  BY <1>1, <1>2, <1>3, <1>4, <1>7, <1>8, <1>9

\* A completed record's channel is freed, or was not its own.
LEMMA RowsCompleted ==
  ASSUME StoreTypeOK, NEW p \in Payments, NEW outcome, NEW applied,
         complete(p, outcome, applied)
  PROVE  /\ \A q \in Payments : rec'[q].tx = rec[q].tx /\ rec'[q].seq = rec[q].seq
         /\ rec'[p].response = outcome
         /\ \A q \in Payments \ {p} : rec'[q] = rec[q]
         /\ \A c \in Channels :
              IF rec[p].tx # None /\ rec[p].tx[1] = c /\ ch[c].rec = p
              THEN /\ ch'[c].status = "idle" /\ ch'[c].rec = None
                   /\ ch'[c].last = ch[c].last \/ (applied /\ ch'[c].last = rec[p].seq)
              ELSE ch'[c] = ch[c]
<1>1. /\ rec \in [Payments -> RecordRow] /\ rec[p] \in RecordRow /\ ch \in [Channels -> ChannelRow]
      /\ rec[p].tx \in Hashes \cup {None}
  BY DEF StoreTypeOK, RecordRow
<1>2. rec' = [rec EXCEPT ![p] = [rec[p] EXCEPT !.status = outcome, !.response = outcome]]
  BY DEF complete
<1>3. rec'[p] = [rec[p] EXCEPT !.status = outcome, !.response = outcome]
  BY <1>1, <1>2
<1>4. rec'[p].tx = rec[p].tx /\ rec'[p].seq = rec[p].seq /\ rec'[p].response = outcome
  BY <1>1, <1>3 DEF RecordRow
<1>5. \A q \in Payments \ {p} : rec'[q] = rec[q]
  BY <1>1, <1>2
<1>6. CASE rec[p].tx # None /\ ch[rec[p].tx[1]].rec = p
  <2> DEFINE h == rec[p].tx
             c == h[1]
             last == IF applied /\ rec[p].seq > ch[c].last THEN rec[p].seq ELSE ch[c].last
  <2>1. c \in Channels /\ ch[c] \in ChannelRow
    BY <1>1, <1>6, HashParts
  <2>2. ch' = [ch EXCEPT ![c] = [ch[c] EXCEPT !.status = "idle", !.alive = FALSE,
                                              !.rec = None, !.last = last]]
    BY <1>6 DEF complete
  <2>3. ch'[c] = [ch[c] EXCEPT !.status = "idle", !.alive = FALSE, !.rec = None, !.last = last]
    BY <1>1, <2>1, <2>2
  <2>4. ch'[c].status = "idle" /\ ch'[c].rec = None /\ ch'[c].last = last
    BY <2>1, <2>3 DEF ChannelRow
  <2>5. \A d \in Channels \ {c} : ch'[d] = ch[d]
    BY <1>1, <2>2
  <2>6. QED
    BY <1>4, <1>5, <1>6, <2>4, <2>5
<1>7. CASE ~(rec[p].tx # None /\ ch[rec[p].tx[1]].rec = p)
  <2>1. ch' = ch
    BY <1>7 DEF complete
  <2>2. QED
    BY <1>4, <1>5, <1>7, <2>1
<1>8. QED
  BY <1>6, <1>7

\* A hash is written once, by the call that owns the record.
LEMMA HashKept ==
  ASSUME Inv, Quarantined, HashesHeld, RecordsOwned, [Next]_vars, NEW p \in Payments
  PROVE  \/ rec'[p].tx = rec[p].tx /\ rec'[p].seq = rec[p].seq
         \/ rec[p].tx = None /\ \E r \in Calls : Stores(r) /\ call[r].pay = p
<1>1. StoreTypeOK
  BY DEF Inv, TypeOK
<1>2. CASE TablesKept
  BY <1>2 DEF TablesKept, RowKept
<1>3. CASE Completes
  BY <1>1, <1>3, RowsCompleted DEF Completes, Completion
<1>4. ASSUME NEW r \in Calls, Stores(r)
      PROVE  \/ rec'[p].tx = rec[p].tx /\ rec'[p].seq = rec[p].seq
             \/ rec[p].tx = None /\ call[r].pay = p
  BY <1>4, RowsStored
<1>5. QED
  BY <1>2, <1>3, <1>4, StepKinds

\* Nobody touches the row of a payment as long as a call owns it.
LEMMA OwnedRowKept ==
  ASSUME OneOwner, Inv, HashesHeld, RecordsOwned, OneCallEach, [Next]_vars,
         NEW r \in Calls, Owning(r), Owning(r)'
  PROVE  rec'[call[r].pay] = rec[call[r].pay]
<1> DEFINE p == call[r].pay
           Goal == rec'[p] = rec[p]
<1>1. /\ TypeOK /\ CallShape /\ SweepShape /\ call \in [Calls -> CallRecord]
      /\ sweep \in [Workers -> SweepRecord] /\ rec \in [Payments -> RecordRow]
  BY DEF Inv, TypeOK, ProcTypeOK, StoreTypeOK
<1>2. Live(r) /\ p \in Payments
  BY <1>1 DEF Owning, Live, CallShape
<1>3. OwnedBy(p, call[r].worker)
  BY DEF RecordsOwned
<1>4. \A q \in Calls : Owning(q) /\ call[q].pay = p => q = r
  BY OneOwnerEach
<1>5. \A q \in Calls : call[q].tx # None => call[q].pay # p
  BY <1>3 DEF HashesHeld, OwnedBy
<1>6. UNCHANGED rec => Goal
  OBVIOUS
<1>7. \A q \in Payments : \A row : q # p /\ rec' = [rec EXCEPT ![q] = row] => Goal
  BY <1>1
<1>8. ASSUME NEW q \in Calls, CallStep(q) PROVE Goal
  <2>1. Live(q) => call[q].pay \in Payments
    BY <1>1 DEF CallShape
  <2>2. CASE \/ Refuse(q) \/ WaitForOwner(q) \/ LeaseChannel(q) \/ Prepare(q) \/ PrepareFails(q)
             \/ Release(q) \/ Reload(q) \/ SendAccepted(q) \/ SendNotAccepted(q)
             \/ SendRejected(q) \/ PollTimesOut(q)
    BY <1>6, <2>2
    DEF Refuse, WaitForOwner, LeaseChannel, leaseChannel, Prepare, PrepareFails, Release,
        releaseChannel, Reload, SendAccepted, SendNotAccepted, SendRejected, PollTimesOut, storeVars
  <2>3. CASE Claim(q)
    <3>1. ClaimKind(call[q].pay, call[q].print, call[q].actual, call[q].worker) = "owner"
            => call[q].pay # p
      <4>1. SUFFICES ASSUME call[q].pay = p, ~HeldElsewhere(p, call[q].worker) PROVE FALSE
        BY DEF ClaimKind
      <4>2. call[q].worker = call[r].worker
        BY <1>3, <4>1 DEF HeldElsewhere, OwnedBy
      <4>3. q = r
        BY <1>2, <2>3, <4>1, <4>2 DEF OneCallEach, Claim, At, Live
      <4>4. QED
        BY <2>3, <4>3 DEF Claim, At, Owning
    <3>2. call[q].pay \in Payments
      BY <2>1, <2>3 DEF Claim, At, Live
    <3>3. QED
      BY <1>6, <1>7, <2>3, <3>1, <3>2 DEF Claim, claimSettlement
  <2>4. CASE Store(q)
    <3>1. Owning(q) /\ call[q].pay \in Payments
      BY <2>4, StorerOwns
    <3>2. CASE Stores(q)
      <4>1. q # r
        BY <3>2, RoleFrame
      <4>2. call[q].pay # p
        BY <1>4, <3>1, <4>1
      <4>3. QED
        BY <1>1, <3>2, <4>2, RowsStored, <1>2
    <3>3. CASE ~Stores(q)
      BY <1>6, <2>4, <3>3 DEF Stores, Store, storePreparedAndReserve, storeVars
    <3>4. QED
      BY <3>2, <3>3
  <2>5. CASE Fail(q)
    <3>1. call'[q].pc = "done"
      BY <1>1, <2>5 DEF Fail, Answer, CallRecord
    <3>2. q # r
      BY <3>1 DEF Owning
    <3>3. call[q].pay # p
      BY <1>4, <1>5, <2>5, <3>2 DEF Owning, Fail, At
    <3>4. call[q].pay \in Payments
      BY <2>1, <2>5 DEF Fail, At, Live
    <3>5. QED
      BY <1>7, <2>5, <3>3, <3>4 DEF Fail, complete
  <2>6. CASE Mark(q) \/ PollResolves(q) \/ GiveUp(q)
    <3>1. call[q].tx # None /\ call[q].pay \in Payments
      BY <1>1, <2>1, <2>6 DEF CallShape, Mark, PollResolves, GiveUp, At, Live
    <3>2. call[q].pay # p
      BY <1>5, <3>1
    <3>3. QED
      BY <1>7, <2>6, <3>1, <3>2
      DEF Mark, PollResolves, GiveUp, markPending, markUnknown, complete
  <2>7. QED
    BY <1>8, <2>2, <2>3, <2>4, <2>5, <2>6 DEF CallStep
<1>9. ASSUME NEW w \in Workers, ReplicaStep(w) PROVE Goal
  <2>1. CASE \/ SweepList(w) \/ HorizonNotFound(w) \/ LeaveUnresolved(w) \/ Crash(w) \/ Boot(w)
             \/ \E i \in SweepItems : SweepPollTimesOut(w, i)
    BY <1>6, <2>1
    DEF SweepList, HorizonNotFound, LeaveUnresolved, Crash, Boot, SweepPollTimesOut, syncChannels,
        storeVars
  <2>2. ASSUME NEW i \in SweepItems, rec[i.pay].tx = i.tx PROVE i.pay \in Payments /\ i.pay # p
    BY <1>3, <2>2, NoneAssumption DEF OwnedBy, SweepItems
  <2>3. ASSUME NEW i \in SweepItems, SweepResolves(w, i) PROVE Goal
    <3>1. rec[i.pay].tx = i.tx
      BY <1>1, <2>3, ItemsAssumption DEF SweepResolves, HashesHeld, SweepShape
    <3>2. QED
      BY <1>7, <2>2, <2>3, <3>1 DEF SweepResolves, complete
  <2>4. CASE ExpiryElapsed(w)
    <3>1. sweep[w].item # None /\ sweep[w].item \in SweepItems
      BY <1>1, <2>4 DEF ExpiryElapsed, SweepShape, SweepRecord
    <3>2. rec[sweep[w].item.pay].tx = sweep[w].item.tx
      BY <3>1 DEF HashesHeld
    <3>3. sweep[w].item.pay \in Payments /\ sweep[w].item.pay # p
      BY <2>2, <3>1, <3>2
    <3>4. QED
      BY <1>7, <2>4, <3>3 DEF ExpiryElapsed, complete
  <2>5. QED
    BY <1>9, <2>1, <2>3, <2>4 DEF ReplicaStep, SweepStep
<1>10. ASSUME NEW q \in Payments, NEW print \in Prints, Verify(q, print) PROVE Goal
  <2>1. q # p \/ rec' = rec
    BY <1>3, <1>10 DEF Verify, registerIdempotency, OwnedBy
  <2>2. rec' = rec \/ rec' = [rec EXCEPT ![q].print = print, ![q].status = "verified"]
    BY <1>10 DEF Verify, registerIdempotency
  <2>3. QED
    BY <1>1, <1>2, <2>1, <2>2
<1>11. ASSUME NEW q \in Payments, RecordLeaseExpires(q) PROVE Goal
  <2>1. q # p
    BY <1>11 DEF RecordLeaseExpires, OneOwner
  <2>2. rec' = [rec EXCEPT ![q].alive = FALSE]
    BY <1>11 DEF RecordLeaseExpires, RecordLeaseRunsOut
  <2>3. QED
    BY <1>1, <1>2, <2>1, <2>2
<1>12. CASE \/ \E c \in Channels : ChannelLeaseExpires(c)
            \/ \E q \in Calls, w \in Workers, n \in Payments, print \in Prints,
                  actual \in Amounts, who \in Principals : Admit(q, w, n, print, actual, who)
            \/ \E h \in Hashes : NetworkStep(h)
            \/ UNCHANGED vars
  BY <1>6, <1>12
  DEF ChannelLeaseExpires, ChannelLeaseRunsOut, Admit, NetworkStep, LedgerApplies,
      MaximumTimePasses, storeVars, vars
<1>13. QED
  BY <1>8, <1>9, <1>10, <1>11, <1>12 DEF Next


LEMMA RecordsOwnedStep ==
  ASSUME OneOwner, Inv, HashesHeld, RecordsOwned, OneCallEach, [Next]_vars
  PROVE  RecordsOwned'
<1> SUFFICES ASSUME NEW r \in Calls, Owning(r)'
             PROVE  OwnedBy(call[r].pay, call[r].worker)'
  BY DEF RecordsOwned
<1>1. SameParameters(r) /\ (Owning(r) \/ ClaimsAsOwner(r))
  BY RoleFrame DEF RoleMoves
<1>2. CASE Owning(r)
  <2>1. rec'[call[r].pay] = rec[call[r].pay]
    BY <1>2, OwnedRowKept
  <2>2. OwnedBy(call[r].pay, call[r].worker)
    BY <1>2 DEF RecordsOwned
  <2>3. QED
    BY <1>1, <2>1, <2>2 DEF OwnedBy, SameParameters
<1>3. CASE ClaimsAsOwner(r)
  <2> DEFINE p == call[r].pay
             row == [rec[p] EXCEPT !.print = call[r].print, !.actual = call[r].actual,
                                   !.status = "preparing", !.worker = call[r].worker,
                                   !.alive = TRUE]
  <2>1. p \in Payments /\ call[r].print \in Prints
    BY <1>3 DEF ClaimsAsOwner, Claim, At, Live, Inv, CallShape
  <2>2. rec \in [Payments -> RecordRow] /\ rec[p] \in RecordRow
    BY <2>1 DEF Inv, TypeOK, StoreTypeOK
  <2>3. rec' = [rec EXCEPT ![p] = row]
    BY <1>3 DEF ClaimsAsOwner, Claim, claimSettlement
  <2>4. rec'[p] = row
    BY <2>1, <2>2, <2>3
  <2>5. rec[p].tx = None /\ rec[p].response = None
    BY <1>3 DEF ClaimsAsOwner, ClaimKind
  <2>6. /\ row.status = "preparing" /\ row.alive /\ row.worker = call[r].worker
        /\ row.print = call[r].print /\ row.tx = None /\ row.response = None
    BY <2>2, <2>5 DEF RecordRow
  <2>7. call[r].print # None
    BY <2>1, NoneAssumption
  <2> HIDE DEF row
  <2>8. QED
    BY <1>1, <2>4, <2>6, <2>7 DEF OwnedBy, SameParameters
<1>4. QED
  BY <1>1, <1>2, <1>3

-----------------------------------------------------------------------------
(* Whoever has a hash in hand has the one that the record keeps. *)

LEMMA EnvelopeIsOfPayment ==
  ASSUME TypeOK, NEW h \in Hashes, NEW p, EnvelopeOf(h, p)
  PROVE  p \in Payments /\ h # None
  BY NoneAssumption DEF TypeOK, StellarTypeOK, EnvelopeOf, Built, Envelope

LEMMA HashesHeldStep ==
  ASSUME Inv, Quarantined, HashesHeld, RecordsOwned, [Next]_vars
  PROVE  HashesHeld'
<1>1. /\ TypeOK /\ CallShape /\ SweepShape /\ ReferencesMatch
      /\ call \in [Calls -> CallRecord] /\ sweep \in [Workers -> SweepRecord]
  BY DEF Inv, TypeOK, ProcTypeOK
<1>2. ASSUME NEW p \in Payments, rec[p].tx # None PROVE rec'[p].tx = rec[p].tx
  BY <1>2, HashKept
<1>3. ASSUME NEW r \in Calls, call[r].tx # None
      PROVE  call[r].pay \in Payments /\ rec'[call[r].pay].tx = call[r].tx
  <2>1. call[r].tx \in Hashes /\ EnvelopeOf(call[r].tx, call[r].pay)
    BY <1>1, <1>3 DEF CallRecord, ReferencesMatch
  <2>2. call[r].pay \in Payments
    BY <1>1, <2>1, EnvelopeIsOfPayment
  <2>3. rec[call[r].pay].tx = call[r].tx
    BY <1>3 DEF HashesHeld
  <2>4. QED
    BY <1>2, <1>3, <2>2, <2>3
<1>4. ASSUME NEW r \in Calls, call'[r].tx # None
      PROVE  rec'[call'[r].pay].tx = call'[r].tx
  <2>1. CallMoves(r)
    BY <1>1, CallFrame
  <2>2. CASE call'[r].tx = call[r].tx /\ call'[r].pay = call[r].pay
    BY <1>3, <1>4, <2>2
  <2>3. CASE CallGoesOn(r) /\ call'[r].tx # call[r].tx
    <3>1. /\ call'[r].tx = rec[call[r].pay].tx /\ call[r].pay \in Payments
          /\ call'[r].pay = call[r].pay
      BY <1>1, <2>3 DEF CallGoesOn, SameParameters, CallShape
    <3>2. QED
      BY <1>2, <1>4, <3>1
  <2>4. QED
    BY <1>4, <2>1, <2>2, <2>3 DEF CallMoves, NewCall, SameParameters, CallGoesOn
<1>5. ASSUME NEW w \in Workers
      PROVE  /\ \A i \in sweep'[w].todo : rec'[i.pay].tx = i.tx
             /\ sweep'[w].item # None => rec'[sweep'[w].item.pay].tx = sweep'[w].item.tx
  <2>1. SweepMoves(w) /\ sweep[w] \in SweepRecord
    BY <1>1, SweepFrame
  <2>2. ASSUME NEW i \in SweepItems, rec[i.pay].tx = i.tx PROVE rec'[i.pay].tx = i.tx
    <3>1. i.pay \in Payments /\ i.tx # None
      BY NoneAssumption DEF SweepItems
    <3>2. QED
      BY <1>2, <2>2, <3>1
  <2>3. ASSUME NEW i \in sweep[w].todo PROVE rec'[i.pay].tx = i.tx
    <3>1. i \in SweepItems
      BY <2>1 DEF SweepRecord
    <3>2. QED
      BY <2>2, <3>1 DEF HashesHeld
  <2>4. ASSUME sweep[w].item # None
        PROVE  rec'[sweep[w].item.pay].tx = sweep[w].item.tx
    <3>1. sweep[w].item \in SweepItems
      BY <2>1, <2>4 DEF SweepRecord
    <3>2. QED
      BY <2>2, <2>4, <3>1 DEF HashesHeld
  <2>5. ASSUME NEW i, i.pay \in Payments, rec[i.pay].tx = i.tx, i.tx # None
        PROVE  rec'[i.pay].tx = i.tx
    BY <1>2, <2>5
  <2>6. QED
    BY <2>1, <2>3, <2>4, <2>5 DEF SweepMoves
<1>6. \A r \in Calls : call'[r].pc \in Early => call'[r].tx = None
  BY RoleFrame DEF RoleMoves
<1>7. QED
  BY <1>4, <1>5, <1>6 DEF HashesHeld, Early

\* A call that is about to submit is the one that stored the hash it submits.
LEMMA SenderHolds ==
  ASSUME Inv, HashesHeld, NEW r \in Calls, Sending(r),
         NEW p, p = call[r].pay, NEW h, h = rec[p].tx
  PROVE  p \in Payments /\ h \in Hashes /\ h # None /\ EnvelopeOf(h, p)
<1>1. Live(r)
  BY DEF Sending, Live, At
<1>2. p \in Payments
  BY <1>1 DEF Inv, CallShape
<1>3. h # None
  BY DEF Sending, HashesHeld, Inv, CallShape, At
<1>4. QED
  BY <1>2, <1>3, RecordTyped DEF Inv, ReferencesMatch

LEMMA SubmitterSends ==
  ASSUME Inv, HashesHeld, NEW r \in Calls, SendAccepted(r), NEW h, h = call[r].tx
  PROVE  /\ Sending(r) /\ h \in Hashes /\ EnvelopeOf(h, call[r].pay)
         /\ rec[call[r].pay].tx = h
<1>1. Sending(r) /\ At(r, "send")
  BY DEF SendAccepted, Sending, At
<1>2. call[r].tx # None
  BY <1>1 DEF At, Inv, CallShape
<1>3. QED
  BY <1>1, <1>2 DEF HashesHeld, Inv, ReferencesMatch, TypeOK, ProcTypeOK, CallRecord

LEMMA OneSenderStep ==
  ASSUME OneOwner, OwnerInv, [Next]_vars
  PROVE  OneSender'
<1>1. /\ Inv /\ TypeOK /\ CallShape /\ LeasesUnique /\ HashesHeld /\ OneSender /\ Anchored
      /\ Quarantined /\ RecordsOwned /\ OneCallEach
  BY DEF OwnerInv, Inv
<1>2. \A r \in Calls : Sending(r)' => SameParameters(r) /\ (Sending(r) \/ Stores(r))
  BY <1>1, RoleFrame DEF RoleMoves
<1>3. ASSUME NEW r \in Calls, Sending(r)'
      PROVE  tx'[rec'[call'[r].pay].tx].state = "held"
  <2> DEFINE p == call[r].pay
  <2>1. call'[r].pay = p
    BY <1>2, <1>3 DEF SameParameters
  <2>2. CASE Sending(r)
    <3> DEFINE h == rec[p].tx
    <3>1. p \in Payments /\ h \in Hashes /\ h # None /\ EnvelopeOf(h, p) /\ rec'[p].tx = h
      BY <1>1, <2>2, SenderHolds, HashKept
    <3>2. tx[h].state = "held"
      BY <1>1, <2>2 DEF OneSender
    <3>3. EnvelopeMoves(h)
      BY <1>1, <3>1, EnvelopeFrame DEF EnvelopeOf
    <3>4. ASSUME NEW q \in Calls, SendAccepted(q), call[q].tx = h PROVE FALSE
      <4>1. Sending(q) /\ EnvelopeOf(h, call[q].pay)
        BY <1>1, <3>4, SubmitterSends
      <4>2. call[q].pay = p
        BY <3>1, <4>1 DEF EnvelopeOf
      <4>3. q = r
        BY <1>1, <2>2, <4>1, <4>2 DEF OneSender
      <4>4. QED
        BY <1>1, <1>3, <3>4, <4>3, RoleFrame
    <3>5. tx'[h].state = "held"
      BY <3>2, <3>3, <3>4 DEF EnvelopeMoves
    <3>6. QED
      BY <2>1, <3>1, <3>5
  <2>3. CASE Stores(r)
    <3> DEFINE h == call[r].lease
    <3>1. /\ p \in Payments /\ h \in Hashes /\ h # None /\ EnvelopeOf(h, p)
          /\ rec[p].tx = None /\ rec'[p].tx = h /\ UNCHANGED netVars
      BY <1>1, <2>3, RowsStored
    <3>2. tx[h].state = "held"
      BY <1>1, <3>1 DEF Anchored, EnvelopeOf
    <3>3. QED
      BY <2>1, <3>1, <3>2 DEF netVars
  <2>4. QED
    BY <1>2, <1>3, <2>2, <2>3
<1>4. ASSUME NEW r \in Calls, NEW q \in Calls, Sending(r)', Sending(q)',
             call'[r].pay = call'[q].pay
      PROVE  r = q
  <2>1. call[r].pay = call[q].pay
    BY <1>2, <1>4 DEF SameParameters
  <2>2. \A s \in Calls : Sending(s) => rec[call[s].pay].tx # None
    BY <1>1, SenderHolds
  <2>3. \A s \in Calls : Stores(s) => rec[call[s].pay].tx = None /\ Owning(s)
    BY <1>1, RowsStored, StorerOwns DEF Stores
  <2>4. CASE Sending(r) /\ Sending(q)
    BY <1>1, <2>1, <2>4 DEF OneSender
  <2>5. CASE Stores(r) /\ Stores(q)
    BY <1>1, <2>1, <2>3, <2>5, OneOwnerEach
  <2>6. QED
    BY <1>2, <1>4, <2>1, <2>2, <2>3, <2>4, <2>5
<1>5. QED
  BY <1>3, <1>4 DEF OneSender


-----------------------------------------------------------------------------
(* Hashes, channels and sequence numbers. *)

LEMMA AnchoredStep ==
  ASSUME OwnerInv, [Next]_vars
  PROVE  Anchored'
<1>1. /\ Inv /\ TypeOK /\ CallShape /\ LeasesUnique /\ HashesHeld /\ Anchored /\ Quarantined
      /\ RecordsOwned
  BY DEF OwnerInv, Inv
<1> SUFFICES ASSUME NEW h \in Hashes, Built(h)', tx'[h].state # "held"
             PROVE  rec'[tx'[h].pay].tx = h
  BY DEF Anchored
<1>2. Built(h)
  BY <1>1, EnvelopeIsNew
<1>3. EnvelopeMoves(h) /\ EnvelopeOf(h, tx[h].pay)
  BY <1>1, <1>2, EnvelopeFrame DEF EnvelopeOf
<1>4. tx[h].pay \in Payments /\ h # None
  BY <1>1, <1>3, EnvelopeIsOfPayment
<1>5. rec[tx[h].pay].tx = h => rec'[tx[h].pay].tx = h
  BY <1>1, <1>4, HashKept
<1>6. CASE tx[h].state # "held"
  BY <1>1, <1>2, <1>3, <1>5, <1>6 DEF Anchored, EnvelopeMoves
<1>7. ASSUME NEW r \in Calls, SendAccepted(r), call[r].tx = h
      PROVE  rec'[tx'[h].pay].tx = h
  <2>1. rec[call[r].pay].tx = h /\ call[r].pay = tx[h].pay
    BY <1>1, <1>7, SubmitterSends DEF EnvelopeOf
  <2>2. QED
    BY <1>3, <1>5, <2>1 DEF EnvelopeMoves
<1>8. QED
  BY <1>3, <1>6, <1>7 DEF EnvelopeMoves

\* The state of the envelope when somebody completes its record.
Justified(p, outcome, applied) ==
  LET h == rec[p].tx
  IN \/ /\ outcome = "failed" /\ ~applied
        /\ \/ h = None
           \/ h # None /\ tx[h].late /\ \E w \in Workers : sweep[w].pc = "expiry" /\ sweep[w].item.tx = h
           \/ /\ h # None /\ tx[h].state = "held"
              /\ \E r \in Calls : Sending(r) /\ call[r].pay = p /\ call'[r].pc = "done"
     \/ applied /\ h # None /\ Final(h) /\ outcome = Outcome(h)

LEMMA CauseJustified ==
  ASSUME Inv, HashesHeld, RecordsOwned, OneSender, NEW p \in Payments, NEW outcome, NEW applied,
         Cause(p, outcome, applied)
  PROVE  Justified(p, outcome, applied)
<1>1. /\ TypeOK /\ CallShape /\ SweepShape /\ call \in [Calls -> CallRecord]
      /\ sweep \in [Workers -> SweepRecord]
  BY DEF Inv, TypeOK, ProcTypeOK
<1>2. ASSUME NEW r \in Calls, Fail(r), call[r].pay = p, outcome = "failed", ~applied
      PROVE  Justified(p, outcome, applied)
  <2>1. call'[r].pc = "done"
    BY <1>1, <1>2 DEF Fail, Answer, CallRecord
  <2>2. CASE rec[p].tx = None
    BY <1>2, <2>2 DEF Justified
  <2>3. CASE call[r].tx # None
    <3>1. Sending(r) /\ rec[p].tx # None
      BY <1>2, <2>3 DEF Fail, Sending, HashesHeld
    <3>2. tx[rec[p].tx].state = "held"
      BY <1>2, <3>1 DEF OneSender
    <3>3. QED
      BY <1>2, <2>1, <3>1, <3>2 DEF Justified
  <2>4. call[r].tx = None => rec[p].tx = None
    BY <1>2 DEF Fail, At, Owning, RecordsOwned, OwnedBy
  <2>5. QED
    BY <2>2, <2>3, <2>4
<1>3. ASSUME NEW r \in Calls, PollResolves(r), call[r].pay = p, outcome = Outcome(call[r].tx),
             applied
      PROVE  Justified(p, outcome, applied)
  <2>1. call[r].tx # None /\ Final(call[r].tx)
    BY <1>1, <1>3 DEF PollResolves, At, CallShape
  <2>2. rec[p].tx = call[r].tx
    BY <1>3, <2>1 DEF HashesHeld
  <2>3. QED
    BY <1>3, <2>1, <2>2 DEF Justified
<1>4. ASSUME NEW w \in Workers, NEW i \in SweepItems, SweepResolves(w, i), i.pay = p,
             outcome = Outcome(i.tx), applied
      PROVE  Justified(p, outcome, applied)
  <2>1. i.tx # None /\ Final(i.tx)
    BY <1>4, NoneAssumption DEF SweepResolves, SweepItems
  <2>2. rec[p].tx = i.tx
    BY <1>1, <1>4, ItemsAssumption DEF SweepResolves, HashesHeld
  <2>3. QED
    BY <1>4, <2>1, <2>2 DEF Justified
<1>5. ASSUME NEW w \in Workers, ExpiryElapsed(w), sweep[w].item.pay = p, outcome = "failed",
             ~applied
      PROVE  Justified(p, outcome, applied)
  <2>1. /\ sweep[w].pc = "expiry" /\ sweep[w].item # None /\ tx[sweep[w].item.tx].late
        /\ sweep[w].item \in SweepItems
    BY <1>1, <1>5 DEF ExpiryElapsed, SweepShape, SweepRecord
  <2>2. sweep[w].item.tx # None /\ rec[p].tx = sweep[w].item.tx
    BY <1>5, <2>1, NoneAssumption DEF HashesHeld, SweepItems
  <2>3. QED
    BY <1>5, <2>1, <2>2 DEF Justified
<1>6. QED
  BY <1>2, <1>3, <1>4, <1>5 DEF Cause

LEMMA QuarantinedStep ==
  ASSUME OwnerInv, [Next]_vars
  PROVE  Quarantined'
<1>1. /\ Inv /\ StoreTypeOK /\ HashesHeld /\ Quarantined /\ RecordsOwned /\ QuarantineEnds
  BY DEF OwnerInv, Inv, TypeOK, Quarantined
<1>2. \A c \in Channels : ch[c].status = "unresolved" <=> ch[c].rec # None
  BY <1>1 DEF Quarantined
<1>3. \A c \in Channels : ch[c].rec \in Payments \cup {None}
  BY <1>1 DEF StoreTypeOK, ChannelRow
<1>4. \A p \in Payments : rec[p].tx # None => rec[p].tx[1] \in Channels
  BY <1>1, HashParts DEF StoreTypeOK, RecordRow
<1>5. CASE TablesKept
  <2>1. \A p \in Payments : rec'[p].tx = rec[p].tx /\ rec'[p].response = rec[p].response
    BY <1>5 DEF TablesKept, RowKept
  <2>2. \A c \in Channels : /\ ch'[c].rec = ch[c].rec
                            /\ ch'[c].status = "unresolved" <=> ch[c].status = "unresolved"
    BY <1>5 DEF TablesKept, ChannelKept
  <2>3. QuarantineEnds'
    BY <1>1, <1>3, <2>1, <2>2 DEF QuarantineEnds
  <2>4. \A p \in Payments : rec'[p].tx # None /\ rec'[p].response = None
                              => ch'[rec'[p].tx[1]].rec = p
    BY <1>1, <1>4, <2>1, <2>2 DEF Quarantined
  <2>5. QED
    BY <1>2, <2>2, <2>3, <2>4 DEF Quarantined
<1>6. ASSUME NEW r \in Calls, Stores(r) PROVE Quarantined'
  <2> DEFINE p == call[r].pay
             h == call[r].lease
  <2>1. /\ p \in Payments /\ h # None /\ h[1] \in Channels /\ p # None
        /\ rec[p].tx = None /\ ch[h[1]].status = "leased"
        /\ rec'[p].tx = h /\ rec'[p].response = None
        /\ \A q \in Payments \ {p} : rec'[q] = rec[q]
        /\ ch'[h[1]].status = "unresolved" /\ ch'[h[1]].rec = p
        /\ \A c \in Channels \ {h[1]} : ch'[c] = ch[c]
    BY <1>1, <1>6, RowsStored, NoneAssumption
  <2> HIDE DEF p, h
  <2>2. \A c \in Channels : ch'[c].status = "unresolved" <=> ch'[c].rec # None
    BY <1>2, <2>1
  <2>3. ASSUME NEW c \in Channels, ch'[c].rec # None
        PROVE  /\ rec'[ch'[c].rec].response = None
               /\ rec'[ch'[c].rec].tx # None /\ rec'[ch'[c].rec].tx[1] = c
    <3>1. CASE c = h[1]
      BY <2>1, <3>1
    <3>2. CASE c # h[1]
      <4>1. ch'[c].rec = ch[c].rec /\ ch[c].rec # None /\ ch[c].rec \in Payments
        BY <1>3, <2>1, <2>3, <3>2
      <4>2. /\ rec[ch[c].rec].response = None
            /\ rec[ch[c].rec].tx # None /\ rec[ch[c].rec].tx[1] = c
        BY <1>1, <4>1 DEF QuarantineEnds
      <4>3. ch[c].rec # p
        BY <2>1, <4>2
      <4>4. QED
        BY <2>1, <4>1, <4>2, <4>3
    <3>3. QED
      BY <3>1, <3>2
  <2>4. ASSUME NEW q \in Payments, rec'[q].tx # None, rec'[q].response = None
        PROVE  ch'[rec'[q].tx[1]].rec = q
    <3>1. CASE q = p
      BY <2>1, <3>1
    <3>2. CASE q # p
      <4>1. rec'[q] = rec[q]
        BY <2>1, <3>2
      <4>2. ch[rec[q].tx[1]].rec = q /\ rec[q].tx[1] \in Channels
        BY <1>1, <1>4, <2>4, <4>1 DEF Quarantined
      <4>3. rec[q].tx[1] # h[1]
        BY <1>2, <2>1, <4>2, NoneAssumption
      <4>4. QED
        BY <2>1, <4>1, <4>2, <4>3
    <3>3. QED
      BY <3>1, <3>2
  <2>5. QED
    BY <2>2, <2>3, <2>4 DEF Quarantined, QuarantineEnds
<1>7. ASSUME NEW p \in Payments, NEW outcome \in {"success", "failed"}, NEW applied \in BOOLEAN,
             complete(p, outcome, applied)
      PROVE  Quarantined'
  <2>1. /\ \A q \in Payments : rec'[q].tx = rec[q].tx
        /\ rec'[p].response # None
        /\ \A q \in Payments \ {p} : rec'[q] = rec[q]
        /\ \A c \in Channels :
             IF rec[p].tx # None /\ rec[p].tx[1] = c /\ ch[c].rec = p
             THEN ch'[c].status = "idle" /\ ch'[c].rec = None
             ELSE ch'[c] = ch[c]
    BY <1>1, <1>7, RowsCompleted, NoneAssumption
  <2>2. \A c \in Channels : ch'[c].status = "unresolved" <=> ch'[c].rec # None
    BY <1>2, <2>1
  <2>3. ASSUME NEW c \in Channels, ch'[c].rec # None
        PROVE  /\ rec'[ch'[c].rec].response = None
               /\ rec'[ch'[c].rec].tx # None /\ rec'[ch'[c].rec].tx[1] = c
    <3>1. ch'[c].rec = ch[c].rec /\ ch[c].rec \in Payments
      BY <1>3, <2>1, <2>3
    <3>2. /\ rec[ch[c].rec].response = None
          /\ rec[ch[c].rec].tx # None /\ rec[ch[c].rec].tx[1] = c
      BY <1>1, <2>3, <3>1 DEF QuarantineEnds
    <3>3. ch[c].rec # p
      BY <2>1, <2>3, <3>2
    <3>4. QED
      BY <2>1, <3>1, <3>2, <3>3
  <2>4. ASSUME NEW q \in Payments, rec'[q].tx # None, rec'[q].response = None
        PROVE  ch'[rec'[q].tx[1]].rec = q
    <3>1. q # p /\ rec'[q] = rec[q]
      BY <2>1, <2>4
    <3>2. ch[rec[q].tx[1]].rec = q /\ rec[q].tx[1] \in Channels
      BY <1>1, <1>4, <2>4, <3>1 DEF Quarantined
    <3>3. QED
      BY <2>1, <3>1, <3>2
  <2>5. QED
    BY <2>2, <2>3, <2>4 DEF Quarantined, QuarantineEnds
<1>8. QED
  BY <1>1, <1>5, <1>6, <1>7, StepKinds DEF Completes, Completion

LEMMA SequencedStep ==
  ASSUME OwnerInv, [Next]_vars
  PROVE  Sequenced'
<1>1. /\ Inv /\ TypeOK /\ StoreTypeOK /\ CallShape /\ LeasesUnique /\ ReferencesMatch
      /\ HashesHeld /\ Quarantined /\ RecordsOwned /\ OneSender /\ Sequenced
  BY DEF OwnerInv, Inv, TypeOK
<1>2. \A c \in Channels : /\ ledSeq[c] \in Nat /\ ledSeq'[c] \in Nat /\ ledSeq[c] <= ledSeq'[c]
                          /\ ch[c].last \in Nat
  BY <1>1, LedgerFrame DEF StoreTypeOK, ChannelRow
<1>3. ASSUME NEW h \in Hashes, Final(h)' PROVE tx'[h].seq <= ledSeq'[h[1]]
  <2>1. Built(h) /\ h[1] \in Channels
    BY <1>1, <1>3, EnvelopeIsNew, HashParts DEF Final
  <2>2. EnvelopeMoves(h) /\ tx[h] \in Envelope
    BY <1>1, <2>1, EnvelopeFrame DEF TypeOK, StellarTypeOK, Built
  <2>3. CASE Final(h)
    <3>1. tx[h].seq <= ledSeq[h[1]] /\ tx[h].seq \in Nat
      BY <1>1, <2>2, <2>3 DEF Sequenced, Envelope
    <3>2. QED
      BY <1>2, <2>1, <2>2, <3>1 DEF EnvelopeMoves
  <2>4. CASE LedgerApplies(h)
    BY <1>1, <2>1, <2>2, <2>4, LedgerFrame DEF EnvelopeMoves
  <2>5. QED
    BY <1>3, <2>1, <2>2, <2>3, <2>4 DEF EnvelopeMoves, Final
<1>4. ASSUME NEW p \in Payments, rec'[p].tx # None
      PROVE  rec'[p].seq = tx'[rec'[p].tx].seq
  <2>1. CASE rec'[p].tx = rec[p].tx /\ rec'[p].seq = rec[p].seq
    <3>1. rec[p].tx \in Hashes /\ Built(rec[p].tx)
      BY <1>1, <1>4, <2>1, RecordTyped DEF ReferencesMatch, EnvelopeOf
    <3>2. EnvelopeMoves(rec[p].tx)
      BY <1>1, <3>1, EnvelopeFrame
    <3>3. QED
      BY <1>1, <1>4, <2>1, <3>2 DEF EnvelopeMoves, Sequenced
  <2>2. ASSUME NEW r \in Calls, Stores(r), call[r].pay = p
        PROVE  rec'[p].seq = tx'[rec'[p].tx].seq
    BY <1>1, <2>2, RowsStored DEF netVars
  <2>3. QED
    BY <1>1, <2>1, <2>2, HashKept
<1>5. ASSUME NEW c \in Channels PROVE ch'[c].last <= ledSeq'[c]
  <2>1. ch[c].last <= ledSeq[c]
    BY <1>1 DEF Sequenced, SequenceConfirmed
  <2>2. CASE ch'[c].last = ch[c].last
    BY <1>2, <2>1, <2>2
  <2>3. CASE TablesKept
    BY <2>2, <2>3 DEF TablesKept, ChannelKept
  <2>4. ASSUME NEW r \in Calls, Stores(r) PROVE ch'[c].last = ch[c].last
    BY <1>1, <2>4, RowsStored
  <2>5. ASSUME NEW p \in Payments, NEW outcome \in {"success", "failed"}, NEW applied \in BOOLEAN,
               Completion(p, outcome, applied), ch'[c].last # ch[c].last
        PROVE  ch'[c].last <= ledSeq'[c]
    <3>1. rec[p].tx # None /\ rec[p].tx[1] = c /\ applied /\ ch'[c].last = rec[p].seq
      BY <1>1, <2>5, RowsCompleted DEF Completion
    <3>2. Final(rec[p].tx)
      BY <1>1, <2>5, <3>1, CauseJustified DEF Justified, Completion
    <3>3. rec[p].seq <= ledSeq[c] /\ UNCHANGED ledSeq
      BY <1>1, <2>5, <3>1, <3>2, RecordTyped DEF Sequenced, Completion, netVars
    <3>4. QED
      BY <3>1, <3>3
  <2>6. QED
    BY <1>1, <2>2, <2>3, <2>4, <2>5, StepKinds DEF Completes
<1>6. QED
  BY <1>3, <1>4, <1>5 DEF Sequenced, SequenceConfirmed

LEMMA OwnerInvInit == Init => OwnerInv
<1>1. SUFFICES ASSUME Init PROVE OwnerInv
  OBVIOUS
<1>2. Inv
  BY <1>1, InitInv
<1>3. \A r \in Calls : call[r].pc = "idle" /\ call[r].tx = None
  BY <1>1 DEF Init, Idle
<1>4. \A w \in Workers : sweep[w].todo = {} /\ sweep[w].item = None
  BY <1>1 DEF Init, Resting
<1>5. \A p \in Payments : rec[p].tx = None
  BY <1>1 DEF Init, StoreInit, NoRow
<1>6. \A c \in Channels : ch[c].status = "idle" /\ ch[c].rec = None /\ ch[c].last = 0
                          /\ ledSeq[c] = 0
  BY <1>1 DEF Init, StoreInit, StellarInit
<1>7. \A h \in Hashes : tx[h] = None
  BY <1>1 DEF Init, StellarInit
<1>8. OneCallEach /\ RecordsOwned /\ OneSender
  BY <1>3 DEF OneCallEach, RecordsOwned, OneSender, Owning, Sending, Live, At
<1>9. HashesHeld
  BY <1>3, <1>4 DEF HashesHeld
<1>10. Anchored /\ Quarantined /\ Sequenced
  BY <1>5, <1>6, <1>7
  DEF Anchored, Quarantined, QuarantineEnds, Sequenced, SequenceConfirmed, Built, Final
<1>11. QED
  BY <1>2, <1>8, <1>9, <1>10 DEF OwnerInv

LEMMA OwnerInvStep ==
  ASSUME OneOwner, OwnerInv, [Next]_vars
  PROVE  OwnerInv'
<1>1. Inv'
  BY InvStep DEF OwnerInv
<1>2. OneCallEach' /\ RecordsOwned' /\ HashesHeld'
  BY OneCallEachStep, RecordsOwnedStep, HashesHeldStep DEF OwnerInv
<1>3. QED
  BY <1>1, <1>2, OneSenderStep, AnchoredStep, QuarantinedStep, SequencedStep DEF OwnerInv

LEMMA OwnerInvAlways ==
  ASSUME OneOwner
  PROVE  Spec => []OwnerInv
<1>1. OwnerInv /\ [Next]_vars => OwnerInv'
  BY OwnerInvStep
<1>2. QED
  BY <1>1, OwnerInvInit, PTL DEF Spec

\* Hash before submission: as long as the calls of one payment at one replica do
\* not overlap and owners store within their lease, whatever is in the queue or
\* on a ledger is the envelope whose hash the payment's record holds, so that
\* recovery can ask for it.
THEOREM HashBeforeSubmission ==
  ASSUME OneOwner
  PROVE  Spec => []Anchored
<1>1. OwnerInv => Anchored
  BY DEF OwnerInv
<1>2. QED
  BY <1>1, OwnerInvAlways, PTL

\* A quarantined channel names an undecided record, whose completion frees it.
THEOREM QuarantineHasAnEnd ==
  ASSUME OneOwner
  PROVE  Spec => []QuarantineEnds
<1>1. OwnerInv => QuarantineEnds
  BY DEF OwnerInv, Quarantined
<1>2. QED
  BY <1>1, OwnerInvAlways, PTL

\* last_sequence is never ahead of the ledger, so it refuses no fresh envelope.
THEOREM LastSequenceConfirmed ==
  ASSUME OneOwner
  PROVE  Spec => []SequenceConfirmed
<1>1. OwnerInv => SequenceConfirmed
  BY DEF OwnerInv, Sequenced
<1>2. QED
  BY <1>1, OwnerInvAlways, PTL

\* A record keeps the first hash that was made durable for it.
THEOREM HashNeverRebuilt ==
  ASSUME OneOwner
  PROVE  Spec => NeverRebuilt
<1>1. OwnerInv /\ [Next]_vars
        => [\A p \in Payments : rec[p].tx # None => rec'[p].tx = rec[p].tx]_vars
  BY HashKept DEF OwnerInv
<1>2. QED
  BY <1>1, OwnerInvAlways, PTL DEF Spec, NeverRebuilt

\* A channel leaves quarantine when the envelope of its record is on a ledger,
\* its maximum time has passed, or it was never in the network's queue.
THEOREM QuarantineIsKept ==
  ASSUME OneOwner
  PROVE  Spec => QuarantineKept
<1> DEFINE Frees(c) == ch[c].status = "unresolved" /\ ch'[c].status # "unresolved"
           Allowed(h) == Final(h) \/ tx[h].late \/ tx[h].state = "held"
<1>1. ASSUME OwnerInv, [Next]_vars, NEW c \in Channels, Frees(c)
      PROVE  Allowed(rec[ch[c].rec].tx)
  <2>1. Inv /\ StoreTypeOK /\ HashesHeld /\ OneSender /\ Quarantined /\ RecordsOwned
    BY <1>1 DEF OwnerInv, Inv, TypeOK
  <2>2. ~TablesKept
    BY <1>1 DEF TablesKept, ChannelKept
  <2>3. ASSUME NEW r \in Calls, Stores(r) PROVE FALSE
    BY <1>1, <2>1, <2>3, RowsStored
  <2>4. PICK p \in Payments, outcome \in {"success", "failed"}, applied \in BOOLEAN :
          Completion(p, outcome, applied)
    BY <1>1, <2>1, <2>2, <2>3, StepKinds DEF Completes
  <2>5. rec[p].tx # None /\ ch[c].rec = p
    BY <1>1, <2>1, <2>4, RowsCompleted DEF Completion
  <2>6. QED
    BY <2>1, <2>4, <2>5, CauseJustified DEF Justified, Completion
<1>2. OwnerInv /\ [Next]_vars => [\A c \in Channels : Frees(c) => Allowed(rec[ch[c].rec].tx)]_vars
  BY <1>1
<1>3. QED
  BY <1>2, OwnerInvAlways, PTL DEF Spec, QuarantineKept


-----------------------------------------------------------------------------
(* What is answered is over, and a channel carries one envelope at a time. *)

LEMMA AnsweredIsOverStep ==
  ASSUME OverInv, [Next]_vars
  PROVE  AnsweredIsOver'
<1>1. /\ OwnerInv /\ Inv /\ TypeOK /\ StoreTypeOK /\ CallShape /\ LeasesUnique /\ ReferencesMatch
      /\ HashesHeld /\ OneSender /\ Quarantined /\ RecordsOwned /\ AnsweredIsOver
  BY DEF OverInv, OwnerInv, Inv, TypeOK
<1> SUFFICES ASSUME NEW p \in Payments, rec'[p].response # None, rec'[p].tx # None
             PROVE  Over(p, rec[p].tx)'
  BY DEF AnsweredIsOver
<1>2. \A r \in Calls : Stores(r) /\ call[r].pay = p => FALSE
  BY <1>1, RowsStored, NoneAssumption
<1>3. rec'[p].tx = rec[p].tx
  BY <1>1, <1>2, HashKept
<1> DEFINE h == rec[p].tx
<1>4. h \in Hashes /\ EnvelopeOf(h, p)
  BY <1>1, <1>3, RecordTyped DEF ReferencesMatch
<1>5. EnvelopeMoves(h)
  BY <1>1, <1>4, EnvelopeFrame DEF EnvelopeOf
<1>6. \A r \in Calls : Sending(r)' /\ call'[r].pay = p => Sending(r) /\ call[r].pay = p
  BY <1>1, <1>2, RoleFrame DEF RoleMoves, SameParameters
<1>7. CASE rec[p].response # None
  <2>1. Over(p, h)
    BY <1>1, <1>3, <1>7 DEF AnsweredIsOver
  <2>2. CASE Final(h) \/ tx[h].late
    BY <1>3, <1>4, <1>5, <2>2 DEF EnvelopeMoves, Over, Final
  <2>3. CASE tx[h].state = "held" /\ \A r \in Calls : Sending(r) => call[r].pay # p
    <3>1. ASSUME NEW r \in Calls, SendAccepted(r), call[r].tx = h PROVE FALSE
      BY <1>1, <1>4, <2>3, <3>1, SubmitterSends DEF EnvelopeOf
    <3>2. tx'[h].state = "held"
      BY <1>5, <2>3, <3>1 DEF EnvelopeMoves
    <3>3. QED
      BY <1>3, <1>6, <2>3, <3>2 DEF Over
  <2>4. QED
    BY <2>1, <2>2, <2>3 DEF Over
<1>8. CASE rec[p].response = None
  <2>1. ~TablesKept
    BY <1>8 DEF TablesKept, RowKept
  <2>2. ASSUME NEW r \in Calls, Stores(r) PROVE FALSE
    BY <1>1, <1>2, <1>8, <2>2, RowsStored
  <2>3. PICK q \in Payments, outcome \in {"success", "failed"}, applied \in BOOLEAN :
          Completion(q, outcome, applied)
    BY <1>1, <2>1, <2>2, StepKinds DEF Completes
  <2>4. q = p /\ UNCHANGED tx
    BY <1>1, <1>8, <2>3, RowsCompleted DEF Completion, netVars
  <2>5. Justified(p, outcome, applied)
    BY <1>1, <2>3, <2>4, CauseJustified DEF Completion
  <2>6. CASE Final(h) \/ tx[h].late
    BY <1>3, <2>4, <2>6 DEF Final, Built, Over
  <2>7. ASSUME tx[h].state = "held",
               NEW r \in Calls, Sending(r), call[r].pay = p, call'[r].pc = "done"
        PROVE  Over(p, rec[p].tx)'
    <3>1. ~Sending(r)'
      BY <2>7 DEF Sending, At
    <3>2. \A s \in Calls : Sending(s)' => call'[s].pay # p
      BY <1>1, <1>6, <2>7, <3>1 DEF OneSender
    <3>3. QED
      BY <1>3, <2>4, <2>7, <3>2 DEF Over
  <2>8. QED
    BY <1>3, <2>5, <2>6, <2>7 DEF Justified
<1>9. QED
  BY <1>7, <1>8

LEMMA OverInvInit == Init => OverInv
<1>1. SUFFICES ASSUME Init PROVE OverInv
  OBVIOUS
<1>2. \A p \in Payments : rec[p].tx = None
  BY <1>1 DEF Init, StoreInit, NoRow
<1>3. QED
  BY <1>1, <1>2, OwnerInvInit DEF OverInv, AnsweredIsOver

LEMMA OverInvAlways ==
  ASSUME OneOwner
  PROVE  Spec => []OverInv
<1>1. ASSUME OverInv, [Next]_vars PROVE OverInv'
  BY <1>1, OwnerInvStep, AnsweredIsOverStep DEF OverInv
<1>2. OverInv /\ [Next]_vars => OverInv'
  BY <1>1
<1>3. QED
  BY <1>2, OverInvInit, PTL DEF Spec

LEMMA ChannelsExclusive ==
  ASSUME OverInv
  PROVE  ChannelExclusive
<1>1. /\ OwnerInv /\ TypeOK /\ Anchored /\ OneSender /\ Quarantined /\ AnsweredIsOver
  BY DEF OverInv, OwnerInv, Inv
<1>2. ASSUME NEW h \in Hashes, Applicable(h), tx[h].state = "sent"
      PROVE  /\ ch[h[1]].status = "unresolved" /\ ch[h[1]].rec = tx[h].pay
             /\ rec[tx[h].pay].tx = h
  <2> DEFINE p == tx[h].pay
  <2>1. Built(h) /\ h # None /\ h[1] \in Channels
    BY <1>2, NoneAssumption, HashParts DEF Applicable
  <2>2. p \in Payments /\ p # None
    BY <1>1, <2>1, EnvelopeIsOfPayment, NoneAssumption DEF EnvelopeOf
  <2>3. rec[p].tx = h
    BY <1>1, <1>2, <2>1 DEF Anchored
  <2>4. ~Over(p, h)
    BY <1>2 DEF Over, Final, Applicable
  <2>5. rec[p].response = None
    BY <1>1, <2>1, <2>2, <2>3, <2>4 DEF AnsweredIsOver
  <2>6. ch[h[1]].rec = p
    BY <1>1, <2>1, <2>2, <2>3, <2>5 DEF Quarantined
  <2>7. QED
    BY <1>1, <2>1, <2>2, <2>3, <2>6 DEF Quarantined
<1>3. ASSUME NEW h \in Hashes, Applicable(h), tx[h].state = "sent",
             NEW g \in Hashes, g[1] = h[1], Applicable(g), tx[g].state = "sent"
      PROVE  g = h
  <2>1. ch[h[1]].rec = tx[h].pay /\ rec[tx[h].pay].tx = h
    BY <1>2, <1>3
  <2>2. ch[g[1]].rec = tx[g].pay /\ rec[tx[g].pay].tx = g
    BY <1>2, <1>3
  <2>3. QED
    BY <1>3, <2>1, <2>2
<1>4. QED
  BY <1>2, <1>3 DEF ChannelExclusive

\* At most one envelope of a channel waits for the next ledger, and its channel
\* is quarantined for its payment until that is decided.
THEOREM OneEnvelopePerChannel ==
  ASSUME OneOwner
  PROVE  Spec => []ChannelExclusive
<1>1. OverInv => ChannelExclusive
  BY ChannelsExclusive
<1>2. QED
  BY <1>1, OverInvAlways, PTL

-----------------------------------------------------------------------------
(* "failed" is final when no ledger closes between recovery's two reads. *)

LEMMA WatchedStep ==
  ASSUME "straddle" \notin Hazards, OwnerInv, Watched, [Next]_vars
  PROVE  Watched'
<1>1. /\ TypeOK /\ CallShape /\ SweepShape /\ LeasesUnique /\ ReferencesMatch
      /\ sweep \in [Workers -> SweepRecord]
  BY DEF OwnerInv, Inv, TypeOK, ProcTypeOK
<1> SUFFICES ASSUME NEW w \in Workers, sweep'[w].pc = "expiry"
             PROVE  ~Final(sweep[w].item.tx)'
  BY DEF Watched
<1>2. sweep'[w] = sweep[w]
      \/ (HorizonNotFound(w) /\ sweep'[w].item = sweep[w].item)
  <2>1. \A v \in Workers : \A row : v # w /\ sweep' = [sweep EXCEPT ![v] = row] => sweep'[w] = sweep[w]
    BY <1>1
  <2>2. \A row : sweep' = [sweep EXCEPT ![w] = row] => sweep'[w] = row
    BY <1>1
  <2>3. ASSUME NEW v \in Workers, ReplicaStep(v), v # w PROVE sweep'[w] = sweep[w]
    BY <2>1, <2>3
    DEF ReplicaStep, SweepStep, SweepList, HorizonNotFound, ExpiryElapsed, LeaveUnresolved, Swept,
        SweepResolves, SweepPollTimesOut, Crash, Boot
  <2>4. \A i : Swept(w, i) => sweep'[w].pc \in {"idle", "next"}
    BY <2>2 DEF Swept
  <2>5. ~SweepList(w) /\ ~Crash(w)
    <3>1. ASSUME NEW todo,
                 sweep' = [sweep EXCEPT ![w] = [pc |-> "next", item |-> None, todo |-> todo]]
          PROVE  FALSE
      <4>1. sweep'[w] = [pc |-> "next", item |-> None, todo |-> todo]
        BY <1>1, <3>1
      <4>2. QED
        BY <4>1
    <3>2. ASSUME Crash(w) PROVE FALSE
      <4>1. sweep'[w] = Resting
        BY <1>1, <3>2 DEF Crash
      <4>2. QED
        BY <4>1 DEF Resting
    <3>3. QED
      BY <3>1, <3>2 DEF SweepList
  <2>6. ~ExpiryElapsed(w) /\ ~LeaveUnresolved(w) /\ \A i : ~SweepResolves(w, i)
    BY <2>4 DEF ExpiryElapsed, LeaveUnresolved, SweepResolves
  <2>7. \A i : ~SweepPollTimesOut(w, i)
    <3>1. \A i : [sweep[w] EXCEPT !.pc = "horizon", !.item = i].pc = "horizon"
      BY <1>1 DEF SweepRecord
    <3>2. QED
      BY <2>2, <3>1 DEF SweepPollTimesOut
  <2>8. HorizonNotFound(w) => sweep'[w].item = sweep[w].item
    <3>1. HorizonNotFound(w) => sweep'[w] = [sweep[w] EXCEPT !.pc = "expiry"]
      BY <1>1 DEF HorizonNotFound
    <3>2. QED
      BY <1>1, <3>1 DEF SweepRecord
  <2>9. Boot(w) => sweep'[w] = sweep[w]
    BY DEF Boot
  <2>10. ReplicaStep(w) => Boot(w) \/ HorizonNotFound(w)
    BY <2>5, <2>6, <2>7 DEF ReplicaStep, SweepStep
  <2>11. ASSUME NEW r \in Calls, CallStep(r) PROVE UNCHANGED sweep
    BY <2>11 DEF CallStep, Refuse, Claim, WaitForOwner, LeaseChannel, Prepare, PrepareFails, Store,
       Release, Fail, Reload, SendAccepted, SendNotAccepted, SendRejected, Mark, PollResolves,
       PollTimesOut, GiveUp, Background
  <2>12. ASSUME \/ \E p \in Payments, print \in Prints : Verify(p, print)
                \/ \E r \in Calls, v \in Workers, p \in Payments, print \in Prints,
                      actual \in Amounts, who \in Principals : Admit(r, v, p, print, actual, who)
                \/ \E p \in Payments : RecordLeaseExpires(p)
                \/ \E c \in Channels : ChannelLeaseExpires(c)
                \/ \E h \in Hashes : NetworkStep(h)
                \/ UNCHANGED vars
         PROVE  UNCHANGED sweep
    BY <2>12 DEF Verify, Admit, RecordLeaseExpires, ChannelLeaseExpires, NetworkStep, LedgerApplies,
       MaximumTimePasses, Background, procVars, vars
  <2>13. QED
    BY <2>3, <2>8, <2>9, <2>10, <2>11, <2>12 DEF Next
<1> DEFINE h == sweep[w].item.tx
<1>3. /\ sweep'[w].item = sweep[w].item /\ sweep[w].item # None
      /\ sweep[w].item \in SweepItems /\ h \in Hashes
  <2>1. sweep[w].pc \in {"horizon", "expiry"} => sweep[w].item # None
    BY <1>1 DEF SweepShape
  <2>2. QED
    BY <1>1, <1>2, <2>1 DEF HorizonNotFound, SweepRecord, SweepItems
<1>4. Built(h) /\ ~Final(h)
  BY <1>1, <1>2, <1>3 DEF ReferencesMatch, EnvelopeOf, Watched, HorizonNotFound
<1>5. EnvelopeMoves(h)
  BY <1>1, <1>3, <1>4, EnvelopeFrame
<1>6. ~LedgerApplies(h)
  <2>1. HorizonNotFound(w) => ~LedgerApplies(h)
    <3>1. HorizonNotFound(w) => tx' = tx
      BY DEF HorizonNotFound, netVars
    <3>2. LedgerApplies(h) => tx'[h].state # "sent" /\ tx[h].state = "sent"
      BY <1>1, <1>3, <1>4, EnvelopeAssumption DEF LedgerApplies, Apply, TypeOK, StellarTypeOK,
         Built, Envelope
    <3>3. QED
      BY <3>1, <3>2
  <2>2. QED
    BY <1>2, <2>1 DEF LedgerApplies
<1>7. QED
  BY <1>3, <1>4, <1>5, <1>6 DEF Final, EnvelopeMoves

LEMMA FailedNotPaidStep ==
  ASSUME DecisionInv, [Next]_vars
  PROVE  FailedNotPaid'
<1>1. /\ OwnerInv /\ Inv /\ TypeOK /\ StoreTypeOK /\ CallShape /\ LeasesUnique /\ ReferencesMatch
      /\ HashesHeld /\ OneSender /\ Quarantined /\ RecordsOwned
      /\ AnsweredIsOver /\ Watched /\ FailedNotPaid
  BY DEF DecisionInv, OverInv, OwnerInv, Inv, TypeOK
<1> SUFFICES ASSUME NEW p \in Payments, rec'[p].response = "failed", rec'[p].tx # None
             PROVE  tx'[rec'[p].tx].state # "SUCCESS"
  BY DEF FailedNotPaid
<1>2. \A r \in Calls : Stores(r) /\ call[r].pay = p => FALSE
  BY <1>1, RowsStored, NoneAssumption
<1>3. rec'[p].tx = rec[p].tx
  BY <1>1, <1>2, HashKept
<1> DEFINE h == rec[p].tx
<1>4. h \in Hashes /\ EnvelopeOf(h, p)
  BY <1>1, <1>3, RecordTyped DEF ReferencesMatch
<1>5. CASE rec[p].response = "failed"
  <2>1. Over(p, h) /\ tx[h].state # "SUCCESS"
    BY <1>1, <1>3, <1>5, NoneAssumption DEF AnsweredIsOver, FailedNotPaid
  <2>2. ~LedgerApplies(h)
    BY <2>1 DEF Over, Final, LedgerApplies, Apply, Applicable
  <2>3. EnvelopeMoves(h)
    BY <1>1, <1>4, EnvelopeFrame DEF EnvelopeOf
  <2>4. QED
    BY <1>3, <2>1, <2>2, <2>3 DEF EnvelopeMoves
<1>6. CASE rec[p].response # "failed"
  <2>1. ~TablesKept
    BY <1>6 DEF TablesKept, RowKept
  <2>2. ASSUME NEW r \in Calls, Stores(r) PROVE FALSE
    BY <1>1, <1>2, <1>6, <2>2, RowsStored
  <2>3. PICK q \in Payments, outcome \in {"success", "failed"}, applied \in BOOLEAN :
          Completion(q, outcome, applied)
    BY <1>1, <2>1, <2>2, StepKinds DEF Completes
  <2>4. q = p /\ outcome = "failed" /\ UNCHANGED tx
    BY <1>1, <1>6, <2>3, RowsCompleted DEF Completion, netVars
  <2>5. Justified(p, "failed", applied)
    BY <1>1, <2>3, <2>4, CauseJustified DEF Completion
  <2>6. tx[h].state # "SUCCESS"
    BY <1>1, <1>3, <1>4, <2>5 DEF Justified, Watched, Final, EnvelopeOf, Outcome
  <2>7. QED
    BY <1>3, <2>4, <2>6
<1>7. QED
  BY <1>5, <1>6

LEMMA DecisionInvInit == Init => DecisionInv
<1>1. SUFFICES ASSUME Init PROVE DecisionInv
  OBVIOUS
<1>2. \A w \in Workers : sweep[w].pc = "idle"
  BY <1>1 DEF Init, Resting
<1>3. \A p \in Payments : rec[p].tx = None
  BY <1>1 DEF Init, StoreInit, NoRow
<1>4. QED
  BY <1>1, <1>2, <1>3, OverInvInit DEF DecisionInv, Watched, FailedNotPaid

LEMMA DecisionInvAlways ==
  ASSUME OneOwner, "straddle" \notin Hazards
  PROVE  Spec => []DecisionInv
<1>1. ASSUME DecisionInv, [Next]_vars PROVE DecisionInv'
  <2>1. OverInv /\ OwnerInv /\ Watched
    BY <1>1 DEF DecisionInv, OverInv
  <2>2. OverInv'
    BY <1>1, <2>1, OwnerInvStep, AnsweredIsOverStep DEF OverInv
  <2>3. Watched'
    BY <1>1, <2>1, WatchedStep
  <2>4. FailedNotPaid'
    BY <1>1, FailedNotPaidStep
  <2>5. QED
    BY <2>2, <2>3, <2>4 DEF DecisionInv
<1>2. DecisionInv /\ [Next]_vars => DecisionInv'
  BY <1>1
<1>3. QED
  BY <1>2, DecisionInvInit, PTL DEF Spec

\* The record of a payment that was made holds the envelope that made it.
LEMMA PaidIsHeld ==
  ASSUME OwnerInv, NEW p \in Payments
  PROVE  Paid(p) <=> rec[p].tx # None /\ tx[rec[p].tx].state = "SUCCESS"
<1>1. ASSUME Paid(p) PROVE rec[p].tx # None /\ tx[rec[p].tx].state = "SUCCESS"
  <2>1. PICK h \in Hashes : Built(h) /\ tx[h].pay = p /\ tx[h].state = "SUCCESS"
    BY <1>1 DEF Paid
  <2>2. rec[p].tx = h
    BY <2>1 DEF OwnerInv, Anchored
  <2>3. QED
    BY <2>1, <2>2, NoneAssumption
<1>2. ASSUME rec[p].tx # None, tx[rec[p].tx].state = "SUCCESS" PROVE Paid(p)
  BY <1>2, RecordTyped DEF OwnerInv, Inv, ReferencesMatch, EnvelopeOf, Paid
<1>3. QED
  BY <1>1, <1>2

LEMMA FailedUnpaid ==
  ASSUME DecisionInv
  PROVE  FailedIsUnpaid
<1>1. OwnerInv /\ Anchored /\ AnsweredIsOver /\ FailedNotPaid
  BY DEF DecisionInv, OverInv, OwnerInv
<1> SUFFICES ASSUME NEW p \in Payments, rec[p].response = "failed"
             PROVE  /\ ~Paid(p)
                    /\ \A h \in Hashes : Built(h) /\ tx[h].pay = p /\ tx[h].state = "sent"
                                           => ~Applicable(h)
  BY DEF FailedIsUnpaid
<1>2. ~Paid(p)
  BY <1>1, PaidIsHeld DEF FailedNotPaid
<1>3. ASSUME NEW h \in Hashes, Built(h), tx[h].pay = p, tx[h].state = "sent"
      PROVE  ~Applicable(h)
  <2>1. rec[p].tx = h /\ h # None
    BY <1>1, <1>3, NoneAssumption DEF Anchored
  <2>2. Over(p, h)
    BY <1>1, <2>1, NoneAssumption DEF AnsweredIsOver
  <2>3. QED
    BY <1>3, <2>2 DEF Over, Final, Applicable
<1>4. QED
  BY <1>2, <1>3

\* "failed" is final: the payment was not made, and no envelope that could still
\* make it is in the network's queue.
THEOREM FailedStaysUnpaid ==
  ASSUME OneOwner, "straddle" \notin Hazards
  PROVE  Spec => []FailedIsUnpaid
<1>1. DecisionInv => FailedIsUnpaid
  BY FailedUnpaid
<1>2. QED
  BY <1>1, DecisionInvAlways, PTL

-----------------------------------------------------------------------------
(* The facilitator implements PaymentPromise. *)

\* Who is paid changes when a ledger applies an envelope that then succeeds.
LEMMA PaidFrame ==
  ASSUME Inv, [Next]_vars
  PROVE  \/ \A p \in Payments : Paid(p)' <=> Paid(p)
         \/ \E h \in Hashes :
              /\ LedgerApplies(h) /\ Built(h) /\ tx[h].pay \in Payments /\ ~Paid(tx[h].pay)
              /\ \A p \in Payments : Paid(p)' <=> Paid(p) \/ p = tx[h].pay
<1>1. TypeOK /\ CallShape /\ LeasesUnique /\ tx \in [Hashes -> Envelope \cup {None}]
  BY DEF Inv, TypeOK, StellarTypeOK
<1>2. \A p \in Payments : Paid(p) => Paid(p)'
  BY PaidStaysPaid
<1>3. ASSUME NEW p \in Payments, Paid(p)', ~Paid(p)
      PROVE  \E h \in Hashes : LedgerApplies(h) /\ Built(h) /\ tx[h].pay = p
  <2>1. PICK h \in Hashes : Built(h)' /\ tx'[h].pay = p /\ tx'[h].state = "SUCCESS"
    BY <1>3 DEF Paid
  <2>2. Built(h)
    BY <1>1, <2>1, EnvelopeIsNew
  <2>3. EnvelopeMoves(h)
    BY <1>1, <2>2, EnvelopeFrame
  <2>4. tx[h].pay = p /\ tx[h].state # "SUCCESS"
    BY <1>3, <2>1, <2>2, <2>3 DEF EnvelopeMoves, Paid
  <2>5. LedgerApplies(h)
    BY <2>1, <2>3, <2>4 DEF EnvelopeMoves
  <2>6. QED
    BY <2>2, <2>4, <2>5
<1>4. ASSUME NEW h \in Hashes, LedgerApplies(h), NEW g \in Hashes, LedgerApplies(g)
      PROVE  g = h
  <2>1. PICK s \in {"SUCCESS", "FAILED"} : tx' = [tx EXCEPT ![h].state = s]
    BY <1>4 DEF LedgerApplies, Apply
  <2>2. PICK t \in {"SUCCESS", "FAILED"} : tx' = [tx EXCEPT ![g].state = t]
    BY <1>4 DEF LedgerApplies, Apply
  <2>3. tx[h] \in Envelope /\ tx[h].state = "sent"
    BY <1>1, <1>4 DEF LedgerApplies, Apply, Applicable, Built
  <2>4. tx'[h].state = s
    BY <1>1, <2>1, <2>3 DEF Envelope
  <2>5. g # h => tx'[h] = tx[h]
    BY <1>1, <2>2
  <2>6. QED
    BY <2>3, <2>4, <2>5
<1>5. CASE \E p \in Payments : Paid(p)' /\ ~Paid(p)
  <2>1. PICK p \in Payments : Paid(p)' /\ ~Paid(p)
    BY <1>5
  <2>2. PICK h \in Hashes : LedgerApplies(h) /\ Built(h) /\ tx[h].pay = p
    BY <1>3, <2>1
  <2>3. \A q \in Payments : Paid(q)' /\ ~Paid(q) => q = p
    BY <1>3, <1>4, <2>2
  <2>4. QED
    BY <1>2, <2>1, <2>2, <2>3
<1>6. QED
  BY <1>2, <1>5

\* The answer says what the ledger did.
LEMMA AnswerIsTruth ==
  ASSUME DecisionInv, NEW p \in Payments, NEW outcome, NEW applied,
         Cause(p, outcome, applied)
  PROVE  /\ outcome = IF Paid(p) THEN "success" ELSE "failed"
         /\ rec[p].response \in {None, outcome}
<1>1. /\ OwnerInv /\ Inv /\ TypeOK /\ HashesHeld /\ RecordsOwned /\ OneSender /\ Watched
      /\ TruthfulSuccess /\ FailedIsUnpaid /\ ReferencesMatch
  BY FailedUnpaid DEF DecisionInv, OverInv, OwnerInv, Inv
<1>2. Justified(p, outcome, applied)
  BY <1>1, CauseJustified
<1>3. Paid(p) <=> rec[p].tx # None /\ tx[rec[p].tx].state = "SUCCESS"
  BY <1>1, PaidIsHeld
<1>4. rec[p].tx # None => rec[p].tx \in Hashes /\ Built(rec[p].tx)
  BY <1>1, RecordTyped DEF ReferencesMatch, EnvelopeOf
<1>5. \A w \in Workers : sweep[w].pc = "expiry" => ~Final(sweep[w].item.tx)
  BY <1>1 DEF Watched
<1>6. outcome = IF Paid(p) THEN "success" ELSE "failed"
  BY <1>2, <1>3, <1>4, <1>5 DEF Justified, Final, Outcome
<1>7. rec[p].response \in {"success", "failed", None}
  BY <1>1 DEF TypeOK, StoreTypeOK, RecordRow
<1>8. (rec[p].response = "success" => Paid(p)) /\ (rec[p].response = "failed" => ~Paid(p))
  BY <1>1 DEF TruthfulSuccess, FailedIsUnpaid
<1>9. QED
  BY <1>6, <1>7, <1>8

\* The abstract specification's variables.
promised == [p \in Payments |-> rec[p].tx]
made == {p \in Payments : Paid(p)}
answered == [p \in Payments |-> rec[p].response]

LEMMA AbstractUnchanged ==
  ASSUME \A p \in Payments : rec'[p].tx = rec[p].tx /\ rec'[p].response = rec[p].response,
         \A p \in Payments : Paid(p)' <=> Paid(p)
  PROVE  UNCHANGED <<promised, made, answered>>
  BY DEF promised, made, answered

LEMMA AbstractPromise ==
  ASSUME DecisionInv, NEW r \in Calls, Stores(r), [Next]_vars
  PROVE  \E p \in Payments, h \in Hashes :
           /\ promised[p] = None /\ answered[p] = None
           /\ promised' = [promised EXCEPT ![p] = h]
           /\ UNCHANGED <<made, answered>>
<1> DEFINE p == call[r].pay
           h == call[r].lease
<1>1. /\ p \in Payments /\ h \in Hashes
      /\ rec[p].tx = None /\ rec[p].response = None
      /\ rec'[p].tx = h /\ rec'[p].response = None
      /\ \A q \in Payments \ {p} : rec'[q] = rec[q]
      /\ UNCHANGED tx
  BY RowsStored DEF DecisionInv, OverInv, OwnerInv, netVars
<1>2. promised' = [promised EXCEPT ![p] = h]
  BY <1>1 DEF promised
<1>3. UNCHANGED <<made, answered>>
  BY <1>1 DEF made, answered, Paid, Built
<1>4. promised[p] = None /\ answered[p] = None
  BY <1>1 DEF promised, answered
<1>5. QED
  BY <1>1, <1>2, <1>3, <1>4

LEMMA AbstractDecide ==
  ASSUME DecisionInv, Completes, [Next]_vars
  PROVE  \/ UNCHANGED <<promised, made, answered>>
         \/ \E p \in Payments :
              /\ answered[p] = None
              /\ answered' = [answered EXCEPT ![p] = IF p \in made THEN "success" ELSE "failed"]
              /\ UNCHANGED <<promised, made>>
<1>1. PICK p \in Payments, outcome \in {"success", "failed"}, applied \in BOOLEAN :
        Completion(p, outcome, applied)
  BY DEF Completes
<1>2. StoreTypeOK
  BY DEF DecisionInv, OverInv, OwnerInv, Inv, TypeOK
<1>3. /\ \A q \in Payments : rec'[q].tx = rec[q].tx
      /\ rec'[p].response = outcome
      /\ \A q \in Payments \ {p} : rec'[q] = rec[q]
      /\ UNCHANGED tx
  BY <1>1, <1>2, RowsCompleted DEF Completion, netVars
<1>4. outcome = (IF p \in made THEN "success" ELSE "failed") /\ rec[p].response \in {None, outcome}
  BY <1>1, AnswerIsTruth DEF Completion, made
<1>5. UNCHANGED <<promised, made>>
  BY <1>3 DEF promised, made, Paid, Built
<1>6. answered' = [answered EXCEPT ![p] = outcome]
  BY <1>3 DEF answered
<1>7. CASE rec[p].response = None
  <2>1. answered[p] = None
    BY <1>7 DEF answered
  <2>2. QED
    BY <1>4, <1>5, <1>6, <2>1
<1>8. CASE rec[p].response = outcome
  <2>1. answered' = answered
    BY <1>3, <1>8 DEF answered
  <2>2. QED
    BY <1>5, <2>1
<1>9. QED
  BY <1>4, <1>7, <1>8

LEMMA AbstractPay ==
  ASSUME DecisionInv, NEW h \in Hashes, LedgerApplies(h), Built(h), tx[h].pay \in Payments,
         ~Paid(tx[h].pay), \A p \in Payments : Paid(p)' <=> Paid(p) \/ p = tx[h].pay
  PROVE  \E p \in Payments :
           /\ promised[p] # None /\ answered[p] = None /\ p \notin made
           /\ made' = made \cup {p}
           /\ UNCHANGED <<promised, answered>>
<1> DEFINE p == tx[h].pay
<1>1. /\ OwnerInv /\ TypeOK /\ Anchored /\ TruthfulSuccess /\ FailedIsUnpaid
  BY FailedUnpaid DEF DecisionInv, OverInv, OwnerInv, Inv
<1>2. Applicable(h) /\ tx[h].state = "sent" /\ UNCHANGED rec
  BY DEF LedgerApplies, Apply, storeVars
<1>3. rec[p].tx = h /\ h # None
  BY <1>1, <1>2, NoneAssumption DEF Anchored
<1>4. rec[p].response = None
  BY <1>1, <1>2 DEF TruthfulSuccess, FailedIsUnpaid, TypeOK, StoreTypeOK, RecordRow
<1>5. promised[p] # None /\ answered[p] = None /\ p \notin made
  BY <1>3, <1>4 DEF promised, answered, made
<1>6. made' = made \cup {p} /\ UNCHANGED <<promised, answered>>
  BY <1>2 DEF made, promised, answered
<1>7. QED
  BY <1>5, <1>6

LEMMA AbstractStep ==
  ASSUME DecisionInv, [Next]_vars
  PROVE  [Abstract!Next]_Abstract!promiseVars
<1> DEFINE Promised ==
             \E p \in Payments, h \in Hashes :
               /\ promised[p] = None /\ answered[p] = None
               /\ promised' = [promised EXCEPT ![p] = h]
               /\ UNCHANGED <<made, answered>>
           PaidNow ==
             \E p \in Payments :
               /\ promised[p] # None /\ answered[p] = None /\ p \notin made
               /\ made' = made \cup {p}
               /\ UNCHANGED <<promised, answered>>
           Decided ==
             \E p \in Payments :
               /\ answered[p] = None
               /\ answered' = [answered EXCEPT ![p] = IF p \in made THEN "success" ELSE "failed"]
               /\ UNCHANGED <<promised, made>>
<1>1. Inv /\ Quarantined
  BY DEF DecisionInv, OverInv, OwnerInv
<1>2. Promised \/ PaidNow \/ Decided \/ UNCHANGED <<promised, made, answered>>
  <2>1. CASE Completes
    BY <2>1, AbstractDecide
  <2>2. CASE \E r \in Calls : Stores(r)
    BY <2>2, AbstractPromise
  <2>3. CASE TablesKept
    <3>1. \A p \in Payments : rec'[p].tx = rec[p].tx /\ rec'[p].response = rec[p].response
      BY <2>3 DEF TablesKept, RowKept
    <3>2. QED
      BY <1>1, <3>1, PaidFrame, AbstractUnchanged, AbstractPay
  <2>4. QED
    BY <1>1, <2>1, <2>2, <2>3, StepKinds
<1>3. QED
  BY <1>2
  DEF Abstract!Next, Abstract!promiseVars, Abstract!Promise, Abstract!Pay, Abstract!Decide,
      promised, made, answered

\* The facilitator keeps its promise: for each payment it makes one hash durable
\* before it submits anything, it gives one answer and for good, and what it
\* answers is and remains what the ledger did.
THEOREM PromiseKept ==
  ASSUME OneOwner, "straddle" \notin Hazards
  PROVE  Spec => KeepsPromise
<1>1. Init => Abstract!Init
  BY DEF Init, StoreInit, StellarInit, NoRow, Abstract!Init, Paid, Built
<1>2. DecisionInv /\ [Next]_vars => [Abstract!Next]_Abstract!promiseVars
  BY AbstractStep
<1>3. QED
  BY <1>1, <1>2, DecisionInvAlways, PTL DEF Spec, KeepsPromise, Abstract!Spec


-----------------------------------------------------------------------------
(* In every environment: amounts and budgets. *)

\* A row with a fingerprint is not verified again, and has no response because it
\* had none.
Continues(p, row) ==
  /\ row.tx = rec[p].tx /\ row.actual = rec[p].actual
  /\ rec[p].print # None =>
       /\ row.print # None
       /\ row.response = None =>
            rec[p].response = None /\ row.status \in {rec[p].status, "pending", "unknown"}

\* Rows keep their hashes and amounts, or a call claims one, or stores in one.
TermsKept ==
  /\ UNCHANGED spent
  /\ \A p \in Payments : Continues(p, rec'[p])

LEMMA TermsUpdate ==
  ASSUME StoreTypeOK, NEW p \in Payments, NEW row,
         Continues(p, row), rec' = [rec EXCEPT ![p] = row], UNCHANGED spent
  PROVE  TermsKept
<1>1. rec \in [Payments -> RecordRow]
  BY DEF StoreTypeOK
<1>2. \A q \in Payments : Continues(q, rec[q])
  BY DEF Continues
<1>3. rec'[p] = row /\ \A q \in Payments \ {p} : rec'[q] = rec[q]
  BY <1>1
<1>4. QED
  BY <1>2, <1>3 DEF TermsKept

LEMMA TermsOfRecords ==
  ASSUME StoreTypeOK, NEW p \in Payments,
         \/ \E print \in Prints : registerIdempotency(p, print)
         \/ \E outcome \in {"success", "failed"}, applied \in BOOLEAN : complete(p, outcome, applied)
         \/ markPending(p) \/ markUnknown(p) \/ RecordLeaseRunsOut(p)
  PROVE  TermsKept
<1>1. rec[p] \in RecordRow
  BY DEF StoreTypeOK
<1>2. UNCHANGED <<rec, spent>> => TermsKept
  BY DEF TermsKept, Continues
<1>3. ASSUME NEW print \in Prints, registerIdempotency(p, print) PROVE TermsKept
  <2> DEFINE row == [rec[p] EXCEPT !.print = print, !.status = "verified"]
  <2>1. CASE rec[p].print = None
    <3>1. Continues(p, row)
      BY <1>1, <2>1 DEF RecordRow, Continues
    <3>2. rec' = [rec EXCEPT ![p] = row] /\ UNCHANGED spent
      BY <1>3, <2>1 DEF registerIdempotency
    <3> HIDE DEF row
    <3>3. QED
      BY <3>1, <3>2, TermsUpdate
  <2>2. QED
    BY <1>2, <1>3, <2>1 DEF registerIdempotency
<1>4. ASSUME NEW outcome \in {"success", "failed"}, NEW applied \in BOOLEAN,
             complete(p, outcome, applied)
      PROVE  TermsKept
  <2> DEFINE row == [rec[p] EXCEPT !.status = outcome, !.response = outcome]
  <2>1. Continues(p, row)
    BY <1>1, NoneAssumption DEF RecordRow, Continues
  <2>2. rec' = [rec EXCEPT ![p] = row] /\ UNCHANGED spent
    BY <1>4 DEF complete
  <2> HIDE DEF row
  <2>3. QED
    BY <2>1, <2>2, TermsUpdate
<1>5. ASSUME markPending(p) PROVE TermsKept
  <2> DEFINE row == [rec[p] EXCEPT !.status = "pending"]
  <2>1. Continues(p, row)
    BY <1>1 DEF RecordRow, Continues
  <2>2. rec' = [rec EXCEPT ![p] = row] /\ UNCHANGED spent
    BY <1>5 DEF markPending
  <2> HIDE DEF row
  <2>3. QED
    BY <2>1, <2>2, TermsUpdate
<1>6. ASSUME markUnknown(p) PROVE TermsKept
  <2> DEFINE row == [rec[p] EXCEPT !.status = "unknown", !.worker = None, !.alive = FALSE]
  <2>1. Continues(p, row)
    BY <1>1 DEF RecordRow, Continues
  <2>2. rec' = [rec EXCEPT ![p] = row] /\ UNCHANGED spent
    BY <1>6 DEF markUnknown
  <2> HIDE DEF row
  <2>3. QED
    BY <2>1, <2>2, TermsUpdate
<1>7. ASSUME RecordLeaseRunsOut(p) PROVE TermsKept
  <2> DEFINE row == [rec[p] EXCEPT !.alive = FALSE]
  <2>1. Continues(p, row)
    BY <1>1 DEF RecordRow, Continues
  <2>2. rec' = [rec EXCEPT ![p] = row] /\ UNCHANGED spent
    BY <1>7 DEF RecordLeaseRunsOut
  <2> HIDE DEF row
  <2>3. QED
    BY <2>1, <2>2, TermsUpdate
<1>8. QED
  BY <1>3, <1>4, <1>5, <1>6, <1>7

LEMMA TermsFrame ==
  ASSUME Inv, [Next]_vars
  PROVE  TermsKept \/ \E r \in Calls : ClaimsAsOwner(r) \/ Stores(r)
<1>1. /\ StoreTypeOK /\ CallShape /\ SweepShape /\ call \in [Calls -> CallRecord]
      /\ sweep \in [Workers -> SweepRecord]
  BY DEF Inv, TypeOK, ProcTypeOK
<1>2. UNCHANGED <<rec, spent>> => TermsKept
  BY DEF TermsKept, Continues
<1>3. ASSUME NEW r \in Calls, CallStep(r)
      PROVE  TermsKept \/ ClaimsAsOwner(r) \/ Stores(r)
  <2>1. Live(r) => call[r].pay \in Payments
    BY <1>1 DEF CallShape
  <2>2. CASE \/ Refuse(r) \/ WaitForOwner(r) \/ PrepareFails(r) \/ Reload(r) \/ Prepare(r)
             \/ SendAccepted(r) \/ SendNotAccepted(r) \/ SendRejected(r) \/ PollTimesOut(r)
             \/ LeaseChannel(r) \/ Release(r)
    BY <1>2, <2>2
    DEF Refuse, WaitForOwner, PrepareFails, Reload, SendNotAccepted, SendRejected, PollTimesOut,
        Prepare, SendAccepted, LeaseChannel, leaseChannel, Release, releaseChannel, storeVars
  <2>3. CASE Claim(r)
    BY <1>2, <2>3 DEF Claim, ClaimsAsOwner, claimSettlement
  <2>4. CASE Store(r)
    BY <1>2, <2>4 DEF Store, Stores, storePreparedAndReserve, storeVars
  <2>5. CASE Fail(r) \/ PollResolves(r) \/ Mark(r) \/ GiveUp(r)
    <3>1. \A h : Outcome(h) \in {"success", "failed"}
      BY DEF Outcome
    <3>2. QED
      BY <1>1, <2>1, <2>5, <3>1, TermsOfRecords DEF Fail, PollResolves, Mark, GiveUp, At, Live
  <2>6. QED
    BY <1>3, <2>2, <2>3, <2>4, <2>5 DEF CallStep
<1>4. ASSUME NEW w \in Workers, ReplicaStep(w) PROVE TermsKept
  <2>1. CASE SweepList(w) \/ HorizonNotFound(w) \/ LeaveUnresolved(w) \/ Crash(w) \/ Boot(w)
    BY <1>2, <2>1 DEF SweepList, HorizonNotFound, LeaveUnresolved, Crash, Boot, syncChannels, storeVars
  <2>2. CASE ExpiryElapsed(w)
    <3>1. sweep[w].item.pay \in Payments
      BY <1>1, <2>2 DEF ExpiryElapsed, SweepShape, SweepRecord, SweepItems
    <3>2. QED
      BY <1>1, <2>2, <3>1, TermsOfRecords DEF ExpiryElapsed
  <2>3. ASSUME NEW i \in SweepItems, SweepResolves(w, i) PROVE TermsKept
    <3>1. Outcome(i.tx) \in {"success", "failed"}
      BY DEF Outcome
    <3>2. QED
      BY <1>1, <2>3, <3>1, TermsOfRecords DEF SweepResolves, SweepItems
  <2>4. ASSUME NEW i \in SweepItems, SweepPollTimesOut(w, i) PROVE TermsKept
    BY <1>2, <2>4 DEF SweepPollTimesOut, storeVars
  <2>5. QED
    BY <1>4, <2>1, <2>2, <2>3, <2>4 DEF ReplicaStep, SweepStep
<1>5. ASSUME NEW p \in Payments, NEW print \in Prints, Verify(p, print) PROVE TermsKept
  BY <1>1, <1>5, TermsOfRecords DEF Verify
<1>6. ASSUME NEW p \in Payments, RecordLeaseExpires(p) PROVE TermsKept
  BY <1>1, <1>6, TermsOfRecords DEF RecordLeaseExpires
<1>7. CASE \/ \E r \in Calls, w \in Workers, p \in Payments, print \in Prints,
                 actual \in Amounts, who \in Principals : Admit(r, w, p, print, actual, who)
           \/ \E c \in Channels : ChannelLeaseExpires(c)
           \/ \E h \in Hashes : NetworkStep(h)
           \/ UNCHANGED vars
  BY <1>2, <1>7
  DEF Admit, ChannelLeaseExpires, ChannelLeaseRunsOut, NetworkStep, LedgerApplies,
      MaximumTimePasses, storeVars, vars
<1>8. QED
  BY <1>3, <1>4, <1>5, <1>6, <1>7 DEF Next

LEMMA RowsClaimed ==
  ASSUME Inv, NEW r \in Calls, ClaimsAsOwner(r), NEW p, p = call[r].pay
  PROVE  /\ p \in Payments /\ call[r].actual \in Amounts
         /\ rec[p].actual \in {None, call[r].actual} /\ rec'[p].actual = call[r].actual
         /\ rec'[p].print # None
         /\ rec[p].tx = None /\ rec'[p].tx = None
         /\ \A q \in Payments \ {p} : rec'[q] = rec[q]
         /\ UNCHANGED <<spent, tx, ledSeq>>
         /\ call'[r].pc = "lease" /\ call'[r].tx = call[r].tx
<1> DEFINE row == [rec[p] EXCEPT !.print = call[r].print, !.actual = call[r].actual,
                                 !.status = "preparing", !.worker = call[r].worker, !.alive = TRUE]
<1>1. p \in Payments /\ call[r].actual \in Amounts /\ call[r].print \in Prints
  BY DEF ClaimsAsOwner, Claim, At, Live, Inv, CallShape
<1>2. rec \in [Payments -> RecordRow] /\ rec[p] \in RecordRow /\ call \in [Calls -> CallRecord]
  BY <1>1 DEF Inv, TypeOK, StoreTypeOK, ProcTypeOK
<1>3. ~Conflicts(p, call[r].print, call[r].actual) /\ rec[p].tx = None
  BY DEF ClaimsAsOwner, ClaimKind
<1>4. rec' = [rec EXCEPT ![p] = row] /\ UNCHANGED <<spent, tx, ledSeq>> /\ Goto(r, "lease")
  BY DEF ClaimsAsOwner, Claim, claimSettlement, netVars
<1>5. rec'[p] = row /\ \A q \in Payments \ {p} : rec'[q] = rec[q]
  BY <1>1, <1>2, <1>4
<1>6. row.actual = call[r].actual /\ row.tx = rec[p].tx /\ row.print = call[r].print
  BY <1>2 DEF RecordRow
<1>7. call'[r].pc = "lease" /\ call'[r].tx = call[r].tx
  BY <1>2, <1>4 DEF Goto, CallRecord
<1> HIDE DEF row
<1>8. QED
  BY <1>1, <1>3, <1>4, <1>5, <1>6, <1>7, NoneAssumption DEF Conflicts

\* In every environment: StorerOwns and RowsStored, without the owner.
LEMMA RowsCharged ==
  ASSUME Inv, NEW r \in Calls, Stores(r), NEW p, p = call[r].pay, NEW h, h = call[r].lease
  PROVE  /\ p \in Payments /\ h \in Hashes /\ call[r].who \in Principals
         /\ rec'[p].tx = h /\ rec'[p].actual = rec[p].actual
         /\ rec'[p].print = rec[p].print /\ rec'[p].status = "submitting"
         /\ \A q \in Payments \ {p} : rec'[q] = rec[q]
         /\ WithinBudget(call[r].who)
         /\ spent' = [spent EXCEPT ![call[r].who] = @ + 1, !["global"] = @ + 1]
         /\ UNCHANGED <<tx, ledSeq>>
         /\ call'[r].pc = "reload" /\ call'[r].tx = call[r].tx
<1>1. At(r, "store")
  BY DEF Stores, Store
<1>2. /\ call \in [Calls -> CallRecord] /\ call[r] \in CallRecord
      /\ p \in Payments /\ h \in Hashes /\ call[r].who \in Principals
  BY <1>1 DEF Inv, TypeOK, ProcTypeOK, CallShape, CallRecord, At, Live
<1>3. rec \in [Payments -> RecordRow] /\ rec[p] \in RecordRow
  BY <1>2 DEF Inv, TypeOK, StoreTypeOK
<1>4. StoreResult(h, tx[h].seq, call[r].who) = "stored"
  BY DEF Stores
<1>5. /\ rec' = [rec EXCEPT ![p] = [rec[p] EXCEPT !.status = "submitting", !.tx = h,
                                                  !.seq = tx[h].seq]]
      /\ spent' = [spent EXCEPT ![call[r].who] = @ + 1, !["global"] = @ + 1]
      /\ UNCHANGED <<tx, ledSeq>> /\ Goto(r, "reload")
  BY <1>4 DEF Stores, Store, storePreparedAndReserve, netVars
<1>6. WithinBudget(call[r].who)
  BY <1>4 DEF StoreResult
<1>7. /\ rec'[p].tx = h /\ rec'[p].actual = rec[p].actual
      /\ rec'[p].print = rec[p].print /\ rec'[p].status = "submitting"
  <2>1. rec'[p] = [rec[p] EXCEPT !.status = "submitting", !.tx = h, !.seq = tx[h].seq]
    BY <1>2, <1>3, <1>5
  <2>2. QED
    BY <1>3, <2>1 DEF RecordRow
<1>8. \A q \in Payments \ {p} : rec'[q] = rec[q]
  BY <1>3, <1>5
<1>9. call'[r].pc = "reload" /\ call'[r].tx = call[r].tx
  BY <1>2, <1>5 DEF Goto, CallRecord
<1>10. QED
  BY <1>2, <1>5, <1>6, <1>7, <1>8, <1>9

\* The amount of a record is written once.
LEMMA AmountKept ==
  ASSUME Inv, [Next]_vars, NEW p \in Payments, rec[p].actual # None
  PROVE  rec'[p].actual = rec[p].actual
<1>1. ASSUME NEW r \in Calls, ClaimsAsOwner(r) PROVE rec'[p].actual = rec[p].actual
  BY <1>1, RowsClaimed
<1>2. ASSUME NEW r \in Calls, Stores(r) PROVE rec'[p].actual = rec[p].actual
  BY <1>2, RowsCharged
<1>3. QED
  BY <1>1, <1>2, TermsFrame DEF TermsKept, Continues

LEMMA AmountsAgreeStep ==
  ASSUME Inv, AmountsAgree, [Next]_vars
  PROVE  AmountsAgree'
<1>1. /\ TypeOK /\ CallShape /\ LeasesUnique /\ call \in [Calls -> CallRecord]
  BY DEF Inv, TypeOK, ProcTypeOK
<1>2. ASSUME NEW h \in Hashes, Built(h) PROVE tx[h].pay \in Payments /\ tx[h].actual # None
  <2>1. tx[h] \in Envelope
    BY <1>1, <1>2 DEF TypeOK, StellarTypeOK, Built
  <2>2. QED
    BY <2>1, NoneAssumption DEF Envelope
<1>3. ASSUME NEW h \in Hashes, Built(h)' PROVE tx'[h].actual = rec'[tx'[h].pay].actual
  <2>1. CASE Built(h)
    <3>1. EnvelopeMoves(h)
      BY <1>1, <2>1, EnvelopeFrame
    <3>2. tx[h].actual = rec[tx[h].pay].actual
      BY <2>1 DEF AmountsAgree
    <3>3. QED
      BY <1>2, <2>1, <3>1, <3>2, AmountKept DEF EnvelopeMoves
  <2>2. CASE ~Built(h)
    <3>1. PICK r \in Calls : /\ Prepare(r) /\ tx'[h].pay = call[r].pay
                             /\ tx'[h].actual = call[r].actual
      BY <1>1, <1>3, <2>2, EnvelopeIsNew
    <3>2. rec' = rec /\ rec[call[r].pay].actual = call[r].actual
      BY <3>1 DEF Prepare, At, AmountsAgree, storeVars
    <3>3. QED
      BY <3>1, <3>2
  <2>3. QED
    BY <2>1, <2>2
<1>4. ASSUME NEW r \in Calls, call'[r].pc \in {"lease", "prepare"}
      PROVE  rec'[call'[r].pay].actual = call'[r].actual
  <2>1. CallMoves(r)
    BY <1>1, CallFrame
  <2>2. ASSUME call[r].pc \in {"lease", "prepare"}, SameParameters(r)
        PROVE  rec'[call'[r].pay].actual = call'[r].actual
    <3>1. call[r].pay \in Payments /\ call[r].actual # None
      BY <1>1, <2>2, NoneAssumption DEF CallShape, Live
    <3>2. rec[call[r].pay].actual = call[r].actual
      BY <2>2 DEF AmountsAgree
    <3>3. QED
      BY <2>2, <3>1, <3>2, AmountKept DEF SameParameters
  <2>3. ASSUME ClaimsAsOwner(r), SameParameters(r)
        PROVE  rec'[call'[r].pay].actual = call'[r].actual
    BY <2>3, RowsClaimed DEF SameParameters
  <2>4. CASE call'[r] = call[r]
    BY <1>4, <2>2, <2>4 DEF SameParameters
  <2>5. CASE CallGoesOn(r) /\ call'[r] # call[r]
    <3>1. CallStep(r)
      <4>1. \A q \in Calls : CallStep(q) => q = r
        BY <1>1, <2>5, CallStepMoves
      <4>2. ASSUME NEW q \in Calls, NEW w \in Workers, NEW p \in Payments, NEW print \in Prints,
                   NEW actual \in Amounts, NEW who \in Principals,
                   Admit(q, w, p, print, actual, who)
            PROVE  FALSE
        <5>1. call' = [call EXCEPT ![q] =
                [Idle EXCEPT !.pc = "claim", !.pay = p, !.print = print, !.actual = actual,
                             !.who = who, !.worker = w]]
          BY <4>2 DEF Admit
        <5>2. q = r
          BY <1>1, <2>5, <5>1
        <5>3. call'[r].pc = "claim"
          BY <1>1, <5>1, <5>2 DEF Idle
        <5>4. QED
          BY <1>4, <5>3
      <4>3. ASSUME NEW w \in Workers, ReplicaStep(w) PROVE FALSE
        <5>1. Crash(w)
          BY <2>5, <4>3 DEF ReplicaStep, SweepStep, SweepList, HorizonNotFound, ExpiryElapsed,
             LeaveUnresolved, SweepResolves, SweepPollTimesOut, Boot, Foreground
        <5>2. call'[r] = [call[r] EXCEPT !.pc = "done", !.answer = "lost"]
          BY <1>1, <2>5, <5>1 DEF Crash
        <5>3. call'[r].pc = "done"
          BY <1>1, <5>2 DEF CallRecord
        <5>4. QED
          BY <1>4, <5>3
      <4>4. ASSUME \/ \E p \in Payments, print \in Prints : Verify(p, print)
                   \/ \E p \in Payments : RecordLeaseExpires(p)
                   \/ \E c \in Channels : ChannelLeaseExpires(c)
                   \/ \E h \in Hashes : NetworkStep(h)
                   \/ UNCHANGED vars
            PROVE  UNCHANGED call
        BY <4>4 DEF Verify, RecordLeaseExpires, ChannelLeaseExpires, NetworkStep, LedgerApplies,
           MaximumTimePasses, procVars, vars
      <4>5. QED
        BY <2>5, <4>1, <4>2, <4>3, <4>4 DEF Next
    <3>2. call[r].pc \in {"lease", "prepare"} \/ ClaimsAsOwner(r)
      <4>1. \A a : Answer(r, a) => call'[r].pc = "done"
        BY <1>1 DEF Answer, CallRecord
      <4>2. \A pc : Goto(r, pc) => call'[r].pc = pc
        BY <1>1 DEF Goto, CallRecord
      <4>3. \A pc, note : call' = [call EXCEPT ![r] = [call[r] EXCEPT !.pc = pc, !.note = note]]
              => call'[r].pc = pc
        BY <1>1 DEF CallRecord
      <4>4. \A pc, h : call' = [call EXCEPT ![r] = [call[r] EXCEPT !.pc = pc, !.tx = h]]
              => call'[r].pc = pc
        BY <1>1 DEF CallRecord
      <4>5. CASE \/ Refuse(r) \/ WaitForOwner(r) \/ Fail(r) \/ PollResolves(r) \/ GiveUp(r)
                 \/ Release(r)
        BY <1>4, <4>1, <4>2, <4>5 DEF Refuse, WaitForOwner, Fail, PollResolves, GiveUp, Release
      <4>6. CASE Store(r) \/ SendRejected(r) \/ Mark(r) \/ PollTimesOut(r)
        BY <1>4, <4>2, <4>3, <4>6 DEF Store, SendRejected, Mark, PollTimesOut
      <4>7. CASE PrepareFails(r) \/ SendAccepted(r) \/ SendNotAccepted(r) \/ Reload(r)
        BY <1>4, <4>3, <4>4, <4>7
        DEF PrepareFails, SendAccepted, SendNotAccepted, Noting, Reload
      <4>8. CASE Claim(r)
        <5> DEFINE kind == ClaimKind(call[r].pay, call[r].print, call[r].actual, call[r].worker)
        <5>1. kind \in {"conflict", "cached", "resume", "wait", "owner"}
          BY DEF ClaimKind
        <5>2. kind # "owner" => call'[r].pc \in {"done", "wait", "poll"}
          BY <4>1, <4>2, <4>4, <4>8, <5>1 DEF Claim
        <5>3. QED
          BY <1>4, <4>8, <5>1, <5>2 DEF ClaimsAsOwner
      <4>9. CASE LeaseChannel(r) \/ Prepare(r)
        BY <4>9 DEF LeaseChannel, Prepare, At
      <4>10. QED
        BY <3>1, <4>5, <4>6, <4>7, <4>8, <4>9 DEF CallStep
    <3>3. QED
      BY <2>2, <2>3, <2>5, <3>2 DEF CallGoesOn
  <2>6. QED
    BY <1>4, <2>1, <2>4, <2>5 DEF CallMoves, NewCall
<1>5. QED
  BY <1>3, <1>4 DEF AmountsAgree

\* A payment is made for the amount its record was claimed with, whatever else
\* goes wrong: duplicate calls, leases that run out, crashes.
THEOREM AmountClaimedIsPaid == Spec => []PaidAsClaimed
<1>1. Init => AmountsAgree
  BY DEF Init, StellarInit, Idle, AmountsAgree, Built
<1>2. Inv /\ AmountsAgree /\ [Next]_vars => AmountsAgree'
  BY AmountsAgreeStep
<1>3. AmountsAgree => PaidAsClaimed
  BY DEF AmountsAgree, PaidAsClaimed, Final
<1>4. QED
  BY <1>1, <1>2, <1>3, InvAlways, PTL DEF Spec

LEMMA RowsListedStep ==
  ASSUME Inv, AmountsAgree, RowsListed, [Next]_vars
  PROVE  RowsListed'
<1> DEFINE Row(p) == /\ rec[p].actual # None => rec[p].print # None
                     /\ rec[p].tx # None /\ rec[p].response = None => p \in listUnresolved
<1>1. SUFFICES ASSUME NEW p \in Payments PROVE Row(p)'
  BY DEF RowsListed
<1>2. Row(p)
  BY DEF RowsListed
<1>3. rec'[p] = rec[p] => Row(p)'
  BY <1>2 DEF listUnresolved
<1>4. CASE TermsKept
  <2>1. Continues(p, rec'[p])
    BY <1>4 DEF TermsKept
  <2>2. rec[p].tx # None => rec[p].print # None
    <3>1. SUFFICES ASSUME rec[p].tx # None PROVE rec[p].actual # None
      BY <1>2
    <3>2. EnvelopeOf(rec[p].tx, p) /\ rec[p].tx \in Hashes
      BY <3>1 DEF Inv, ReferencesMatch, TypeOK, StoreTypeOK, RecordRow
    <3>3. tx[rec[p].tx] \in Envelope
      BY <3>2 DEF EnvelopeOf, Built, Inv, TypeOK, StellarTypeOK
    <3>4. tx[rec[p].tx].actual \in Amounts /\ rec[p].actual = tx[rec[p].tx].actual
      BY <3>2, <3>3 DEF EnvelopeOf, AmountsAgree, Envelope
    <3>5. QED
      BY <3>4, NoneAssumption
  <2>3. QED
    BY <1>2, <2>1, <2>2 DEF Continues, listUnresolved
<1>5. ASSUME NEW r \in Calls, ClaimsAsOwner(r) PROVE Row(p)'
  BY <1>3, <1>5, RowsClaimed
<1>6. ASSUME NEW r \in Calls, Stores(r) PROVE Row(p)'
  <2>1. CASE p = call[r].pay
    BY <1>2, <1>6, <2>1, RowsCharged DEF listUnresolved
  <2>2. CASE p # call[r].pay
    BY <1>3, <1>6, <2>2, RowsCharged
  <2>3. QED
    BY <2>1, <2>2
<1>7. QED
  BY <1>4, <1>5, <1>6, TermsFrame

\* Recovery loses no payment: in every environment the next round of the recovery
\* loop lists each record whose hash is durable and whose response is not.
THEOREM UndecidedIsListed ==
  Spec => [](\A p \in Payments :
               rec[p].tx # None /\ rec[p].response = None => p \in listUnresolved)
<1>1. Init => AmountsAgree /\ RowsListed
  BY DEF Init, StoreInit, StellarInit, Idle, NoRow, AmountsAgree, RowsListed, Built
<1>2. Inv /\ AmountsAgree /\ RowsListed /\ [Next]_vars => (AmountsAgree /\ RowsListed)'
  BY AmountsAgreeStep, RowsListedStep
<1>3. RowsListed => \A p \in Payments :
                      rec[p].tx # None /\ rec[p].response = None => p \in listUnresolved
  BY DEF RowsListed
<1>4. QED
  BY <1>1, <1>2, <1>3, InvAlways, PTL DEF Spec

LEMMA OneMore ==
  ASSUME NEW S, IsFiniteSet(S), NEW h, NEW T, T \subseteq S \cup {h}
  PROVE  /\ IsFiniteSet(T) /\ Cardinality(T) \in Nat /\ Cardinality(S) \in Nat
         /\ Cardinality(T) <= Cardinality(S) + 1
<1>1. /\ IsFiniteSet(S \cup {h}) /\ Cardinality(S) \in Nat /\ Cardinality(S \cup {h}) \in Nat
      /\ Cardinality(S \cup {h}) <= Cardinality(S) + 1
  BY FS_AddElement, FS_CardinalityType
<1>2. IsFiniteSet(T) /\ Cardinality(T) <= Cardinality(S \cup {h}) /\ Cardinality(T) \in Nat
  BY <1>1, FS_Subset, FS_CardinalityType
<1>3. QED
  BY <1>1, <1>2

LEMMA NotMore ==
  ASSUME NEW S, IsFiniteSet(S), NEW T, T \subseteq S
  PROVE  /\ IsFiniteSet(T) /\ Cardinality(T) \in Nat /\ Cardinality(S) \in Nat
         /\ Cardinality(T) <= Cardinality(S)
  BY FS_Subset, FS_CardinalityType

\* An envelope that is charged was charged before, or is being stored.
LEMMA ChargedFrame ==
  ASSUME Inv, [Next]_vars, NEW h \in Hashes, h \in Charged'
  PROVE  h \in Charged \/ \E r \in Calls : Stores(r) /\ call[r].lease = h
<1>1. /\ TypeOK /\ CallShape /\ LeasesUnique /\ call \in [Calls -> CallRecord]
  BY DEF Inv, TypeOK, ProcTypeOK
<1>2. ASSUME NEW p \in Payments, rec'[p].tx = h
      PROVE  h \in Charged \/ \E r \in Calls : Stores(r) /\ call[r].lease = h
  <2>1. CASE rec[p].tx = h
    BY <2>1 DEF Charged
  <2>2. ASSUME NEW r \in Calls, ClaimsAsOwner(r) PROVE rec[p].tx = h
    BY <1>2, <2>2, RowsClaimed, NoneAssumption
  <2>3. ASSUME NEW r \in Calls, Stores(r) PROVE rec[p].tx = h \/ call[r].lease = h
    BY <1>2, <2>3, RowsCharged
  <2>4. QED
    BY <1>2, <2>1, <2>2, <2>3, TermsFrame DEF TermsKept, Continues
<1>3. ASSUME NEW r \in Calls, call'[r].tx = h PROVE h \in Charged
  <2>1. CallMoves(r)
    BY <1>1, CallFrame
  <2>2. CASE call[r].tx = h
    BY <2>2 DEF Charged
  <2>3. CASE CallGoesOn(r) /\ call[r].tx # h
    <3>1. rec[call[r].pay].tx = h /\ call[r].pay \in Payments
      BY <1>1, <1>3, <2>3 DEF CallGoesOn, CallShape
    <3>2. QED
      BY <3>1 DEF Charged
  <2>4. QED
    BY <1>3, <2>1, <2>2, <2>3, NoneAssumption DEF CallMoves, NewCall
<1>4. ASSUME Built(h)', tx'[h].state # "held" PROVE h \in Charged
  <2>1. Built(h)
    BY <1>1, <1>4, EnvelopeIsNew
  <2>2. EnvelopeMoves(h)
    BY <1>1, <2>1, EnvelopeFrame
  <2>3. CASE tx[h].state # "held"
    BY <2>1, <2>3 DEF Charged
  <2>4. CASE \E r \in Calls : call[r].tx = h
    BY <2>4 DEF Charged
  <2>5. QED
    BY <1>4, <2>2, <2>3, <2>4 DEF EnvelopeMoves
<1>5. QED
  BY <1>2, <1>3, <1>4 DEF Charged

LEMMA ChargedOnceStep ==
  ASSUME Inv, ChargedOnce, [Next]_vars
  PROVE  ChargedOnce'
<1>1. /\ spent \in [Principals \cup {"global"} -> Nat] /\ IsFiniteSet(Charged)
      /\ Cardinality(Charged) <= spent["global"] /\ spent["global"] <= GlobalLimit
      /\ \A who \in Principals : spent[who] <= ScopeLimit
  BY DEF Inv, TypeOK, StoreTypeOK, ChargedOnce
<1>2. \A h \in Charged' : h \in Hashes
  BY DEF Charged
<1>3. ASSUME NEW r \in Calls, Stores(r) PROVE ChargedOnce'
  <2>1. /\ call[r].who \in Principals /\ call[r].who # "global" /\ WithinBudget(call[r].who)
        /\ spent' = [spent EXCEPT ![call[r].who] = @ + 1, !["global"] = @ + 1]
    BY <1>3, RowsCharged, PrincipalsAssumption
  <2>2. spent'["global"] = spent["global"] + 1 /\ spent'[call[r].who] = spent[call[r].who] + 1
        /\ \A who \in Principals : who # call[r].who => spent'[who] = spent[who]
    BY <1>1, <2>1, PrincipalsAssumption
  <2>3. spent'["global"] <= GlobalLimit /\ \A who \in Principals : spent'[who] <= ScopeLimit
    BY <1>1, <2>1, <2>2, BoundsAssumption DEF WithinBudget
  <2>4. ASSUME NEW q \in Calls, Stores(q) PROVE q = r
    <3>1. call'[r].pc = "reload" /\ call'[q].pc = "reload" /\ At(r, "store") /\ At(q, "store")
      BY <1>3, <2>4, RowsCharged DEF Stores, Store
    <3>2. call' = [call EXCEPT ![r].pc = "reload"]
      BY <1>3 DEF Stores, Store, Goto
    <3>3. QED
      BY <3>1, <3>2 DEF At
  <2>5. Charged' \subseteq Charged \cup {call[r].lease}
    BY <1>2, <2>4, ChargedFrame
  <2>6. IsFiniteSet(Charged') /\ Cardinality(Charged') <= spent'["global"]
    <3>1. /\ IsFiniteSet(Charged') /\ Cardinality(Charged') \in Nat /\ Cardinality(Charged) \in Nat
          /\ Cardinality(Charged') <= Cardinality(Charged) + 1
      BY <1>1, <2>5, OneMore, Zenon
    <3>2. spent["global"] \in Nat /\ spent'["global"] = spent["global"] + 1
      BY <1>1, <2>2
    <3>3. QED
      BY <1>1, <3>1, <3>2
  <2>7. QED
    BY <2>3, <2>6 DEF ChargedOnce
<1>4. ASSUME \A r \in Calls : ~Stores(r) PROVE ChargedOnce'
  <2>1. spent' = spent
    BY <1>4, TermsFrame, RowsClaimed DEF TermsKept, Continues
  <2>2. Charged' \subseteq Charged
    BY <1>2, <1>4, ChargedFrame
  <2>3. IsFiniteSet(Charged') /\ Cardinality(Charged') <= spent'["global"]
    BY <1>1, <2>1, <2>2, NotMore
  <2>4. QED
    BY <1>1, <2>1, <2>3 DEF ChargedOnce
<1>5. QED
  BY <1>3, <1>4

\* Ledgers charge the sponsor for no more envelopes than the budgets counted, and
\* the budgets are never exceeded, in every environment.
THEOREM BudgetsBoundLedger == Spec => []BudgetBoundsLedger
<1>1. Init => ChargedOnce
  <2>1. SUFFICES ASSUME Init PROVE ChargedOnce
    OBVIOUS
  <2>2. Charged = {}
    BY <2>1, NoneAssumption DEF Init, StoreInit, StellarInit, NoRow, Idle, Charged, Built
  <2>3. /\ spent["global"] = 0 /\ \A who \in Principals : spent[who] = 0
    BY <2>1 DEF Init, StoreInit
  <2>4. QED
    BY <2>2, <2>3, FS_EmptySet, BoundsAssumption DEF ChargedOnce
<1>2. Inv /\ ChargedOnce /\ [Next]_vars => ChargedOnce'
  BY ChargedOnceStep
<1>3. Inv /\ ChargedOnce => BudgetBoundsLedger
  <2>1. SUFFICES ASSUME Inv, ChargedOnce PROVE BudgetBoundsLedger
    OBVIOUS
  <2>2. {h \in Hashes : Final(h)} \subseteq Charged
    BY DEF Charged, Final
  <2>3. spent["global"] \in Nat
    BY <2>1 DEF Inv, TypeOK, StoreTypeOK
  <2>4. QED
    BY <2>1, <2>2, <2>3, NotMore DEF ChargedOnce, BudgetBoundsLedger
<1>4. QED
  BY <1>1, <1>2, <1>3, InvAlways, PTL DEF Spec

=============================================================================
