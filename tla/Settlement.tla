----------------------------- MODULE Settlement -----------------------------
(***************************************************************************)
(* FacilitatorCore (facilitator/src/orchestrator.ts) over the PostgreSQL   *)
(* tables of StateStore and the network of Stellar: concurrent /settle     *)
(* calls on several replicas, the recovery loop of each replica, crashes   *)
(* and boots, leases that run out, lost RPC replies, and ledgers closing.  *)
(* An action is what a replica does between two awaits, or one database    *)
(* transaction with the code up to the next await.  Where a read returns   *)
(* something that never changes again (a final transaction status, a       *)
(* maximum time gone by) the read and the write it leads to are one action.*)
(***************************************************************************)
EXTENDS StateStore, Stellar

CONSTANTS
  Calls,        \* /settle requests; each is served once
  MaxPending,   \* maxPendingSettlements
  MaxCrashes,   \* bound of the model: replica crashes
  MaxOutages,   \* bound of the model: recovery reads that RPC or Horizon fail
  Hazards       \* what the surroundings may do, a subset of HazardKinds

\* "duplicate": two live calls of one payment on the same replica.
\* "slow": a call outlives its record's lease before it stores an envelope.
\* "straddle": a ledger applies an envelope between the two reads, of its
\* status and of the clock, by which recovery takes it for expired.
HazardKinds == {"duplicate", "slow", "straddle"}

ASSUME SettlementAssumption ==
  /\ Hazards \subseteq HazardKinds
  /\ MaxPending \in Nat /\ MaxCrashes \in Nat /\ MaxOutages \in Nat

VARIABLES
  call,     \* the /settle calls
  sweep,    \* the recovery loop of each replica
  up,       \* the replicas that run
  crashes,  \* crashes so far
  outages   \* failed recovery reads so far

procVars == <<call, sweep, up, crashes, outages>>
vars == <<rec, ch, spent, tx, ledSeq, call, sweep, up, crashes, outages>>

Idle == [pc |-> "idle", pay |-> None, print |-> None, actual |-> None, who |-> None,
         worker |-> None, lease |-> None, tx |-> None, note |-> None, answer |-> None]
Resting == [pc |-> "idle", todo |-> {}, item |-> None]

Init ==
  /\ StoreInit /\ StellarInit
  /\ call = [r \in Calls |-> Idle]
  /\ sweep = [w \in Workers |-> Resting]
  /\ up = Workers
  /\ crashes = 0 /\ outages = 0

At(r, pc) == call[r].pc = pc
Live(r) == call[r].pc \notin {"idle", "done"}
Goto(r, pc) == call' = [call EXCEPT ![r].pc = pc]
Answer(r, a) == call' = [call EXCEPT ![r] = [@ EXCEPT !.pc = "done", !.answer = a]]

\* The call owns its payment's record and has not stored an envelope yet.
Owning(r) ==
  /\ call[r].pc \in {"lease", "prepare", "store", "release", "fail"}
  /\ call[r].tx = None

Background == <<sweep, up, crashes, outages>>

-----------------------------------------------------------------------------
(* /verify and /settle. *)

Verify(p, print) ==
  /\ up # {}
  /\ registerIdempotency(p, print)
  /\ UNCHANGED <<netVars, procVars>>

Admit(r, w, p, print, actual, who) ==
  /\ At(r, "idle") /\ w \in up
  /\ unresolvedCount < MaxPending
  /\ \/ "duplicate" \in Hazards
     \/ \A q \in Calls : Live(q) => call[q].pay # p \/ call[q].worker # w
  /\ call' = [call EXCEPT ![r] =
       [Idle EXCEPT !.pc = "claim", !.pay = p, !.print = print, !.actual = actual,
                    !.who = who, !.worker = w]]
  /\ UNCHANGED <<storeVars, netVars, Background>>

\* Backpressure, and the simulation window of the principal.
Refuse(r) ==
  /\ \/ At(r, "idle") /\ up # {} /\ unresolvedCount >= MaxPending
     \/ At(r, "claim")
  /\ Answer(r, "refused")
  /\ UNCHANGED <<storeVars, netVars, Background>>

Claim(r) ==
  LET p == call[r].pay
      kind == ClaimKind(p, call[r].print, call[r].actual, call[r].worker)
  IN /\ At(r, "claim")
     /\ claimSettlement(p, call[r].print, call[r].actual, call[r].worker)
     /\ CASE kind = "conflict" -> Answer(r, "conflict")
          [] kind = "cached"   -> Answer(r, rec[p].response)
          [] kind = "wait"     -> Goto(r, "wait")
          [] kind = "resume"   -> call' = [call EXCEPT ![r] = [@ EXCEPT !.pc = "poll", !.tx = rec[p].tx]]
          [] OTHER             -> Goto(r, "lease")
     /\ UNCHANGED <<netVars, Background>>

\* waitForOwner: a response within five seconds is the answer, a hash is not.
WaitForOwner(r) ==
  /\ At(r, "wait")
  /\ \/ rec[call[r].pay].response # None /\ Answer(r, rec[call[r].pay].response)
     \/ rec[call[r].pay].response = None /\ Answer(r, "busy")
  /\ UNCHANGED <<storeVars, netVars, Background>>

\* SKIP LOCKED may pass over a channel whose row another transaction holds.
LeaseChannel(r) ==
  /\ At(r, "lease")
  /\ \/ \E c \in Channels :
          /\ leaseChannel(c)
          /\ call' = [call EXCEPT ![r] = [@ EXCEPT !.pc = "prepare",
                                                   !.lease = <<c, ch[c].token + 1>>]]
     \/ /\ \/ \A c \in Channels : ~Leasable(c) \/ ch[c].token = MaxToken
           \/ \E q \in Calls \ {r} : Live(q)
        /\ Answer(r, "busy")
        /\ UNCHANGED storeVars
  /\ UNCHANGED <<netVars, Background>>

\* The sequence comes from an RPC node whose account view may lag.
Prepare(r) ==
  /\ At(r, "prepare")
  /\ \E seen \in 0 .. ledSeq[call[r].lease[1]] :
       Build(call[r].lease, call[r].pay, call[r].actual, seen + 1)
  /\ Goto(r, "store")
  /\ UNCHANGED <<storeVars, Background>>

\* A rejected verification or simulation, or an RPC error.
PrepareFails(r) ==
  /\ At(r, "prepare")
  /\ call' = [call EXCEPT ![r] = [@ EXCEPT !.pc = "release", !.note = "failed"]]
  /\ UNCHANGED <<storeVars, netVars, Background>>

Store(r) ==
  LET lease == call[r].lease
      result == StoreResult(lease, tx[lease].seq, call[r].who)
      note == IF result = "stale_sequence" THEN "busy" ELSE "failed"
  IN /\ At(r, "store")
     /\ storePreparedAndReserve(call[r].pay, lease, tx[lease].seq, call[r].who)
     /\ IF result = "stored"
        THEN Goto(r, "reload")
        ELSE call' = [call EXCEPT ![r] = [@ EXCEPT !.pc = "release", !.note = note]]
     /\ UNCHANGED <<netVars, Background>>

Release(r) ==
  /\ At(r, "release")
  /\ releaseChannel(call[r].lease)
  /\ IF call[r].note = "busy" THEN Answer(r, "busy") ELSE Goto(r, "fail")
  /\ UNCHANGED <<netVars, Background>>

\* Mutant: a failed submission counts as applied by a ledger.
Fail_Applied(r) ==
  /\ At(r, "fail")
  /\ complete(call[r].pay, "failed", TRUE)
  /\ Answer(r, "failed")
  /\ UNCHANGED <<netVars, Background>>

\* A failure before submission, or one that sendTransaction reported.
Fail(r) ==
  /\ At(r, "fail")
  /\ complete(call[r].pay, "failed", FALSE)
  /\ Answer(r, "failed")
  /\ UNCHANGED <<netVars, Background>>

\* getRecord: the envelope to send is the one the record holds now.
Reload(r) ==
  /\ At(r, "reload")
  /\ call' = [call EXCEPT ![r] = [@ EXCEPT !.pc = "send", !.tx = rec[call[r].pay].tx]]
  /\ UNCHANGED <<storeVars, netVars, Background>>

Noting(r, note) == call' = [call EXCEPT ![r] = [@ EXCEPT !.pc = "mark", !.note = note]]

\* The network takes the envelope; the reply arrives or is lost.
SendAccepted(r) ==
  /\ At(r, "send")
  /\ Accept(call[r].tx)
  /\ \E note \in {"pending", "unknown"} : Noting(r, note)
  /\ UNCHANGED <<storeVars, Background>>

\* TRY_AGAIN_LATER twice counts as pending; an exception as unknown.
SendNotAccepted(r) ==
  /\ At(r, "send")
  /\ \E note \in {"pending", "unknown"} : Noting(r, note)
  /\ UNCHANGED <<storeVars, netVars, Background>>

\* Status ERROR: not for an envelope that is in the queue.
SendRejected(r) ==
  /\ At(r, "send") /\ tx[call[r].tx].state # "sent"
  /\ Goto(r, "fail")
  /\ UNCHANGED <<storeVars, netVars, Background>>

Mark(r) ==
  /\ At(r, "mark")
  /\ IF call[r].note = "pending" THEN markPending(call[r].pay) ELSE markUnknown(call[r].pay)
  /\ Goto(r, "poll")
  /\ UNCHANGED <<netVars, Background>>

\* Mutant: inclusion in a ledger is taken for success.
Outcome_Included(h) == "success"

Outcome(h) == IF tx[h].state = "SUCCESS" THEN "success" ELSE "failed"

PollResolves(r) ==
  /\ At(r, "poll") /\ Final(call[r].tx)
  /\ complete(call[r].pay, Outcome(call[r].tx), TRUE)
  /\ Answer(r, Outcome(call[r].tx))
  /\ UNCHANGED <<netVars, Background>>

\* settleTimeoutMs goes by without a final status, or without RPC.
PollTimesOut(r) ==
  /\ At(r, "poll")
  /\ Goto(r, "giveup")
  /\ UNCHANGED <<storeVars, netVars, Background>>

GiveUp(r) ==
  /\ At(r, "giveup")
  /\ markUnknown(call[r].pay)
  /\ Answer(r, "unknown")
  /\ UNCHANGED <<netVars, Background>>

-----------------------------------------------------------------------------
(* recoverUnresolved: at boot, and every fifteen seconds. *)

Foreground == <<call, up, crashes>>

\* The rows of listUnresolved, as they were when the loop began.
SweepList(w) ==
  /\ w \in up /\ sweep[w].pc = "idle"
  /\ listUnresolved # {}
  /\ sweep' = [sweep EXCEPT ![w] =
       [pc |-> "next", item |-> None,
        todo |-> {[pay |-> p, tx |-> rec[p].tx] : p \in listUnresolved}]]
  /\ UNCHANGED <<storeVars, netVars, Foreground, outages>>

\* The loop is done with item i.
Swept(w, i) ==
  LET rest == sweep[w].todo \ {i}
  IN sweep' = [sweep EXCEPT ![w] = [pc |-> IF rest = {} THEN "idle" ELSE "next",
                                    item |-> None, todo |-> rest]]

Outage == outages < MaxOutages /\ outages' = outages + 1

\* RPC, or else Horizon, reports a final status.
SweepResolves(w, i) ==
  /\ \/ sweep[w].pc = "next" /\ i \in sweep[w].todo
     \/ sweep[w].pc = "horizon" /\ i = sweep[w].item
  /\ Final(i.tx)
  /\ complete(i.pay, Outcome(i.tx), TRUE)
  /\ Swept(w, i)
  /\ UNCHANGED <<netVars, Foreground, outages>>

SweepPollTimesOut(w, i) ==
  /\ sweep[w].pc = "next" /\ i \in sweep[w].todo
  /\ \/ ~Final(i.tx) /\ UNCHANGED outages
     \/ Final(i.tx) /\ Outage
  /\ sweep' = [sweep EXCEPT ![w] = [@ EXCEPT !.pc = "horizon", !.item = i]]
  /\ UNCHANGED <<storeVars, netVars, Foreground>>

\* Horizon answers 404: the envelope is in no ledger so far.
HorizonNotFound(w) ==
  /\ sweep[w].pc = "horizon" /\ ~Final(sweep[w].item.tx)
  /\ sweep' = [sweep EXCEPT ![w].pc = "expiry"]
  /\ UNCHANGED <<storeVars, netVars, Foreground, outages>>

\* Mutant: an envelope that no ledger holds is given up before its maximum time.
ExpiryElapsed_TooEarly(w) ==
  LET i == sweep[w].item
  IN /\ sweep[w].pc = "expiry"
     /\ complete(i.pay, "failed", FALSE)
     /\ Swept(w, i)
     /\ UNCHANGED <<netVars, Foreground, outages>>

\* persistedTransactionExpired: the latest ledger closed after the maximum time.
ExpiryElapsed(w) ==
  LET i == sweep[w].item
  IN /\ sweep[w].pc = "expiry" /\ tx[i.tx].late
     /\ complete(i.pay, "failed", FALSE)
     /\ Swept(w, i)
     /\ UNCHANGED <<netVars, Foreground, outages>>

\* Not expired yet, or a read failed: leave the record for the next round.
LeaveUnresolved(w) ==
  /\ \/ sweep[w].pc = "expiry" /\ ~tx[sweep[w].item.tx].late /\ UNCHANGED outages
     \/ sweep[w].pc \in {"horizon", "expiry"} /\ Outage
  /\ Swept(w, sweep[w].item)
  /\ UNCHANGED <<storeVars, netVars, Foreground>>

-----------------------------------------------------------------------------
(* Replicas, leases and the network. *)

Crash(w) ==
  /\ w \in up /\ crashes < MaxCrashes
  /\ up' = up \ {w}
  /\ crashes' = crashes + 1
  /\ call' = [r \in Calls |-> IF Live(r) /\ call[r].worker = w
                              THEN [call[r] EXCEPT !.pc = "done", !.answer = "lost"]
                              ELSE call[r]]
  /\ sweep' = [sweep EXCEPT ![w] = Resting]
  /\ UNCHANGED <<storeVars, netVars, outages>>

\* initializeRuntimes of a replica that starts again.
Boot(w) ==
  /\ w \notin up
  /\ up' = up \cup {w}
  /\ syncChannels
  /\ UNCHANGED <<netVars, call, sweep, crashes, outages>>

RecordLeaseExpires(p) ==
  /\ "slow" \in Hazards \/ \A r \in Calls : Owning(r) => call[r].pay # p
  /\ RecordLeaseRunsOut(p)
  /\ UNCHANGED <<netVars, procVars>>

ChannelLeaseExpires(c) ==
  /\ ChannelLeaseRunsOut(c)
  /\ UNCHANGED <<netVars, procVars>>

LedgerApplies(h) ==
  /\ \/ "straddle" \in Hazards
     \/ \A w \in Workers : sweep[w].pc = "expiry" => sweep[w].item.tx # h
  /\ Apply(h)
  /\ UNCHANGED <<storeVars, procVars>>

MaximumTimePasses(h) ==
  /\ PassMaximumTime(h)
  /\ UNCHANGED <<storeVars, procVars>>

-----------------------------------------------------------------------------
CallStep(r) ==
  \/ Refuse(r) \/ Claim(r) \/ WaitForOwner(r) \/ LeaseChannel(r) \/ Prepare(r)
  \/ PrepareFails(r) \/ Store(r) \/ Release(r) \/ Fail(r) \/ Reload(r)
  \/ SendAccepted(r) \/ SendNotAccepted(r) \/ SendRejected(r) \/ Mark(r)
  \/ PollResolves(r) \/ PollTimesOut(r) \/ GiveUp(r)

SweepItems == [pay: Payments, tx: Hashes]

ASSUME ItemsAssumption == None \notin SweepItems

SweepStep(w) ==
  \/ SweepList(w) \/ HorizonNotFound(w) \/ ExpiryElapsed(w) \/ LeaveUnresolved(w)
  \/ \E i \in SweepItems : SweepResolves(w, i) \/ SweepPollTimesOut(w, i)

ReplicaStep(w) == SweepStep(w) \/ Crash(w) \/ Boot(w)

NetworkStep(h) == LedgerApplies(h) \/ MaximumTimePasses(h)

Next ==
  \/ \E p \in Payments, print \in Prints : Verify(p, print)
  \/ \E r \in Calls, w \in Workers, p \in Payments, print \in Prints,
        actual \in Amounts, who \in Principals : Admit(r, w, p, print, actual, who)
  \/ \E r \in Calls : CallStep(r)
  \/ \E w \in Workers : ReplicaStep(w)
  \/ \E p \in Payments : RecordLeaseExpires(p)
  \/ \E c \in Channels : ChannelLeaseExpires(c)
  \/ \E h \in Hashes : NetworkStep(h)

Spec == Init /\ [][Next]_vars

\* The scheduling that the code gives itself: a started call goes on, the timer
\* of a running replica runs the recovery loop to the end of its list, a crashed
\* replica is restarted, time passes.  No payment need ever be applied.
Fairness ==
  /\ \A r \in Calls : WF_vars(CallStep(r) /\ ~At(r, "idle"))
  /\ \A w \in Workers : WF_vars(SweepStep(w)) /\ WF_vars(Boot(w))
  /\ \A h \in Hashes : WF_vars(MaximumTimePasses(h))
  /\ \A p \in Payments : WF_vars(RecordLeaseExpires(p))
  /\ \A c \in Channels : WF_vars(ChannelLeaseExpires(c))

FairSpec == Spec /\ Fairness

-----------------------------------------------------------------------------
Pcs == {"idle", "claim", "wait", "lease", "prepare", "store", "release", "fail", "reload",
        "send", "mark", "poll", "giveup", "done"}
Notes == {"busy", "failed", "pending", "unknown"}
Answers == {"refused", "conflict", "busy", "success", "failed", "unknown", "lost"}

CallRecord ==
  [pc: Pcs, pay: Payments \cup {None}, print: Prints \cup {None}, actual: Amounts \cup {None},
   who: Principals \cup {None}, worker: Workers \cup {None},
   lease: Hashes \cup {None}, tx: Hashes \cup {None},
   note: Notes \cup {None}, answer: Answers \cup {None}]

SweepRecord == [pc: {"idle", "next", "horizon", "expiry"},
                todo: SUBSET SweepItems, item: SweepItems \cup {None}]

ProcTypeOK ==
  /\ call \in [Calls -> CallRecord]
  /\ sweep \in [Workers -> SweepRecord]
  /\ up \subseteq Workers
  /\ crashes \in 0 .. MaxCrashes /\ outages \in 0 .. MaxOutages

\* Every variable holds values of its type: rows, envelopes, calls and loops.
TypeOK == StoreTypeOK /\ StellarTypeOK /\ ProcTypeOK

\* Whoever was told "success", in a response of the record or as the reply of a
\* call, was told so of a payment that a ledger made.
TruthfulSuccess ==
  /\ \A p \in Payments : rec[p].response = "success" => Paid(p)
  /\ \A r \in Calls : call[r].answer = "success" => Paid(call[r].pay)

\* Hash before submission: an envelope in the queue or on a ledger is the one
\* that the record of its payment holds, so recovery can always ask for it.
Anchored ==
  \A h \in Hashes : Built(h) /\ tx[h].state # "held" => rec[tx[h].pay].tx = h

\* Two envelopes of one channel cannot both wait for the next ledger, and the
\* one that does has its channel quarantined for its own payment.
ChannelExclusive ==
  \A h \in Hashes :
    Applicable(h) /\ tx[h].state = "sent" =>
      /\ ch[h[1]].status = "unresolved" /\ ch[h[1]].rec = tx[h].pay
      /\ \A g \in Hashes : g[1] = h[1] /\ Built(g) /\ tx[g].state = "sent" /\ Applicable(g) => g = h

\* A quarantined channel is one that the completion of an undecided record frees.
QuarantineEnds ==
  \A c \in Channels : ch[c].rec # None =>
    /\ rec[ch[c].rec].response = None
    /\ rec[ch[c].rec].tx # None /\ rec[ch[c].rec].tx[1] = c

\* last_sequence never runs ahead of the ledger, so it refuses no fresh envelope.
SequenceConfirmed == \A c \in Channels : ch[c].last <= ledSeq[c]

\* Ledgers charge the sponsor for no more envelopes than the global budget has
\* counted, and neither that budget nor a principal's own is ever exceeded.
BudgetBoundsLedger ==
  /\ Cardinality({h \in Hashes : Final(h)}) <= spent["global"]
  /\ spent["global"] <= GlobalLimit
  /\ \A who \in Principals : spent[who] <= ScopeLimit

\* A payment is made for the amount that its record was claimed with.
PaidAsClaimed ==
  \A h \in Hashes : Final(h) => tx[h].actual = rec[tx[h].pay].actual

\* "failed" is final: the payment was not and will not be made.
FailedIsUnpaid ==
  \A p \in Payments : rec[p].response = "failed" =>
    /\ ~Paid(p)
    /\ \A h \in Hashes : Built(h) /\ tx[h].pay = p /\ tx[h].state = "sent" => ~Applicable(h)

\* A record keeps the hash it promised.
NeverRebuilt ==
  [][\A p \in Payments : rec[p].tx # None => rec'[p].tx = rec[p].tx]_vars

\* A channel leaves quarantine with its envelope on a ledger, or hopeless.
QuarantineKept ==
  [][\A c \in Channels :
       ch[c].status = "unresolved" /\ ch'[c].status # "unresolved" =>
         LET h == rec[ch[c].rec].tx
         IN Final(h) \/ tx[h].late \/ tx[h].state = "held"]_vars

\* Every promised hash is decided in the end, with no ledger's help.
PromisesDecided ==
  \A p \in Payments : rec[p].tx # None ~> rec[p].response # None

\* No channel stays quarantined.
ChannelsReturn ==
  \A c \in Channels : ch[c].status = "unresolved" ~> ch[c].status # "unresolved"

\* The abstract specification's variables, as functions of the tables and ledger.
Abstract ==
  INSTANCE PaymentPromise WITH
    Envelopes <- Hashes,
    promise <- [p \in Payments |-> rec[p].tx],
    paid <- {p \in Payments : Paid(p)},
    answer <- [p \in Payments |-> rec[p].response]

\* The facilitator keeps the promise of PaymentPromise: one hash per payment, one
\* answer, and the ledger agrees with it for ever after.
KeepsPromise == Abstract!Spec
=============================================================================
