----------------------------- MODULE StateStore -----------------------------
(***************************************************************************)
(* The PostgreSQL state of the facilitator (facilitator/src/db/state.ts,   *)
(* migrations/001 and 007): idempotency records, channel accounts and the  *)
(* sponsor budget of one day on one network.  Every operation of the class *)
(* StateStore that changes these tables is one database transaction, hence *)
(* one action here; Settlement.tla says who calls them and when.           *)
(*                                                                         *)
(* A channel lease is the pair <<channel, fencing token>>.  A lease builds *)
(* at most one envelope, so the same pair stands for that envelope's hash. *)
(* Fees are one unit per envelope.                                         *)
(***************************************************************************)
EXTENDS SettlementDomain, FiniteSets

VARIABLES
  rec,    \* idempotency_records
  ch,     \* channel_accounts
  spent   \* sponsor_daily_usage: by principal, and "global"

storeVars == <<rec, ch, spent>>

\* Statuses of a record that is neither decided nor only verified.
UndecidedStatus == {"preparing", "submitting", "pending", "unknown"}

NoRow == [print |-> None, actual |-> None, status |-> "absent", worker |-> None,
          alive |-> FALSE, tx |-> None, seq |-> 0, response |-> None]

\* alive: the lease (worker_lease_until, lease_until) is in the future.
StoreInit ==
  /\ rec = [p \in Payments |-> NoRow]
  /\ ch = [c \in Channels |-> [status |-> "idle", alive |-> FALSE, token |-> 0,
                               rec |-> None, last |-> 0]]
  /\ spent = [s \in Principals \cup {"global"} |-> 0]

-----------------------------------------------------------------------------
(* Idempotency records. *)

\* /verify leaves a row behind, or refreshes updated_at of the one there is.
registerIdempotency(p, print) ==
  /\ rec' = IF rec[p].print = None
            THEN [rec EXCEPT ![p].print = print, ![p].status = "verified"]
            ELSE rec
  /\ UNCHANGED <<ch, spent>>

\* Mutant: the amount of a claimed record is not compared.
Conflicts_AnyAmount(p, print, actual) == rec[p].print \notin {None, print}

Conflicts(p, print, actual) ==
  \/ rec[p].print \notin {None, print}
  \/ rec[p].actual \notin {None, actual}

\* Mutant: the lease of the record is not looked at.
HeldElsewhere_NoLease(p, w) == FALSE

\* A live lease of the record excludes the other replicas, never its own.
HeldElsewhere(p, w) ==
  rec[p].status = "preparing" /\ rec[p].alive /\ rec[p].worker # w

\* The kind of ClaimResult the locked row yields.
ClaimKind(p, print, actual, w) ==
  CASE Conflicts(p, print, actual) -> "conflict"
    [] rec[p].response # None      -> "cached"
    [] rec[p].tx # None            -> "resume"
    [] HeldElsewhere(p, w)         -> "wait"
    [] OTHER                       -> "owner"

claimSettlement(p, print, actual, w) ==
  /\ rec' = IF ClaimKind(p, print, actual, w) = "owner"
            THEN [rec EXCEPT ![p] = [@ EXCEPT !.print = print, !.actual = actual,
                                     !.status = "preparing", !.worker = w, !.alive = TRUE]]
            ELSE rec
  /\ UNCHANGED <<ch, spent>>

markPending(p) ==
  /\ rec' = [rec EXCEPT ![p].status = "pending"]
  /\ UNCHANGED <<ch, spent>>

\* Mutant: an unknown status is stored as the response.
markUnknown_Responds(p) ==
  /\ rec' = [rec EXCEPT ![p].status = "unknown", ![p].response = "unknown"]
  /\ UNCHANGED <<ch, spent>>

markUnknown(p) ==
  /\ rec' = [rec EXCEPT ![p] = [@ EXCEPT !.status = "unknown", !.worker = None,
                                         !.alive = FALSE]]
  /\ UNCHANGED <<ch, spent>>

\* Mutant: the channel of a decided record stays as it is.
complete_KeepsChannel(p, outcome, ledgerApplied) ==
  /\ rec' = [rec EXCEPT ![p].status = outcome, ![p].response = outcome]
  /\ UNCHANGED <<ch, spent>>

\* Write the response; free the channel the row names if it still carries this
\* record, raising last_sequence when a ledger applied the envelope.
complete(p, outcome, ledgerApplied) ==
  LET h == rec[p].tx
      owned == h # None /\ ch[h[1]].rec = p
      applied == ledgerApplied /\ rec[p].seq > ch[h[1]].last
  IN /\ rec' = [rec EXCEPT ![p] = [@ EXCEPT !.status = outcome, !.response = outcome]]
     /\ ch' = IF owned
              THEN [ch EXCEPT ![h[1]] =
                      [@ EXCEPT !.status = "idle", !.alive = FALSE, !.rec = None,
                                !.last = IF applied THEN rec[p].seq ELSE ch[h[1]].last]]
              ELSE ch
     /\ UNCHANGED spent

\* Mutant: recovery looks only for records that a call marked.
listUnresolved_OnlyMarked ==
  {p \in Payments : /\ rec[p].tx # None
                    /\ rec[p].response = None
                    /\ rec[p].status \in {"pending", "unknown"}}

listUnresolved ==
  {p \in Payments : /\ rec[p].tx # None
                    /\ rec[p].response = None
                    /\ rec[p].status \in {"submitting", "pending", "unknown"}}

unresolvedCount == Cardinality({p \in Payments : rec[p].status \in UndecidedStatus})

-----------------------------------------------------------------------------
(* Channel accounts. *)

Leasable(c) ==
  \/ ch[c].status = "idle"
  \/ ch[c].status = "leased" /\ ~ch[c].alive /\ ch[c].rec = None

leaseChannel(c) ==
  /\ Leasable(c)
  /\ ch[c].token < MaxToken
  /\ ch' = [ch EXCEPT ![c] = [@ EXCEPT !.status = "leased", !.alive = TRUE,
                                       !.token = ch[c].token + 1]]
  /\ UNCHANGED <<rec, spent>>

HoldsFence(lease) ==
  ch[lease[1]].token = lease[2] /\ ch[lease[1]].status = "leased"

releaseChannel(lease) ==
  /\ ch' = IF HoldsFence(lease)
           THEN [ch EXCEPT ![lease[1]] = [@ EXCEPT !.status = "idle", !.alive = FALSE,
                                                   !.rec = None]]
           ELSE ch
  /\ UNCHANGED <<rec, spent>>

\* Mutant: a boot frees quarantined channels too.
syncChannels_FreesAll ==
  /\ ch' = [c \in Channels |-> [ch[c] EXCEPT !.status = "idle"]]
  /\ UNCHANGED <<rec, spent>>

\* Startup of a replica: every channel that carries no record becomes idle, the
\* ones another replica holds on lease included.
syncChannels ==
  /\ ch' = [c \in Channels |->
              IF ch[c].rec = None THEN [ch[c] EXCEPT !.status = "idle"] ELSE ch[c]]
  /\ UNCHANGED <<rec, spent>>

-----------------------------------------------------------------------------
(* Hash before submission. *)

\* Mutant: a budget may be exceeded by one envelope.
WithinBudget_OffByOne(who) == spent[who] <= ScopeLimit /\ spent["global"] <= GlobalLimit

WithinBudget(who) == spent[who] < ScopeLimit /\ spent["global"] < GlobalLimit

StoreResult(lease, seq, who) ==
  CASE ~HoldsFence(lease)          -> "fence_lost"
    [] seq <= ch[lease[1]].last    -> "stale_sequence"
    [] ~WithinBudget(who)          -> "budget_exceeded"
    [] OTHER                       -> "stored"

\* Mutant: a record that was charged for one envelope is not charged again.
storePreparedAndReserve_ChargesOnce(p, lease, seq, who) ==
  IF StoreResult(lease, seq, who) = "stored"
  THEN /\ spent' = IF rec[p].tx # None
                   THEN spent
                   ELSE [spent EXCEPT ![who] = @ + 1, !["global"] = @ + 1]
       /\ rec' = [rec EXCEPT ![p] = [@ EXCEPT !.status = "submitting", !.tx = lease,
                                              !.seq = seq]]
       /\ ch' = [ch EXCEPT ![lease[1]] = [@ EXCEPT !.status = "unresolved", !.rec = p]]
  ELSE UNCHANGED storeVars

\* Only the channel row is checked: the record is overwritten as it stands.
storePreparedAndReserve(p, lease, seq, who) ==
  IF StoreResult(lease, seq, who) = "stored"
  THEN /\ spent' = [spent EXCEPT ![who] = @ + 1, !["global"] = @ + 1]
       /\ rec' = [rec EXCEPT ![p] = [@ EXCEPT !.status = "submitting", !.tx = lease,
                                              !.seq = seq]]
       /\ ch' = [ch EXCEPT ![lease[1]] = [@ EXCEPT !.status = "unresolved", !.rec = p]]
  ELSE UNCHANGED storeVars

-----------------------------------------------------------------------------
RecordLeaseRunsOut(p) ==
  /\ rec[p].alive
  /\ rec' = [rec EXCEPT ![p].alive = FALSE]
  /\ UNCHANGED <<ch, spent>>

ChannelLeaseRunsOut(c) ==
  /\ ch[c].status = "leased" /\ ch[c].alive
  /\ ch' = [ch EXCEPT ![c].alive = FALSE]
  /\ UNCHANGED <<rec, spent>>

RecordRow ==
  [print: Prints \cup {None}, actual: Amounts \cup {None},
   status: UndecidedStatus \cup {"absent", "verified", "success", "failed"},
   worker: Workers \cup {None}, alive: BOOLEAN, tx: Hashes \cup {None}, seq: Nat,
   response: {"success", "failed", None}]

ChannelRow ==
  [status: {"idle", "leased", "unresolved"}, alive: BOOLEAN, token: 0 .. MaxToken,
   rec: Payments \cup {None}, last: Nat]

\* The rows hold values of their columns' types.
StoreTypeOK ==
  /\ rec \in [Payments -> RecordRow]
  /\ ch \in [Channels -> ChannelRow]
  /\ spent \in [Principals \cup {"global"} -> Nat]
=============================================================================
