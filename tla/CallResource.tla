---------------------------- MODULE CallResource ----------------------------
(***************************************************************************)
(* x402_call_resource (mcp-server/src/tools/callResource.ts): the guarded  *)
(* loop that reserves budget, signs one authorization, sends it with the   *)
(* one paid retry and acts on the answer.  Invocations of several agents   *)
(* and processes share the tables of BudgetStore.  What comes before the   *)
(* reservation (resolve, connect, unpaid call, guards) changes no state.   *)
(* The seller and the ledger are external.                                 *)
(***************************************************************************)
EXTENDS BudgetStore, FiniteSets, Functions

CONSTANTS
  Prices,       \* amounts that cataloged options ask
  MaxCrashes,   \* bound of the model: invocations that end in a crash
  Hazards       \* a subset of {"inconclusive", "otheramount"}

\* "inconclusive": the seller passes on success = false for a settlement whose
\* status its facilitator does not know (settle_stellar_transaction_status_unknown).
\* "otheramount": the amount in its answer is not the one that was accepted.
ASSUME CallAssumption ==
  /\ Prices \subseteq Nat \ {0} /\ MaxCrashes \in Nat
  /\ Hazards \subseteq {"inconclusive", "otheramount"}

VARIABLES
  inv,      \* the invocations
  auth,     \* what became of the authorization each invocation signed
  crashes

vars == <<reservation, usage, today, inv, auth, crashes>>

Schemes == {"exact", "upto"}
Fresh == [pc |-> "idle", agent |-> None, price |-> 0, scheme |-> "exact", amount |-> 0]

Init ==
  /\ BudgetInit
  /\ inv = [i \in Identifiers |-> Fresh]
  /\ auth = [i \in Identifiers |-> "none"]
  /\ crashes = 0

At(i, pc) == inv[i].pc = pc
Goto(i, pc) == inv' = [inv EXCEPT ![i].pc = pc]
Live(i) == inv[i].pc \notin {"idle", "done"}

Least(S) == CHOOSE x \in S : \A y \in S : x <= y

Remaining(a) == IF usedToday(a) < DayMax THEN DayMax - usedToday(a) ELSE 0

EffectiveCap(a, price) == Least({PerCallMax, Remaining(a), price})

\* amountToReserve: exact is not divisible, upto may ask for less.
Affordable(a, price, scheme) ==
  IF scheme = "exact" THEN EffectiveCap(a, price) >= price ELSE EffectiveCap(a, price) > 0

-----------------------------------------------------------------------------
\* usedToday is read in a transaction of its own, before reserve's.
Afford(i, a, price, scheme) ==
  /\ At(i, "idle")
  /\ Affordable(a, price, scheme)
  /\ inv' = [inv EXCEPT ![i] =
       [pc |-> "reserve", agent |-> a, price |-> price, scheme |-> scheme,
        amount |-> IF scheme = "exact" THEN price ELSE EffectiveCap(a, price)]]
  /\ UNCHANGED <<budgetVars, auth, crashes>>

Reserve(i) ==
  /\ At(i, "reserve")
  /\ reserve(i, inv[i].agent, inv[i].amount)
  /\ Goto(i, "sign")
  /\ UNCHANGED <<auth, crashes>>

BudgetExceeded(i) ==
  /\ At(i, "reserve") /\ ~Fits(inv[i].agent, inv[i].amount)
  /\ Goto(i, "done")
  /\ UNCHANGED <<budgetVars, auth, crashes>>

\* getSigner throws outside of the try block: nothing is released.
NoSigner(i) ==
  /\ At(i, "sign")
  /\ Goto(i, "done")
  /\ UNCHANGED <<budgetVars, auth, crashes>>

\* No client of the upto scheme exists; signing may also be refused.
SignFails(i) ==
  /\ At(i, "sign")
  /\ Goto(i, "release")
  /\ UNCHANGED <<budgetVars, auth, crashes>>

Sign(i) ==
  /\ At(i, "sign") /\ inv[i].scheme = "exact"
  /\ Goto(i, "paid_call")
  /\ auth' = [auth EXCEPT ![i] = "signed"]
  /\ UNCHANGED <<budgetVars, crashes>>

\* Mutant: a call that got no answer gives its reservation back.
NoAnswer_Releases(i) ==
  /\ At(i, "paid_call")
  /\ Goto(i, "release")
  /\ UNCHANGED <<budgetVars, auth, crashes>>

\* An exception, an answer without payment metadata, or one that names another
\* network or payer.
NoAnswer(i) ==
  /\ At(i, "paid_call")
  /\ Goto(i, "unknown")
  /\ UNCHANGED <<budgetVars, auth, crashes>>

\* Another PaymentRequired, or success = false.
Rejected(i) ==
  /\ At(i, "paid_call")
  /\ auth[i] = "void" \/ "inconclusive" \in Hazards
  /\ Goto(i, "release")
  /\ UNCHANGED <<budgetVars, auth, crashes>>

Settled(i) ==
  /\ At(i, "paid_call") /\ auth[i] = "paid"
  /\ Goto(i, "settle")
  /\ UNCHANGED <<budgetVars, auth, crashes>>

Release(i) ==
  /\ At(i, "release")
  /\ release(i)
  /\ Goto(i, "done")
  /\ UNCHANGED <<auth, crashes>>

MarkUnknown(i) ==
  /\ At(i, "unknown")
  /\ markUnknown(i)
  /\ Goto(i, "done")
  /\ UNCHANGED <<auth, crashes>>

Reported(i) == IF "otheramount" \in Hazards THEN Prices ELSE {inv[i].price}

Reconcile(i) ==
  /\ At(i, "settle")
  /\ \E settled \in Reported(i) : reconcile(i, settled)
  /\ Goto(i, "done")
  /\ UNCHANGED <<auth, crashes>>

Crash(i) ==
  /\ Live(i) /\ crashes < MaxCrashes
  /\ crashes' = crashes + 1
  /\ Goto(i, "done")
  /\ UNCHANGED <<budgetVars, auth>>

-----------------------------------------------------------------------------
(* The seller, its facilitator and the ledger: a signed authorization is paid  *)
(* at most once, or becomes void: refused by the seller, or expired.           *)

Pay(i) ==
  /\ auth[i] = "signed"
  /\ auth' = [auth EXCEPT ![i] = "paid"]
  /\ UNCHANGED <<budgetVars, inv, crashes>>

Void(i) ==
  /\ auth[i] = "signed"
  /\ auth' = [auth EXCEPT ![i] = "void"]
  /\ UNCHANGED <<budgetVars, inv, crashes>>

Midnight == NextDay /\ UNCHANGED <<inv, auth, crashes>>

-----------------------------------------------------------------------------
Proceed(i) ==
  \/ Reserve(i) \/ BudgetExceeded(i) \/ NoSigner(i) \/ SignFails(i) \/ Sign(i)
  \/ NoAnswer(i) \/ Rejected(i) \/ Settled(i)
  \/ Release(i) \/ MarkUnknown(i) \/ Reconcile(i)

Next ==
  \/ \E i \in Identifiers, a \in Agents, price \in Prices, scheme \in Schemes :
       Afford(i, a, price, scheme)
  \/ \E i \in Identifiers : Proceed(i) \/ Crash(i) \/ Pay(i) \/ Void(i)
  \/ Midnight

Spec == Init /\ [][Next]_vars

-----------------------------------------------------------------------------
Invocation ==
  [pc: {"idle", "reserve", "sign", "paid_call", "release", "unknown", "settle", "done"},
   agent: Agents \cup {None}, price: Nat, scheme: Schemes, amount: Nat]

\* Every variable holds values of its type.
TypeOK ==
  /\ StoreTypeOK
  /\ inv \in [Identifiers -> Invocation]
  /\ auth \in [Identifiers -> {"none", "signed", "paid", "void"}]
  /\ crashes \in 0 .. MaxCrashes

\* A day's limit bounds what an agent has spent and reserved on it, although the
\* limit is first applied to a usage that other invocations change.
LimitKept ==
  \A a \in Agents, d \in Days : usage[a][d].spent + usage[a][d].reserved <= DayMax

Booked(a, d, statuses) ==
  {i \in Identifiers : /\ reservation[i] # None
                       /\ reservation[i].agent = a /\ reservation[i].day = d
                       /\ reservation[i].status \in statuses}

\* The books balance: the usage of a day is what the reservations of that day say,
\* over midnight and whatever the order of retries and failures.
BooksBalance ==
  \A a \in Agents, d \in Days :
    LET held == Booked(a, d, {"reserved", "unknown"})
        paid == Booked(a, d, {"settled"})
    IN /\ usage[a][d].reserved = SumFunction([i \in held |-> reservation[i].amount])
       /\ usage[a][d].spent = SumFunction([i \in paid |-> reservation[i].settled])

\* As long as an authorization may be paid, or has been, its price is reserved or
\* spent: no crash, lost answer or midnight frees it.
Covered ==
  \A i \in Identifiers : auth[i] \in {"signed", "paid"} =>
    /\ reservation[i] # None /\ reservation[i].status # "released"
    /\ reservation[i].amount = inv[i].price

\* mcp-server/src/budget/budgetStore.ts:58, "Releases a reservation after a
\* conclusively failed, non-settled payment".
ReleasedIsUnpaid ==
  \A i \in Identifiers :
    reservation[i] # None /\ reservation[i].status = "released" => auth[i] # "paid"
=============================================================================
