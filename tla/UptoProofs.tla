----------------------------- MODULE UptoProofs -----------------------------
(***************************************************************************)
(* Theorems about UptoPayments, for every set of accounts, offers, limits  *)
(* and tokens (whose approve may add or set).                              *)
(***************************************************************************)
EXTENDS UptoPayments, Sums, TLAPS

\* Between transactions no reservation is active, and none is pending.
Idle ==
  \A a \in Agents :
    /\ pol.active[a] = None
    /\ \A i \in Ids : pol.res[a][i] # None => pol.res[a][i].status = "settled"

\* What was submitted was signed, and its amount is within what was signed.
Referenced ==
  \A t \in Submissions : tx[t] # None => auth[tx[t].sig] # None

Inv ==
  /\ UptoTypeOK /\ Idle /\ Referenced
  /\ PaidOncePerId /\ BudgetKept /\ ContractKeepsNothing

-----------------------------------------------------------------------------
(* Balances. *)

\* A number of a sum changes.
LEMMA SumChanges ==
  ASSUME NEW b \in [Holders -> Nat], NEW h \in Holders, NEW n \in Nat
  PROVE  /\ SumFunction(b) \in Nat
         /\ SumFunction([b EXCEPT ![h] = n]) = SumFunction(b) - b[h] + n
<1> DEFINE c == [b EXCEPT ![h] = n]
<1>1. IsFiniteSet(Holders \ {h})
  BY UptoAssumption, FS_Subset
<1>2. DOMAIN b = Holders /\ DOMAIN c = Holders /\ b[h] \in Nat /\ c[h] = n
  OBVIOUS
<1>3. AgreeBut(h, b, Holders, c, Holders)
  BY <1>1 DEF AgreeBut
<1> HIDE DEF c
<1>4. PICK rest \in Nat : SumFunction(b) = b[h] + rest /\ SumFunction(c) = c[h] + rest
  BY <1>3, SumsApart
<1>5. SumFunction(b) \in Nat /\ SumFunction(c) = SumFunction(b) - b[h] + n
  BY <1>2, <1>4
<1> QED BY <1>5 DEF c

\* What leaves one account reaches another.
LEMMA MoveTyped ==
  ASSUME NEW b \in [Holders -> Nat], NEW from \in Holders, NEW to \in Holders,
         NEW amount \in Nat, b[from] >= amount
  PROVE  /\ Move(b, from, to, amount) \in [Holders -> Nat]
         /\ SumFunction(Move(b, from, to, amount)) = SumFunction(b)
<1> DEFINE c == [b EXCEPT ![from] = b[from] - amount]
           e == [c EXCEPT ![to] = c[to] + amount]
<1>1. c \in [Holders -> Nat] /\ b[from] \in Nat /\ b[from] - amount \in Nat
  OBVIOUS
<1>2. SumFunction(b) \in Nat /\ SumFunction(c) = SumFunction(b) - b[from] + (b[from] - amount)
  BY <1>1, SumChanges
<1> HIDE DEF c
<1>3. e \in [Holders -> Nat] /\ c[to] \in Nat /\ c[to] + amount \in Nat
  BY <1>1
<1>4. SumFunction(c) \in Nat /\ SumFunction(e) = SumFunction(c) - c[to] + (c[to] + amount)
  BY <1>1, <1>3, SumChanges
<1> HIDE DEF e
<1>5. SumFunction(e) = SumFunction(b)
  BY <1>1, <1>2, <1>3, <1>4
<1>6. Move(b, from, to, amount) = e
  BY DEF Move, c, e
<1> QED BY <1>3, <1>5, <1>6

LEMMA MoveAdds ==
  ASSUME NEW b \in [Holders -> Nat], NEW from \in Holders, NEW to \in Holders,
         NEW amount \in Nat, from # to
  PROVE  /\ Move(b, from, to, amount)[to] = b[to] + amount
         /\ Move(b, from, to, amount)[from] = b[from] - amount
         /\ \A h \in Holders \ {from, to} : Move(b, from, to, amount)[h] = b[h]
BY DEF Move

\* Terms that pass the validation of the contract have their accounts and amounts in range.
LEMMA PaymentTyped ==
  ASSUME UptoTypeOK, NEW a \in SignedTerms, NEW actual \in 0 .. MaxAmount,
         NEW now \in Nat, Valid(a, actual, now), balance[a.payer] >= a.max
  PROVE  /\ AfterPayment(balance, a, actual) \in [Holders -> Nat]
         /\ SumFunction(AfterPayment(balance, a, actual)) = SumFunction(balance)
<1> DEFINE P == AfterPull(balance, a)
           Q == AfterPay(P, a, actual)
<1>1. /\ a.payer \in Holders /\ a.payTo \in Holders /\ Contract \in Holders
      /\ a.payer # Contract /\ a.payTo # Contract
      /\ a.max \in Nat /\ actual \in Nat /\ actual <= a.max
  BY DEF SignedTerms, Holders, Payers, Valid, Amounts
<1>2. balance \in [Holders -> Nat]
  BY DEF UptoTypeOK
<1>3. P \in [Holders -> Nat] /\ P[Contract] >= a.max /\ SumFunction(P) = SumFunction(balance)
  <2>1. P \in [Holders -> Nat] /\ SumFunction(P) = SumFunction(balance)
    BY <1>1, <1>2, MoveTyped DEF AfterPull
  <2>2. P[Contract] = balance[Contract] + a.max
    BY <1>1, <1>2, MoveAdds DEF AfterPull
  <2>3. balance[Contract] \in Nat
    BY <1>1, <1>2
  <2> QED BY <1>1, <2>1, <2>2, <2>3
<1>4. Q \in [Holders -> Nat] /\ Q[Contract] >= a.max - actual /\ SumFunction(Q) = SumFunction(balance)
  <2>1. CASE actual > 0
    <3>1. Q = Move(P, Contract, a.payTo, actual)
      BY <2>1 DEF AfterPay
    <3>2. Q \in [Holders -> Nat] /\ SumFunction(Q) = SumFunction(balance)
      <4>1. P[Contract] \in Nat
        BY <1>1, <1>3
      <4>2. P[Contract] >= actual
        BY <1>1, <1>3, <4>1
      <4> QED BY <1>1, <1>3, <3>1, <4>2, MoveTyped
    <3>3. Q[Contract] = P[Contract] - actual
      BY <1>1, <1>3, <3>1, MoveAdds
    <3>4. P[Contract] \in Nat
      BY <1>1, <1>3
    <3> QED BY <1>1, <1>3, <3>2, <3>3, <3>4
  <2>2. CASE ~(actual > 0)
    BY <1>1, <1>3, <2>2 DEF AfterPay
  <2> QED BY <2>1, <2>2
<1>5. CASE a.max - actual > 0
  <2>1. AfterPayment(balance, a, actual) = Move(Q, Contract, a.payer, a.max - actual)
    BY <1>5 DEF AfterPayment, AfterRefund
  <2>2. a.max - actual \in Nat
    BY <1>1
  <2> QED BY <1>1, <1>4, <2>1, <2>2, MoveTyped
<1>6. CASE ~(a.max - actual > 0)
  BY <1>4, <1>6 DEF AfterPayment, AfterRefund
<1> QED BY <1>5, <1>6

LEMMA HookTyped ==
  ASSUME NEW b \in [Holders -> Nat], NEW a \in SignedTerms
  PROVE  AfterHook(b, a) \in [Holders -> Nat] /\ SumFunction(AfterHook(b, a)) = SumFunction(b)
<1>1. a.payTo \in Holders /\ Outside \in Holders
  BY DEF SignedTerms, Holders
<1>2. CASE a.hook = Meddler /\ b[a.payTo] > 0
  <2>1. AfterHook(b, a) = Move(b, a.payTo, Outside, 1)
    BY <1>2 DEF AfterHook
  <2>2. b[a.payTo] \in Nat
    BY <1>1
  <2>3. b[a.payTo] >= 1
    BY <1>2, <2>2
  <2> QED BY <1>1, <2>1, <2>3, MoveTyped
<1>3. CASE ~(a.hook = Meddler /\ b[a.payTo] > 0)
  BY <1>3 DEF AfterHook
<1> QED BY <1>2, <1>3

\* The hook runs when the contract holds what it held at first, and takes nothing from it.
LEMMA HookKeepsContract ==
  ASSUME UptoAssumption, NEW b \in [Holders -> Nat], NEW a \in SignedTerms
  PROVE  AfterHook(b, a)[Contract] = b[Contract]
<1>1. /\ a.payTo \in Holders /\ Outside \in Holders /\ Contract \in Holders
      /\ a.payTo # Contract /\ Outside # Contract
  BY DEF SignedTerms, Holders, UptoAssumption
<1>2. \A c \in Holders \ {a.payTo, Outside} : Move(b, a.payTo, Outside, 1)[c] = b[c]
  BY <1>1 DEF Move
<1> QED BY <1>1, <1>2 DEF AfterHook

-----------------------------------------------------------------------------
(* The policy's storage. *)

LEMMA BudgetTyped ==
  ASSUME PolicyTypeOK, NEW a \in Agents, NEW r \in RuleIds, IsBudget(pol, a, r)
  PROVE  pol.rule[a][r] \in BudgetRow
BY DEF PolicyTypeOK, IsBudget, ApprovalRow, Removed

LEMMA RefreshedTyped ==
  ASSUME NEW b \in BudgetRow, NEW now \in Nat
  PROVE  /\ Refreshed(b, now) \in BudgetRow
         /\ Refreshed(b, now).limit = b.limit
         /\ now >= b.start => Refreshed(b, now).start >= b.start
         /\ Refreshed(b, now).committed < b.committed => now - b.start >= b.period
                                                        /\ Refreshed(b, now).start = now
BY PolicyAssumption DEF Refreshed, BudgetRow, NewBudget

LEMMA RulePutTwice ==
  ASSUME PolicyTypeOK, NEW x \in Agents, NEW y \in RuleIds, NEW u, NEW v
  PROVE  /\ Put(pol.rule, x, y, u)[x][y] = u
         /\ Put(Put(pol.rule, x, y, u), x, y, v) = Put(pol.rule, x, y, v)
<1> DEFINE V == BudgetRow \cup ApprovalRow \cup {Removed, None}
           f == pol.rule
           g == [f EXCEPT ![x] = [@ EXCEPT ![y] = u]]
<1>1. f \in [Agents -> [RuleIds -> V]]
  BY DEF PolicyTypeOK
<1> HIDE DEF V, f
<1>2. g[x] = [f[x] EXCEPT ![y] = u] /\ DOMAIN g = Agents
  BY <1>1
<1>3. [g[x] EXCEPT ![y] = v] = [f[x] EXCEPT ![y] = v]
  BY <1>1, <1>2
<1>4. Put(f, x, y, u)[x][y] = u /\ Put(Put(f, x, y, u), x, y, v) = Put(f, x, y, v)
  BY <1>1, <1>2, <1>3 DEF Put
<1> QED BY <1>4 DEF f

LEMMA ResPutTwice ==
  ASSUME PolicyTypeOK, NEW x \in Agents, NEW y \in Ids, NEW u, NEW v
  PROVE  /\ Put(pol.res, x, y, u)[x][y] = u
         /\ Put(Put(pol.res, x, y, u), x, y, v) = Put(pol.res, x, y, v)
<1> DEFINE V == ReservationRow \cup {None}
           f == pol.res
           g == [f EXCEPT ![x] = [@ EXCEPT ![y] = u]]
<1>1. f \in [Agents -> [Ids -> V]]
  BY DEF PolicyTypeOK
<1> HIDE DEF V, f
<1>2. g[x] = [f[x] EXCEPT ![y] = u] /\ DOMAIN g = Agents
  BY <1>1
<1>3. [g[x] EXCEPT ![y] = v] = [f[x] EXCEPT ![y] = v]
  BY <1>1, <1>2
<1>4. Put(f, x, y, u)[x][y] = u /\ Put(Put(f, x, y, u), x, y, v) = Put(f, x, y, v)
  BY <1>1, <1>2, <1>3 DEF Put
<1> QED BY <1>4 DEF f

LEMMA PutTyped ==
  ASSUME NEW A, NEW B, NEW V, NEW f \in [A -> [B -> V]], NEW x \in A, NEW y \in B,
         NEW v \in V
  PROVE  /\ Put(f, x, y, v) \in [A -> [B -> V]]
         /\ \A i \in A, k \in B :
              Put(f, x, y, v)[i][k] = IF i = x /\ k = y THEN v ELSE f[i][k]
BY DEF Put

\* The budget of a rule after a settlement that used `actual' of its maximum.
Spent(a, now, actual) ==
  LET b == Refreshed(pol.rule[a.payer][a.root], now) IN Charged(b, b.committed + actual)

Reservation(a) ==
  [rule |-> a.root, max |-> a.max, payTo |-> a.payTo, deadline |-> a.deadline,
   status |-> "pending", actual |-> 0]

\* Reserving the maximum and reconciling with what was used, in one transaction.
LEMMA PolicySettles ==
  ASSUME PolicyTypeOK, NEW a \in SignedTerms, NEW actual \in 0 .. MaxAmount,
         NEW now \in Nat, a.payer \in Agents, Authorized(pol, a, now)
  PROVE  AfterNotice(AfterAuth(pol, a, now), a, actual) =
           [rule   |-> Put(pol.rule, a.payer, a.root, Spent(a, now, actual)),
            res    |-> Put(pol.res, a.payer, a.id, Receipt(Reservation(a), actual)),
            active |-> [pol.active EXCEPT ![a.payer] = None]]
<1> DEFINE p == a.payer
           b == Refreshed(pol.rule[p][a.root], now)
           reserved == Charged(b, b.committed + a.max)
           pending == Reservation(a)
           s == AfterAuth(pol, a, now)
<1>1. /\ a.root \in RuleIds /\ a.id \in Ids /\ a.hook = Policy /\ a.max \in Nat
      /\ actual \in Nat /\ IsBudget(pol, p, a.root)
  BY PolicyAssumption DEF SignedTerms, Authorized, EnforceAllows, Amounts
<1>2. s = [rule   |-> Put(pol.rule, p, a.root, reserved),
           res    |-> Put(pol.res, p, a.id, pending),
           active |-> [pol.active EXCEPT ![p] = a.id]]
  BY DEF AfterAuth, Enforce, Reservation
<1>3. /\ pol.rule \in [Agents -> [RuleIds -> BudgetRow \cup ApprovalRow \cup {Removed, None}]]
      /\ pol.res \in [Agents -> [Ids -> ReservationRow \cup {None}]]
      /\ pol.active \in [Agents -> Ids \cup {None}]
  BY DEF PolicyTypeOK
<1>4. b \in BudgetRow
  BY <1>1, BudgetTyped, RefreshedTyped
<1>5. /\ s.rule = Put(pol.rule, p, a.root, reserved)
      /\ s.res = Put(pol.res, p, a.id, pending)
      /\ s.active = [pol.active EXCEPT ![p] = a.id]
  BY <1>2
<1>6. s.res[p][a.id] = pending /\ s.rule[p][a.root] = reserved
  <2> HIDE DEF pending, reserved, s
  <2> QED BY <1>1, <1>5, RulePutTwice, ResPutTwice
<1>7. pending # None
  <2>1. pending \in ReservationRow
    BY PolicyAssumption DEF SignedTerms, ReservationRow, Reservation
  <2> QED BY <2>1, NoneAssumption
<1>8. AfterNotice(s, a, actual) = Reconcile(s, p, a.id, actual)
  <2> HIDE DEF pending, s
  <2> QED BY <1>1, <1>6, <1>7 DEF AfterNotice
<1>9. Reconcile(s, p, a.id, actual) =
        [rule   |-> Put(s.rule, p, a.root,
                        Charged(reserved, reserved.committed - (a.max - actual))),
         res    |-> Put(s.res, p, a.id, Receipt(Reservation(a), actual)),
         active |-> [s.active EXCEPT ![p] = None]]
  <2>1. pending.rule = a.root /\ pending.max = a.max
    BY DEF Reservation
  <2> HIDE DEF pending, s, reserved
  <2>2. Receipt(s.res[p][a.id], actual) = Receipt(pending, actual)
    BY <1>6
  <2>3. s.rule[p][s.res[p][a.id].rule] = reserved
    BY <1>6, <2>1
  <2> QED BY <1>6, <2>1, <2>2, <2>3 DEF Reconcile, pending
<1>10. Charged(reserved, reserved.committed - (a.max - actual)) = Spent(a, now, actual)
  <2>1. b.committed \in Nat
    BY <1>4 DEF BudgetRow
  <2>2. reserved.committed - (a.max - actual) = b.committed + actual
    BY <1>1, <2>1 DEF Charged
  <2>3. Charged(reserved, b.committed + actual) = Charged(b, b.committed + actual)
    BY DEF Charged
  <2> QED BY <2>2, <2>3 DEF Spent
<1>11. /\ Put(s.rule, p, a.root, Spent(a, now, actual))
            = Put(pol.rule, p, a.root, Spent(a, now, actual))
       /\ Put(s.res, p, a.id, Receipt(Reservation(a), actual))
            = Put(pol.res, p, a.id, Receipt(Reservation(a), actual))
  <2> HIDE DEF pending, reserved, s
  <2>1. p \in Agents
    OBVIOUS
  <2>2. Put(s.rule, p, a.root, Spent(a, now, actual))
            = Put(pol.rule, p, a.root, Spent(a, now, actual))
    BY <1>1, <1>5, <2>1, RulePutTwice
  <2>3. Put(s.res, p, a.id, Receipt(Reservation(a), actual))
            = Put(pol.res, p, a.id, Receipt(Reservation(a), actual))
    BY <1>1, <1>5, <2>1, ResPutTwice
  <2> QED BY <2>2, <2>3
<1>12. [s.active EXCEPT ![p] = None] = [pol.active EXCEPT ![p] = None]
  <2> HIDE DEF s
  <2> QED BY <1>3, <1>5
<1> HIDE DEF b, pending, reserved
<1> QED BY <1>8, <1>9, <1>10, <1>11, <1>12

\* An account's rules change one at a time, and a rule that is added is within its limit.
LEMMA RuleWritten ==
  ASSUME PolicyTypeOK, Idle, BudgetKept, NEW a \in Agents, NEW r \in RuleIds,
         NEW row \in BudgetRow \cup ApprovalRow \cup {Removed},
         row \in BudgetRow => row.committed <= row.limit,
         pol' = WithRule(pol, a, r, row)
  PROVE  PolicyTypeOK' /\ Idle' /\ BudgetKept'
<1> DEFINE V == BudgetRow \cup ApprovalRow \cup {Removed, None}
<1>1. /\ pol.rule \in [Agents -> [RuleIds -> V]]
      /\ pol.res \in [Agents -> [Ids -> ReservationRow \cup {None}]]
      /\ pol.active \in [Agents -> Ids \cup {None}]
  BY DEF PolicyTypeOK
<1>2. /\ pol'.rule = Put(pol.rule, a, r, row)
      /\ pol'.res = pol.res /\ pol'.active = pol.active
      /\ pol' = [rule |-> pol'.rule, res |-> pol'.res, active |-> pol'.active]
  BY DEF WithRule
<1>3. /\ pol'.rule \in [Agents -> [RuleIds -> V]]
      /\ \A i \in Agents, k \in RuleIds :
           pol'.rule[i][k] = IF i = a /\ k = r THEN row ELSE pol.rule[i][k]
  <2>1. row \in V
    OBVIOUS
  <2> HIDE DEF V
  <2> QED BY <1>1, <1>2, <2>1 DEF Put
<1>4. PolicyTypeOK'
  BY <1>1, <1>2, <1>3 DEF PolicyTypeOK
<1>5. Idle'
  BY <1>2 DEF Idle
<1>6. BudgetKept'
  <2> SUFFICES ASSUME NEW i \in Agents, NEW k \in RuleIds, IsBudget(pol', i, k)
               PROVE  pol'.rule[i][k].committed <= pol'.rule[i][k].limit
    BY DEF BudgetKept
  <2>1. CASE i = a /\ k = r
    <3>1. pol'.rule[i][k] = row /\ row # None /\ row.kind = "budget"
      BY <1>3, <2>1 DEF IsBudget
    <3>2. row \in BudgetRow
      BY <3>1 DEF ApprovalRow, Removed
    <3> QED BY <3>1, <3>2
  <2>2. CASE ~(i = a /\ k = r)
    <3>1. pol'.rule[i][k] = pol.rule[i][k]
      BY <1>3, <2>2
    <3> QED BY <3>1 DEF BudgetKept, IsBudget
  <2> QED BY <2>1, <2>2
<1> QED BY <1>4, <1>5, <1>6

LEMMA ConfigureStep ==
  ASSUME UptoTypeOK, Idle, BudgetKept, NEW a \in Agents, ConfigureAccount(a)
  PROVE  PolicyTypeOK' /\ Idle' /\ BudgetKept'
<1>1. PolicyTypeOK /\ ledger \in Nat
  BY PolicyAssumption DEF UptoTypeOK
<1>2. CASE \E r \in RuleIds, limit \in Limits, period \in Periods :
             InstallBudget(a, r, limit, period, ledger)
  <2>1. PICK r \in RuleIds, limit \in Limits, period \in Periods :
               InstallBudget(a, r, limit, period, ledger)
    BY <1>2
  <2>2. NewBudget(limit, period, ledger) \in BudgetRow
    BY <1>1 DEF NewBudget, BudgetRow
  <2>3. NewBudget(limit, period, ledger).committed <= NewBudget(limit, period, ledger).limit
    BY PolicyAssumption DEF NewBudget
  <2> QED BY <1>1, <2>1, <2>2, <2>3, RuleWritten DEF InstallBudget
<1>3. CASE \E r, of \in RuleIds : InstallApproval(a, r, of)
  <2>1. PICK r \in RuleIds, of \in RuleIds : InstallApproval(a, r, of)
    BY <1>3
  <2> DEFINE row == [kind |-> "approval", rule |-> of]
  <2>2. row \in ApprovalRow /\ row \notin BudgetRow
    BY DEF ApprovalRow, BudgetRow
  <2>3. pol' = WithRule(pol, a, r, row)
    BY <2>1 DEF InstallApproval
  <2> HIDE DEF row
  <2> QED BY <1>1, <2>2, <2>3, RuleWritten
<1>4. CASE \E r \in RuleIds : Uninstall(a, r)
  <2>1. PICK r \in RuleIds : Uninstall(a, r)
    BY <1>4
  <2>2. Removed \notin BudgetRow
    BY DEF Removed, BudgetRow
  <2> QED BY <1>1, <2>1, <2>2, RuleWritten DEF Uninstall
<1> QED BY <1>2, <1>3, <1>4 DEF ConfigureAccount

-----------------------------------------------------------------------------
(* A settlement that a ledger includes. *)

\* What SettleSucceeds has at hand, as facts about the terms that were signed.
LEMMA SettledTerms ==
  ASSUME UptoTypeOK, Referenced, NEW t \in Submissions, tx[t] # None
  PROVE  /\ tx[t] \in SubmittedTx /\ tx[t].sig \in Signatures
         /\ TermsOf(t) \in SignedTerms /\ tx[t].actual \in 0 .. MaxAmount
         /\ TermsOf(t).payer \in Payers
BY DEF UptoTypeOK, Referenced, TermsOf, SubmittedTx, SignedTerms

LEMMA PolicySettleStep ==
  ASSUME UptoTypeOK, Idle, BudgetKept, Referenced, NEW t \in Submissions, SettleSucceeds(t)
  PROVE  /\ PolicyTypeOK' /\ Idle' /\ BudgetKept'
         /\ IF TermsOf(t).payer \in Agents
            THEN /\ pol.res[TermsOf(t).payer][TermsOf(t).id] = None
                 /\ pol'.res = Put(pol.res, TermsOf(t).payer, TermsOf(t).id,
                                   Receipt(Reservation(TermsOf(t)), tx[t].actual))
            ELSE pol' = pol
<1> DEFINE a == TermsOf(t)
           p == a.payer
           actual == tx[t].actual
           v == Receipt(Reservation(a), actual)
           V == BudgetRow \cup ApprovalRow \cup {Removed, None}
<1>1. /\ a \in SignedTerms /\ actual \in 0 .. MaxAmount
      /\ ledger \in Nat /\ PolicyTypeOK
  BY SettledTerms, PolicyAssumption DEF UptoTypeOK, SettleSucceeds
<1>2. /\ Authorized(pol, a, ledger)
      /\ pol' = AfterNotice(AfterAuth(pol, a, ledger), a, actual)
      /\ Valid(a, actual, ledger)
  BY DEF SettleSucceeds, Settles, TermsOf
<1>3. CASE p \notin Agents
  <2>1. pol' = pol
    BY <1>2, <1>3 DEF AfterAuth, AfterNotice
  <2> QED BY <1>1, <1>3, <2>1 DEF PolicyTypeOK, Idle, BudgetKept, IsBudget
<1>4. CASE p \in Agents
  <2>1. pol' = [rule   |-> Put(pol.rule, p, a.root, Spent(a, ledger, actual)),
                res    |-> Put(pol.res, p, a.id, v),
                active |-> [pol.active EXCEPT ![p] = None]]
    BY <1>1, <1>2, <1>4, PolicySettles
  <2>2. /\ EnforceAllows(pol, p, a.root, a.id, a.max, a.hook, Policy, ledger)
        /\ a.root \in RuleIds /\ a.id \in Ids /\ a.max \in Nat /\ actual \in Nat
        /\ actual <= a.max
    BY <1>1, <1>2, <1>4, PolicyAssumption DEF Authorized, SignedTerms, Amounts, Valid
  <2>3. v \in ReservationRow /\ v.status = "settled" /\ v # None
    <3>1. v \in ReservationRow /\ v.status = "settled"
      BY <1>1, <2>2, PolicyAssumption DEF Receipt, Reservation, ReservationRow, SignedTerms
    <3> QED BY <3>1, NoneAssumption
  <2> DEFINE b == Refreshed(pol.rule[p][a.root], ledger)
             w == Spent(a, ledger, actual)
  <2>4. b \in BudgetRow /\ b.committed + a.max <= b.limit
    <3>1. IsBudget(pol, p, a.root)
      BY <2>2 DEF EnforceAllows
    <3>2. pol.rule[p][a.root] \in BudgetRow
      BY <1>1, <1>4, <2>2, <3>1, BudgetTyped
    <3>3. b \in BudgetRow /\ b.limit = pol.rule[p][a.root].limit
      BY <1>1, <3>2, RefreshedTyped
    <3> QED BY <2>2, <3>3 DEF EnforceAllows
  <2>5. w \in BudgetRow /\ w.committed <= w.limit
    <3> HIDE DEF b
    <3>1. w = Charged(b, b.committed + actual)
      BY DEF Spent, b
    <3>2. b.committed \in Nat /\ b.limit \in Nat
      BY <2>4, PolicyAssumption DEF BudgetRow
    <3>3. b.committed + actual <= b.limit /\ b.committed + actual \in Nat
      BY <2>2, <2>4, <3>2
    <3>4. Charged(b, b.committed + actual) \in BudgetRow
      BY <2>4, <3>3 DEF Charged, BudgetRow
    <3>5. /\ Charged(b, b.committed + actual).committed = b.committed + actual
          /\ Charged(b, b.committed + actual).limit = b.limit
      BY DEF Charged
    <3> QED BY <3>1, <3>3, <3>4, <3>5
  <2> HIDE DEF w, v
  <2>6. /\ pol'.rule = Put(pol.rule, p, a.root, w)
        /\ pol'.res = Put(pol.res, p, a.id, v)
        /\ pol'.active = [pol.active EXCEPT ![p] = None]
        /\ pol' = [rule |-> pol'.rule, res |-> pol'.res, active |-> pol'.active]
    BY <2>1 DEF w
  <2>7. /\ pol.rule \in [Agents -> [RuleIds -> V]]
        /\ pol.res \in [Agents -> [Ids -> ReservationRow \cup {None}]]
        /\ pol.active \in [Agents -> Ids \cup {None}]
    BY <1>1 DEF PolicyTypeOK
  <2>8. /\ pol'.rule \in [Agents -> [RuleIds -> V]]
        /\ \A i \in Agents, k \in RuleIds :
             pol'.rule[i][k] = IF i = p /\ k = a.root THEN w ELSE pol.rule[i][k]
    <3>1. w \in V
      BY <2>5
    <3> HIDE DEF V
    <3> QED BY <1>4, <2>2, <2>6, <2>7, <3>1 DEF Put
  <2>9. /\ pol'.res \in [Agents -> [Ids -> ReservationRow \cup {None}]]
        /\ \A i \in Agents, k \in Ids :
             pol'.res[i][k] = IF i = p /\ k = a.id THEN v ELSE pol.res[i][k]
    <3> DEFINE R == ReservationRow \cup {None}
    <3>1. v \in R /\ pol.res \in [Agents -> [Ids -> R]]
      BY <2>3, <2>7
    <3> HIDE DEF R
    <3>2. /\ pol'.res \in [Agents -> [Ids -> R]]
          /\ \A i \in Agents, k \in Ids :
               pol'.res[i][k] = IF i = p /\ k = a.id THEN v ELSE pol.res[i][k]
      BY <1>4, <2>2, <2>6, <3>1 DEF Put
    <3> QED BY <3>2 DEF R
  <2>10. PolicyTypeOK'
    <3>1. pol'.active \in [Agents -> Ids \cup {None}]
      BY <2>6, <2>7
    <3>2. pol'.rule \in [Agents -> [RuleIds -> V]]
      BY <2>8
    <3>3. pol'.res \in [Agents -> [Ids -> ReservationRow \cup {None}]]
      BY <2>9
    <3>4. pol' = [rule |-> pol'.rule, res |-> pol'.res, active |-> pol'.active]
      BY <2>6
    <3> QED BY <3>1, <3>2, <3>3, <3>4 DEF PolicyTypeOK
  <2>11. Idle'
    BY <2>3, <2>6, <2>7, <2>9 DEF Idle
  <2>12. BudgetKept'
    <3> SUFFICES ASSUME NEW i \in Agents, NEW k \in RuleIds, IsBudget(pol', i, k)
                 PROVE  pol'.rule[i][k].committed <= pol'.rule[i][k].limit
      BY DEF BudgetKept
    <3>1. CASE i = p /\ k = a.root
      BY <2>5, <2>8, <3>1
    <3>2. CASE ~(i = p /\ k = a.root)
      <4>1. pol'.rule[i][k] = pol.rule[i][k]
        BY <2>8, <3>2
      <4> QED BY <4>1 DEF BudgetKept, IsBudget
    <3> QED BY <3>1, <3>2
  <2> QED BY <1>4, <2>2, <2>6, <2>10, <2>11, <2>12 DEF v, EnforceAllows
<1> QED BY <1>3, <1>4

\* The token's side of it.
LEMMA MoneySettleStep ==
  ASSUME UptoTypeOK, Referenced, ContractKeepsNothing,
         NEW t \in Submissions, SettleSucceeds(t)
  PROVE  /\ balance' \in [Holders -> Nat] /\ allowance' \in [Payers -> Nat]
         /\ ContractKeepsNothing'
         /\ allowance'[TermsOf(t).payer] = 0
<1> DEFINE a == TermsOf(t)
           actual == tx[t].actual
           paid == AfterPayment(balance, a, actual)
<1>1. /\ a \in SignedTerms /\ actual \in 0 .. MaxAmount /\ a.payer \in Payers
      /\ ledger \in Nat /\ a.max \in Nat
  BY SettledTerms, PolicyAssumption DEF UptoTypeOK, SettleSucceeds, SignedTerms, Amounts
<1>2. PICK adds \in Additive :
        /\ Settles(a, actual, ledger, adds)
        /\ balance' = AfterHook(paid, a)
        /\ allowance' = [allowance EXCEPT ![a.payer] = AllowanceLeft(a, adds)]
  BY DEF SettleSucceeds, TermsOf
<1>3. /\ Valid(a, actual, ledger) /\ balance[a.payer] >= a.max
      /\ Balanced(balance, paid, a, actual) /\ AllowanceLeft(a, adds) = 0
  BY <1>2 DEF Settles
<1>4. paid \in [Holders -> Nat]
  BY <1>1, <1>3, PaymentTyped
<1>5. balance' \in [Holders -> Nat] /\ balance'[Contract] = paid[Contract]
  <2> HIDE DEF paid, a
  <2> QED BY <1>1, <1>2, <1>4, HookTyped, HookKeepsContract, UptoAssumption
<1>6. ContractKeepsNothing'
  BY <1>3, <1>5 DEF Balanced, ContractKeepsNothing
<1>7. allowance' \in [Payers -> Nat] /\ allowance'[a.payer] = 0
  <2>1. allowance \in [Payers -> Nat]
    BY DEF UptoTypeOK
  <2> QED BY <1>1, <1>2, <1>3, <2>1
<1> QED BY <1>5, <1>6, <1>7

-----------------------------------------------------------------------------
(* The invariant. *)

LEMMA InitInv == UptoInit => Inv
<1> SUFFICES ASSUME UptoInit PROVE Inv
  OBVIOUS
<1> USE DEF UptoInit
<1>1. PICK limit \in Limits, period \in Periods :
        pol = [rule   |-> [a \in Agents |-> [r \in RuleIds |->
                             CASE r = 1 -> NewBudget(limit, period, 0)
                               [] r = 2 -> [kind |-> "approval", rule |-> 1]
                               [] OTHER -> None]],
               res    |-> [a \in Agents |-> [i \in Ids |-> None]],
               active |-> [a \in Agents |-> None]]
  BY DEF PolicyInit
<1> DEFINE V == BudgetRow \cup ApprovalRow \cup {Removed, None}
<1>2. /\ NewBudget(limit, period, 0) \in BudgetRow
      /\ NewBudget(limit, period, 0).committed <= NewBudget(limit, period, 0).limit
  BY PolicyAssumption DEF NewBudget, BudgetRow
<1>3. \A a \in Agents, r \in RuleIds :
        /\ pol.rule[a][r] \in V
        /\ IsBudget(pol, a, r) => pol.rule[a][r].committed <= pol.rule[a][r].limit
  <2> SUFFICES ASSUME NEW a \in Agents, NEW r \in RuleIds
               PROVE  /\ pol.rule[a][r] \in V
                      /\ IsBudget(pol, a, r) => pol.rule[a][r].committed <= pol.rule[a][r].limit
    OBVIOUS
  <2>1. pol.rule[a][r] = CASE r = 1 -> NewBudget(limit, period, 0)
                           [] r = 2 -> [kind |-> "approval", rule |-> 1]
                           [] OTHER -> None
    BY <1>1
  <2>2. CASE r = 1
    BY <1>2, <2>1, <2>2
  <2>3. CASE r = 2
    <3>1. pol.rule[a][r] = [kind |-> "approval", rule |-> 1] /\ 1 \in RuleIds
      BY <2>1, <2>3, PolicyAssumption DEF RuleIds
    <3>2. pol.rule[a][r] \in ApprovalRow /\ pol.rule[a][r].kind = "approval"
      BY <3>1 DEF ApprovalRow
    <3> QED BY <3>2 DEF IsBudget
  <2>4. CASE r # 1 /\ r # 2
    BY <2>1, <2>4 DEF IsBudget
  <2> QED BY <2>2, <2>3, <2>4
<1>4. PolicyTypeOK
  <2>1. pol.rule \in [Agents -> [RuleIds -> V]]
    <3> HIDE DEF V
    <3> QED BY <1>1, <1>3
  <2>2. /\ pol.res \in [Agents -> [Ids -> ReservationRow \cup {None}]]
        /\ pol.active \in [Agents -> Ids \cup {None}]
        /\ pol = [rule |-> pol.rule, res |-> pol.res, active |-> pol.active]
    BY <1>1
  <2> QED BY <2>1, <2>2 DEF PolicyTypeOK
<1>5. UptoTypeOK
  <2>1. /\ balance \in [Holders -> Nat] /\ allowance \in [Payers -> Nat]
        /\ auth \in [Signatures -> SignedTerms \cup {None}]
        /\ tx \in [Submissions -> SubmittedTx \cup {None}]
    BY UptoAssumption
  <2>2. ledger \in 0 .. MaxLedger /\ asides \in 0 .. MaxAside
    BY UptoAssumption, PolicyAssumption
  <2> QED BY <1>4, <2>1, <2>2 DEF UptoTypeOK
<1>6. Idle
  BY <1>1 DEF Idle
<1>7. Referenced /\ PaidOncePerId
  BY DEF Referenced, PaidOncePerId, Settled
<1>8. BudgetKept
  BY <1>3 DEF BudgetKept
<1>9. ContractKeepsNothing
  BY DEF ContractKeepsNothing
<1> QED BY <1>5, <1>6, <1>7, <1>8, <1>9 DEF Inv

\* An identifier that was settled has a reservation, and no other is settled under it.
LEMMA PaidOnceStep ==
  ASSUME UptoTypeOK, Idle, BudgetKept, Referenced, PaidOncePerId,
         NEW t \in Submissions, SettleSucceeds(t)
  PROVE  PaidOncePerId'
<1> DEFINE a == TermsOf(t)
           p == a.payer
           v == Receipt(Reservation(a), tx[t].actual)
<1>1. /\ auth' = auth
      /\ tx' = [tx EXCEPT ![t] = Submission(tx[t].sig, tx[t].actual, ledger, "SUCCESS")]
      /\ tx[t] # None /\ ~Settled(t)
  BY DEF SettleSucceeds, Settled
<1>2. /\ tx[t].actual = tx'[t].actual /\ tx[t].sig = tx'[t].sig
      /\ \A u \in Submissions \ {t} : tx'[u] = tx[u]
  BY <1>1 DEF UptoTypeOK, Submission
<1>3. /\ \A u \in Submissions : (TermsOf(u))' = TermsOf(u)
      /\ \A u \in Submissions \ {t} : Settled(u)' <=> Settled(u)
  BY <1>1, <1>2 DEF TermsOf, Settled
<1>4. /\ a \in SignedTerms /\ a.id \in Ids /\ PolicyTypeOK
  BY <1>1, SettledTerms DEF SignedTerms, UptoTypeOK
<1>5. /\ p \in Agents => pol.res[p][a.id] = None /\ pol'.res = Put(pol.res, p, a.id, v)
      /\ p \notin Agents => pol' = pol
  BY PolicySettleStep
<1>6. v.actual = tx[t].actual /\ v # None
  <2>1. v.actual = tx[t].actual
    BY DEF Receipt
  <2>2. v \in ReservationRow
    BY <1>1, <1>4, SettledTerms DEF Receipt, Reservation, ReservationRow, SignedTerms
  <2> QED BY <2>1, <2>2, NoneAssumption
<1>7. \A u \in Submissions \ {t} : (Settled(u) /\ TermsOf(u).payer \in Agents) =>
        /\ TermsOf(u).id \in Ids
        /\ pol.res[TermsOf(u).payer][TermsOf(u).id] # None
        /\ pol.res[TermsOf(u).payer][TermsOf(u).id].actual = tx[u].actual
  BY SettledTerms DEF PaidOncePerId, SignedTerms, Settled
<1>8. p \in Agents => \A i \in Agents, k \in Ids :
        pol'.res[i][k] = IF i = p /\ k = a.id THEN v ELSE pol.res[i][k]
  <2> HIDE DEF v
  <2> QED BY <1>4, <1>5 DEF Put, PolicyTypeOK
<1>9. \A u \in Submissions \ {t} : (Settled(u) /\ (p \in Agents \/ TermsOf(u).payer \in Agents))
         => <<TermsOf(u).payer, TermsOf(u).id>> # <<p, a.id>>
  <2> SUFFICES ASSUME NEW u \in Submissions \ {t}, Settled(u), 
                      p \in Agents \/ TermsOf(u).payer \in Agents,
                      TermsOf(u).payer = p, TermsOf(u).id = a.id
               PROVE  FALSE
    OBVIOUS
  <2> QED BY <1>5, <1>7
<1> HIDE DEF v
<1> SUFFICES ASSUME NEW u \in Submissions, Settled(u)', TermsOf(u).payer \in Agents
             PROVE  /\ pol'.res[TermsOf(u).payer][TermsOf(u).id] # None
                    /\ pol'.res[TermsOf(u).payer][TermsOf(u).id].actual = tx'[u].actual
                    /\ \A w \in Submissions \ {u} : Settled(w)' =>
                         <<TermsOf(w).payer, TermsOf(w).id>> # <<TermsOf(u).payer, TermsOf(u).id>>
  BY <1>3 DEF PaidOncePerId
<1>10. CASE u = t
  <2>1. /\ pol'.res[p][a.id] = v
    BY <1>4, <1>8, <1>10
  <2> QED BY <1>2, <1>3, <1>6, <1>9, <1>10, <2>1
<1>11. CASE u # t
  <2>1. Settled(u) /\ tx'[u] = tx[u]
    BY <1>2, <1>3, <1>11
  <2>2. <<TermsOf(u).payer, TermsOf(u).id>> # <<p, a.id>>
    BY <1>9, <1>11, <2>1
  <2>3. pol'.res[TermsOf(u).payer][TermsOf(u).id] = pol.res[TermsOf(u).payer][TermsOf(u).id]
    <3>1. CASE p \in Agents
      BY <1>7, <1>8, <1>11, <2>1, <2>2, <3>1
    <3>2. CASE p \notin Agents
      BY <1>5, <3>2
    <3> QED BY <3>1, <3>2
  <2>4. \A w \in Submissions \ {u} : Settled(w)' =>
          <<TermsOf(w).payer, TermsOf(w).id>> # <<TermsOf(u).payer, TermsOf(u).id>>
    <3> SUFFICES ASSUME NEW w \in Submissions \ {u}, Settled(w)'
                 PROVE  <<TermsOf(w).payer, TermsOf(w).id>> # <<TermsOf(u).payer, TermsOf(u).id>>
      OBVIOUS
    <3>1. CASE w = t
      BY <2>2, <3>1
    <3>2. CASE w # t
      BY <1>3, <2>1, <3>2 DEF PaidOncePerId
    <3> QED BY <3>1, <3>2
  <2> QED BY <1>7, <1>11, <2>1, <2>3, <2>4
<1> QED BY <1>10, <1>11

\* What leaves the policy, the settled transactions and the terms of others alone.
LEMMA Untouched ==
  ASSUME Inv, pol' = pol, balance'[Contract] = balance[Contract],
         \A t \in Submissions : tx[t] # None => auth'[tx[t].sig] = auth[tx[t].sig],
         \A t \in Submissions : tx'[t] = tx[t] \/ (~Settled(t) /\ ~Settled(t)')
  PROVE  Idle' /\ BudgetKept' /\ PaidOncePerId' /\ ContractKeepsNothing'
<1>1. Idle' /\ BudgetKept' /\ ContractKeepsNothing'
  BY DEF Inv, Idle, BudgetKept, ContractKeepsNothing, IsBudget
<1>2. \A t \in Submissions : Settled(t)' => /\ Settled(t) /\ tx'[t] = tx[t]
                                           /\ (TermsOf(t))' = TermsOf(t)
  BY DEF Settled, TermsOf
<1>3. PaidOncePerId'
  BY <1>2 DEF Inv, PaidOncePerId
<1> QED BY <1>1, <1>3

LEMMA InvStep == Inv /\ [UptoNext]_uptoVars => Inv'
<1> SUFFICES ASSUME Inv, [UptoNext]_uptoVars PROVE Inv'
  OBVIOUS
<1> USE DEF Inv
<1>1. ASSUME NEW n \in Signatures, NEW o \in Offers, Sign(n, o) PROVE Inv'
  <2>1. /\ auth[n] = None /\ tx' = tx
        /\ UNCHANGED <<pol, ledger, balance, allowance, spent, tx, asides>>
        /\ auth' = [auth EXCEPT ![n] =
             [payer |-> o.payer, payTo |-> o.payTo, max |-> o.max, after |-> ledger,
              deadline |-> ledger + Lifetime, id |-> o.id, hook |-> o.hook, root |-> o.root,
              nested |-> o.nested, nonce |-> n]]
    BY <1>1 DEF Sign
  <2>2. o \in Terms /\ ledger \in Nat /\ ledger + Lifetime \in Nat
    BY OffersAssumption, UptoAssumption, PolicyAssumption DEF UptoTypeOK
  <2>3. auth' \in [Signatures -> SignedTerms \cup {None}]
    <3>1. [payer |-> o.payer, payTo |-> o.payTo, max |-> o.max, after |-> ledger,
           deadline |-> ledger + Lifetime, id |-> o.id, hook |-> o.hook, root |-> o.root,
           nested |-> o.nested, nonce |-> n] \in SignedTerms
      BY <2>2 DEF Terms, SignedTerms
    <3> QED BY <2>1, <3>1 DEF UptoTypeOK
  <2>4. \A t \in Submissions : tx[t] # None => auth'[tx[t].sig] = auth[tx[t].sig]
    BY <2>1 DEF Referenced, UptoTypeOK
  <2>5. UptoTypeOK'
    BY <2>1, <2>3 DEF UptoTypeOK, PolicyTypeOK
  <2>6. Referenced'
    BY <2>1, <2>4 DEF Referenced
  <2> QED BY <2>1, <2>4, <2>5, <2>6, Untouched
<1>2. ASSUME NEW t \in Submissions, NEW n \in Signatures, NEW actual \in 0 .. MaxAmount,
             PrepareSettlement(t, n, actual)
      PROVE  Inv'
  <2>1. /\ tx[t] = None /\ auth[n] # None
        /\ tx' = [tx EXCEPT ![t] = Submission(n, actual, 0, "sent")]
        /\ UNCHANGED <<pol, ledger, balance, allowance, auth, spent, asides>>
    BY <1>2 DEF PrepareSettlement
  <2>2. Submission(n, actual, 0, "sent") \in SubmittedTx
    BY DEF Submission, SubmittedTx
  <2>3. UptoTypeOK'
    BY <2>1, <2>2 DEF UptoTypeOK, PolicyTypeOK
  <2>4. \A u \in Submissions : tx'[u] = IF u = t THEN Submission(n, actual, 0, "sent") ELSE tx[u]
    BY <2>1 DEF UptoTypeOK
  <2>5. Referenced'
    BY <2>1, <2>4 DEF Referenced, Submission
  <2>6. \A u \in Submissions : tx'[u] = tx[u] \/ (~Settled(u) /\ ~Settled(u)')
    BY <2>1, <2>4 DEF Settled, Submission
  <2> QED BY <2>1, <2>3, <2>5, <2>6, Untouched
<1>3. ASSUME NEW t \in Submissions, SettleSucceeds(t) PROVE Inv'
  <2>1. /\ PolicyTypeOK' /\ Idle' /\ BudgetKept' /\ PaidOncePerId'
    BY <1>3, PolicySettleStep, PaidOnceStep
  <2>2. /\ balance' \in [Holders -> Nat] /\ allowance' \in [Payers -> Nat]
        /\ ContractKeepsNothing'
    BY <1>3, MoneySettleStep
  <2>3. /\ tx[t] # None /\ auth' = auth /\ ledger' = ledger /\ asides' = asides
        /\ spent' = spent \cup {tx[t].sig}
        /\ tx' = [tx EXCEPT ![t] = Submission(tx[t].sig, tx[t].actual, ledger, "SUCCESS")]
    BY <1>3 DEF SettleSucceeds
  <2>4. /\ Submission(tx[t].sig, tx[t].actual, ledger, "SUCCESS") \in SubmittedTx
        /\ tx[t].sig \in Signatures
    <3>1. tx[t].sig \in Signatures /\ tx[t].actual \in 0 .. MaxAmount
      BY <2>3, SettledTerms
    <3>2. ledger \in Nat
      BY PolicyAssumption DEF UptoTypeOK
    <3> QED BY <3>1, <3>2 DEF Submission, SubmittedTx
  <2>5. UptoTypeOK'
    BY <2>1, <2>2, <2>3, <2>4 DEF UptoTypeOK
  <2>6. Referenced'
    BY <2>3 DEF Referenced, UptoTypeOK, Submission
  <2> QED BY <2>1, <2>2, <2>5, <2>6
<1>4. ASSUME NEW t \in Submissions, SettleFails(t) PROVE Inv'
  <2>1. /\ tx[t] # None /\ tx[t].state = "sent"
        /\ tx' = [tx EXCEPT ![t] = Submission(tx[t].sig, tx[t].actual, 0, "FAILED")]
        /\ UNCHANGED <<pol, ledger, balance, allowance, auth, spent, asides>>
    BY <1>4 DEF SettleFails
  <2>2. Submission(tx[t].sig, tx[t].actual, 0, "FAILED") \in SubmittedTx
    BY <2>1, SettledTerms DEF Submission, SubmittedTx
  <2>3. UptoTypeOK'
    BY <2>1, <2>2 DEF UptoTypeOK, PolicyTypeOK
  <2>4. Referenced'
    BY <2>1 DEF Referenced, UptoTypeOK, Submission
  <2>5. \A u \in Submissions : tx'[u] = tx[u] \/ (~Settled(u) /\ ~Settled(u)')
    BY <2>1 DEF Settled, Submission, UptoTypeOK
  <2> QED BY <2>1, <2>3, <2>4, <2>5, Untouched
<1>5. ASSUME LedgerCloses PROVE Inv'
  <2>1. /\ ledger' \in 0 .. MaxLedger
        /\ UNCHANGED <<pol, balance, allowance, auth, spent, tx, asides>>
    BY <1>5, PolicyAssumption DEF LedgerCloses, UptoTypeOK
  <2>2. UptoTypeOK' /\ Referenced'
    BY <2>1 DEF UptoTypeOK, Referenced, PolicyTypeOK
  <2> QED BY <2>1, <2>2, Untouched
<1>6. ASSUME NEW p \in Payers, Withdraw(p) PROVE Inv'
  <2>1. /\ balance[p] > 0 /\ balance' = Move(balance, p, Outside, 1)
        /\ asides' \in 0 .. MaxAside
        /\ UNCHANGED <<pol, ledger, allowance, auth, spent, tx>>
    BY <1>6, UptoAssumption DEF Withdraw, Aside, UptoTypeOK
  <2>2. p \in Holders /\ Outside \in Holders /\ balance \in [Holders -> Nat]
    BY DEF Holders, UptoTypeOK
  <2>3. balance' \in [Holders -> Nat]
    <3>1. balance[p] \in Nat
      BY <2>2
    <3>2. balance[p] >= 1
      BY <2>1, <3>1
    <3> QED BY <2>1, <2>2, <3>2, MoveTyped
  <2>4. balance'[Contract] = balance[Contract]
    <3>1. Contract \in Holders /\ Contract # p /\ Contract # Outside
      BY UptoAssumption DEF Holders
    <3> QED BY <2>1, <2>2, <3>1 DEF Move
  <2>5. UptoTypeOK' /\ Referenced'
    BY <2>1, <2>3 DEF UptoTypeOK, Referenced, PolicyTypeOK
  <2> QED BY <2>1, <2>4, <2>5, Untouched
<1>7. ASSUME NEW w \in Wallets, NEW amount \in Amounts, ApproveAside(w, amount) PROVE Inv'
  <2>1. /\ allowance' = [allowance EXCEPT ![w] = amount]
        /\ asides' \in 0 .. MaxAside
        /\ UNCHANGED <<pol, ledger, balance, auth, spent, tx>>
    BY <1>7, UptoAssumption DEF ApproveAside, Aside, UptoTypeOK
  <2>2. UptoTypeOK' /\ Referenced'
    <3>1. allowance' \in [Payers -> Nat]
      BY <2>1, PolicyAssumption DEF UptoTypeOK, Amounts, Payers
    <3> QED BY <2>1, <3>1 DEF UptoTypeOK, Referenced, PolicyTypeOK
  <2> QED BY <2>1, <2>2, Untouched
<1>8. ASSUME NEW a \in Agents, ConfigureAccount(a) PROVE Inv'
  <2>1. PolicyTypeOK' /\ Idle' /\ BudgetKept'
    BY <1>8, ConfigureStep
  <2>2. /\ asides' \in 0 .. MaxAside /\ pol'.res = pol.res
        /\ UNCHANGED <<ledger, balance, allowance, auth, spent, tx>>
    <3>1. asides' \in 0 .. MaxAside /\ UNCHANGED <<ledger, balance, allowance, auth, spent, tx>>
      BY <1>8, UptoAssumption DEF ConfigureAccount, Aside, UptoTypeOK
    <3>2. pol'.res = pol.res
      <4>1. \E k \in RuleIds : \E row : pol' = WithRule(pol, a, k, row)
        BY <1>8 DEF ConfigureAccount, InstallBudget, InstallApproval, Uninstall
      <4> QED BY <4>1 DEF WithRule
    <3> QED BY <3>1, <3>2
  <2>3. UptoTypeOK' /\ Referenced' /\ ContractKeepsNothing'
    BY <2>1, <2>2 DEF UptoTypeOK, Referenced, ContractKeepsNothing
  <2>4. PaidOncePerId'
    BY <2>2 DEF PaidOncePerId, Settled, TermsOf
  <2> QED BY <2>1, <2>3, <2>4
<1>9. CASE UNCHANGED uptoVars
  <2>1. UptoTypeOK' /\ Referenced'
    BY <1>9 DEF UptoTypeOK, Referenced, uptoVars, PolicyTypeOK
  <2> QED BY <1>9, <2>1, Untouched DEF uptoVars
<1> QED BY <1>1, <1>2, <1>3, <1>4, <1>5, <1>6, <1>7, <1>8, <1>9 DEF UptoNext

LEMMA InvAlways == UptoSpec => []Inv
BY InitInv, InvStep, PTL DEF UptoSpec

\* Rules, reservations, balances, authorizations and transactions keep their types: no
\* balance, no budget and no allowance is ever negative.
THEOREM UptoTypeCorrect == UptoSpec => []UptoTypeOK
<1>1. Inv => UptoTypeOK
  BY DEF Inv
<1> QED BY <1>1, InvAlways, PTL

\* Whatever budgets an account has, what they commit is within their limits.
THEOREM BudgetsKept == UptoSpec => []BudgetKept
<1>1. Inv => BudgetKept
  BY DEF Inv
<1> QED BY <1>1, InvAlways, PTL

\* An agent pays at most once under an identifier.
THEOREM AgentPaysOnce == UptoSpec => []PaidOncePerId
<1>1. Inv => PaidOncePerId
  BY DEF Inv
<1> QED BY <1>1, InvAlways, PTL

\* An account's permission to approve is worth nothing outside of a settlement.
THEOREM BudgetIsOnlyRoute == UptoSpec => []NoRouteAroundBudget
<1>1. Inv => NoRouteAroundBudget
  BY DEF Inv, Idle, NoRouteAroundBudget, ApprovalAllows, NoticeAllowed
<1> QED BY <1>1, InvAlways, PTL

\* A settlement leaves nothing approved, whether approve adds or sets.
THEOREM AllowanceConsumed == UptoSpec => NothingStaysApproved
<1> DEFINE Left == \A t \in Submissions :
                     (Settled(t)' /\ ~Settled(t)) => allowance'[TermsOf(t).payer] = 0
<1>1. Inv /\ [UptoNext]_uptoVars => [Left]_uptoVars
  <2> SUFFICES ASSUME Inv, UptoNext, NEW t \in Submissions, Settled(t)', ~Settled(t)
               PROVE  allowance'[TermsOf(t).payer] = 0
    OBVIOUS
  <2>1. tx' # tx
    BY DEF Settled
  <2>2. CASE \E u \in Submissions, n \in Signatures, actual \in 0 .. MaxAmount :
               PrepareSettlement(u, n, actual)
    BY <2>2 DEF PrepareSettlement, Submission, Inv, UptoTypeOK, Settled
  <2>3. ASSUME NEW u \in Submissions, SettleFails(u) PROVE FALSE
    BY <2>3 DEF SettleFails, Submission, Inv, UptoTypeOK, Settled
  <2>4. ASSUME NEW u \in Submissions, SettleSucceeds(u) PROVE u = t
    BY <2>4 DEF SettleSucceeds, Inv, UptoTypeOK, Settled
  <2>5. ASSUME SettleSucceeds(t) PROVE allowance'[TermsOf(t).payer] = 0
    BY <2>5, MoneySettleStep DEF Inv
  <2>6. \E u \in Submissions : SettleSucceeds(u)
    BY <2>1, <2>2, <2>3 DEF UptoNext, Sign, LedgerCloses, Withdraw, ApproveAside, ConfigureAccount,
       PrepareSettlement, Submission, Inv, UptoTypeOK, Settled
  <2> QED BY <2>4, <2>5, <2>6
<1> QED BY <1>1, InvAlways, PTL DEF UptoSpec, NothingStaysApproved

\* What a budget has committed falls only when its window, having lasted its period, moves on.
THEOREM WindowsMoveOn == UptoSpec => WindowsMoveForward
<1> DEFINE Forward(a, r) ==
      (IsBudget(pol, a, r) /\ IsBudget(pol', a, r)) =>
        /\ pol'.rule[a][r].start >= pol.rule[a][r].start
        /\ pol'.rule[a][r].committed < pol.rule[a][r].committed
             => pol'.rule[a][r].start >= pol.rule[a][r].start + pol.rule[a][r].period
<1>1. Inv /\ [UptoNext]_uptoVars => [\A a \in Agents, r \in RuleIds : Forward(a, r)]_uptoVars
  <2> SUFFICES ASSUME Inv, UptoNext, NEW a \in Agents, NEW r \in RuleIds,
                      IsBudget(pol, a, r), IsBudget(pol', a, r)
               PROVE  /\ pol'.rule[a][r].start >= pol.rule[a][r].start
                      /\ pol'.rule[a][r].committed < pol.rule[a][r].committed
                           => pol'.rule[a][r].start >= pol.rule[a][r].start + pol.rule[a][r].period
    OBVIOUS
  <2>1. PolicyTypeOK /\ ledger \in Nat
    BY PolicyAssumption DEF Inv, UptoTypeOK
  <2>2. /\ pol.rule[a][r] \in BudgetRow
        /\ pol.rule[a][r].start \in Nat /\ pol.rule[a][r].period \in Nat
        /\ pol.rule[a][r].committed \in Nat
    <3>1. pol.rule[a][r] \in BudgetRow
      BY <2>1, BudgetTyped
    <3> QED BY <3>1, PolicyAssumption DEF BudgetRow
  <2>3. CASE pol'.rule[a][r] = pol.rule[a][r]
    BY <2>2, <2>3
  <2>4. ASSUME NEW t \in Submissions, SettleSucceeds(t), pol'.rule[a][r] # pol.rule[a][r]
        PROVE  /\ pol'.rule[a][r].start >= pol.rule[a][r].start
               /\ pol'.rule[a][r].committed < pol.rule[a][r].committed
                    => pol'.rule[a][r].start >= pol.rule[a][r].start + pol.rule[a][r].period
    <3> DEFINE e == TermsOf(t)
               actual == tx[t].actual
               w == Spent(e, ledger, actual)
    <3>1. /\ e \in SignedTerms /\ actual \in Nat /\ actual \in 0 .. MaxAmount
          /\ e.payer \in Payers /\ e.root \in RuleIds
      BY <2>4, SettledTerms, PolicyAssumption DEF Inv, SettleSucceeds, SignedTerms
    <3>2. /\ Authorized(pol, e, ledger)
          /\ pol' = AfterNotice(AfterAuth(pol, e, ledger), e, actual)
      BY <2>4 DEF SettleSucceeds, Settles, TermsOf
    <3>3. e.payer \in Agents
      BY <2>4, <3>2 DEF AfterAuth, AfterNotice
    <3>4. pol'.rule = Put(pol.rule, e.payer, e.root, w)
      BY <2>1, <3>1, <3>2, <3>3, PolicySettles
    <3>5. a = e.payer /\ r = e.root /\ pol'.rule[a][r] = w
      <4> HIDE DEF w
      <4>1. pol'.rule[a][r] = IF a = e.payer /\ r = e.root THEN w ELSE pol.rule[a][r]
        BY <2>1, <3>1, <3>3, <3>4 DEF Put, PolicyTypeOK
      <4> QED BY <2>4, <4>1
    <3> DEFINE b == Refreshed(pol.rule[a][r], ledger)
    <3>6. w = Charged(b, b.committed + actual)
      BY <3>5 DEF Spent
    <3>7. /\ b \in BudgetRow
          /\ b.committed < pol.rule[a][r].committed
               => ledger - pol.rule[a][r].start >= pol.rule[a][r].period /\ b.start = ledger
          /\ b.start >= pol.rule[a][r].start
      BY <2>1, <2>2 DEF Refreshed, NewBudget, BudgetRow
    <3>8. b.committed \in Nat /\ b.start \in Nat
      BY <3>7 DEF BudgetRow
    <3> HIDE DEF b, w
    <3>9. w.start = b.start /\ w.committed = b.committed + actual
      BY <3>6 DEF Charged
    <3> QED BY <2>1, <2>2, <3>1, <3>5, <3>7, <3>8, <3>9
  <2>5. ASSUME NEW i \in Agents, ConfigureAccount(i) PROVE pol'.rule[a][r] = pol.rule[a][r]
    <3>1. PICK k \in RuleIds : \E row : /\ pol' = WithRule(pol, i, k, row)
                                        /\ pol.rule[i][k] = None \/ row = Removed
      BY <2>5 DEF ConfigureAccount, InstallBudget, InstallApproval, Uninstall, NextRule
    <3>2. PICK row : /\ pol' = WithRule(pol, i, k, row)
                     /\ pol.rule[i][k] = None \/ row = Removed
      BY <3>1
    <3>3. pol'.rule[a][r] = IF a = i /\ r = k THEN row ELSE pol.rule[a][r]
      BY <2>1, <3>2 DEF WithRule, Put, PolicyTypeOK
    <3>4. ~(a = i /\ r = k)
      BY <3>2, <3>3 DEF IsBudget, Removed
    <3> QED BY <3>3, <3>4
  <2>6. CASE \E t \in Submissions : SettleSucceeds(t)
    BY <2>3, <2>4, <2>6
  <2>7. CASE ~\E t \in Submissions : SettleSucceeds(t)
    <3>1. pol'.rule[a][r] = pol.rule[a][r]
      BY <2>5, <2>7 DEF UptoNext, Sign, PrepareSettlement, SettleFails, LedgerCloses, Withdraw,
         ApproveAside
    <3> QED BY <2>3, <3>1
  <2> QED BY <2>6, <2>7
<1> QED BY <1>1, InvAlways, PTL DEF UptoSpec, WindowsMoveForward

-----------------------------------------------------------------------------
(* What verify promises. *)

\* Pull, payment and refund together move the actual amount, whoever is the recipient.
LEMMA PaymentBalanced ==
  ASSUME UptoTypeOK, NEW a \in SignedTerms, NEW actual \in Nat, actual <= a.max,
         a.payer # Contract, a.payTo # Contract
  PROVE  Balanced(balance, AfterPayment(balance, a, actual), a, actual)
<1> DEFINE p == a.payer
           m == a.payTo
           P == AfterPull(balance, a)
           Q == AfterPay(P, a, actual)
           R == AfterRefund(Q, a, actual)
<1>1. /\ p \in Holders /\ m \in Holders /\ Contract \in Holders
      /\ p # Contract /\ m # Contract /\ a.max \in Nat
      /\ \A h \in Holders : balance[h] \in Int
      /\ DOMAIN balance = Holders
  BY DEF SignedTerms, Holders, Payers, Amounts, UptoTypeOK
<1>2. /\ P[Contract] = balance[Contract] + a.max /\ P[p] = balance[p] - a.max
      /\ m # p => P[m] = balance[m]
      /\ DOMAIN P = Holders
  BY <1>1 DEF AfterPull, Move
<1>3. /\ Q[Contract] = P[Contract] - actual
      /\ Q[p] = IF m = p THEN P[p] + actual ELSE P[p]
      /\ m # p => Q[m] = P[m] + actual
      /\ DOMAIN Q = Holders
  <2>1. /\ P[Contract] \in Int /\ P[p] \in Int /\ P[m] \in Int
    BY <1>1, <1>2
  <2> HIDE DEF P
  <2> QED BY <1>1, <1>2, <2>1 DEF AfterPay, Move
<1>4. /\ R[Contract] = Q[Contract] - (a.max - actual)
      /\ R[p] = Q[p] + (a.max - actual)
      /\ m # p => R[m] = Q[m]
  <2>1. /\ Q[Contract] \in Int /\ Q[p] \in Int /\ Q[m] \in Int
    BY <1>1, <1>2, <1>3
  <2> HIDE DEF Q
  <2> QED BY <1>1, <1>3, <2>1 DEF AfterRefund, Move
<1>5. AfterPayment(balance, a, actual) = R
  BY DEF AfterPayment
<1> HIDE DEF P, Q, R
<1> QED BY <1>1, <1>2, <1>3, <1>4, <1>5 DEF Balanced

\* What verify finds to settle at the maximum can be settled, now, at any amount up to it.
THEOREM VerifyCovers == UptoSpec => []VerifyCoversSettle
<1>1. ASSUME Inv PROVE VerifyCoversSettle
  <2> SUFFICES ASSUME NEW s \in Signatures, NEW adds \in Additive, auth[s] # None,
                      VerifyAccepts(auth[s], adds), NEW actual \in 0 .. auth[s].max
               PROVE  TermsAccepted(auth[s], actual) /\ Settles(auth[s], actual, ledger, adds)
    BY DEF VerifyCoversSettle
  <2> DEFINE a == auth[s]
             top == AfterPayment(balance, a, a.max)
             paid == AfterPayment(balance, a, actual)
  <2>1. /\ a \in SignedTerms /\ a.max \in Nat /\ a.max > 0 /\ UptoTypeOK
        /\ a.payTo \in Holders /\ Outside \in Holders /\ Outside # a.payTo
        /\ a.hook \in Hooks \cup {None}
    BY <1>1, UptoAssumption, PolicyAssumption DEF Inv, UptoTypeOK, SignedTerms, Amounts, Holders
  <2>2. /\ TermsAccepted(a, a.max) /\ TransfersExpected(a, a.max)
        /\ Settles(a, a.max, ledger, adds)
    BY DEF VerifyAccepts
  <2>3. /\ Valid(a, a.max, ledger) /\ Authorized(pol, a, ledger)
        /\ AfterApprove(a, adds) = a.max /\ balance[a.payer] >= a.max
        /\ AllowanceLeft(a, adds) = 0 /\ Balanced(balance, top, a, a.max)
        /\ a.hook = Policy => NoticeAccepted(AfterAuth(pol, a, ledger), a, a.max)
    BY <2>2 DEF Settles
  <2>4. a.hook # Meddler
    <3> SUFFICES ASSUME a.hook = Meddler PROVE FALSE
      OBVIOUS
    <3>1. top \in [Holders -> Nat]
      <4>1. a.max \in 0 .. MaxAmount /\ ledger \in Nat
        BY <2>1, PolicyAssumption DEF SignedTerms, Amounts, UptoTypeOK
      <4> QED BY <2>1, <2>3, <4>1, PaymentTyped
    <3>2. AfterHook(top, a) = top
      BY <2>2 DEF TransfersExpected
    <3>3. top[a.payTo] > 0
      <4>1. a.payer \in Holders /\ balance \in [Holders -> Nat]
        BY <2>1 DEF SignedTerms, Holders, UptoTypeOK
      <4>2. balance[a.payTo] \in Nat /\ balance[a.payer] \in Nat
        BY <2>1, <4>1
      <4> HIDE DEF top
      <4> QED BY <2>1, <2>3, <4>2 DEF Balanced
    <3> HIDE DEF top
    <3>4. Move(top, a.payTo, Outside, 1)[a.payTo] = top[a.payTo] - 1
      BY <2>1, <3>1 DEF Move
    <3>5. top[a.payTo] \in Nat
      BY <2>1, <3>1
    <3> QED BY <3>2, <3>3, <3>4, <3>5 DEF AfterHook
  <2>5. Balanced(balance, paid, a, actual) /\ AfterHook(paid, a) = paid
    <3>1. a.payer # Contract /\ a.payTo # Contract /\ actual \in Nat /\ actual <= a.max
      BY <2>1, <2>3 DEF Valid
    <3> QED BY <2>1, <2>4, <3>1, PaymentBalanced DEF AfterHook
  <2>6. Valid(a, actual, ledger) /\ TermsAccepted(a, actual)
    BY <2>1, <2>2, <2>3 DEF Valid, TermsAccepted
  <2>7. a.hook = Policy => NoticeAccepted(AfterAuth(pol, a, ledger), a, actual)
    <3> DEFINE q == AfterAuth(pol, a, ledger)
    <3>1. a.hook = Policy => NoticeAccepted(q, a, a.max)
      BY <2>3
    <3> HIDE DEF q
    <3>2. a.hook = Policy => NoticeAccepted(q, a, actual)
      BY <2>1, <3>1 DEF NoticeAccepted, NoticeAllowed
    <3> QED BY <3>2 DEF q
  <2> HIDE DEF paid
  <2> QED BY <2>3, <2>5, <2>6, <2>7 DEF Settles, paid
<1> QED BY <1>1, InvAlways, PTL
-----------------------------------------------------------------------------
(* What was paid: balances and budgets against the settled transactions. *)

\* A window began in the past, and what was settled under a budget was settled before its
\* window ends; a rule that paid is never again one that could be added.
Windowed ==
  /\ \A a \in Agents, r \in RuleIds : IsBudget(pol, a, r) => pol.rule[a][r].start <= ledger
  /\ \A t \in Submissions : (Settled(t) /\ TermsOf(t).payer \in Agents) =>
       LET row == pol.rule[TermsOf(t).payer][TermsOf(t).root]
       IN row # None /\ (row.kind = "budget" => tx[t].at < row.start + row.period)

Accounting ==
  /\ IsFiniteSet({t \in Submissions : Settled(t)})
  /\ Windowed /\ FundsConserved /\ CommittedIsPaid

LEMMA PaidNumbers ==
  ASSUME UptoTypeOK, NEW T \in SUBSET {t \in Submissions : Settled(t)}
  PROVE  \A t \in T : tx[t].actual \in Nat
BY PolicyAssumption DEF UptoTypeOK, Settled, SubmittedTx

\* What is paid by a set of transactions, one of which was settled by this step.
LEMMA PaidMore ==
  ASSUME UptoTypeOK, UptoTypeOK', IsFiniteSet({u \in Submissions : Settled(u)}),
         NEW t \in Submissions, ~Settled(t), Settled(t)', NEW n \in Nat, tx'[t].actual = n,
         \A u \in Submissions \ {t} : tx'[u] = tx[u],
         NEW T \in SUBSET {u \in Submissions : Settled(u)},
         NEW U \in SUBSET {u \in Submissions : Settled(u)'}, U \ {t} = T
  PROVE  /\ SumFunction([u \in T |-> tx[u].actual]) \in Nat
         /\ SumFunction([u \in U |-> tx'[u].actual])
              = SumFunction([u \in T |-> tx[u].actual]) + (IF t \in U THEN n ELSE 0)
<1> DEFINE f == [u \in T |-> tx[u].actual]
           g == [u \in U |-> tx'[u].actual]
<1>1. IsFiniteSet(T)
  BY FS_Subset
<1>2. \A u \in T : u \in Submissions \ {t} /\ tx[u].actual \in Nat /\ tx'[u].actual = tx[u].actual
  BY PolicyAssumption DEF UptoTypeOK, Settled, SubmittedTx
<1>3. t \in U => g[t] = n
  OBVIOUS
<1>4. Completes(g, U, f, t)
  BY <1>1, <1>2 DEF Completes
<1> HIDE DEF f, g
<1>5. SumFunction(f) \in Nat /\ SumFunction(g) = (IF t \in U THEN g[t] ELSE 0) + SumFunction(f)
  BY <1>4, SumSplits
<1>6. CASE t \in U
  <2>1. SumFunction(g) = n + SumFunction(f)
    BY <1>3, <1>5, <1>6
  <2> QED BY <1>5, <1>6, <2>1 DEF f, g
<1>7. CASE t \notin U
  <2>1. SumFunction(g) = 0 + SumFunction(f)
    BY <1>5, <1>7
  <2> QED BY <1>5, <1>7, <2>1 DEF f, g
<1> QED BY <1>6, <1>7

\* A settlement moves the actual amount, and no account but the payer, the recipient and
\* that of a meddling hook notices.
LEMMA SettlementMoves ==
  ASSUME UptoTypeOK, Referenced, NEW t \in Submissions, SettleSucceeds(t)
  PROVE  /\ SumFunction(balance') = SumFunction(balance)
         /\ \A m \in Recipients \ Payers :
              balance'[m] = balance[m] + (IF m = TermsOf(t).payTo THEN tx[t].actual ELSE 0)
<1> DEFINE a == TermsOf(t)
           actual == tx[t].actual
           paid == AfterPayment(balance, a, actual)
<1>1. /\ a \in SignedTerms /\ actual \in 0 .. MaxAmount /\ actual \in Nat
      /\ a.payer \in Payers /\ a.payTo \in Recipients
      /\ ledger \in Nat /\ a.max \in Nat /\ balance \in [Holders -> Nat]
  BY SettledTerms, PolicyAssumption DEF UptoTypeOK, SettleSucceeds, SignedTerms, Amounts
<1>2. PICK adds \in Additive :
        /\ Settles(a, actual, ledger, adds)
        /\ balance' = AfterHook(paid, a)
  BY DEF SettleSucceeds, TermsOf
<1>3. /\ Valid(a, actual, ledger) /\ balance[a.payer] >= a.max
      /\ Balanced(balance, paid, a, actual)
      /\ a.hook # None => Balanced(balance, AfterHook(paid, a), a, actual)
  BY <1>2 DEF Settles
<1>4. /\ paid \in [Holders -> Nat] /\ SumFunction(paid) = SumFunction(balance)
  BY <1>1, <1>3, PaymentTyped
<1>5. SumFunction(balance') = SumFunction(balance)
  <2> HIDE DEF paid, a
  <2> QED BY <1>1, <1>2, <1>4, HookTyped
<1>6. Balanced(balance, balance', a, actual)
  <2>1. CASE a.hook # None
    BY <1>2, <1>3, <2>1
  <2>2. CASE a.hook = None
    <3>1. balance' = paid
      BY <1>2, <2>2, UptoAssumption DEF AfterHook, Hooks
    <3> QED BY <1>3, <3>1
  <2> QED BY <2>1, <2>2
<1>7. ASSUME NEW m \in Recipients \ Payers, m # a.payTo
      PROVE  balance'[m] = balance[m]
  <2>1. m \in Holders /\ m # Contract /\ m # Outside /\ m # a.payer
    BY <1>1, <1>7, UptoAssumption DEF Holders
  <2>2. paid[m] = balance[m]
    BY <1>1, <1>7, <2>1 DEF AfterPayment, AfterPull, AfterPay, AfterRefund, Move
  <2>3. AfterHook(paid, a)[m] = paid[m]
    <3> HIDE DEF paid
    <3> QED BY <1>4, <1>7, <2>1 DEF AfterHook, Move
  <2> QED BY <1>2, <2>2, <2>3
<1>8. ASSUME NEW m \in Recipients \ Payers, m = a.payTo
      PROVE  balance'[m] = balance[m] + actual
  BY <1>1, <1>6, <1>8 DEF Balanced
<1>9. \A m \in Recipients \ Payers : balance[m] \in Nat /\ balance[m] + 0 = balance[m]
  BY <1>1 DEF Holders
<1> HIDE DEF a, actual
<1>10. \A m \in Recipients \ Payers : balance'[m] = balance[m] + (IF m = a.payTo THEN actual ELSE 0)
  BY <1>7, <1>8, <1>9
<1> QED BY <1>5, <1>10 DEF a, actual


\* Steps that settle nothing: the settled transactions and their terms stay.
SettledStay ==
  \A t \in Submissions :
    /\ Settled(t)' <=> Settled(t)
    /\ Settled(t) => tx'[t] = tx[t] /\ (TermsOf(t))' = TermsOf(t)

LEMMA PaidStays ==
  ASSUME SettledStay, NEW T \in SUBSET {t \in Submissions : Settled(t)}
  PROVE  [t \in T |-> tx'[t].actual] = [t \in T |-> tx[t].actual]
BY DEF SettledStay

LEMMA MoneyStays ==
  ASSUME SettledStay, Accounting, ContractKeepsNothing',
         SumFunction(balance') = SumFunction(balance),
         \A m \in Recipients \ Payers : balance'[m] = balance[m]
  PROVE  IsFiniteSet({t \in Submissions : Settled(t)})' /\ FundsConserved'
<1>1. {t \in Submissions : Settled(t)}' = {t \in Submissions : Settled(t)}
  BY DEF SettledStay
<1>2. ASSUME NEW m \in Recipients \ Payers
      PROVE  balance'[m] = Endowment[m] + PaidBy(PaidTo(m))'
  <2>1. PaidTo(m)' = PaidTo(m)
    BY DEF PaidTo, SettledStay
  <2>2. PaidTo(m) \in SUBSET {t \in Submissions : Settled(t)}
    BY DEF PaidTo
  <2>3. PaidBy(PaidTo(m))' = PaidBy(PaidTo(m))
    BY <2>1, <2>2, PaidStays DEF PaidBy
  <2> QED BY <2>3 DEF Accounting, FundsConserved
<1> QED BY <1>1, <1>2 DEF Accounting, FundsConserved

\* A rule that is what it was has committed what it had.
LEMMA RuleStays ==
  ASSUME SettledStay, Accounting, NEW a \in Agents, NEW r \in RuleIds,
         pol'.rule[a][r] = pol.rule[a][r], IsBudget(pol', a, r)
  PROVE  pol'.rule[a][r].committed = PaidBy(PaidUnder(a, r))'
<1>1. PaidUnder(a, r)' = PaidUnder(a, r)
  BY DEF PaidUnder, SettledStay
<1>2. PaidUnder(a, r) \in SUBSET {t \in Submissions : Settled(t)}
  BY DEF PaidUnder
<1>3. PaidBy(PaidUnder(a, r))' = PaidBy(PaidUnder(a, r))
  BY <1>1, <1>2, PaidStays DEF PaidBy
<1> QED BY <1>3 DEF Accounting, CommittedIsPaid, IsBudget

LEMMA BudgetsStay ==
  ASSUME SettledStay, Accounting, UptoTypeOK, BudgetKept', pol' = pol,
         ledger' \in Nat, ledger' >= ledger
  PROVE  Windowed' /\ CommittedIsPaid'
<1>1. CommittedIsPaid'
  BY RuleStays DEF CommittedIsPaid
<1>2. Windowed'
  <2>1. ASSUME NEW a \in Agents, NEW r \in RuleIds, IsBudget(pol', a, r)
        PROVE  pol'.rule[a][r].start <= ledger'
    <3>1. IsBudget(pol, a, r) /\ pol.rule[a][r] \in BudgetRow
      BY <2>1, BudgetTyped DEF UptoTypeOK
    <3>2. pol.rule[a][r].start \in Nat /\ ledger \in Nat
      BY <3>1, PolicyAssumption DEF BudgetRow, UptoTypeOK
    <3>3. pol.rule[a][r].start <= ledger
      BY <3>1 DEF Accounting, Windowed
    <3> QED BY <3>2, <3>3
  <2>2. ASSUME NEW t \in Submissions, Settled(t)', TermsOf(t)'.payer \in Agents
        PROVE  LET row == pol'.rule[TermsOf(t)'.payer][TermsOf(t)'.root]
               IN row # None /\ (row.kind = "budget" => tx'[t].at < row.start + row.period)
    <3>1. Settled(t) /\ tx'[t] = tx[t] /\ (TermsOf(t))' = TermsOf(t)
      BY <2>2 DEF SettledStay
    <3> QED BY <2>2, <3>1 DEF Accounting, Windowed
  <2> QED BY <2>1, <2>2 DEF Windowed
<1> QED BY <1>1, <1>2

LEMMA ConfigureAccounts ==
  ASSUME Inv, Inv', Accounting, NEW a \in Agents, ConfigureAccount(a)
  PROVE  Accounting'
<1>1. /\ UNCHANGED <<ledger, balance, allowance, auth, spent, tx>>
      /\ PolicyTypeOK /\ UptoTypeOK /\ ledger \in Nat
  BY PolicyAssumption DEF ConfigureAccount, Inv, UptoTypeOK
<1>2. PICK r \in RuleIds, row \in BudgetRow \cup ApprovalRow \cup {Removed} :
        /\ pol' = WithRule(pol, a, r, row)
        /\ row # None
        /\ row.kind = "budget" => /\ pol.rule[a][r] = None
                                  /\ row.start = ledger /\ row.committed = 0
  <2>1. CASE \E r \in RuleIds, limit \in Limits, period \in Periods :
               InstallBudget(a, r, limit, period, ledger)
    <3>1. PICK r \in RuleIds, limit \in Limits, period \in Periods :
                 InstallBudget(a, r, limit, period, ledger)
      BY <2>1
    <3> DEFINE row == NewBudget(limit, period, ledger)
    <3>2. row \in BudgetRow /\ row.start = ledger /\ row.committed = 0
      BY <1>1 DEF NewBudget, BudgetRow
    <3>3. pol' = WithRule(pol, a, r, row) /\ pol.rule[a][r] = None
      BY <3>1 DEF InstallBudget, NextRule
    <3> HIDE DEF row
    <3> QED BY <3>2, <3>3, NoneAssumption
  <2>2. CASE \E r, of \in RuleIds : InstallApproval(a, r, of)
    <3>1. PICK r \in RuleIds, of \in RuleIds : InstallApproval(a, r, of)
      BY <2>2
    <3> DEFINE row == [kind |-> "approval", rule |-> of]
    <3>2. row \in ApprovalRow /\ row.kind = "approval"
      BY DEF ApprovalRow
    <3>3. pol' = WithRule(pol, a, r, row)
      BY <3>1 DEF InstallApproval
    <3> HIDE DEF row
    <3> QED BY <3>2, <3>3, NoneAssumption
  <2>3. CASE \E r \in RuleIds : Uninstall(a, r)
    <3>1. PICK r \in RuleIds : Uninstall(a, r)
      BY <2>3
    <3>2. Removed # None /\ Removed.kind # "budget"
      BY NoneAssumption DEF Removed
    <3> QED BY <3>1, <3>2 DEF Uninstall
  <2> QED BY <2>1, <2>2, <2>3, <1>1 DEF ConfigureAccount
<1>3. \A i \in Agents, k \in RuleIds :
        pol'.rule[i][k] = IF i = a /\ k = r THEN row ELSE pol.rule[i][k]
  BY <1>1, <1>2 DEF WithRule, Put, PolicyTypeOK
<1>4. SettledStay
  BY <1>1 DEF SettledStay, Settled, TermsOf
<1>5. IsFiniteSet({t \in Submissions : Settled(t)})' /\ FundsConserved'
  BY <1>1, <1>4, MoneyStays DEF Inv
<1>6. \A t \in Submissions : (Settled(t) /\ TermsOf(t).payer \in Agents) =>
        /\ TermsOf(t).root \in RuleIds
        /\ pol.rule[TermsOf(t).payer][TermsOf(t).root] # None
  <2>1. \A t \in Submissions : Settled(t) => TermsOf(t).root \in RuleIds
    BY SettledTerms DEF Inv, Settled, SignedTerms
  <2> QED BY <2>1 DEF Accounting, Windowed
<1>7. Windowed'
  <2>1. ASSUME NEW i \in Agents, NEW k \in RuleIds, IsBudget(pol', i, k)
        PROVE  pol'.rule[i][k].start <= ledger'
    BY <1>1, <1>2, <1>3, <2>1 DEF IsBudget, Accounting, Windowed
  <2>2. ASSUME NEW t \in Submissions, Settled(t)', TermsOf(t)'.payer \in Agents
        PROVE  LET then == pol'.rule[TermsOf(t)'.payer][TermsOf(t)'.root]
               IN then # None /\ (then.kind = "budget" => tx'[t].at < then.start + then.period)
    <3>1. Settled(t) /\ tx'[t] = tx[t] /\ TermsOf(t)' = TermsOf(t)
      BY <1>4, <2>2 DEF SettledStay
    <3> DEFINE e == TermsOf(t)
    <3>2. e.payer \in Agents /\ e.root \in RuleIds /\ pol.rule[e.payer][e.root] # None
      BY <1>6, <2>2, <3>1
    <3>3. CASE e.payer = a /\ e.root = r
      <4>1. pol'.rule[e.payer][e.root] = row /\ row # None /\ row.kind # "budget"
        BY <1>2, <1>3, <3>2, <3>3
      <4> QED BY <3>1, <4>1
    <3>4. CASE ~(e.payer = a /\ e.root = r)
      <4>1. pol'.rule[e.payer][e.root] = pol.rule[e.payer][e.root]
        BY <1>3, <3>2, <3>4
      <4> QED BY <3>1, <3>2, <4>1 DEF Accounting, Windowed
    <3> QED BY <3>3, <3>4
  <2> QED BY <2>1, <2>2 DEF Windowed
<1>8. ASSUME NEW i \in Agents, NEW k \in RuleIds, IsBudget(pol', i, k)
      PROVE  pol'.rule[i][k].committed = PaidBy(PaidUnder(i, k))'
  <2>1. CASE i = a /\ k = r
    <3>1. pol'.rule[i][k] = row /\ row.kind = "budget" /\ row.committed = 0 /\ pol.rule[i][k] = None
      BY <1>2, <1>3, <1>8, <2>1 DEF IsBudget
    <3>2. PaidUnder(i, k)' = {}
      BY <1>4, <1>6, <3>1 DEF PaidUnder, SettledStay
    <3>3. PaidBy(PaidUnder(i, k))' = 0
      <4> DEFINE f == [t \in PaidUnder(i, k)' |-> tx'[t].actual]
      <4>1. DOMAIN f = {}
        BY <3>2
      <4> HIDE DEF f
      <4>2. SumFunction(f) = 0
        BY <4>1, SumEmpty DEF SumFunction
      <4> QED BY <4>2 DEF f, PaidBy
    <3> QED BY <3>1, <3>3
  <2>2. CASE ~(i = a /\ k = r)
    BY <1>3, <1>4, <1>8, <2>2, RuleStays
  <2> QED BY <2>1, <2>2
<1> QED BY <1>5, <1>7, <1>8 DEF Accounting, CommittedIsPaid, Inv

\* The budget that a settlement is charged to: its window holds the ledger, and what it has
\* committed begins anew only after all that was paid in the window before.
LEMMA ChargedRule ==
  ASSUME UptoTypeOK, Referenced, Windowed, NEW t \in Submissions, SettleSucceeds(t),
         TermsOf(t).payer \in Agents
  PROVE  LET e == TermsOf(t)
             b == pol.rule[e.payer][e.root]
             w == Spent(e, ledger, tx[t].actual)
         IN /\ e.root \in RuleIds /\ IsBudget(pol, e.payer, e.root)
            /\ \A a \in Agents, r \in RuleIds :
                 pol'.rule[a][r] = IF a = e.payer /\ r = e.root THEN w ELSE pol.rule[a][r]
            /\ w # None /\ b \in BudgetRow /\ w \in BudgetRow
            /\ w.start <= ledger /\ ledger < w.start + w.period
            /\ \/ w.start = b.start /\ w.period = b.period /\ w.committed = b.committed + tx[t].actual
               \/ /\ w.start = ledger /\ b.start + b.period <= ledger
                  /\ w.committed = tx[t].actual
<1> DEFINE e == TermsOf(t)
           p == e.payer
           b == pol.rule[p][e.root]
           f == Refreshed(b, ledger)
           actual == tx[t].actual
           w == Spent(e, ledger, actual)
<1>1. /\ e \in SignedTerms /\ actual \in Nat /\ actual \in 0 .. MaxAmount
      /\ e.root \in RuleIds /\ PolicyTypeOK /\ ledger \in Nat
  BY SettledTerms, PolicyAssumption DEF UptoTypeOK, SettleSucceeds, SignedTerms
<1>2. /\ Authorized(pol, e, ledger)
      /\ pol' = AfterNotice(AfterAuth(pol, e, ledger), e, actual)
  BY DEF SettleSucceeds, Settles, TermsOf
<1>3. IsBudget(pol, p, e.root)
  BY <1>2 DEF Authorized, EnforceAllows
<1>4. pol'.rule = Put(pol.rule, p, e.root, w)
  BY <1>1, <1>2, PolicySettles
<1>5. \A a \in Agents, r \in RuleIds :
        pol'.rule[a][r] = IF a = p /\ r = e.root THEN w ELSE pol.rule[a][r]
  <2> HIDE DEF w
  <2> QED BY <1>1, <1>4 DEF Put, PolicyTypeOK
<1>6. b \in BudgetRow /\ b.start <= ledger
  BY <1>1, <1>3, BudgetTyped DEF Windowed
<1>7. /\ b.start \in Nat /\ b.period \in Nat /\ b.period > 0 /\ b.committed \in Nat
  <2> HIDE DEF b
  <2>1. b.period \in Nat \ {0}
    BY <1>6, PolicyAssumption DEF BudgetRow
  <2> QED BY <1>6, <2>1 DEF BudgetRow
<1>8. w = Charged(f, f.committed + actual)
  BY DEF Spent
<1> HIDE DEF w
<1>9. f \in BudgetRow
  BY <1>1, <1>6, RefreshedTyped
<1>10. CASE ledger - b.start >= b.period
  <2>1. f = NewBudget(b.limit, b.period, ledger)
    BY <1>10 DEF Refreshed
  <2>2. f.start = ledger /\ f.committed = 0 /\ f.period = b.period
    BY <2>1 DEF NewBudget
  <2> HIDE DEF f
  <2>3. w.start = ledger /\ w.committed = actual /\ w.period = b.period
    BY <1>1, <1>8, <2>2 DEF Charged
  <2>4. w \in BudgetRow
    BY <1>1, <1>8, <1>9, <2>2 DEF Charged, BudgetRow
  <2>5. w # None
    BY <2>4, NoneAssumption
  <2>6. b.start + b.period <= ledger /\ ledger < ledger + b.period /\ ledger <= ledger
    BY <1>1, <1>7, <1>10
  <2> HIDE DEF b
  <2> QED BY <1>1, <1>3, <1>5, <1>6, <2>3, <2>4, <2>5, <2>6 DEF b, w
<1>11. CASE ~(ledger - b.start >= b.period)
  <2>1. f = b
    BY <1>11 DEF Refreshed
  <2> HIDE DEF f
  <2>2. w.start = b.start /\ w.committed = b.committed + actual /\ w.period = b.period
    BY <1>8, <2>1 DEF Charged
  <2>3. w \in BudgetRow
    BY <1>1, <1>7, <1>8, <1>9, <2>1 DEF Charged, BudgetRow
  <2>4. w # None
    BY <2>3, NoneAssumption
  <2>5. ledger < b.start + b.period
    BY <1>1, <1>7, <1>11
  <2> HIDE DEF b
  <2> QED BY <1>1, <1>3, <1>5, <1>6, <2>2, <2>3, <2>4, <2>5 DEF b, w
<1> QED BY <1>10, <1>11

LEMMA SettleAccounts ==
  ASSUME Inv, Inv', Accounting, NEW t \in Submissions, SettleSucceeds(t)
  PROVE  Accounting'
<1> DEFINE e == TermsOf(t)
           actual == tx[t].actual
           settled == {u \in Submissions : Settled(u)}
<1>1. /\ tx[t] # None /\ ~Settled(t) /\ auth' = auth /\ ledger' = ledger
      /\ tx' = [tx EXCEPT ![t] = Submission(tx[t].sig, actual, ledger, "SUCCESS")]
      /\ UptoTypeOK /\ UptoTypeOK' /\ Referenced /\ ledger \in Nat
  BY PolicyAssumption DEF SettleSucceeds, Settled, Inv, UptoTypeOK
<1>2. tx'[t] = Submission(tx[t].sig, actual, ledger, "SUCCESS")
  BY <1>1 DEF UptoTypeOK
<1>3. /\ tx'[t].actual = actual /\ tx'[t].at = ledger /\ tx'[t].sig = tx[t].sig
      /\ tx'[t].state = "SUCCESS" /\ tx'[t] # None
  <2>1. tx'[t] \in SubmittedTx
    <3>1. tx[t] \in SubmittedTx
      BY <1>1, SettledTerms
    <3> QED BY <1>1, <1>2, <3>1 DEF Submission, SubmittedTx
  <2> QED BY <1>2, <2>1, TermsAssumption DEF Submission
<1>4. \A u \in Submissions \ {t} : tx'[u] = tx[u]
  BY <1>1 DEF UptoTypeOK
<1>5. /\ Settled(t)' /\ actual \in Nat
      /\ \A u \in Submissions \ {t} : Settled(u)' <=> Settled(u)
      /\ \A u \in Submissions : TermsOf(u)' = TermsOf(u)
  <2>1. actual \in Nat
    BY <1>1, SettledTerms, PolicyAssumption
  <2> QED BY <1>1, <1>3, <1>4, <2>1 DEF Settled, TermsOf
<1>6. IsFiniteSet(settled) /\ IsFiniteSet(settled')
  <2>1. IsFiniteSet(settled)
    BY DEF Accounting
  <2>2. IsFiniteSet(settled \cup {t})
    BY <2>1, FS_AddElement
  <2>3. settled' \subseteq settled \cup {t}
    BY <1>5
  <2> QED BY <2>1, <2>2, <2>3, FS_Subset
<1>7. ASSUME NEW T \in SUBSET settled, NEW U \in SUBSET settled', U \ {t} = T
      PROVE  /\ PaidBy(T) \in Nat
             /\ SumFunction([u \in U |-> tx'[u].actual]) = PaidBy(T) + (IF t \in U THEN actual ELSE 0)
  <2> HIDE DEF actual
  <2> QED BY <1>1, <1>3, <1>4, <1>5, <1>6, <1>7, PaidMore DEF PaidBy
<1>8. FundsConserved'
  <2>1. /\ SumFunction(balance') = SumFunction(balance)
        /\ \A m \in Recipients \ Payers :
             balance'[m] = balance[m] + (IF m = e.payTo THEN actual ELSE 0)
    BY <1>1, SettlementMoves
  <2>2. ASSUME NEW m \in Recipients \ Payers
        PROVE  balance'[m] = Endowment[m] + PaidBy(PaidTo(m))'
    <3>1. /\ PaidTo(m) \in SUBSET settled /\ PaidTo(m)' \in SUBSET settled'
          /\ PaidTo(m)' \ {t} = PaidTo(m) /\ (t \in PaidTo(m)' <=> m = e.payTo)
      BY <1>1, <1>4, <1>5 DEF PaidTo
    <3>2. /\ PaidBy(PaidTo(m)) \in Nat
          /\ PaidBy(PaidTo(m))' = PaidBy(PaidTo(m)) + (IF t \in PaidTo(m)' THEN actual ELSE 0)
      <4> HIDE DEF settled, actual
      <4>1. /\ PaidBy(PaidTo(m)) \in Nat
            /\ SumFunction([u \in PaidTo(m)' |-> tx'[u].actual])
                 = PaidBy(PaidTo(m)) + (IF t \in PaidTo(m)' THEN actual ELSE 0)
        BY <1>7, <3>1
      <4> QED BY <4>1 DEF PaidBy
    <3>3. balance[m] = Endowment[m] + PaidBy(PaidTo(m)) /\ Endowment[m] \in Nat
      BY UptoAssumption DEF Accounting, FundsConserved, Holders
    <3> HIDE DEF actual, e
    <3> QED BY <1>5, <2>1, <3>1, <3>2, <3>3
  <2> QED BY <2>1, <2>2 DEF FundsConserved, Inv, Accounting
<1>9. /\ e.payer \notin Agents => pol' = pol
      /\ e.payer \in Agents => e.root \in RuleIds
  <2>1. e.payer \notin Agents => pol' = pol
    BY DEF SettleSucceeds, AfterAuth, AfterNotice, TermsOf
  <2> QED BY <1>1, <2>1, SettledTerms DEF SignedTerms
<1>10. \A u \in Submissions : (Settled(u) /\ TermsOf(u).payer \in Agents) =>
         /\ TermsOf(u).root \in RuleIds
         /\ LET row == pol.rule[TermsOf(u).payer][TermsOf(u).root]
            IN row # None /\ (row.kind = "budget" => tx[u].at < row.start + row.period)
  <2>1. \A u \in Submissions : Settled(u) => TermsOf(u).root \in RuleIds
    BY SettledTerms DEF Inv, Settled, SignedTerms
  <2> QED BY <2>1 DEF Accounting, Windowed
<1>11. ASSUME NEW i \in Agents, NEW k \in RuleIds, ~(i = e.payer /\ k = e.root)
       PROVE  /\ pol'.rule[i][k] = pol.rule[i][k]
              /\ PaidBy(PaidUnder(i, k))' = PaidBy(PaidUnder(i, k))
  <2>1. pol'.rule[i][k] = pol.rule[i][k]
    <3>1. CASE e.payer \in Agents
      BY <1>1, <1>11, <3>1, ChargedRule DEF Accounting
    <3> QED BY <1>9, <3>1
  <2>2. /\ PaidUnder(i, k) \in SUBSET settled /\ PaidUnder(i, k)' \in SUBSET settled'
        /\ PaidUnder(i, k)' \ {t} = PaidUnder(i, k) /\ t \notin PaidUnder(i, k)'
    BY <1>1, <1>4, <1>5, <1>11, <2>1 DEF PaidUnder
  <2>3. PaidBy(PaidUnder(i, k))' = PaidBy(PaidUnder(i, k))
    <3> HIDE DEF settled, actual
    <3>1. /\ PaidBy(PaidUnder(i, k)) \in Nat
          /\ SumFunction([u \in PaidUnder(i, k)' |-> tx'[u].actual])
               = PaidBy(PaidUnder(i, k)) + (IF t \in PaidUnder(i, k)' THEN actual ELSE 0)
      BY <1>7, <2>2
    <3>2. SumFunction([u \in PaidUnder(i, k)' |-> tx'[u].actual]) = PaidBy(PaidUnder(i, k)) + 0
      BY <2>2, <3>1
    <3> QED BY <3>1, <3>2 DEF PaidBy
  <2> QED BY <2>1, <2>3
<1>12. ASSUME NEW i \in Agents, NEW k \in RuleIds, IsBudget(pol', i, k),
              ~(i = e.payer /\ k = e.root)
       PROVE  /\ pol'.rule[i][k].start <= ledger'
              /\ pol'.rule[i][k].committed = PaidBy(PaidUnder(i, k))'
  BY <1>1, <1>11, <1>12 DEF Accounting, Windowed, CommittedIsPaid, IsBudget
<1>13. ASSUME NEW u \in Submissions \ {t}, Settled(u), TermsOf(u).payer \in Agents,
              ~(TermsOf(u).payer = e.payer /\ TermsOf(u).root = e.root)
       PROVE  LET row == pol'.rule[TermsOf(u).payer][TermsOf(u).root]
              IN row # None /\ (row.kind = "budget" => tx[u].at < row.start + row.period)
  BY <1>10, <1>11, <1>13
<1>14. CASE e.payer \notin Agents
  <2>1. CommittedIsPaid'
    BY <1>12, <1>14 DEF CommittedIsPaid, Inv
  <2>2. Windowed'
    <3>1. ASSUME NEW u \in Submissions, Settled(u)', TermsOf(u)'.payer \in Agents
          PROVE  LET row == pol'.rule[TermsOf(u)'.payer][TermsOf(u)'.root]
                 IN row # None /\ (row.kind = "budget" => tx'[u].at < row.start + row.period)
      <4>1. u # t /\ Settled(u) /\ TermsOf(u)' = TermsOf(u) /\ tx'[u] = tx[u]
        BY <1>4, <1>5, <1>14, <3>1
      <4> QED BY <1>13, <1>14, <3>1, <4>1
    <3> QED BY <1>12, <1>14, <3>1 DEF Windowed
  <2> QED BY <1>6, <1>8, <2>1, <2>2 DEF Accounting
<1>15. CASE e.payer \in Agents
  <2> DEFINE p == e.payer
             r == e.root
             b == pol.rule[p][r]
             w == Spent(e, ledger, actual)
  <2>1. /\ r \in RuleIds /\ IsBudget(pol, p, r)
        /\ pol'.rule[p][r] = w
        /\ w # None /\ b \in BudgetRow /\ w \in BudgetRow
        /\ w.start <= ledger /\ ledger < w.start + w.period
        /\ \/ w.start = b.start /\ w.period = b.period /\ w.committed = b.committed + actual
           \/ w.start = ledger /\ b.start + b.period <= ledger /\ w.committed = actual
    BY <1>1, <1>15, ChargedRule DEF Accounting
  <2>2. \A u \in Submissions : (Settled(u) /\ TermsOf(u).payer = p /\ TermsOf(u).root = r) =>
          tx[u].at < b.start + b.period /\ tx[u].at \in Nat
    <3>1. \A u \in Submissions : Settled(u) => tx[u].at \in Nat
      BY DEF Settled, Inv, UptoTypeOK, SubmittedTx
    <3>2. b.kind = "budget"
      BY <2>1 DEF IsBudget
    <3> HIDE DEF b
    <3>3. ASSUME NEW u \in Submissions, Settled(u), TermsOf(u).payer = p, TermsOf(u).root = r
          PROVE  tx[u].at < b.start + b.period
      BY <1>10, <1>15, <3>2, <3>3 DEF b
    <3> QED BY <3>1, <3>3
  <2>3. /\ w.start \in Nat /\ w.period \in Nat /\ b.start \in Nat /\ b.period \in Nat
        /\ w.committed \in Nat /\ b.committed \in Nat
    BY <2>1, PolicyAssumption DEF BudgetRow
  <2> HIDE DEF w, b
  <2>4. \A u \in Submissions : (Settled(u) /\ TermsOf(u).payer = p /\ TermsOf(u).root = r) =>
          tx[u].at < w.start + w.period
    <3>1. CASE w.start = b.start /\ w.period = b.period
      BY <2>2, <3>1
    <3>2. CASE w.start = ledger /\ b.start + b.period <= ledger
      <4>1. ASSUME NEW n \in Nat, n < b.start + b.period PROVE n < w.start + w.period
        BY <1>1, <2>1, <2>3, <3>2, <4>1
      <4> QED BY <2>2, <4>1
    <3> QED BY <2>1, <3>1, <3>2
  <2>5. Windowed'
    <3>1. ASSUME NEW i \in Agents, NEW k \in RuleIds, IsBudget(pol', i, k)
          PROVE  pol'.rule[i][k].start <= ledger'
      BY <1>1, <1>12, <2>1, <3>1
    <3>2. ASSUME NEW u \in Submissions, Settled(u)', TermsOf(u)'.payer \in Agents
          PROVE  LET row == pol'.rule[TermsOf(u)'.payer][TermsOf(u)'.root]
                 IN row # None /\ (row.kind = "budget" => tx'[u].at < row.start + row.period)
      <4>1. TermsOf(u)' = TermsOf(u)
        BY <1>5
      <4>2. CASE u = t
        BY <1>3, <2>1, <4>1, <4>2
      <4>3. CASE u # t /\ TermsOf(u).payer = p /\ TermsOf(u).root = r
        <5>1. Settled(u) /\ tx'[u] = tx[u]
          BY <1>4, <1>5, <3>2, <4>3
        <5> QED BY <2>1, <2>4, <4>1, <4>3, <5>1
      <4>4. CASE u # t /\ ~(TermsOf(u).payer = p /\ TermsOf(u).root = r)
        <5>1. Settled(u) /\ tx'[u] = tx[u]
          BY <1>4, <1>5, <3>2, <4>4
        <5> QED BY <1>13, <3>2, <4>1, <4>4, <5>1
      <4> QED BY <4>2, <4>3, <4>4
    <3> QED BY <3>1, <3>2 DEF Windowed
  <2>6. ASSUME NEW i \in Agents, NEW k \in RuleIds, i = p, k = r
        PROVE  w.committed = PaidBy(PaidUnder(i, k))'
    <3> DEFINE U == {u \in Submissions : /\ Settled(u)'
                                         /\ TermsOf(u).payer = i /\ TermsOf(u).root = k
                                         /\ tx'[u].at >= w.start}
    <3>1. PaidUnder(i, k)' = U
      BY <1>5, <2>1, <2>6 DEF PaidUnder
    <3>2. t \in U /\ U \in SUBSET settled'
      BY <1>3, <1>5, <2>1, <2>6
    <3>3. ASSUME NEW T \in SUBSET settled, U \ {t} = T
          PROVE  PaidBy(T) \in Nat /\ PaidBy(PaidUnder(i, k))' = PaidBy(T) + actual
      <4> HIDE DEF U, settled, actual
      <4>1. /\ PaidBy(T) \in Nat
            /\ SumFunction([u \in U |-> tx'[u].actual]) = PaidBy(T) + (IF t \in U THEN actual ELSE 0)
        BY <1>7, <3>2, <3>3
      <4> QED BY <3>1, <3>2, <4>1 DEF PaidBy
    <3>4. CASE w.start = b.start /\ w.committed = b.committed + actual
      <4>1. PaidUnder(i, k) \in SUBSET settled
        BY DEF PaidUnder
      <4>2. U \ {t} = PaidUnder(i, k)
        BY <1>1, <1>4, <1>5, <2>6, <3>4 DEF PaidUnder, b
      <4>3. b.committed = PaidBy(PaidUnder(i, k))
        BY <1>15, <2>1, <2>6 DEF b, Accounting, CommittedIsPaid
      <4> HIDE DEF U, settled, p, r
      <4> QED BY <3>3, <3>4, <4>1, <4>2, <4>3
    <3>5. CASE w.start = ledger /\ b.start + b.period <= ledger /\ w.committed = actual
      <4>1. U \ {t} = {}
        <5> SUFFICES ASSUME NEW u \in U \ {t} PROVE FALSE
          OBVIOUS
        <5>1. u \in Submissions /\ Settled(u) /\ TermsOf(u).payer = p /\ TermsOf(u).root = r
          BY <1>5, <2>6
        <5>2. tx[u].at >= ledger
          BY <1>4, <3>5
        <5>3. tx[u].at \in Nat /\ tx[u].at < b.start + b.period
          BY <2>2, <5>1
        <5> QED BY <1>1, <2>3, <3>5, <5>2, <5>3
      <4>2. PaidBy({}) = 0
        <5> DEFINE f == [u \in {} |-> tx[u].actual]
        <5>1. DOMAIN f = {}
          OBVIOUS
        <5> HIDE DEF f
        <5>2. SumFunction(f) = 0
          BY <5>1, SumEmpty DEF SumFunction
        <5> QED BY <5>2 DEF f, PaidBy
      <4> HIDE DEF U, settled, p, r, actual
      <4>3. PaidBy(PaidUnder(i, k))' = 0 + actual
        BY <3>3, <4>1, <4>2
      <4> QED BY <1>5, <3>5, <4>3 DEF actual
    <3> QED BY <2>1, <3>4, <3>5
  <2>7. CommittedIsPaid'
    <3>1. ASSUME NEW i \in Agents, NEW k \in RuleIds, IsBudget(pol', i, k)
          PROVE  pol'.rule[i][k].committed = PaidBy(PaidUnder(i, k))'
      BY <1>12, <2>1, <2>6, <3>1
    <3> QED BY <3>1 DEF CommittedIsPaid, Inv
  <2> QED BY <1>6, <1>8, <2>5, <2>7 DEF Accounting
<1> QED BY <1>14, <1>15

LEMMA InitAccounts == UptoInit => Accounting
<1> SUFFICES ASSUME UptoInit PROVE Accounting
  OBVIOUS
<1>1. \A t \in Submissions : ~Settled(t)
  BY DEF UptoInit, Settled
<1>2. PaidBy({}) = 0
  <2> DEFINE f == [u \in {} |-> tx[u].actual]
  <2>1. DOMAIN f = {}
    OBVIOUS
  <2> HIDE DEF f
  <2>2. SumFunction(f) = 0
    BY <2>1, SumEmpty DEF SumFunction
  <2> QED BY <2>2 DEF f, PaidBy
<1>3. IsFiniteSet({t \in Submissions : Settled(t)})
  <2>1. {t \in Submissions : Settled(t)} = {}
    BY <1>1
  <2> QED BY <2>1, FS_EmptySet
<1>4. /\ \A m \in Recipients : PaidTo(m) = {}
      /\ \A a \in Agents, r \in RuleIds : PaidUnder(a, r) = {}
  BY <1>1 DEF PaidTo, PaidUnder
<1>5. FundsConserved
  <2>1. \A m \in Recipients : Endowment[m] \in Nat
    BY UptoAssumption DEF Holders
  <2>2. balance = Endowment /\ ContractKeepsNothing
    BY DEF UptoInit, ContractKeepsNothing
  <2>3. \A m \in Recipients : PaidBy(PaidTo(m)) = 0
    BY <1>2, <1>4
  <2> QED BY <2>1, <2>2, <2>3 DEF FundsConserved
<1>6. PICK limit \in Limits, period \in Periods :
        pol.rule = [a \in Agents |-> [r \in RuleIds |->
                      CASE r = 1 -> NewBudget(limit, period, 0)
                        [] r = 2 -> [kind |-> "approval", rule |-> 1]
                        [] OTHER -> None]]
  BY DEF UptoInit, PolicyInit
<1>7. \A a \in Agents, r \in RuleIds : IsBudget(pol, a, r) => pol.rule[a][r] = NewBudget(limit, period, 0)
  BY <1>6 DEF IsBudget
<1>8. \A a \in Agents, r \in RuleIds : IsBudget(pol, a, r) =>
        pol.rule[a][r].start = 0 /\ pol.rule[a][r].committed = 0
  BY <1>7 DEF NewBudget
<1>9. Windowed
  BY <1>1, <1>8 DEF Windowed, UptoInit
<1>10. BudgetKept
  BY InitInv DEF Inv
<1>11. CommittedIsPaid
  <2>1. \A a \in Agents, r \in RuleIds : PaidBy(PaidUnder(a, r)) = 0
    BY <1>2, <1>4
  <2> QED BY <1>8, <1>10, <2>1 DEF CommittedIsPaid
<1> QED BY <1>3, <1>5, <1>9, <1>11 DEF Accounting

LEMMA AccountingStep ==
  ASSUME Inv, Inv', Accounting, [UptoNext]_uptoVars
  PROVE  Accounting'
<1> USE DEF Inv
<1>1. ledger \in Nat /\ balance \in [Holders -> Nat]
  BY PolicyAssumption DEF UptoTypeOK
\* Whatever settles nothing, moves nothing and changes no rule.
<1>2. ASSUME SettledStay, pol' = pol, ledger' = ledger \/ ledger' = ledger + 1,
             SumFunction(balance') = SumFunction(balance),
             \A m \in Recipients \ Payers : balance'[m] = balance[m]
      PROVE  Accounting'
  BY <1>1, <1>2, MoneyStays, BudgetsStay DEF Accounting
<1>3. ASSUME NEW n \in Signatures, NEW o \in Offers, Sign(n, o)
      PROVE  Accounting'
  <2>1. /\ auth[n] = None /\ UNCHANGED <<pol, ledger, balance, tx>>
        /\ \A k \in Signatures \ {n} : auth'[k] = auth[k]
    BY <1>3 DEF Sign, UptoTypeOK
  <2>2. \A t \in Submissions : tx[t] # None => auth'[tx[t].sig] = auth[tx[t].sig]
    BY <2>1 DEF Referenced, UptoTypeOK, SubmittedTx
  <2>3. SettledStay
    BY <2>1, <2>2 DEF SettledStay, Settled, TermsOf
  <2> QED BY <1>2, <2>1, <2>3
<1>4. ASSUME NEW t \in Submissions, NEW n \in Signatures, NEW actual \in 0 .. MaxAmount,
             PrepareSettlement(t, n, actual)
      PROVE  Accounting'
  <2>1. /\ tx[t] = None /\ UNCHANGED <<pol, ledger, balance, auth>>
        /\ tx' = [tx EXCEPT ![t] = Submission(n, actual, 0, "sent")]
    BY <1>4 DEF PrepareSettlement
  <2>2. \A u \in Submissions : tx'[u] = IF u = t THEN Submission(n, actual, 0, "sent") ELSE tx[u]
    BY <2>1 DEF UptoTypeOK
  <2>3. SettledStay
    BY <2>1, <2>2 DEF SettledStay, Settled, Submission, TermsOf
  <2> QED BY <1>2, <2>1, <2>3
<1>5. ASSUME NEW t \in Submissions, SettleFails(t)
      PROVE  Accounting'
  <2>1. /\ tx[t].state = "sent" /\ UNCHANGED <<pol, ledger, balance, auth>>
        /\ tx' = [tx EXCEPT ![t] = Submission(tx[t].sig, tx[t].actual, 0, "FAILED")]
    BY <1>5 DEF SettleFails
  <2>2. \A u \in Submissions :
          tx'[u] = IF u = t THEN Submission(tx[t].sig, tx[t].actual, 0, "FAILED") ELSE tx[u]
    BY <2>1 DEF UptoTypeOK
  <2>3. SettledStay
    BY <2>1, <2>2 DEF SettledStay, Settled, Submission, TermsOf
  <2> QED BY <1>2, <2>1, <2>3
<1>6. CASE LedgerCloses
  <2>1. SettledStay
    BY <1>6 DEF LedgerCloses, SettledStay, Settled, TermsOf
  <2> QED BY <1>2, <1>6, <2>1 DEF LedgerCloses
<1>7. ASSUME NEW p \in Payers, Withdraw(p)
      PROVE  Accounting'
  <2>1. /\ balance[p] > 0 /\ balance' = Move(balance, p, Outside, 1)
        /\ UNCHANGED <<pol, ledger, auth, tx>>
        /\ p \in Holders /\ Outside \in Holders
    BY <1>7 DEF Withdraw, Holders
  <2>2. balance[p] \in Nat /\ balance[p] >= 1
    BY <1>1, <2>1
  <2>3. SumFunction(balance') = SumFunction(balance)
    BY <1>1, <2>1, <2>2, MoveTyped
  <2>4. \A m \in Recipients \ Payers : balance'[m] = balance[m]
    BY <1>1, <2>1, UptoAssumption DEF Move, Holders
  <2>5. SettledStay
    BY <2>1 DEF SettledStay, Settled, TermsOf
  <2> QED BY <1>2, <2>1, <2>3, <2>4, <2>5
<1>8. ASSUME NEW w \in Wallets, NEW amount \in Amounts, ApproveAside(w, amount)
      PROVE  Accounting'
  <2>1. UNCHANGED <<pol, ledger, balance, auth, tx>>
    BY <1>8 DEF ApproveAside
  <2>2. SettledStay
    BY <2>1 DEF SettledStay, Settled, TermsOf
  <2> QED BY <1>2, <2>1, <2>2
<1>9. CASE UNCHANGED uptoVars
  <2>1. SettledStay
    BY <1>9 DEF uptoVars, SettledStay, Settled, TermsOf
  <2> QED BY <1>2, <1>9, <2>1 DEF uptoVars
<1> QED BY <1>3, <1>4, <1>5, <1>6, <1>7, <1>8, <1>9, SettleAccounts, ConfigureAccounts DEF UptoNext

LEMMA AccountingAlways == UptoSpec => []Accounting
<1>1. Inv /\ Accounting /\ [UptoNext]_uptoVars /\ Inv' => Accounting'
  BY AccountingStep
<1> QED BY <1>1, InitAccounts, InvAlways, PTL DEF UptoSpec

\* Whatever is settled, by whom and with which hook, nothing is made or lost, the contract
\* keeps nothing, and a recipient has what the settlements for it add up to.
THEOREM FundsAreConserved == UptoSpec => []FundsConserved
<1>1. Accounting => FundsConserved
  BY DEF Accounting
<1> QED BY <1>1, AccountingAlways, PTL

\* A budget has committed what was paid under its rule since its window began, and never
\* more than its limit, however rules come and go and windows move on.
THEOREM CommitmentsArePaid == UptoSpec => []CommittedIsPaid
<1>1. Accounting => CommittedIsPaid
  BY DEF Accounting
<1> QED BY <1>1, AccountingAlways, PTL

=============================================================================
