---------------------------- MODULE UptoPayments ----------------------------
(***************************************************************************)
(* Payments of the `upto' scheme: payers sign a maximum                    *)
(* (packages/stellar-upto/src/client.ts), the facilitator chooses the      *)
(* actual amount, simulates and signs                                      *)
(* (facilitator/src/stellar/upto.ts), and the settlement contract          *)
(* (x402-stellar-upto/contracts/upto-settlement) approves, pulls, pays and *)
(* refunds in one transaction.  Payers are wallets, or agents whose smart  *)
(* account asks the policy of ReconcilingPolicy.  The host of the          *)
(* contracts, the token and the other hooks are external.                  *)
(*                                                                         *)
(* Simulation and execution evaluate the same contract, on the state of    *)
(* two different moments: what Prepare found to succeed may fail when a    *)
(* ledger gets to it.                                                      *)
(***************************************************************************)
EXTENDS ReconcilingPolicy, Functions

CONSTANTS
  Wallets,       \* classic accounts that pay
  Signatures,    \* authorizations that payers sign, each with a nonce of the host
  Submissions,   \* transactions that the facilitator submits
  Outside,       \* an account that is none of the others
  Endowment,     \* what each account holds of the token at first
  Additive,      \* whether approve may add to an allowance (TRUE), may set it (FALSE)
  Policy,        \* the address of the reconciling policy
  Meddler,       \* another hook, which takes from the recipient what it can
  Offers,        \* the payments that payers may sign: whom to pay, at most how much
  MaxAside,      \* bound: what payers do besides paying
  Lifetime,      \* what the client adds to the current ledger for the deadline
  Timeout        \* ledgers that the facilitator accepts at most, without tolerance

Payers == Wallets \cup Agents
Holders == Payers \cup Recipients \cup {Contract, Outside}
Hooks == {Policy, Meddler}

ASSUME UptoAssumption ==
  /\ IsFiniteSet(Holders)
  /\ Endowment \in [Holders -> Nat] /\ Additive \subseteq BOOLEAN
  /\ Lifetime \in Nat /\ Timeout \in Nat /\ MaxAside \in Nat
  /\ Wallets \cap Agents = {}
  /\ Contract \notin Payers \cup Recipients \cup {Outside}
  /\ Outside \notin Payers \cup Recipients
  /\ Policy # Meddler /\ None \notin Hooks /\ Hooks \cap {Contract, Token} = {}

VARIABLES
  ledger,        \* the sequence number of the ledger
  balance, allowance,   \* the token: allowance[p] is p's for the settlement contract
  auth,          \* the authorizations signed
  spent,         \* the nonces of those that a ledger has used
  tx,            \* what the facilitator submitted of them
  asides         \* how often payers did something besides

uptoVars == <<pol, ledger, balance, allowance, auth, spent, tx, asides>>

Terms == [payer: Payers, payTo: Recipients, max: Amounts, id: Ids,
          hook: Hooks \cup {None}, root: RuleIds, nested: RuleIds]

ASSUME OffersAssumption == Offers \subseteq Terms

SignedTerms == [payer: Payers, payTo: Recipients, max: Amounts, after: Nat, deadline: Nat,
                id: Ids, hook: Hooks \cup {None}, root: RuleIds, nested: RuleIds, nonce: Signatures]
SubmittedTx == [sig: Signatures, actual: 0 .. MaxAmount, at: Nat,
                state: {"sent", "SUCCESS", "FAILED"}]

ASSUME TermsAssumption == None \notin SignedTerms \cup SubmittedTx

-----------------------------------------------------------------------------
(* The settlement contract. *)

Valid(a, actual, now) ==
  /\ a.max > 0 /\ 0 <= actual /\ actual <= a.max
  /\ a.after <= a.deadline /\ a.after <= now /\ now <= a.deadline
  /\ a.payer # Contract /\ a.payTo # Contract
  /\ a.hook \notin {Contract, Token}

Move(b, from, to, amount) == [[b EXCEPT ![from] = @ - amount] EXCEPT ![to] = @ + amount]

AfterApprove(a, adds) == IF adds THEN allowance[a.payer] + a.max ELSE a.max
AllowanceLeft(a, adds) == AfterApprove(a, adds) - a.max

AfterPull(b, a) == Move(b, a.payer, Contract, a.max)
AfterPay(b, a, actual) == IF actual > 0 THEN Move(b, Contract, a.payTo, actual) ELSE b

\* Mutant: the rest goes to the recipient.
AfterRefund_ToRecipient(b, a, actual) ==
  IF a.max - actual > 0 THEN Move(b, Contract, a.payTo, a.max - actual) ELSE b

AfterRefund(b, a, actual) ==
  IF a.max - actual > 0 THEN Move(b, Contract, a.payer, a.max - actual) ELSE b

AfterPayment(b, a, actual) == AfterRefund(AfterPay(AfterPull(b, a), a, actual), a, actual)

\* enforce_balance_invariants: exactly the actual amount has moved, and the contract
\* keeps nothing.
Balanced(before, b, a, actual) ==
  /\ b[Contract] = before[Contract]
  /\ IF a.payer = a.payTo
     THEN b[a.payer] = before[a.payer]
     ELSE /\ b[a.payer] = before[a.payer] - actual
          /\ b[a.payTo] = before[a.payTo] + actual

\* What a hook does to balances while it runs.
AfterHook(b, a) ==
  IF a.hook = Meddler /\ b[a.payTo] > 0 THEN Move(b, a.payTo, Outside, 1) ELSE b

-----------------------------------------------------------------------------
(* Authorization, by the host: a nonce serves once, a smart account asks its policy about *)
(* the root invocation and then about the nested approval.                                *)

AfterAuth(s, a, now) ==
  IF a.payer \in Agents
  THEN Enforce(s, a.payer, a.root, a.id, a.max, a.payTo, a.deadline, now)
  ELSE s

Authorized(s, a, now) ==
  /\ a.nonce \notin spent
  /\ a.payer \in Agents =>
       /\ EnforceAllows(s, a.payer, a.root, a.id, a.max, a.hook, Policy, now)
       /\ ApprovalAllows(AfterAuth(s, a, now), a.payer, a.nested, a.max, a.deadline)

\* The hook's own part: with no reservation there is nothing to do.
NoticeAccepted(s, a, actual) ==
  (a.payer \in Agents /\ s.res[a.payer][a.id] # None)
    => NoticeAllowed(s, a.payer, a.id, a.max, a.payTo, actual, Contract)

AfterNotice(s, a, actual) ==
  IF a.hook = Policy /\ a.payer \in Agents /\ s.res[a.payer][a.id] # None
  THEN Reconcile(s, a.payer, a.id, actual) ELSE s

\* Mutant: nobody looks at the allowance.
Settles_NoAllowance(a, actual, now, adds) ==
  LET paid == AfterPayment(balance, a, actual)
  IN /\ Valid(a, actual, now) /\ Authorized(pol, a, now)
     /\ balance[a.payer] >= a.max
     /\ Balanced(balance, paid, a, actual)
     /\ a.hook = Policy => NoticeAccepted(AfterAuth(pol, a, now), a, actual)
     /\ a.hook # None => Balanced(balance, AfterHook(paid, a), a, actual)

\* Mutant: the balances are compared before the hook only.
Settles_BeforeHook(a, actual, now, adds) ==
  LET paid == AfterPayment(balance, a, actual)
  IN /\ Valid(a, actual, now) /\ Authorized(pol, a, now)
     /\ AfterApprove(a, adds) = a.max /\ balance[a.payer] >= a.max
     /\ Balanced(balance, paid, a, actual)
     /\ a.hook = Policy => NoticeAccepted(AfterAuth(pol, a, now), a, actual)

\* settle, in the order of the code: whether it succeeds.
Settles(a, actual, now, adds) ==
  LET paid == AfterPayment(balance, a, actual)
      hooked == AfterHook(paid, a)
  IN /\ Valid(a, actual, now)
     /\ Authorized(pol, a, now)
     /\ AfterApprove(a, adds) = a.max
     /\ balance[a.payer] >= a.max
     /\ AllowanceLeft(a, adds) = 0
     /\ Balanced(balance, paid, a, actual)
     /\ a.hook = Policy => NoticeAccepted(AfterAuth(pol, a, now), a, actual)
     /\ a.hook # None => Balanced(balance, hooked, a, actual)

-----------------------------------------------------------------------------
UptoInit ==
  /\ ledger = 0
  /\ balance = Endowment
  /\ allowance = [p \in Payers |-> 0]
  /\ auth = [s \in Signatures |-> None] /\ spent = {}
  /\ tx = [t \in Submissions |-> None]
  /\ asides = 0
  /\ PolicyInit

\* The client signs the maximum, from the current ledger on.  An agent names the rules
\* of its account for the two invocations; a wallet has none.
Sign(s, o) ==
  /\ auth[s] = None
  /\ o.hook \notin {Contract, Token}
  /\ auth' = [auth EXCEPT ![s] =
       [payer |-> o.payer, payTo |-> o.payTo, max |-> o.max, after |-> ledger,
        deadline |-> ledger + Lifetime, id |-> o.id, hook |-> o.hook, root |-> o.root,
        nested |-> o.nested, nonce |-> s]]
  /\ UNCHANGED <<pol, ledger, balance, allowance, spent, tx, asides>>

\* What the facilitator demands of the terms, whose values are those of the requirements:
\* a deadline that is not too far, no payer among its own accounts, a hook it allows.
TermsAccepted(a, actual) ==
  /\ 0 <= actual /\ actual <= a.max
  /\ a.after <= a.deadline /\ ledger < a.deadline
  /\ a.deadline <= ledger + Timeout + 2

\* The transfers that the enforcing simulation shows, compared with those expected.
TransfersExpected(a, actual) ==
  a.hook = Meddler => AfterHook(AfterPayment(balance, a, actual), a)
                        = AfterPayment(balance, a, actual)

\* verify accepts the authorization, at its maximum.
VerifyAccepts(a, adds) ==
  /\ TermsAccepted(a, a.max) /\ TransfersExpected(a, a.max)
  /\ Settles(a, a.max, ledger, adds)

Submission(s, actual, at, state) == [sig |-> s, actual |-> actual, at |-> at, state |-> state]

\* prepareSettlement, for the amount used; the same authorization may be prepared for
\* several channels at once.
PrepareSettlement(t, s, actual) ==
  /\ tx[t] = None /\ auth[s] # None
  /\ TermsAccepted(auth[s], actual)
  /\ \E adds \in Additive : Settles(auth[s], actual, ledger, adds)
  /\ TransfersExpected(auth[s], actual)
  /\ tx' = [tx EXCEPT ![t] = Submission(s, actual, 0, "sent")]
  /\ UNCHANGED <<pol, ledger, balance, allowance, auth, spent, asides>>

\* A ledger includes the transaction.
SettleSucceeds(t) ==
  /\ tx[t] # None /\ tx[t].state = "sent"
  /\ LET s == tx[t].sig
         actual == tx[t].actual
         a == auth[s]
     IN \E adds \in Additive :
        /\ Settles(a, actual, ledger, adds)
        /\ balance' = AfterHook(AfterPayment(balance, a, actual), a)
        /\ allowance' = [allowance EXCEPT ![a.payer] = AllowanceLeft(a, adds)]
        /\ pol' = AfterNotice(AfterAuth(pol, a, ledger), a, actual)
        /\ spent' = spent \cup {s}
        /\ tx' = [tx EXCEPT ![t] = Submission(s, actual, ledger, "SUCCESS")]
        /\ UNCHANGED <<ledger, auth, asides>>

SettleFails(t) ==
  /\ tx[t] # None /\ tx[t].state = "sent"
  /\ \E adds \in Additive : ~Settles(auth[tx[t].sig], tx[t].actual, ledger, adds)
  /\ tx' = [tx EXCEPT ![t] = Submission(@.sig, @.actual, 0, "FAILED")]
  /\ UNCHANGED <<pol, ledger, balance, allowance, auth, spent, asides>>

LedgerCloses ==
  /\ ledger < MaxLedger
  /\ ledger' = ledger + 1
  /\ UNCHANGED <<pol, balance, allowance, auth, spent, tx, asides>>

\* What payers do besides.
Aside == asides < MaxAside /\ asides' = asides + 1

Withdraw(p) ==
  /\ Aside /\ balance[p] > 0
  /\ balance' = Move(balance, p, Outside, 1)
  /\ UNCHANGED <<pol, ledger, allowance, auth, spent, tx>>

ApproveAside(w, amount) ==
  /\ Aside
  /\ allowance' = [allowance EXCEPT ![w] = amount]
  /\ UNCHANGED <<pol, ledger, balance, auth, spent, tx>>

ConfigureAccount(a) ==
  /\ Aside
  /\ \/ \E r \in RuleIds, limit \in Limits, period \in Periods :
          InstallBudget(a, r, limit, period, ledger)
     \/ \E r, of \in RuleIds : InstallApproval(a, r, of)
     \/ \E r \in RuleIds : Uninstall(a, r)
  /\ UNCHANGED <<ledger, balance, allowance, auth, spent, tx>>

UptoNext ==
  \/ \E s \in Signatures, o \in Offers : Sign(s, o)
  \/ \E t \in Submissions, s \in Signatures, actual \in 0 .. MaxAmount :
       PrepareSettlement(t, s, actual)
  \/ \E t \in Submissions : SettleSucceeds(t) \/ SettleFails(t)
  \/ LedgerCloses
  \/ \E p \in Payers : Withdraw(p)
  \/ \E w \in Wallets, amount \in Amounts : ApproveAside(w, amount)
  \/ \E a \in Agents : ConfigureAccount(a)

UptoSpec == UptoInit /\ [][UptoNext]_uptoVars

-----------------------------------------------------------------------------
UptoTypeOK ==
  /\ PolicyTypeOK
  /\ ledger \in 0 .. MaxLedger /\ asides \in 0 .. MaxAside
  /\ balance \in [Holders -> Nat]
  /\ allowance \in [Payers -> Nat]
  /\ auth \in [Signatures -> SignedTerms \cup {None}] /\ spent \subseteq Signatures
  /\ tx \in [Submissions -> SubmittedTx \cup {None}]

Settled(t) == tx[t] # None /\ tx[t].state = "SUCCESS"
TermsOf(t) == auth[tx[t].sig]

\* What was paid by a set of transactions.
PaidBy(T) == SumFunction([t \in T |-> tx[t].actual])

\* The settled transactions that paid an account; those of a budget in its window.
PaidTo(m) == {t \in Submissions : Settled(t) /\ TermsOf(t).payTo = m}
PaidUnder(a, r) ==
  {t \in Submissions : /\ Settled(t) /\ TermsOf(t).payer = a /\ TermsOf(t).root = r
                       /\ tx[t].at >= pol.rule[a][r].start}

ContractKeepsNothing == balance[Contract] = Endowment[Contract]

\* The contract keeps nothing, and nothing is made or lost: a recipient that does not pay
\* has what the settlements for it say.
FundsConserved ==
  /\ ContractKeepsNothing
  /\ SumFunction(balance) = SumFunction(Endowment)
  /\ \A m \in Recipients \ Payers : balance[m] = Endowment[m] + PaidBy(PaidTo(m))

\* No budget has committed more than its limit.
BudgetKept ==
  \A a \in Agents, r \in RuleIds :
    IsBudget(pol, a, r) => pol.rule[a][r].committed <= pol.rule[a][r].limit

\* A budget has committed what was paid under its rule since its window began: the
\* reservations of maxima have all been reconciled, and that is within the limit.
CommittedIsPaid ==
  /\ BudgetKept
  /\ \A a \in Agents, r \in RuleIds : IsBudget(pol, a, r) =>
       pol.rule[a][r].committed = PaidBy(PaidUnder(a, r))

\* An agent pays at most once under an identifier, whatever it signed, and the policy's
\* reservation says how much.
PaidOncePerId ==
  \A t \in Submissions : (Settled(t) /\ TermsOf(t).payer \in Agents) =>
    /\ pol.res[TermsOf(t).payer][TermsOf(t).id] # None
    /\ pol.res[TermsOf(t).payer][TermsOf(t).id].actual = tx[t].actual
    /\ \A u \in Submissions \ {t} :
         Settled(u) => <<TermsOf(u).payer, TermsOf(u).id>> # <<TermsOf(t).payer, TermsOf(t).id>>

\* Between transactions no reservation is pending, so that the token rule of an account
\* authorizes no approval on its own, and nobody can notify the policy again.
NoRouteAroundBudget ==
  \A a \in Agents :
    /\ \A r \in RuleIds, amount \in Amounts, expiration \in 0 .. MaxLedger + Lifetime :
         ~ApprovalAllows(pol, a, r, amount, expiration)
    /\ \A i \in Ids, actual \in 0 .. MaxAmount : pol.res[a][i] # None =>
         ~NoticeAllowed(pol, a, i, pol.res[a][i].max, pol.res[a][i].payTo, actual, Contract)

\* What verify finds to succeed at the maximum can be settled at any amount up to it.
VerifyCoversSettle ==
  \A s \in Signatures, adds \in Additive :
    (auth[s] # None /\ VerifyAccepts(auth[s], adds)) =>
      \A actual \in 0 .. auth[s].max :
        TermsAccepted(auth[s], actual) /\ Settles(auth[s], actual, ledger, adds)

\* A settlement leaves nothing approved for the contract, not even what was before it.
NothingStaysApproved ==
  [][\A t \in Submissions : (Settled(t)' /\ ~Settled(t)) => allowance'[TermsOf(t).payer] = 0]_uptoVars

\* A budget's window moves forward, and what it has committed falls only when the window
\* moves on.
WindowsMoveForward ==
  [][\A a \in Agents, r \in RuleIds :
       (IsBudget(pol, a, r) /\ IsBudget(pol', a, r)) =>
         LET b == pol.rule[a][r]
             c == pol'.rule[a][r]
         IN /\ c.start >= b.start
            /\ c.committed < b.committed => c.start >= b.start + b.period]_uptoVars
=============================================================================
