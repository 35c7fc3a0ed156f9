------------------------- MODULE ReconcilingPolicy -------------------------
(***************************************************************************)
(* The spending policy of smart accounts                                   *)
(* (x402-stellar-upto/contracts/reconciling-policy).                       *)
(*                                                                         *)
(* An agent's account asks the policy when it authorizes a settlement and  *)
(* the token approval nested in it; the settlement contract tells it what  *)
(* was settled.  All three happen in one transaction of the ledger.  The   *)
(* policy's storage is the state `pol'; what an entry point does to it is  *)
(* an operator from storage to storage, and what makes it panic, hence the *)
(* transaction fail, is a condition of its own.  The code's checked        *)
(* subtractions never fail where Committed is the sum it stands for.       *)
(***************************************************************************)
EXTENDS Integers, FiniteSets

CONSTANTS
  Agents,        \* smart accounts that use the policy
  Recipients,    \* accounts that may be paid
  Ids,           \* settlement identifiers
  MaxRules,      \* bound: context rules that an account ever has
  MaxAmount,     \* bound: amounts are in 1 .. MaxAmount
  MaxLedger,     \* bound on the ledger sequence
  Limits,        \* limits of budgets
  Periods,       \* lengths of budget windows, in ledgers
  Contract,      \* the settlement contract
  Token,
  None

ASSUME PolicyAssumption ==
  /\ MaxAmount \in Nat /\ MaxLedger \in Nat /\ MaxRules \in Nat
  /\ Limits \subseteq Nat \ {0} /\ Periods \subseteq Nat \ {0}

Amounts == 1 .. MaxAmount

\* An account numbers its rules, and uses no number twice.
RuleIds == 1 .. MaxRules

\* The rules of an account that the policy is attached to: a budget for the settlement
\* contract, or the permission to approve for the settlements of another rule.
BudgetRow == [kind: {"budget"}, limit: Limits, period: Periods,
              start: Nat, committed: Nat]
ApprovalRow == [kind: {"approval"}, rule: RuleIds]
Removed == [kind |-> "removed"]
ReservationRow == [rule: RuleIds, max: Amounts, payTo: Recipients, deadline: Nat,
                   status: {"pending", "settled"}, actual: 0 .. MaxAmount]

ASSUME NoneAssumption ==
  None \notin Ids \cup BudgetRow \cup ApprovalRow \cup {Removed} \cup ReservationRow

VARIABLE pol

PolicyTypeOK ==
  pol \in [rule: [Agents -> [RuleIds -> BudgetRow \cup ApprovalRow \cup {Removed, None}]],
          res: [Agents -> [Ids -> ReservationRow \cup {None}]],
          active: [Agents -> Ids \cup {None}]]

IsBudget(s, a, r) == s.rule[a][r] # None /\ s.rule[a][r].kind = "budget"
IsApproval(s, a, r) == s.rule[a][r] # None /\ s.rule[a][r].kind = "approval"

-----------------------------------------------------------------------------
(* Installation, as the account adds and removes context rules. *)

\* The entry of an account under a key.
Put(f, a, k, v) == [f EXCEPT ![a] = [@ EXCEPT ![k] = v]]

WithRule(s, a, r, row) ==
  [rule |-> Put(s.rule, a, r, row), res |-> s.res, active |-> s.active]

NewBudget(limit, period, now) ==
  [kind |-> "budget", limit |-> limit, period |-> period, start |-> now, committed |-> 0]

\* The constructor of the account gives it a rule for the settlement contract and one for
\* the token.
PolicyInit ==
  \E limit \in Limits, period \in Periods :
    pol = [rule   |-> [a \in Agents |-> [r \in RuleIds |->
                         CASE r = 1 -> NewBudget(limit, period, 0)
                           [] r = 2 -> [kind |-> "approval", rule |-> 1]
                           [] OTHER -> None]],
           res    |-> [a \in Agents |-> [i \in Ids |-> None]],
           active |-> [a \in Agents |-> None]]

NextRule(a, r) ==
  /\ pol.rule[a][r] = None
  /\ \A q \in RuleIds : q < r => pol.rule[a][q] # None

InstallBudget(a, r, limit, period, now) ==
  /\ NextRule(a, r)
  /\ pol' = WithRule(pol, a, r, NewBudget(limit, period, now))

InstallApproval(a, r, of) ==
  /\ NextRule(a, r) /\ IsBudget(pol, a, of)
  /\ pol' = WithRule(pol, a, r, [kind |-> "approval", rule |-> of])

Uninstall(a, r) ==
  /\ IsBudget(pol, a, r) \/ IsApproval(pol, a, r)
  /\ pol' = WithRule(pol, a, r, Removed)

-----------------------------------------------------------------------------
(* enforce: the settlement's root invocation. *)

\* Mutant: the sum starts again and the window does not.
Refreshed_KeepsStart(b, now) ==
  IF now - b.start >= b.period THEN NewBudget(b.limit, b.period, b.start) ELSE b

\* A window that has lasted its period starts again now.
Refreshed(b, now) ==
  IF now - b.start >= b.period THEN NewBudget(b.limit, b.period, now) ELSE b

Charged(b, committed) ==
  [kind |-> "budget", limit |-> b.limit, period |-> b.period, start |-> b.start,
   committed |-> committed]

\* Mutant: an identifier may be used again.
EnforceAllows_Again(s, a, r, id, max, hook, policy, now) ==
  /\ IsBudget(s, a, r) /\ max > 0 /\ hook = policy
  /\ Refreshed(s.rule[a][r], now).committed + max <= s.rule[a][r].limit

EnforceAllows(s, a, r, id, max, hook, policy, now) ==
  /\ IsBudget(s, a, r)
  /\ max > 0 /\ hook = policy
  /\ s.res[a][id] = None
  /\ Refreshed(s.rule[a][r], now).committed + max <= s.rule[a][r].limit

Enforce(s, a, r, id, max, payTo, deadline, now) ==
  LET b == Refreshed(s.rule[a][r], now)
  IN [rule   |-> Put(s.rule, a, r, Charged(b, b.committed + max)),
      res    |-> Put(s.res, a, id, [rule |-> r, max |-> max, payTo |-> payTo,
                       deadline |-> deadline, status |-> "pending", actual |-> 0]),
      active |-> [s.active EXCEPT ![a] = id]]

\* enforce_token_approval: an approval for the contract is allowed only inside of the
\* settlement whose reservation it matches.
ApprovalAllows(s, a, r, amount, expiration) ==
  /\ IsApproval(s, a, r)
  /\ s.active[a] # None
  /\ s.res[a][s.active[a]] # None
  /\ LET v == s.res[a][s.active[a]]
     IN /\ v.rule = s.rule[a][r].rule
        /\ v.max = amount /\ v.deadline = expiration
        /\ v.status = "pending"

-----------------------------------------------------------------------------
(* on_settled_v1. *)

\* The notice is about a reservation that is pending, comes from the settlement contract
\* and says what was reserved.
NoticeAllowed(s, a, id, max, payTo, actual, caller) ==
  LET v == s.res[a][id]
  IN /\ v # None /\ v.status = "pending"
     /\ caller = Contract
     /\ max = v.max /\ payTo = v.payTo
     /\ 0 <= actual /\ actual <= max
     /\ IsBudget(s, a, v.rule)

Receipt(v, actual) ==
  [rule |-> v.rule, max |-> v.max, payTo |-> v.payTo, deadline |-> v.deadline,
   status |-> "settled", actual |-> actual]

\* Mutant: what was not used stays committed.
Reconcile_KeepsMaximum(s, a, id, actual) ==
  [rule |-> s.rule, res |-> Put(s.res, a, id, Receipt(s.res[a][id], actual)),
   active |-> [s.active EXCEPT ![a] = None]]

\* Mutant: the budget is reconciled, and the reservation stays as it was.
Reconcile_StaysPending(s, a, id, actual) ==
  LET v == s.res[a][id]
      b == s.rule[a][v.rule]
  IN WithRule(s, a, v.rule, Charged(b, b.committed - (v.max - actual)))

\* Mutant: the sign of what was used.
Reconcile_Sign(s, a, id, actual) ==
  LET v == s.res[a][id]
      b == s.rule[a][v.rule]
  IN [rule   |-> Put(s.rule, a, v.rule, Charged(b, b.committed - (v.max + actual))),
      res    |-> Put(s.res, a, id, Receipt(v, actual)),
      active |-> [s.active EXCEPT ![a] = None]]

Reconcile(s, a, id, actual) ==
  LET v == s.res[a][id]
      b == s.rule[a][v.rule]
  IN [rule   |-> Put(s.rule, a, v.rule, Charged(b, b.committed - (v.max - actual))),
      res    |-> Put(s.res, a, id, Receipt(v, actual)),
      active |-> [s.active EXCEPT ![a] = None]]
=============================================================================
