CONSTANTS
  Payments = {p1}
  Prints = {f1, f2}
  Amounts = {a1, a2}
  Principals = {k1}
  Workers = {w1, w2}
  Channels = {c1}
  Calls = {r1, r2}
  ScopeLimit = 2
  GlobalLimit = 2
  MaxToken = 2
  MaxPending = 1
  MaxCrashes = 1
  MaxOutages = 0
  Hazards = {"duplicate", "slow", "straddle"}
  None = None
SPECIFICATION Spec
INVARIANTS TruthfulSuccess BudgetBoundsLedger PaidAsClaimed
SYMMETRY Symmetry
CHECK_DEADLOCK FALSE
