CONSTANTS
  Payments = {p1, p2}
  Prints = {f1}
  Amounts = {a1}
  Principals = {k1, k2}
  Workers = {w1}
  Channels = {c1}
  Calls = {r1, r2}
  ScopeLimit = 1
  GlobalLimit = 2
  MaxToken = 2
  MaxPending = 2
  MaxCrashes = 1
  MaxOutages = 0
  Hazards = {}
  None = None
SPECIFICATION Spec
INVARIANTS ChannelExclusive BudgetBoundsLedger
SYMMETRY Symmetry
CHECK_DEADLOCK FALSE
