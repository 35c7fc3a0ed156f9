CONSTANTS
  Payments = {p1}
  Prints = {f1}
  Amounts = {a1}
  Principals = {k1}
  Workers = {w1, w2}
  Channels = {c1}
  Calls = {r1, r2}
  ScopeLimit = 2
  GlobalLimit = 2
  MaxToken = 2
  MaxPending = 2
  MaxCrashes = 1
  MaxOutages = 1
  Hazards = {}
  None = None
SPECIFICATION Spec
INVARIANTS TypeOK Anchored QuarantineEnds SequenceConfirmed FailedIsUnpaid
PROPERTIES NeverRebuilt QuarantineKept KeepsPromise
SYMMETRY Symmetry
CHECK_DEADLOCK FALSE
