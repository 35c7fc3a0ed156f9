CONSTANTS
  Agents = {a1, a2}
  Identifiers = {i1, i2, i3}
  DayMax = 3
  PerCallMax = 2
  LastDay = 2
  Prices = {1, 2, 3}
  MaxCrashes = 1
  Hazards = {"inconclusive"}
  None = None
SPECIFICATION Spec
INVARIANT ReleasedIsUnpaid
SYMMETRY Symmetry
CHECK_DEADLOCK FALSE
