CONSTANTS
  Agents = {a1, a2}
  Identifiers = {i1, i2, i3}
  DayMax = 3
  PerCallMax = 2
  LastDay = 2
  Prices = {1, 2, 3}
  MaxCrashes = 1
  Hazards = {}
  None = None
SPECIFICATION Spec
INVARIANTS TypeOK LimitKept BooksBalance Covered
SYMMETRY Symmetry
CHECK_DEADLOCK FALSE
