SPECIFICATION Spec
CONSTANTS
  Keys = {k1, k2}
  Declarations = {d1, d2}
  Slots = {x}
  Terms = {t1, t2}
  Sellers = {owner, rival}
  PageSize = 1
  Decisions = {"active", "disabled"}
  MaxShared = 3
  MaxAlone = 5
  None = None
SYMMETRY Symmetry
INVARIANTS CatalogTypeOK OneOfEach OwnersOnly DocumentCurrent WalkComplete
 
CHECK_DEADLOCK FALSE
