CONSTANTS
  Payments = {p1}
  Prints = {f1}
  Amounts = {a1}
  Principals = {k1}
  Workers = {w1, w2}
  Channels = {c1}
  Calls = {r1}
  ScopeLimit = 2
  GlobalLimit = 2
  MaxToken = 1
  MaxPending = 2
  MaxCrashes = 1
  MaxOutages = 1
  Hazards = {}
  None = None
SPECIFICATION FairSpec
PROPERTIES PromisesDecided ChannelsReturn
CHECK_DEADLOCK FALSE
