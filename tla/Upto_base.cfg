SPECIFICATION UptoSpec
CONSTANTS
  None = None
  wallet = wallet
  agent = agent
  merchant = merchant
  contract = contract
  outside = outside
  Agents = {agent}
  Wallets = {wallet}
  Recipients = {merchant, wallet}
  Ids = {i1, i2}
  Signatures = {s1, s2}
  Submissions = {t1, t2}
  MaxRules = 4
  MaxAmount = 2
  MaxLedger = 2
  Limits <- LimitsDef
  Periods <- PeriodsDef
  Contract = contract
  Token = token
  Outside = outside
  Endowment <- EndowmentDef
  Additive = {TRUE, FALSE}
  policy = policy
  meddler = meddler
  i1 = i1
  i2 = i2
  Policy = policy
  Meddler = meddler
  Offers <- OffersDef
  MaxAside = 2
  Lifetime = 2
  Timeout = 0
SYMMETRY Symmetry
INVARIANTS
  UptoTypeOK
  FundsConserved
  CommittedIsPaid
  PaidOncePerId
  NoRouteAroundBudget
  VerifyCoversSettle
PROPERTIES
  NothingStaysApproved
  WindowsMoveForward
CHECK_DEADLOCK FALSE
