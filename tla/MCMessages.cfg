CONSTANTS
  a1 = a1
  a2 = a2
  k1 = k1
  k2 = k2
  k3 = k3
  b1 = b1
  b2 = b2
  None = None
  Accounts = {a1, a2}
  Keys = {k1, k2, k3}
  AccountOf <- MCAccountOf
  HoldMicro = 2
  SpendLimit <- MCSpendLimit
  EverydayLimit = 2
  TokenLimit = 4
  TokenHolds = {1, 2}
  Lease = 1
  DayLength = 2
  PeriodDays = 1
  MaxClock = 2
  Requests = {r1, r2, r3}
  Bodies = {b1, b2}
  TokensOf <- MCTokensOf
  Paid = {a1}
  Live = TRUE
  MaxAttempts = 1
  GatewayLimit = 3
  PaidReserve = 1
  Costs = {1}
  Spends = {3}
SPECIFICATION Spec
SYMMETRY Sym
CHECK_DEADLOCK FALSE
INVARIANTS
  TypeOK
  SpendConserved
  EverydayConserved
  TokensConserved
  TotalsConserved
  
  SlotsCoverRequests
  UsableReplyCharged
  RepliesAgree
