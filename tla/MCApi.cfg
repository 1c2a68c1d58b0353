CONSTANTS
  u1 = u1
  u2 = u2
  a1 = a1
  Accounts = {a1}
  Users = {u1}
  AccountOf <- MCAccountOf
  TopTier = 3
  BillingEvents <- MCBillingEvents
  CodePlans = {2}
  MaxCodes = 1
  Pool = {p1, p2}
  Webhook = hook
  MonthDays <- MCMonthDays
  Anchors = {1, 15, 30, 31}
  FirstMonth = 0
  LastMonth = 3
  Chargers = {c1, c2}
  Writes <- MCWrites
  Writers = {w1, w2}
  Callers = {k1, k2}
  Limit = 2
  Window = 2
  MaxKeys = 1
  Stall = 1
  EndOfTime = 3
  Threads = {t1, t2}
  Subjects = {s1, s2}
  MaxIds = 4
  Doors = {d1, d2}
SPECIFICATION ApiSpec
INVARIANTS
  ApiTypeOK
  NewestEventWins
  OneRunningPeriod
  AnswersTrue
  AtMostLimitPerWindow
  OneIdentity
PROPERTIES
  ArmorySettles
  PeriodsTile
  
CHECK_DEADLOCK FALSE
