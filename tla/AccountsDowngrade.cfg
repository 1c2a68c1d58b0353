CONSTANTS
  u1 = u1
  u2 = u2
  a1 = a1
  Accounts = {a1}
  Users = {u1, u2}
  AccountOf <- MCAccountOf
  TopTier = 3
  BillingEvents = {}
  CodePlans = {2, 3}
  MaxCodes = 2
  Pool = {p1, p2}
  Webhook = hook
  MonthDays <- MCMonthDays
  Anchors = {1, 15, 30, 31}
  FirstMonth = 0
  LastMonth = 3
  Chargers = {c1, c2}
  Writes <- MCWrites
  Writers = {w1, w2}
  Callers = {k1, k2}
  Limit = 2
  Window = 2
  MaxKeys = 1
  Stall = 1
  EndOfTime = 3
  Threads = {t1, t2}
  Subjects = {s1, s2}
  MaxIds = 4
  Doors = {d1, d2}
SPECIFICATION ApiSpec
PROPERTIES
  NeverDowngrades
CHECK_DEADLOCK FALSE
