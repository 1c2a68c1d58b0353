CONSTANTS
  openrouter = openrouter
  opencode = opencode
  e1 = e1
  b1 = b1
  b2 = b2
  v1 = v1
  Models = {e1, b1, b2, v1}
  Providers = {openrouter, opencode}
  ProviderOf <- MCProviderOf
  Threshold = 2
  OpenTicks = 1
  CoolTicks = {1}
  Registry <- MCRegistry
  RankOf <- MCRankOf
  ContextOf <- MCContextOf
  ScoreOf <- MCScoreOf
  HardTasks = {}
  Asks <- MCAsks
  Requests = {r1, r2}
SPECIFICATION FairSpec
PROPERTIES
  OneProbe
