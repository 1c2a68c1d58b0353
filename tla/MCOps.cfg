CONSTANTS
  Unit = 12
  KarmiVersion = 1
  Operators = {o1, o2}
  MaxMishaps = 1
  Sources <- MCSources
  Settings <- MCSettings
  Runs = {"first", "again"}
  RegeneratedFrom <- MCRegeneratedFrom
  Models <- MCModels
  Registries <- MCRegistries
  Windows <- MCWindows
  MaxTime = 2
  MaxText = 3
  MaxSecret = 3
  Cases <- MCCases
  LabModels = {"m1", "m2", "paid"}
  Allowlist = {"m1", "m2"}
  MaxRequests = {3, 4}
  MaxWork = 2
  MaxMeddling = 2
  Questions <- MCQuestions
SPECIFICATION OpsSpec
INVARIANTS
  OpsTypeOK
  StoredAsReceived
  
  DecidesAsReceived
  ExactPropensity
  BatchesAddUp
  
  ReportsBuilt
  
  CertifiesCandidate
  OwnBackend
PROPERTIES
  ReexportGrows
CHECK_DEADLOCK FALSE
