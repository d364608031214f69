\* Two searches, with a background run each, of two queries that share a chain
\* and compete for one cache entry; one caller may leave.
SPECIFICATION ServiceSpec
CONSTANTS
  s1 = s1
  s2 = s2
  s3 = s3
  s4 = s4
  coop = coop
  lidl = lidl
  migros = migros
  Chains = {lidl, migros}
  ChainsOf <- Shared
  Budget <- OneTick
  Searches = {s1, s2}
  Cancellable = {s1}
  Queries = {"milk", "bread"}
  Window = 2
  MinimumVolume = 1
  RateNum = 2
  RateDen = 5
  Cooldown = 2
  SuccessesToClose = 2
  Deaf = {migros}
  Converting = {}
  Masking = {}
  LastArrival = 1
  FreshFor = 1
  StaleFor = 2
  MaxEntries = 1
INVARIANTS
  StoredIsWhole
  OpenMeansFailing
PROPERTIES
  RacesEnd
  RefreshesEnd
CHECK_DEADLOCK FALSE
