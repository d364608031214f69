\* Four searches of one query at one chain: enough for it to be tripped and
\* probed, and for stale hits to find the refresh of an earlier one under way.
SPECIFICATION ServiceSpec
CONSTANTS
  s1 = s1
  s2 = s2
  s3 = s3
  s4 = s4
  coop = coop
  lidl = lidl
  migros = migros
  Chains = {coop}
  ChainsOf <- Everywhere
  Budget <- OneTick
  Searches = {s1, s2, s3, s4}
  Cancellable = {}
  Queries = {"milk"}
  Window = 2
  MinimumVolume = 2
  RateNum = 2
  RateDen = 5
  Cooldown = 2
  SuccessesToClose = 2
  Deaf = {}
  Converting = {coop}
  Masking = {}
  LastArrival = 2
  FreshFor = 1
  StaleFor = 2
  MaxEntries = 1
SYMMETRY SearchSymmetry
INVARIANTS
  ProbesDecide
  EntriesConsistent
  OneRefreshPerQuery
CHECK_DEADLOCK FALSE
