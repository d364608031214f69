\* Two callers with two web searches each, across a restart within the day.
SPECIFICATION SourcesSpec
CONSTANTS
  l1 = l1
  l2 = l2
  server = server
  other = other
  coop = coop
  denner = denner
  migros = migros
  found = found
  hourly = hourly
  None = None
  Ops = {l1, l2}
  Procs = {server, other}
  Keys = {coop, migros, found}
  Prunes = {hourly}
  Tiers = {"ttl", "discovery", "empty"}
  Tier <- TierTable
  KindOf <- KindTable
  MaxFiles = 1
  MaxIncidents = 1
  LastTick = 1
  c1 = c1
  c2 = c2
  milk = milk
  bread = bread
  Sources = {"ddg", "google"}
  Threshold = 2
  Pause = 2
  Chain <- Pair
  Budgeted = {"google"}
  Budget <- Budgets
  Queries = {milk, bread}
  SitesOf <- Sites
  Calls = {c1, c2}
  MaxSearches = 2
  KeepFor = 1
  MaxKept = 1
  DayLength = 2
  LastInstant = 3
  MaxRestarts = 1
SYMMETRY Symmetry
INVARIANT
  RestartsResetNothing
CHECK_DEADLOCK FALSE
