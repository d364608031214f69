\* Two loads by two processes over a directory that may hold one file, with one
\* prune and one incident; or two callers with two web searches each, for two
\* queries, over two providers, one of them serial and one with a budget,
\* across midnight and a restart.
SPECIFICATION SourcesSpec
CONSTANTS
  l1 = l1
  l2 = l2
  server = server
  other = other
  coop = coop
  denner = denner
  migros = migros
  found = found
  hourly = hourly
  None = None
  Ops = {l1, l2}
  Procs = {server, other}
  Keys = {coop, migros, found}
  Prunes = {hourly}
  Tiers = {"ttl", "discovery", "empty"}
  Tier <- TierTable
  KindOf <- KindTable
  MaxFiles = 1
  MaxIncidents = 1
  LastTick = 1
  c1 = c1
  c2 = c2
  milk = milk
  bread = bread
  Sources = {"ddg", "google"}
  Threshold = 2
  Pause = 2
  Chain <- Pair
  Budgeted = {"google"}
  Budget <- Budgets
  Queries = {milk, bread}
  SitesOf <- Sites
  Calls = {c1, c2}
  MaxSearches = 2
  KeepFor = 1
  MaxKept = 1
  DayLength = 2
  LastInstant = 3
  MaxRestarts = 1
SYMMETRY Symmetry
INVARIANTS
  TornOnlyByTwins
  DirectoryBounded
  FallbackIsExplained
  OpenMeansRefused
  BudgetHonoured
  AnswersAreSomebodys
CHECK_DEADLOCK FALSE
