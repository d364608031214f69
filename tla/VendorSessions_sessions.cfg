SPECIFICATION Spec
CONSTANTS
  None = None
  c1 = c1
  c2 = c2
  c3 = c3
  Requests = {c1, c2}
  Spacing = 2
  Timeout = 2
  Retries = 1
  Backoff = 1
  MaxTime = 6
  Callers = {c1, c2, c3}
  MaxStarts = 3
  MaxMishaps = 1
  l1 = l1
  l2 = l2
  k1 = k1
  town = town
  mall = mall
  Lookups = {l1, l2}
  Keystrokes = {k1}
  Texts = {town, mall}
  KnownAt <- Gazetteers
  Interval = 2
  LastMoment = 3
INVARIANTS
  HostsAreSpared
  InterestsAreSpared
  OneBrowser
PROPERTIES
  SessionsAnswer
CHECK_DEADLOCK FALSE
