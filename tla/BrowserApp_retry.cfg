SPECIFICATION AppSpec
CONSTANTS
  w1 = w1
  t1 = t1
  t2 = t2
  t3 = t3
  Windows = {w1}
  Threads = {t1, t2}
  s1 = s1
  s2 = s2
  zurich = zurich
  Places = {}
  Slots = {s1, s2}
  MaxKept = 1
  MaxAsks = 2
  MaxFailures = 1
  None = None
  aarau = aarau
  bern = bern
  nowhere = nowhere
  Towns = {bern, nowhere}
  Known = {aarau, bern}
  Offered <- Offers
  Here = aarau
  MaxEdits = 2
  MaxChecks = 2
  Nothing = Nothing
  milk = milk
  bread = bread
  coop = coop
  migros = migros
  Queries = {milk, bread}
  Vendors = {coop, migros}
  MaxEntries = 1
  MaxResults = 3
  MaxReloads = 1
SYMMETRY ChatSymmetry
INVARIANT ErrorsAreRetryable
CHECK_DEADLOCK FALSE
