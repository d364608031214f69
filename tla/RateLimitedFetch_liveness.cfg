SPECIFICATION Spec
CONSTANTS
  c1 = c1
  c2 = c2
  m1 = m1
  NoModel = NoModel
  NoRetryAfter = NoRetryAfter
  Times <- Instants
  Callers = {c1, c2}
  Models = {m1}
  Limit = 1
  Window = 3
  HeaderlessStart = 1
  UpstreamDelays <- OneDelay
  ModelCooldown = 2
  QueueBudgets = {6}
  RetryAfters = {2}
  TimerSlack = 1
  MaxLatency = 1
  LastArrival = 0
INVARIANTS
  AttemptsBounded
PROPERTIES
  EveryFetchSettles
  ImplementsGate
  ImplementsLimiter
CHECK_DEADLOCK FALSE
