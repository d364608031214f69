\* Three fetches crowd a limiter of two dispatches in a window; and a turn of two
\* steps with up to three calls and a budget of two, and every text of up to
\* three pieces, or of four that hold an opening tag.
SPECIFICATION AgentSpec
CONSTANTS
  c1 = c1
  c2 = c2
  c3 = c3
  NoModel = NoModel
  NoRetryAfter = NoRetryAfter
  Times <- Instants
  Callers = {c1, c2, c3}
  Models = {}
  Limit = 2
  Window = 3
  HeaderlessStart = 1
  UpstreamDelays <- NoDelay
  ModelCooldown = 2
  QueueBudgets = {3, 9}
  RetryAfters = {4}
  TimerSlack = 0
  MaxLatency = 1
  LastArrival = 1
  Texts <- ShortTexts
  Inputs <- SomeInputs
  Known <- KnownKeys
  Required <- RequiredKeys
  ToolCallBudget = 2
  MaxSteps = 2
  MaxBlocks = 2
  MaxCalls = 3
INVARIANTS
  WindowCap
  OnePlaceInLine
  LimitsHonoured
  BudgetHeld
PROPERTIES
  CutsDoNotMatter
CHECK_DEADLOCK FALSE
