\* A caller who searches two chains, first together and then apart, one who
\* searches the first of them alone, and a look-up of what the catalogue knows;
\* and every kind of request over Coop, Migros and Aldi.
SPECIFICATION ServicesSpec
CONSTANTS
  Products = {"coop1"}
  Limit = 2
  Readings <- Plain
  Callers = {"c1", "c2"}
  Chains = {"coop", "lidl"}
  Wanted <- Wants
  ChainOf <- Homes
  SameNames = {"coop"}
  Cap <- Caps
  Composite = TRUE
  Lookers = {"l1"}
  MaxLookups = 1
  MaxQueries = 1
  None = None
  Running = Running
  Failed = Failed
  Rank <- Places
  Adapters <- Order
  ByStore = {"migros"}
  ByPoint = {"aldi"}
  StoresOf <- Stores
  OpenNow <- Hours
  Found <- FoundIn
  Promoted <- PromotedIn
  Requests <- AllRequests
INVARIANTS
  StatusEarned
  OneDiscoveryPerChain
  RediscoveredOnce
  CheapestIsCheapest
  OwnStock
PROPERTIES
  SearchesEnd
  LookupsEnd
CHECK_DEADLOCK FALSE
