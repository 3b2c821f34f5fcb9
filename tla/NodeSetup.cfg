CONSTANTS
  Addrs = {"a1", "a2"}
  Setups = {"setup"}
  Auth = "trust"
  MaxCalls = 2
  MaxEvents = 2
SPECIFICATION FairSpec
INVARIANTS TypeOK HardenedStays RulesInEffect FileIntact
PROPERTY GrantHeals
CHECK_DEADLOCK FALSE
