\* One run for the parts that have no state in common.
SPECIFICATION PartsSpec
CONSTANTS
  Call = {call}
  Request <- Requests
  Initial <- Initials
  Wanted <- Wanteds
  Tolerance = 1
  MinimumNetDebt = 20
  RaisedRate = 8
  Share <- Shared
  MaxTicks = 2
  MaxEvents = 1
  MaxCalls = 1
  LiquidationReserve = 20
  Digits = 40
  Infinity = 1000000
  DecayFactor = 20
  Beta = 80
  TicksPerMinute = 2
  MinimumRate = 1
  MaximumRate = 10
  Amount = {0, 2, 5}
  Loss = 2
  MaxLiquidations = 2
  MaxTransactions = 3
  Filter = {sent, received}
  MaxBlocks = 3
  TroveList <- TroveLists
  Attempt = {1, 4, 8}
  Limit <- Limits
  Reserve = 1
  LeastNetDebt = 2
  MaxIterations = 2
  RateTolerance = 1
  Base = {0, 8}
  MaxMoments = 2
  MaxTrades = 1
  Ratio = {3, 100}
  Infinite = 100
  Row = {1, 2, 3, 5}
  Factor = 2
  MaxTrials = 2
  Seeds = {7}
  MaxListChanges = 2
  PageSize = 1
  MaxRows = 3
  MaxChanges = 2
  MaxRequests = 3
  Deployment <- Deployments
  Steps <- Plans
  MaxPending = 4
  MaxOthers = 1
  MaxFaults = 2
INVARIANTS
  
  
  NeverOutOfGas
  PlanReaches
  PlanHolds
  ThrowsOnlyIfTouched
  
  IncreaseIsNext
  
  DrawsEnough
  SettlesOnNewest
  TotalFitsList
  ChoiceKept
  RejectedOnlyIfDisturbed
CHECK_DEADLOCK FALSE
