\* The parts of the bot: the bump timer with two overlapping firings, two tries
\* and a failed call; the watch with two handlers; gas prices in two attempts.
SPECIFICATION BotSpec
CONSTANTS
  Slot = {s1, s2}
  Tries = 2
  FirstPrice = 6
  Increase = 1
  Ceiling = 20
  RivalPrice = {7, 14}
  MaxFaults = 1
  Handler = {h1, h2}
  None = None
  MaxPrice = 3
  MaxRuns = 2
  MaxRejections = 1
  Pending <- Pendings
  NodePrice = {80, 200}
  MaxBlockGas = 7
  LiquidationGas = 2
  IncreaseValue = 1
  Buffer <- Times
  Reward = {150, 250}
  MaxEvents = 4
  MaxAttempts = 2
INVARIANTS
  TypeOK
  BumpsBounded
  SelfbidExcused
  OneInterval
  MissedOnlyIfOutlived
  RaisedPriceFits
  OutbidsSeen
  LastPriceAffordable
PROPERTIES
  
  ListenEnds
  Settles
CHECK_DEADLOCK FALSE
