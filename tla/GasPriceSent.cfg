\* A liquidation that is sent pays more than its competitors: it does not.
SPECIFICATION GasSpec
CONSTANTS
  Pending <- Pendings
  NodePrice = {10, 20}
  MaxBlockGas = 7
  LiquidationGas = 2
  IncreaseValue = 1
  Buffer <- Times
  Reward = {15, 25}
  MaxEvents = 3
  MaxAttempts = 1
INVARIANT SentOutbids
CHECK_DEADLOCK FALSE
