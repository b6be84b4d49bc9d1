SPECIFICATION DeskSpec
CONSTANTS
  Symbols = {1, 2}
  InitialCash = 120000
  Lot <- MCLot
  CommissionBps = 3
  Slippages = {5, 25}
  MinNotional = 1000
  Prices <- MCPrices
  Targets <- MCTargets
  Resubmits = FALSE
  Rounds = 2
CHECK_DEADLOCK FALSE
INVARIANTS
  NoChurn
  PositionsFromOrders
  QuietWhenExecuted
  ShadowErrsByLeftovers
PROPERTIES
  AccountHonoured
  OrdersFollowAdvice
  DebtRaisesAlarm
  ShortOnlyOfRejectedSells
