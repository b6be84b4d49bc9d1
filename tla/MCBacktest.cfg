SPECIFICATION Spec
CONSTANTS
  Symbols = {1, 2}
  InitialCapital = 10000
  DeploymentRatio = 70
  BuyBps = 50
  SellBps = 100
  MinTradeBps = 50
  DriftBps = 300
  RecoveryStep = 10
  CooldownDays = 5
  DrawdownLevels <- MCLevels
  None = None
  LastStep = 2
  Moves <- MCMoves
  CashReturns = {20}
  Flows = {0, 3000}
  Gaps = {1, 6}
  Allocations <- MCAllocations
  Buckets = {0, 1}
  VolatilityWarmUp = 1
INVARIANTS
  Solvent
  ExposureWithinOverlay
PROPERTIES
  CooldownHonoured
  AccountHonoured
  FlowWithinTheMove
