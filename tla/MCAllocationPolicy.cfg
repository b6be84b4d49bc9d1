SPECIFICATION PolicySpec
CONSTANTS
  EQ = EQ
  GOLD = GOLD
  BTC = BTC
  CASH_CNY = CASH_CNY
  Symbols <- MCSymbols
  CASH = CASH_CNY
  Sleeve <- MCSleeve
  MinWeight <- MCMinWeight
  MaxWeight <- MCMaxWeight
  SleeveBounds <- MCSleeveBounds
  MaxTurnover = 2000
  MinCash = 500
  Equities = {EQ}
  MaxEquity = 10000
  BaseWeights <- MCBaseWeights
  Tilts <- MCTilts
  Scales <- MCScales
  Opening <- MCOpening
  Moves <- MCMoves
  MaxEvents = 1
  Dust = 2
INVARIANT Arrives
PROPERTIES TurnoverBounded FeasibleStaysFeasible OverweightNeverGrows
