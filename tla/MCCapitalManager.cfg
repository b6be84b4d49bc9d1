SPECIFICATION FairCapitalSpec
CONSTANTS
  Currencies = {"CNY", "USD"}
  None = None
  InitialPools <- MCPools
  DeploymentTarget = 90
  MinStep = 20
  Interval = 2
  Amounts = {25, 600}
  InterestBps = 100
  Bookings = 4
CHECK_DEADLOCK FALSE
PROPERTIES BooksOffOnlyWhenDry DeploymentCompletes
