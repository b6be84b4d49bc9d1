SPECIFICATION Spec
CONSTANTS
  CSI300 = CSI300
  SP500 = SP500
  GOLD = GOLD
  BTC = BTC
  Old = Old
  New = New
  Missing = Missing
  Torn = Torn
  None = None
  Symbols <- MCSymbols
  Provider <- MCProvider
  Ranges <- MCRanges
  Requests <- MCRequests
  MaxRetries <- MCMaxRetries
  MaxRuns = 2
INVARIANTS PublishedIsSound RerunsAgree OutageLeavesNoMark
PROPERTY EveryIngestEnds
CHECK_DEADLOCK FALSE
