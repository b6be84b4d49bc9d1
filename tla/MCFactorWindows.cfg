SPECIFICATION Spec
CONSTANTS
  Instruments = {"a", "b", "c"}
  RiskFree = "c"
  Markets <- MCMarkets
  Seen <- MCSeen
  D20 = 1
  D21 = 1
  D60 = 2
  D63 = 2
  D126 = 2
  D200 = 2
  D252 = 3
  D756 = 3
  D1260 = 4
  D2520 = 5
  Min10 = 1
  Min20 = 1
  Min60 = 1
  Min252 = 2
  MaxBars = 5
CHECK_DEADLOCK FALSE
PROPERTIES
  PublishedStands
  GapsStay
