SPECIFICATION Spec
CONSTANTS
  Month = 3
  ContributionDay = 1
  Capital = 9600
  Contribution = 9600
  Resim = 2
  YearBars = 2
  HoldingBars = 3
  HoldingDays = 4
  Step = 3
  NegativeBars = 2
  MaxStarts = 2
  Bracket = 4
  Levels = {75, 96, 100, 128}
  Opening = 100
  Benchmarks <- MCBenchmarks
  Calendars <- MCCalendars
  EvidenceSet <- MCEvidence
  Goals = {9600, 19200, 24000}
  MaxBars = 5
CHECK_DEADLOCK FALSE
INVARIANTS
  VerdictMonotone
  ProfitIsEarned
  WealthFallsNoDeeper
  DrawdownsAgree
  MilestonesOrdered
