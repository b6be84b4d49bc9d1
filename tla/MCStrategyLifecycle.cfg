SPECIFICATION LifecycleSpec
CONSTANTS
  NOBODY = NOBODY
  Approvers = {NOBODY}
  MaxTransitions = 6
CHECK_DEADLOCK FALSE
INVARIANTS
  TrailReplays
  ShadowBeforeMoney
