SPECIFICATION FairSpec
CONSTANTS
  Drawdowns <- MCDrawdowns
  RecoveryStep = 10
INVARIANT ExposureCapped
PROPERTIES
  RiseOnlyWhenCalm
  RiseIsGradual
  RecoveryCompletes
