SPECIFICATION FairSpec
CONSTANTS
  Drawdowns <- MCDrawdowns
  RecoveryStep = 10
PROPERTY EveryDrawdownRecovers
