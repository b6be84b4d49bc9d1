SPECIFICATION Spec
CONSTANTS
  Instruments = {"CSI300", "GOLD"}
  Spans = {1, 2}
  Bundles <- MCBundles
  Digest <- MCDigest
  Missing = Missing
  Torn = Torn
  None = None
INVARIANTS
  PublishedComplete
  CrashHealed
  QualityReadsOneIngest
  OverwrittenByRevisionsOnly
