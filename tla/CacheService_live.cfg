SPECIFICATION FairSpec
CONSTANTS
  Saves = {s1, s2, s3}
  Lookups = {l1}
  NumStrategies = 1
  QueueSize = 1
  Configs <- LiveConfigs
PROPERTIES
  QueuedSaveRuns
  LookupReturns
  ShutdownReturns
