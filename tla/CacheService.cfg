SPECIFICATION Spec
CONSTANTS
  Saves = {s1, s2, s3}
  Lookups = {l1}
  NumStrategies = 2
  QueueSize = 1
  Configs <- SafetyConfigs
SYMMETRY Symmetry
INVARIANTS
  TypeOK
  BarrierCounts
  HotReads
  OneDriver
  FlushedBeforeClose
PROPERTIES
  TakenOnce
  ImplementsBarrier
