SPECIFICATION Spec
CONSTANTS
  Ids = {"a", "b", "c"}
  Entry <- MCEntry
  Default = "approximate"
  MaxTime = 1
INVARIANTS
  ReturnedIsDurable
  CleanMeansSaved
  PlanFitsLRU
