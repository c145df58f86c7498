SPECIFICATION Spec
CONSTANTS
  Saves = {s1, s2}
  Lookups = {l1, l2}
  Steps = {1, 2}
  MaxSkipStep = 2
  Tiers <- TwoTiers
  Scores = {0, 1, 2}
  Configs <- Mixed
SYMMETRY Symmetry
CHECK_DEADLOCK FALSE
INVARIANTS
  TypeOK
  CleanFailure
  SavedIntact
  VectorBacked
  DeepestAllowed
