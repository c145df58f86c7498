SPECIFICATION Spec
CONSTANTS
  Saves = {s1}
  Lookups = {l1}
  Steps = {1, 2}
  MaxSkipStep = 2
  Tiers <- TwoTiers
  Scores = {1}
  Configs <- Effects
CHECK_DEADLOCK FALSE
INVARIANT AllOrNothing
