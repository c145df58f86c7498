SPECIFICATION Spec
CONSTANTS
  Sessions = {s1, s2}
  Configs <- MCConfigs
  Empty = Empty
  Wrong = Wrong
INVARIANTS
  TypeOK
  RingExact
  ReplayExact
  WindowSuffices
SYMMETRY Symmetry
