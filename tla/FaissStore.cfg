SPECIFICATION Spec
CONSTANTS
  Points = {p1, p2, p3}
  MaxId = 3
  Configs <- Failing
SYMMETRY Symmetry
INVARIANTS
  FreshIds
  Durable
  StrayVectorsCut
PROPERTIES
  ImplementsVectorStore
