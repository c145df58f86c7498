SPECIFICATION FairSpec
CONSTANTS
  k1 = k1
  k2 = k2
  bytes = bytes
  tensor = tensor
  Threads = {t1, t2}
  Keys = {k1, k2}
  Values = {bytes, tensor}
  Tensors = {tensor}
  NoValue = NoValue
  Menu <- MCMenu
INVARIANTS
  TypeOK
PROPERTIES
  ImplementsKVStore
  CallReturns
