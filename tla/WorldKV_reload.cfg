SPECIFICATION Spec
CONSTANTS
  Sessions = {s1}
  Plans <- Shared
  Window = 1
  Sink = 1
  MaxPending = 1
  Configs <- OneRestarter
INVARIANTS
  LoadedReadable
