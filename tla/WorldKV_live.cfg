SPECIFICATION FairSpec
CONSTANTS
  Sessions = {s1, s2}
  Plans <- Shared
  Window = 1
  Sink = 1
  MaxPending = 1
  Configs <- Live
PROPERTIES
  SessionEnds
