SPECIFICATION Spec
CONSTANTS
  Sessions = {s1, s2}
  Plans <- Requests
  Window = 1
  Sink = 1
  MaxPending = 1
  Configs <- Safety
SYMMETRY Symmetry
INVARIANTS
  TypeOK
  PublishedWritten
  SerialHitsSound
  CursorAligned
  RefsBalanced
