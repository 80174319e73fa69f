SPECIFICATION Spec
CONSTANTS
  m_compress_size = 3
  kSafeThreshold = 4
  kWindow = 1
  kPending = 2
  kLine = 2
  PassLines = 2
  MaxLines = 4
  MaxWall = 1
  MaxCrashes = 1
  MaxClears = 1
  Faults = {"disk", "memory"}
INVARIANTS
  TypeOK
  NoTornLine
  PublishedWhole
  InOrder
PROPERTY OnlyClearLeaks
