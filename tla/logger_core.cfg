SPECIFICATION Spec
CONSTANTS
  PacketThreads = {p1, p2}
  LoggerThread = logger
  kTimes = 1
  PacketsPerPass = 2
  kVectorThreshold = 2
  m_rotate_size = 1
  m_rotate_cycle = 1
  Commands = {"stop"}
  DiskFails = TRUE
  MaxLag = 2
SYMMETRY Symmetry
INVARIANTS
  TypeOK
  InOrder
  Accounted
  FileSize
CHECK_DEADLOCK FALSE
