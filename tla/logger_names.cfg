SPECIFICATION Spec
CONSTANTS
  PacketThreads = {p1, p2}
  LoggerThread = logger
  kTimes = 2
  PacketsPerPass = 1
  kVectorThreshold = 8
  m_rotate_size = 0
  m_rotate_cycle = 1
  Commands = {"stop"}
  DiskFails = FALSE
  MaxLag = 2
SYMMETRY Symmetry
INVARIANT NothingLost
CHECK_DEADLOCK FALSE
