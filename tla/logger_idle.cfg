SPECIFICATION Spec
CONSTANTS
  PacketThreads = {p1, p2}
  LoggerThread = logger
  kTimes = 1
  PacketsPerPass = 1
  kVectorThreshold = 2
  m_rotate_size = 1
  m_rotate_cycle = 1
  Commands = {}
  DiskFails = FALSE
  MaxLag = 1
SYMMETRY Symmetry
INVARIANT IdlePassReturns
CHECK_DEADLOCK FALSE
