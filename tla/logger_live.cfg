SPECIFICATION FairSpec
CONSTANTS
  PacketThreads = {p1}
  LoggerThread = logger
  kTimes = 1
  PacketsPerPass = 3
  kVectorThreshold = 2
  m_rotate_size = 1
  m_rotate_cycle = 1
  Commands = {"stop", "skip_output"}
  DiskFails = FALSE
  MaxLag = 2
PROPERTIES
  AcceptedIsWritten
  StopEnds
CHECK_DEADLOCK FALSE
