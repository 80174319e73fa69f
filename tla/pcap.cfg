SPECIFICATION Spec
CONSTANTS
  Captures <- SomeCaptures
  CoreNums = {0, 2, 3, 4, 5}
  XorOp <- BitXor
  kGroupBits = 2
  kHeap = {0, 1, 2}
  ReadFails = TRUE
INVARIANTS
  TypeOK
  GroupsHoldCapture
  FlowsStayTogether
CHECK_DEADLOCK FALSE
