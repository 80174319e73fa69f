SPECIFICATION Spec
CONSTANTS
  Producers = {p1, p2}
  Size = 3
  Bits = 4
  NoItem = NoItem
  Torn = Torn
INVARIANTS
  TypeOK
  RoundupIsLeast
  OverrunBound
PROPERTIES
  ReadExplained
  NeverWraps
CHECK_DEADLOCK FALSE
