SPECIFICATION Spec
CONSTANTS
  a = a
  b = b
  Producers = {p1, p2}
  Consumers = {c1, c2}
  Items = {a, b}
  NoItem = NoItem
  size_ = 4
  Modulus = 8
  behavior_ = 0
  single_producer_ = FALSE
  single_consumer_ = FALSE
  EnqBatches <- Pair
  DeqSizes = {1, 5}
  MaxLag = 3
SYMMETRY Symmetry
INVARIANTS
  SlotExclusive
  ReportInRange
PROPERTIES
  NoSpuriousEmpty
  RefinesRingQueue
