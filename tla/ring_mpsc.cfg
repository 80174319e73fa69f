SPECIFICATION FairSpec
CONSTANTS
  a = a
  b = b
  Producers = {p1, p2}
  Consumers = {c1}
  Items = {a, b}
  NoItem = NoItem
  size_ = 4
  Modulus = 8
  behavior_ = 1
  single_producer_ = FALSE
  single_consumer_ = TRUE
  EnqBatches <- Pair
  DeqSizes = {2}
  MaxLag = 2
INVARIANTS
  TypeOK
  IndexInv
  CountIsLowerBound
PROPERTIES
  NoSpuriousFull
  RefinesRingQueue
  ClaimsComplete
  SingleReturns
