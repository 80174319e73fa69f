SPECIFICATION Spec
CONSTANTS
  a = a
  b = b
  Producers = {p1}
  Consumers = {c1, c2}
  Items = {a, b}
  NoItem = NoItem
  size_ = 4
  Modulus = 8
  behavior_ = 0
  single_producer_ = TRUE
  single_consumer_ = FALSE
  EnqBatches <- Pair
  DeqSizes = {1, 2}
  MaxLag = 3
SYMMETRY Symmetry
INVARIANT EntriesInRange
