SPECIFICATION Spec
CONSTANTS
  Size = 3
  Bytes = {"a", "b"}
  Inputs <- LongInputs
  Lengths = {0, 1, 2, 3, 4}
  Producers = {p1}
  Consumers = {c1}
  MaxInt = 6
INVARIANTS
  IndexesAgree
  ObservationsHold
PROPERTY
  ImplementsByteFifo
