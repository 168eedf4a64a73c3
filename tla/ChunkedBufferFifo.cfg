SPECIFICATION Spec
CONSTANTS
  Addrs = {a1, a2, a3}
  Null = null
  ChunkSize = 2
  Bytes = {"x", "y"}
  Inputs <- LongInputs
  Lengths = {0, 1, 2, 3, 5}
  MaxBytes = 5
SYMMETRY AddrSymmetry
INVARIANTS
  ListIntact
PROPERTY
  ImplementsByteFifo
