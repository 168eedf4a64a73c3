SPECIFICATION Spec
CONSTANTS
  Size = 5
  Bytes = {"x"}
  Inputs <- LongInputs
  Interleaved = TRUE
  MayAbandon = TRUE
  ClearsAnytime = TRUE
INVARIANTS
  RegionsApart
  NoRace
  EmptyAcceptsDataIfCommitted
