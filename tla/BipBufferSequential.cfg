SPECIFICATION Spec
CONSTANTS
  Size = 4
  Bytes = {"x", "y"}
  Inputs <- ShortInputs
  Interleaved = FALSE
  MayAbandon = TRUE
  ClearsAnytime = FALSE
PROPERTY
  ImplementsByteFifo
