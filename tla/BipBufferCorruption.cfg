SPECIFICATION Spec
CONSTANTS
  Size = 3
  Bytes = {"x", "y"}
  Inputs <- ShortInputs
  Interleaved = TRUE
  MayAbandon = FALSE
  ClearsAnytime = FALSE
PROPERTY
  ImplementsByteFifo
