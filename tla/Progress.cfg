SPECIFICATION Spec
CONSTANTS
  Threads = {t1, t2}
  Signos = {"INT", "USR1", "KILL"}
  Callbacks = {c1, c2}
  Uncatchable = {"KILL"}
  MaxFrames = 3
  MaxSteps = 4
  Fifos = {f1, f2}
  Capacity = 3
  PipeBuf = 2
  Chunk = 2
  MaxOpens = 3
  MaxBytes = 4
INVARIANTS
  RunningCallbackRooted
  BytesConserved
  SelectExact
PROPERTIES
  CallsReturnUnlessSelfDeadlock
  ServiceStops
  ReadAllEnds
  EndsWithParent
CHECK_DEADLOCK FALSE
