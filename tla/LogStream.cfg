CONSTANTS
  p = p
  q = q
  Nil = Nil
  Pod <- PQ
  Log <- Logs
  Request <- Requested
  Initial <- Started
  LogBufferSize = 1
  MaxSpurious = 1
SPECIFICATION Spec
CHECK_DEADLOCK FALSE
INVARIANTS TypeOK CrashNeedsCancel LinesInOrder CompleteAtEnd
PROPERTY LogRequestEnds
