SPECIFICATION Spec
CONSTANTS
  Ops <- MCOps
  PsnRange = 16
  ValidPsnRange = 8
  FirstPsn = 13
  AckThreshold = 2
  MaxRetry = 8
  Faults = {"request", "ack"}
  MaxLosses = 2
  MaxPauses = 1
INVARIANT IndexNamesNextPsn
CHECK_DEADLOCK FALSE
