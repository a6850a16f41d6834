CONSTANTS
  TxSize = 4
  RxSize = 1
  Deferred = {}
  Responding = {0, 1, 2, 3}
  EackEarly = TRUE
  OooDistance = 1
  OooCount = 1
  NackLimit = 2
  PauseOnOow = TRUE
  Slack = 1
  MaxPsn = 4
  MaxNet = 2
SPECIFICATION Spec
INVARIANTS
  OowBitCleared
