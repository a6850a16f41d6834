SPECIFICATION WindowsSpec
CONSTANTS
  TxSize = 3
  RxSize = 2
  Deferred = {1}
  Responding = {0, 2}
  EackEarly = TRUE
  OooDistance = 1
  OooCount = 1
  NackLimit = 2
  PauseOnOow = TRUE
  Slack = 0
  MaxPsn = 3
  MaxNet = 2
  Packets = {0, 1}
  Rtos = {1, 2}
  UlpRto = 2
  RnrTimeout = 1
  Jitters = {1}
  EnableRack = TRUE
  RackWindow = 1
  Rtt = 1
  EnableTlp = TRUE
  TlpTimeout = 1
  EarlyThreshold = 1
  MaxAttempts = 2
  MaxTime = 3
INVARIANTS
  AdmittedOnce CompletedIsAcknowledged IInv WaitsInOnePlace
  TimerSound
PROPERTY ImplementsChannel
