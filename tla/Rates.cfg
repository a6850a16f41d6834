SPECIFICATION RatesSpec
CONSTANTS
  Foci = {"shared", "gen2", "work"}
  TxSize = 2
  RxSize = 2
  MaxPsn = 2
  MaxNet = 2
  Delays = {1, 3}
  Gen2 = TRUE
  Flows = {0, 1}
  One = 4
  Grain = 2
  TimeMod = 64
  MaxGap = 15
  MaxWeight = 3
  FlowScaling <- Scaling
  P <- Parameters
  Conns = {1}
  Paths <- Ways
  Labels = {1, 2}
  Threshold1 = 1
  Threshold2 = 1
  Threshold3 = 1
  QueueSize = 2
  TimeGap = 2
  AckCount = 1
  MaxReported = 1
  InitialFcwnd = 8
  InitialNcwnd = 2
  InitialRto = 4
  InitialRtt = 2
  MaxAcked = 1
  MaxEvents = 2
  MaxTime = 4
  q1 = q1
  q2 = q2
  Qps <- MCQps
  Ops <- MCOps
  Inbound <- MCInbound
  RdmaCredits <- MCCredits
  QpCredits <- MCQpCredits
  XoffLimit <- MCXoffLimit
  MaxUlpRequests <- MCMaxUlpRequests
  MaxUlpData <- MCMaxUlpData
  Sizes = {1}
  Quanta = 2
  Ord = 1
INVARIANTS
  SharedAcksSound EventsAccounted WindowIsSumOfFlows SchedulerSound NoStrandedWork
PROPERTY EveryOpCompletes
