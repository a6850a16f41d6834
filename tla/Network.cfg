SPECIFICATION NetworkSpec
CONSTANTS
  c1 = c1
  c2 = c2
  h1 = h1
  h2 = h2
  Conns <- MCConns
  Count <- MCCount
  Kind <- MCKind
  Size <- MCSize
  Total <- MCTotal
  GreenEnd <- MCGreenEnd
  YellowEnd <- MCYellowEnd
  Profile <- MCProfile
  MaxUlpRequests <- MCMaxUlpRequests
  MaxUlpData <- MCMaxUlpData
  Sizes = {1, 2}
  MaxRsn = 4
  Pulls = {1}
  Hosts <- MCHosts
  BufferSize = 1
  QueueSize = 2
  MaxPackets = 5
  Workloads <- MCWorkloads
  Modes = {"kOrdered", "kUnordered"}
  MaxFaults = 1
  MaxRnr = 1
INVARIANTS
  AdmissionSound RequestsInOrder NothingLeftBehind NoLostWakeup XoffHasRelease
  TransactionsSound CompletedAtTheTarget
  RoutingSound RoceQueueSound
PROPERTIES
  AllRequestsDone EveryRequestAcked AllWritten EveryTransactionEnds
  RoceOpsComplete RateRecovers
CHECK_DEADLOCK FALSE
