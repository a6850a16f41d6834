SPECIFICATION RegistersSpec
CONSTANTS
  Half = 4
  Size = 3
  Lag = 2
  LastPsn = 20
  RxSize = 3
  Deferred = {1}
  Threshold = 3
  Timeout = 2
  IgnoreAr = TRUE
  FirstTime = 1
  MaxPsn = 4
  MaxTime = 6
  Pulls = {pull}
  PushRequests = {push}
  Unsolicited = {data1, data2}
  Ncwnd = 1
  MaxAttempts = 3
  CounterModulus = 8
INVARIANTS
  RegistersTrackPsns CountersAgree AcksNotForgotten
PROPERTIES CountedRequestsEnd AllComplete
