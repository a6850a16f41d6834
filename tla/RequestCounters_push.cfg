SPECIFICATION CountersSpec
CONSTANTS
  Pulls = {pull1}
  PushRequests = {push1}
  Unsolicited = {}
  Ncwnd = 2
  MaxAttempts = 3
  CounterModulus = 8
INVARIANT SettledOnce
