SPECIFICATION WorkSpec
CONSTANTS
  q1 = q1
  q2 = q2
  Qps <- MCQps
  Ops <- OrdOps
  Inbound <- OrdInbound
  RdmaCredits <- MCCredits
  QpCredits <- MCQpCredits
  XoffLimit <- MCXoffLimit
  MaxUlpRequests <- MCMaxUlpRequests
  MaxUlpData <- MCMaxUlpData
  Sizes = {1}
  Quanta = 2
  Ord = 1
INVARIANT ActiveSetsAgree
