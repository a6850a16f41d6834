SPECIFICATION Spec
CONSTANTS
  Foci = {"event", "behind", "polling", "weighted", "engine", "router"}
  Work <- GateWork
  Limits = {}
  MaxChanges = 1
  Ports = {p1, p2}
  Pfc = TRUE
  Xon = TRUE
  PeerFrames = {"pause", "xon"}
  CellSizes = {1}
  Unroutable = {p2}
  IngressPool = 1
  EgressPool = 6
  Guarantee = 1
  Headroom = 2
  AlphaIn = 1
  AlphaOut = 1
  MaxEntered = 3
  MaxFrames = 2
CHECK_DEADLOCK FALSE
INVARIANTS
  PoliciesFresh
  ArbiterAwake
  CountsMatchQueues
  OrderedDataFollowsRequests
  CellsConserved
  PauseHasRelease
PROPERTIES
  OneDecreasePerRoundTrip
  SleepsOnlyAfterXon
