SPECIFICATION Spec
CONSTANTS
  Foci = {"event"}
  Work <- AdmissionWork
  Limits = {"rx_window"}
  MaxChanges = 0
  Ports = {p1, p2}
  Pfc = TRUE
  Xon = TRUE
  PeerFrames = {"pause", "xon"}
  CellSizes = {1}
  Unroutable = {p2}
  IngressPool = 1
  EgressPool = 6
  Guarantee = 1
  Headroom = 2
  AlphaIn = 1
  AlphaOut = 1
  MaxEntered = 0
  MaxFrames = 0
CHECK_DEADLOCK FALSE
INVARIANT NoCheckFails
