SPECIFICATION RouterSpec
CONSTANTS
  Ports = {p1, p2}
  Pfc = TRUE
  Xon = TRUE
  PeerFrames = {"pause"}
  CellSizes = {1}
  Unroutable = {p2}
  IngressPool = 1
  EgressPool = 6
  Guarantee = 1
  Headroom = 2
  AlphaIn = 1
  AlphaOut = 1
  MaxEntered = 3
  MaxFrames = 1
INVARIANT DroppedCellsRestored
CHECK_DEADLOCK FALSE
