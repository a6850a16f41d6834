SPECIFICATION RouterSpec
CONSTANTS
  Ports = {p1, p2}
  Pfc = TRUE
  Xon = TRUE
  PeerFrames = {"pause"}
  CellSizes = {1, 2}
  Unroutable = {}
  IngressPool = 2
  EgressPool = 6
  Guarantee = 2
  Headroom = 2
  AlphaIn = 1
  AlphaOut = 1
  MaxEntered = 3
  MaxFrames = 1
INVARIANT TagAccountsForPacket
CHECK_DEADLOCK FALSE
