SPECIFICATION FairSpec
CONSTANTS
  near = near
  far = far
  End <- MCEnd
  Setups <- MCSetups
  Sizes = {1, 2}
  Pkts = 3
  Bytes = 4
INVARIANTS TypeOK DataIntact OneWindowHeld
PROPERTIES WindowSpec AllDelivered
CHECK_DEADLOCK FALSE
