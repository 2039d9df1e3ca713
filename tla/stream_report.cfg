SPECIFICATION Spec
CONSTANTS
  near = near
  far = far
  End <- MCEnd
  Setups <- MCBlocked
  Sizes = {1, 2}
  Pkts = 3
  Bytes = 4
INVARIANTS DataIntact
CHECK_DEADLOCK FALSE
