SPECIFICATION Spec
CONSTANTS
  Session = {1}
  NoSession = NoSession
  Bridge = {b1, b2}
  NoBridge = NoBridge
  Caps = {1, 2}
  LeaseTime = 2
  StopGrace = 2
  Never = Never
  MaxTime = 2
  MaxStaff = 1
  MaxLosses = 0
SYMMETRY BridgeSymmetry
INVARIANTS OnlyAmbiguousHeld
CHECK_DEADLOCK FALSE
