SPECIFICATION LiveSpec
CONSTANTS
  Session = {1, 2}
  NoSession = NoSession
  Bridge = {b1, b2}
  NoBridge = NoBridge
  Caps = {1, 2}
  LeaseTime = 2
  StopGrace = 2
  Never = Never
  MaxTime = 2
  MaxStaff = 1
  MaxLosses = 1
INVARIANTS TypeOK CapacityHeld OnePublisher LeaseCoversAuthority StopIsBounded
PROPERTIES KeepsSlots CapacityReturns
CHECK_DEADLOCK FALSE
