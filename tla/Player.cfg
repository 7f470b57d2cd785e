SPECIFICATION Spec

CONSTANTS
  i1 = i1
  i2 = i2
  i3 = i3
  Item = {i1, i2, i3}
  Setups <- PlayerSetups
  DeviceFrames = 2
  Null = Null
  End = End

INVARIANTS
  HeardInOrder
  PlayHeadAlive

PROPERTIES
  FormatMatches
  PlaysAll
  DetachJoins

CHECK_DEADLOCK FALSE
