SPECIFICATION Spec

CONSTANTS
  i1 = i1
  i2 = i2
  i3 = i3
  Item = {i1, i2, i3}
  Setups <- EncoderSetups
  CodecDelay = 1
  AvioSize = 1
  Null = Null
  End = End
  Header = Header
  Trailer = Trailer

INVARIANTS
  StreamInOrder
  PurgedInTime
  AttachedRuns
  FormatClosest

PROPERTIES
  EncodesAll
  DetachJoins

CHECK_DEADLOCK FALSE
