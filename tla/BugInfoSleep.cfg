SPECIFICATION Spec

CONSTANTS
  i1 = i1
  i2 = i2
  i3 = i3
  Item = {i1, i2, i3}
  Setups <- NarrowOnly
  Kinds = {"fingerprinter", "loudness", "waveform"}
  Null = Null
  End = End

PROPERTIES
  RoomWakes

CHECK_DEADLOCK FALSE
