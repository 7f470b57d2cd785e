SPECIFICATION Spec

CONSTANTS
  i1 = i1
  i2 = i2
  i3 = i3
  Item = {i1, i2, i3}
  Setups <- ReportsAndEdits
  Kinds = {"fingerprinter", "loudness", "waveform"}
  Null = Null
  End = End

INVARIANTS
  InfosBounded
  ReportsInOrder
  PurgedInTime

PROPERTIES
  ReportsAll
  DetachJoins

CHECK_DEADLOCK FALSE
