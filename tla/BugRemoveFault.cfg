SPECIFICATION SafeSpec

CONSTANTS
  i1 = i1
  i2 = i2
  i3 = i3
  s1 = s1
  s2 = s2
  Item = {i1, i2, i3}
  Sink = {s1, s2}
  Setups <- PlainOnly
  FillMode = "any"
  Null = Null
  End = End

INVARIANTS
  NoFault

CHECK_DEADLOCK FALSE
