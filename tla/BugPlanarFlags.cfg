SPECIFICATION MapSpec

CONSTANTS
  Anything = Anything
  Low = Low
  High = High
  Both = Both
  Planar = Planar
  Packed = Packed
  Fixed = Fixed
  Sink = {Planar, Packed}
  Wants <- MCWants
  Dimension = {"rate"}
  AnyValue = AnyValue
  Source <- Files
  Gains = {1, 2}
  Calls = {}

INVARIANTS
  EverySinkServed
