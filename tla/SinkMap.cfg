SPECIFICATION MapSpec

CONSTANTS
  Anything = Anything
  Low = Low
  High = High
  Both = Both
  Planar = Planar
  Packed = Packed
  Fixed = Fixed
  Sink = {Anything, Low, High, Both}
  Wants <- MCWants
  Dimension = {"rate"}
  AnyValue = AnyValue
  Source <- Files
  Gains = {1, 2}
  Calls = {"detach", "set_gain"}

INVARIANTS
  EverySinkServed
  BranchesCurrent
  NeverStale

PROPERTIES
  VisitsOneAtATime
