SPECIFICATION Spec

CONSTANTS
  Node = {n1, n2, n3}
  Null = Null
  Object = {a, b}
  NoObject = NoObject
  Getter = {g1}
  Peeker = {p1}
  Caller = {c1, c2}
  NoThread = NoThread
  MayAbort = TRUE

INVARIANTS
  WellLinked
  HooksBalanced

PROPERTIES
  ImplementsContract
