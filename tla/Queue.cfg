SPECIFICATION Spec

CONSTANTS
  g1 = g1
  g2 = g2
  g3 = g3
  Object = {a, b}
  NoObject = NoObject
  Thread = {g1, g2, g3}
  Roles <- BothRoles
  MaxLen = 4

INVARIANTS
  TypeOK
  GettersNotStranded
  SoleWaiterNotStranded

PROPERTIES
  AbortReturns
