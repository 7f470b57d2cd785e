SPECIFICATION Spec
SYMMETRY Alike
CONSTANTS
  Name = {n1, n2}
  Temp = {t1, t2}
  Inode = {i1, i2, i3, i4, i5}
  Null = Null
  Frames = 2
  Budget = 5
INVARIANTS
  OriginalSurvives
  NoLitter
  CleanMeansSaved
CHECK_DEADLOCK FALSE
