\* Three ring objects for one id.
CONSTANTS
  Objects = {o1, o2, o3}
  Workers = {w1, w2}
  MayFail = TRUE
  None = None
  Broken = Broken
SPECIFICATION Spec
INVARIANTS TypeOK NoFreedRing
