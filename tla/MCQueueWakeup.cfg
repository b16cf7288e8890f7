SPECIFICATION FairSpec
CONSTANTS
  w1 = w1
  w2 = w2
  r1 = r1
  file1 = file1
  dst1 = dst1
  None = None
  Virq = Virq
  Files = {file1}
  Dests = {dst1}
  Writes = {w1}
  Reads = {}
  FileOf <- MCFileOf
  DestOf <- MCDestOf
  LenOf <- MCLenOf
  IgnoreDLO = {}
  Callers = {c1}
  Capacity = 2
  MaxCount = 2
  MayFail = FALSE
  MaxEvents = 1
  MaxIssued = 1
CHECK_DEADLOCK FALSE
PROPERTY
  WritesComplete
