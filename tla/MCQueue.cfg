SPECIFICATION Spec
CONSTANTS
  w1 = w1
  w2 = w2
  r1 = r1
  file1 = file1
  dst1 = dst1
  None = None
  Virq = Virq
  Files = {file1}
  Dests = {dst1}
  Writes = {w1, w2}
  Reads = {r1}
  FileOf <- MCFileOf
  DestOf <- MCDestOf
  LenOf <- MCLenOf
  IgnoreDLO = {w2}
  Callers = {c1}
  Capacity = 2
  MaxCount = 2
  MayFail = TRUE
  MaxEvents = 2
  MaxIssued = 2
CHECK_DEADLOCK FALSE
INVARIANTS
  DestinationsInStep
  CompletedOnce
  NoForgottenWrite
  ContextHeld
  NoForgottenMessage
