CONSTANTS
  RingLen = 64
  Lengths = {0, 16, 17}
  Sources = {s1, s2}
  None = None
  Messages <- MCMessages
  NoMessage <- MCNoMessage
SPECIFICATION Spec
INVARIANTS TypeOK NoTornCopy RingInv
PROPERTIES NoOverwrite IsChannel
