\* A guest's ring: placeholders, registration, suspend, resume, destruction,
\* with allocations that may fail.
CONSTANTS
  h = h
  g = g
  any = any
  Host = h
  Any = any
  Domains = {h, g}
  RingIds <- GuestRing
  RingLen = 64
  Sizes = {0, 1, 17}
  Wants = {17}
  MayRunOut = TRUE
  Reregister = TRUE
  Mortal = {g}
  Forced = {g}
SPECIFICATION Spec
VIEW WithoutPromises
INVARIANTS MessageAnnounced SufficientMeansSendable
PROPERTIES ContentsKept NoLostWakeup
