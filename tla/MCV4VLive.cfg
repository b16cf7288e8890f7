\* Wake-ups: a guest's ring, suspended and registered again.
CONSTANTS
  h = h
  g = g
  any = any
  Host = h
  Any = any
  Domains = {h, g}
  RingIds <- GuestRing
  RingLen = 48
  Sizes = {1}
  Wants = {1}
  MayRunOut = FALSE
  Reregister = FALSE
  Mortal = {g}
  Forced = {}
SPECIFICATION FairSpec
INVARIANT WaiterListed
PROPERTY WaiterSignalled
