SPECIFICATION Spec
CONSTANTS
  RingLen = 64
  Vectors <- SomeVectors
  Lens <- SomeLens
  Changed = {0, 16, 33}
  Ends <- SomeEnds
  Skips <- SomeSkips
INVARIANTS OwnBytesOnly PublishedWhole Gathered CopiedOut
CHECK_DEADLOCK FALSE
