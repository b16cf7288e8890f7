\* A placeholder is made while its owner unregisters the id.
CONSTANTS
  a1 = a1
  a2 = a2
  b1 = b1
  b2 = b2
  b = b
  Callers = {a1, a2, b1, b2}
  Domain <- SomeDomain
  Owner = a
  Infos = {i1, i2}
  None = none
  Calls = {"unregister", "create"}
SPECIFICATION Spec
INVARIANT CreatedRingStays
