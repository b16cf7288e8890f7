\* All calls, of two domains on two CPUs each.
CONSTANTS
  a1 = a1
  a2 = a2
  b1 = b1
  b2 = b2
  b = b
  Callers = {a1, a2, b1, b2}
  Domain <- SomeDomain
  Owner = a
  Infos = {i1, i2}
  None = none
  Calls = {"register", "unregister", "notify", "send", "ask", "create", "destroy", "init", "suspend"}
SPECIFICATION Spec
INVARIANTS TypeOK NoStaleRing NoDeadlock
