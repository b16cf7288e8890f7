\* Registrations with and without fail_exist.
CONSTANTS
  Gfns = {g1, g2, g3}
  Pages = {p1, p2}
  MaxPages = 3
  Paged = paged
  Invalid = invalid
SPECIFICATION Spec
INVARIANTS RefsBalanced FullySetUp
