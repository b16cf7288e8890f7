------------------------------- MODULE MCV4V -------------------------------
(* Instances of V4V for TLC. *)
EXTENDS V4V

CONSTANTS h, g, any

Ring(dom, port, partner) == [dom |-> dom, port |-> port, partner |-> partner]

\* One ring of a guest, which the host sends to.
GuestRing == {Ring(g, 1, h)}

\* All that guards, other variables and the properties of the guest's run depend
\* on: the promises in waiting are only recorded.
WithoutPromises == <<v4v, awake, info, mem, own, op, irq, scan, dirty>>
=============================================================================
