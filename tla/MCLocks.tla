------------------------------ MODULE MCLocks -------------------------------
(* Two CPUs in the domain that owns the ring, two in the other. *)
EXTENDS V4VLocks

CONSTANTS a1, a2, b1, b2, b

SomeDomain == [c \in Callers |-> IF c \in {a1, a2} THEN Owner ELSE b]
=============================================================================
