------------------------------ MODULE MCQueue ------------------------------
(* Two writes of different length to one destination, and a read. *)
EXTENDS V4VQueue

CONSTANTS w1, w2, r1, file1, dst1

MCFileOf == [i \in Irps |-> file1]
MCDestOf == [w \in Writes |-> dst1]
MCLenOf == [w \in Writes |-> IF w = w1 THEN 1 ELSE 2]
=============================================================================
