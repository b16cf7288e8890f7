------------------------------- MODULE MCCopy -------------------------------
(* Messages that end before, at and after the end of a ring of 64 bytes, in *)
(* one buffer or in vectors of up to three entries, some of them empty.     *)
EXTENDS V4VCopy

SomeLens == {0, 1, 15, 16, 17, 31, 32}
SomeVectors ==
  {<<>>} \cup UNION {{v \in [1..n -> {0, 1, 15, 16, 17}] : Sum[v] <= 33} : n \in 1..3}
SomeEnds == {0, 1, 8, 16, 17, 32, 40}
SomeSkips == {0, 1, 7, 8, 17}
=============================================================================
