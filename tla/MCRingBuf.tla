------------------------------ MODULE MCRingBuf -----------------------------
(***************************************************************************)
(* V4VRingBuf on a small ring.  The payload lengths are on both sides of   *)
(* every 16 byte boundary a message can meet in it.                        *)
(***************************************************************************)
EXTENDS V4VRingIsChannel

CONSTANTS Lengths, Sources, None

MCMessages == [n : Lengths, src : Sources]
MCNoMessage == [n |-> 0, src |-> None]
=============================================================================
