------------------------- MODULE V4VRingIsChannel -------------------------
(***************************************************************************)
(* The data path of a ring implements the queue of V4VChannel.             *)
(***************************************************************************)
EXTENDS V4VRingBuf

\* The cell b bytes before the offset t is the header of m, and m fits into
\* these bytes.
HeaderBefore(cells, t, b, m) ==
  cells[Wrap(t + (RingLen - b), RingLen)] = HeaderCell(m) /\ MessageSize(m.n) <= b

\* The messages in the b bytes before the offset t, for every b, read as
\* v4v_copy_out would.
MessagesBefore(cells, t) ==
  LET rest[b \in 0 .. RingLen] ==
        IF b = 0 THEN <<>>
        ELSE IF \E m \in Messages : HeaderBefore(cells, t, b, m)
        THEN LET m == cells[Wrap(t + (RingLen - b), RingLen)][2]
             IN  <<m>> \o rest[b - MessageSize(m.n)]
        ELSE <<NoMessage>>
  IN  rest

\* The messages between rx_ptr and tx_ptr.
Stored == MessagesBefore(mem, tx_ptr)[BytesToRead(rx_ptr, tx_ptr, RingLen)]

Channel == INSTANCE V4VChannel WITH chan <- Stored, out <- out

\* A registered ring is a bounded first-in first-out queue: accepted
\* messages are consumed once each, in order, and a send that fails half way
\* leaves no trace.
IsChannel == Channel!Spec
=============================================================================
