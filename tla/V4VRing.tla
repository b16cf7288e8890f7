------------------------------ MODULE V4VRing ------------------------------
(***************************************************************************)
(* The pointer arithmetic of a v4v ring, shared by the hypervisor          *)
(* (xen/common/v4v.c) and by the receiving domain (the inline functions of *)
(* xen/include/public/v4v.h).                                              *)
(*                                                                         *)
(* A ring of len bytes is read at rx_ptr, which only the receiving domain  *)
(* writes, and written at tx_ptr, which only the hypervisor writes.  Every *)
(* message is a 16 byte header followed by its payload padded to 16 bytes, *)
(* and len is a multiple of 16, so both pointers stay multiples of 16 and  *)
(* a header never wraps.                                                   *)
(***************************************************************************)
EXTENDS Integers

\* sizeof(struct v4v_ring_message_header)
HeaderSize == 16

\* V4V_ROUNDUP
RoundUp(a) == 16 * ((a + 15) \div 16)

\* The bytes a message with n bytes of payload takes in a ring.
MessageSize(n) == RoundUp(n) + HeaderSize

\* v4v_ring_add: the lengths a ring may be registered with.
MinRingLen == HeaderSize + RoundUp(1) + RoundUp(1)
ValidRingLen(len) == len >= MinRingLen /\ RoundUp(len) = len

\* The pointer p after a step that may run up to the end of the ring.
Wrap(p, len) == IF p >= len THEN p - len ELSE p

\* v4v_ring_bytes_to_read
BytesToRead(rx, tx, len) == IF tx - rx >= 0 THEN tx - rx ELSE len + (tx - rx)

\* v4v_sanitize_ring: the hypervisor's view of the receiver's rx_ptr.
SanitizeRx(rx, len) == IF RoundUp(rx) >= len THEN 0 ELSE RoundUp(rx)

\* v4v_ringbuf_insert: the space sp it finds between tx_ptr and rx_ptr.
InsertSpace(rx, tx, len) ==
  IF rx = tx THEN len
  ELSE IF rx - tx < 0 THEN rx - tx + len ELSE rx - tx

\* v4v_ringbuf_insert: a payload this long never fits (-EMSGSIZE).
TooLong(n, len) == MessageSize(n) >= len

\* v4v_ringbuf_insert: a payload this long does not fit now (-EAGAIN).
NoRoom(n, rx, tx, len) == MessageSize(n) >= InsertSpace(SanitizeRx(rx, len), tx, len)

\* v4v_ringbuf_payload_space: the space v4v_notify reports and compares
\* pending senders with; it uses the receiver's rx_ptr as it stands.
PayloadSpace(rx, tx, len) ==
  IF rx = tx THEN len - HeaderSize
  ELSE LET s == InsertSpace(rx, tx, len) - HeaderSize - RoundUp(1)
       IN  IF s < 0 THEN 0 ELSE s

\* v4v_fill_ring_data: the max_message_size it reports for a ring.
MaxMessageSize(len) == len - HeaderSize - RoundUp(1)

\* v4v_ring_add: a tx_ptr that cannot be one of a ring of len bytes is
\* replaced by the receiver's rx_ptr, rounded up.
FixTx(rx, tx, len) ==
  IF tx >= len \/ RoundUp(tx) # tx
  THEN IF RoundUp(rx) >= len THEN 0 ELSE RoundUp(rx)
  ELSE tx
=============================================================================
