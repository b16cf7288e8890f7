------------------------------ MODULE V4VCopy -------------------------------
(***************************************************************************)
(* The bytes of one message: how v4v_ringbuf_insert (xen/common/v4v.c)     *)
(* gathers them from the sender's vector of buffers into a ring, and how   *)
(* v4v_copy_out_offset (xen/include/public/v4v.h) takes a part of them out.*)
(*                                                                         *)
(* The vector lies in the sender's memory.  It is read once to count the   *)
(* message and entry by entry again to copy it, and may have changed in    *)
(* between.                                                                *)
(***************************************************************************)
EXTENDS Integers, Sequences, V4VRing

CONSTANTS RingLen,   \* length of the ring
          Vectors,   \* the vectors sent, as sequences of iov_len; <<>> is no vector
          Lens,      \* lengths of messages without a vector
          Changed,   \* lengths an entry may change to between the count and the copy
          Ends,      \* values of t given to v4v_copy_out_offset
          Skips      \* values of skip

ASSUME CopyAssumption ==
  /\ ValidRingLen(RingLen) /\ Changed \subseteq Nat
  /\ Lens \subseteq Nat /\ Ends \subseteq Nat /\ Skips \subseteq Nat
  /\ \A v \in Vectors : v \in Seq(Nat)

VARIABLES ring,    \* the bytes of the ring
          rx, tx,  \* its pointers, as the receiver sees them
          msg,     \* the message: its vector and its counted length
          ins,     \* the locals of v4v_ringbuf_insert; same: no entry has changed
          out,     \* the receiver's buffer, with a margin on both sides
          asked    \* the t and skip it was read with

vars == <<ring, rx, tx, msg, ins, out, asked>>
reader == <<out, asked>>

\* A byte is named by the buffer it comes from and its place there.  Buffer 0
\* is not the message: the ring's earlier contents, a header, no byte at all.
Old == <<0, 0>>
Header == <<0, 1>>
Untouched == <<0, 2>>

Offsets == 0..(RingLen - 1)
Aligned == {p \in Offsets : RoundUp(p) = p}
Margin == 8
Buffer == (-Margin)..(RingLen + Margin)

\* v4v_iov_count
Sum[v \in Seq(Nat)] == IF v = <<>> THEN 0 ELSE Head(v) + Sum[Tail(v)]

Init ==
  /\ ring = [p \in Offsets |-> Old]
  /\ rx \in Aligned /\ tx \in Aligned
  /\ \E v \in Vectors : \E n \in IF v = <<>> THEN Lens ELSE {Sum[v]} :
       msg = [vector |-> v, len |-> n, at |-> tx]
  /\ ins = [pc |-> "start", tx |-> tx, len |-> msg.len, niov |-> Len(msg.vector),
            src |-> 1, off |-> 0, same |-> TRUE]
  /\ out = [b \in Buffer |-> Untouched] /\ asked = <<>>
-----------------------------------------------------------------------------
(* v4v_ringbuf_insert *)

\* The ring after n bytes of buffer src from off on are written at p.
Write(p, src, off, n) ==
  [q \in Offsets |-> IF q \in p..(p + n - 1) THEN <<src, off + q - p>> ELSE ring[q]]

\* The checks and the header.
InsertHeader ==
  /\ ins.pc = "start"
  /\ ~ TooLong(msg.len, RingLen) /\ ~ NoRoom(msg.len, rx, tx, RingLen)
  /\ ring' = [q \in Offsets |-> IF q \in tx..(tx + HeaderSize - 1) THEN Header ELSE ring[q]]
  /\ ins' = [ins EXCEPT !.pc = "iov", !.tx = Wrap(tx + HeaderSize, RingLen)]
  /\ UNCHANGED <<rx, tx, msg, reader>>

\* Mutant: the part after the end of the ring starts the buffer over.
SplitRestarts(src, off, n) ==
  LET sp == RingLen - ins.tx
  IN  IF n > sp
      THEN [q \in Offsets |-> IF q >= ins.tx THEN <<src, off + q - ins.tx>>
                              ELSE IF q < n - sp THEN <<src, off + q>>
                              ELSE ring[q]]
      ELSE Write(ins.tx, src, off, n)

\* n bytes of buffer src from off on, in two parts where the ring ends.
Split(src, off, n) ==
  LET sp == RingLen - ins.tx
  IN  IF n > sp
      THEN [q \in Offsets |-> IF q >= ins.tx THEN <<src, off + q - ins.tx>>
                              ELSE IF q < n - sp THEN <<src, off + sp + q>>
                              ELSE ring[q]]
      ELSE Write(ins.tx, src, off, n)

\* buf_hnd after Split has moved it past the first part.
OffsetAfter(off, n) == IF n > RingLen - ins.tx THEN off + RingLen - ins.tx ELSE off

\* Mutant: the length of an entry is not compared with what is left.
EntryFitsAlways(n) == n <= RingLen

\* An entry that has grown since it was counted: -EFAULT, -EINVAL.
EntryFits(n) == n <= ins.len

\* One pass of the loop for an entry of the vector.  The vector's own entry is
\* number 1 + its length - niov.
InsertEntry ==
  LET i == 1 + Len(msg.vector) - ins.niov
  IN  /\ ins.pc = "iov" /\ ins.niov > 0
      /\ \E n \in {msg.vector[i]} \cup Changed :
           /\ EntryFits(n)
           /\ ring' = IF n = 0 THEN ring ELSE Split(i, 0, n)
           /\ ins' = [ins EXCEPT !.niov = @ - 1, !.len = @ - n, !.src = i,
                                 !.same = @ /\ n = msg.vector[i],
                                 !.off = IF n = 0 THEN 0 ELSE OffsetAfter(0, n),
                                 !.tx = Wrap(@ + n, RingLen)]
      /\ UNCHANGED <<rx, tx, msg, reader>>

\* An entry has grown, or the sender's memory cannot be read: what was copied
\* stays in the ring, and nothing is published.
InsertFail ==
  /\ ins.pc = "iov"
  /\ ins' = [ins EXCEPT !.pc = "failed"]
  /\ UNCHANGED <<ring, rx, tx, msg, reader>>

\* Mutant: the loop ends with the last entry of the vector.
InsertRestSkipped(n) == IF msg.vector = <<>> THEN n ELSE 0

\* The bytes the last pass, with niov at zero, copies from the buffer of the
\* entry before it: the whole message when there is no vector.
InsertRest(n) == n

\* The last pass, the padding, and the publication of tx_ptr.
InsertPublish ==
  LET n == InsertRest(ins.len)
      end == Wrap(ins.tx + n, RingLen)
  IN  /\ ins.pc = "iov" /\ ins.niov = 0
      /\ ring' = IF n = 0 THEN ring ELSE Split(ins.src, ins.off, n)
      /\ ins' = [ins EXCEPT !.pc = "sent", !.len = @ - n, !.tx = Wrap(RoundUp(end), RingLen)]
      /\ tx' = Wrap(RoundUp(end), RingLen)
      /\ UNCHANGED <<rx, msg, reader>>
-----------------------------------------------------------------------------
(* The receiver *)

\* It has consumed the messages before this one.
ConsumeEarlier ==
  /\ rx # msg.at /\ asked = <<>> /\ rx' = msg.at
  /\ UNCHANGED <<ring, tx, msg, ins, reader>>

Least(a, b) == IF a < b THEN a ELSE b

\* v4v_memcpy_skip to dst from the ring at p: the buffer, and skip after it.
MemcpySkip(buf, dst, p, n, skip) ==
  [buf  |-> [b \in Buffer |-> IF b \in (dst + skip)..(dst + n - 1)
                              THEN ring[p + b - dst] ELSE buf[b]],
   skip |-> IF skip >= n THEN skip - n ELSE 0]

\* Mutant: the end of the ring is taken for the end of what was asked for.
FirstPartWhole(bte, t) == bte

\* How much of the part before the end of the ring is asked for.
FirstPart(bte, t) == Least(bte, t)

\* v4v_copy_out_offset, of all it does when there is a message to read.
CopyOutOffset(t, skip, consume) ==
  LET rxp   == Wrap(rx + HeaderSize, RingLen)
      bte   == RingLen - rxp
      wraps == bte < msg.len
      part  == IF wraps THEN FirstPart(bte, t) ELSE 0
      one   == MemcpySkip(out, -skip, rxp, part, skip)
      at    == IF wraps THEN 0 ELSE rxp
      len   == IF wraps THEN msg.len - bte ELSE msg.len
      two   == MemcpySkip(one.buf, part - skip, at, Least(t - part, len), one.skip)
  IN  /\ rx = msg.at /\ asked = <<>>
      /\ BytesToRead(rx, tx, RingLen) >= HeaderSize + msg.len
      /\ skip <= t
      /\ out' = IF t - part > 0 THEN two.buf ELSE one.buf
      /\ asked' = [end |-> t, skip |-> skip, consume |-> consume]
      /\ rx' = IF consume THEN Wrap(at + RoundUp(len), RingLen) ELSE rx
      /\ UNCHANGED <<ring, tx, msg, ins>>

Next ==
  \/ InsertHeader \/ InsertEntry \/ InsertFail \/ InsertPublish \/ ConsumeEarlier
  \/ \E t \in Ends, skip \in Skips, consume \in BOOLEAN : CopyOutOffset(t, skip, consume)

Spec == Init /\ [][Next]_vars
-----------------------------------------------------------------------------
\* Where byte k of the payload is in the ring.
Place(k) == (msg.at + HeaderSize + k) % RingLen
Payload == 0..(msg.len - 1)

\* v4v_ringbuf_insert writes to the message's own bytes and to no others: not
\* to a message still unread, whatever becomes of the vector while it copies.
OwnBytesOnly ==
  \A q \in Offsets : ring[q] # Old =>
     (q - msg.at) % RingLen < HeaderSize + msg.len

\* A message is published with every byte of its counted length written, and
\* at the tx_ptr that length asks for, also when entries have shrunk.
PublishedWhole ==
  ins.pc = "sent" =>
    /\ \A k \in Payload : ring[Place(k)][1] > 0
    /\ tx = (msg.at + MessageSize(msg.len)) % RingLen

\* The payload of a published message is the sender's buffers one after the
\* other, in every split the end of the ring makes, if they are still as long
\* as when v4v_iov_count added them up.
Gathered ==
  ins.pc = "sent" /\ ins.same =>
    IF msg.vector = <<>> THEN \A k \in Payload : ring[Place(k)] = <<1, k>>
    ELSE \A i \in 1..Len(msg.vector) : \A k \in 0..(msg.vector[i] - 1) :
           ring[Place(Sum[SubSeq(msg.vector, 1, i - 1)] + k)] = <<i, k>>

\* v4v_copy_out_offset fills the buffer with the bytes skip .. t - 1 of the
\* payload, or as many of them as there are, and touches nothing before or
\* after; consuming moves rx_ptr past exactly this message.
CopiedOut ==
  asked # <<>> =>
    /\ \A b \in Buffer :
         out[b] = IF b >= 0 /\ b + asked.skip < Least(asked.end, msg.len)
                  THEN ring[Place(b + asked.skip)] ELSE Untouched
    /\ rx = IF asked.consume THEN tx ELSE msg.at
=============================================================================
