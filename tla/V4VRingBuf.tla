----------------------------- MODULE V4VRingBuf -----------------------------
(***************************************************************************)
(* The data path of one registered ring: v4v_ringbuf_insert in the         *)
(* hypervisor, and v4v_copy_out in the receiving domain.                   *)
(*                                                                         *)
(* The inserts of all senders are serialised by the lock of the ring (L3), *)
(* but the receiver takes no lock of the hypervisor's: it reads the ring's *)
(* memory and moves rx_ptr while an insert is under way.  So every access  *)
(* to the shared memory is a step: the header, each 16 byte cell of the    *)
(* payload, the new tx_ptr, and on the other side the header, each cell    *)
(* and the new rx_ptr.                                                     *)
(*                                                                         *)
(* The memory is kept in cells of 16 bytes, the unit everything in a ring  *)
(* is aligned to.  A cell holds a header, the i-th 16 bytes of the payload *)
(* of a message, or what was there at registration.                        *)
(***************************************************************************)
EXTENDS Integers, Sequences, V4VRing

CONSTANTS Messages,   \* records with a payload length n and a source src
          NoMessage,  \* no member of Messages
          RingLen     \* ring_info->len

ASSUME RingLenAssumption == RingLen \in Nat /\ ValidRingLen(RingLen)
ASSUME MessagesAssumption == \A m \in Messages : m.n \in Nat

VARIABLES mem,        \* the cells of the ring, by offset
          rx_ptr,     \* v4v_ring_t.rx_ptr in the shared page
          tx_ptr,     \* v4v_ring_t.tx_ptr in the shared page
          info_tx,    \* ring_info->tx_ptr, the hypervisor's own copy
          ins,        \* the insert that holds L3
          cpy,        \* the copy_out the receiver is in
          out         \* the message the receiver consumed last

vars == <<mem, rx_ptr, tx_ptr, info_tx, ins, cpy, out>>

Offsets == {16 * i : i \in 0 .. (RingLen \div 16) - 1}

\* The number of cells the payload of m takes.
PayloadCells(m) == RoundUp(m.n) \div 16

HeaderCell(m) == <<"header", m>>
DataCell(m, i) == <<"data", m, i>>
BlankCell == <<"blank">>

\* An insert or a copy: the message, the next offset and the payload cells
\* done; torn is set by a copy that met a cell of another message.
Idle == [pc |-> "idle", m |-> NoMessage, pos |-> 0, i |-> 0, torn |-> FALSE]
Busy(pc, m, pos, i, torn) ==
  [pc |-> pc, m |-> m, pos |-> pos, i |-> i, torn |-> torn]

Init ==
  /\ mem = [o \in Offsets |-> BlankCell]
  /\ rx_ptr = 0 /\ tx_ptr = 0 /\ info_tx = 0
  /\ ins = Idle /\ cpy = Idle /\ out = <<>>
-----------------------------------------------------------------------------
(* v4v_ringbuf_insert, under L3.  A send it refuses (-EMSGSIZE, -EAGAIN)   *)
(* changes nothing here.                                                   *)

\* The ring's rx_ptr is read once, and the space check made on that value.
InsertBegin(m) ==
  /\ ins.pc = "idle"
  /\ ~ TooLong(m.n, RingLen)
  /\ ~ NoRoom(m.n, rx_ptr, info_tx, RingLen)
  /\ ins' = Busy("header", m, info_tx, 0, FALSE)
  /\ UNCHANGED <<mem, rx_ptr, tx_ptr, info_tx, cpy, out>>

\* Mutant: the pointer is not wrapped behind the header.
InsertHeaderNoWrap ==
  /\ ins.pc = "header"
  /\ mem' = [mem EXCEPT ![ins.pos] = HeaderCell(ins.m)]
  /\ ins' = Busy("data", ins.m, ins.pos + HeaderSize, 0, FALSE)
  /\ UNCHANGED <<rx_ptr, tx_ptr, info_tx, cpy, out>>

InsertHeader ==
  /\ ins.pc = "header"
  /\ mem' = [mem EXCEPT ![ins.pos] = HeaderCell(ins.m)]
  /\ ins' = Busy("data", ins.m, Wrap(ins.pos + HeaderSize, RingLen), 0, FALSE)
  /\ UNCHANGED <<rx_ptr, tx_ptr, info_tx, cpy, out>>

InsertData ==
  /\ ins.pc = "data" /\ ins.i < PayloadCells(ins.m)
  /\ mem' = [mem EXCEPT ![ins.pos] = DataCell(ins.m, ins.i)]
  /\ ins' = Busy("data", ins.m, Wrap(ins.pos + 16, RingLen), ins.i + 1, FALSE)
  /\ UNCHANGED <<rx_ptr, tx_ptr, info_tx, cpy, out>>

\* Mutant: the pointers are moved for what was written before the fault.
InsertFaultPublishes ==
  /\ ins.pc = "data" /\ ins.i < PayloadCells(ins.m)
  /\ tx_ptr' = ins.pos /\ info_tx' = ins.pos
  /\ ins' = Idle
  /\ UNCHANGED <<mem, rx_ptr, cpy, out>>

\* The sender's buffer cannot be read: the cells written so far stay, but
\* no pointer has moved.
InsertFault ==
  /\ ins.pc = "data" /\ ins.i < PayloadCells(ins.m)
  /\ ins' = Idle
  /\ UNCHANGED <<mem, rx_ptr, tx_ptr, info_tx, cpy, out>>

\* Mutant: tx_ptr is published before the payload is written.
InsertPublishEarly ==
  /\ ins.pc = "data"
  /\ tx_ptr' = Wrap(info_tx + MessageSize(ins.m.n), RingLen)
  /\ info_tx' = IF ins.i = PayloadCells(ins.m) THEN tx_ptr' ELSE info_tx
  /\ ins' = IF ins.i = PayloadCells(ins.m) THEN Idle ELSE ins
  /\ UNCHANGED <<mem, rx_ptr, cpy, out>>

InsertPublish ==
  /\ ins.pc = "data" /\ ins.i = PayloadCells(ins.m)
  /\ info_tx' = ins.pos /\ tx_ptr' = ins.pos
  /\ ins' = Idle
  /\ UNCHANGED <<mem, rx_ptr, cpy, out>>
-----------------------------------------------------------------------------
(* v4v_copy_out, in the receiving domain, under the driver's lock of the   *)
(* ring.                                                                   *)

\* The header at rx_ptr is that of m, and the ring holds as much as it says.
HeadIs(m) ==
  /\ mem[rx_ptr] = HeaderCell(m)
  /\ BytesToRead(rx_ptr, tx_ptr, RingLen) >= m.n + HeaderSize

CopyBegin(m) ==
  /\ cpy.pc = "idle"
  /\ BytesToRead(rx_ptr, tx_ptr, RingLen) >= HeaderSize
  /\ HeadIs(m)
  /\ cpy' = Busy("data", m, Wrap(rx_ptr + HeaderSize, RingLen), 0, FALSE)
  /\ UNCHANGED <<mem, rx_ptr, tx_ptr, info_tx, ins, out>>

CopyData ==
  /\ cpy.pc = "data" /\ cpy.i < PayloadCells(cpy.m)
  /\ cpy' = Busy("data", cpy.m, Wrap(cpy.pos + 16, RingLen), cpy.i + 1,
                 cpy.torn \/ mem[cpy.pos] # DataCell(cpy.m, cpy.i))
  /\ UNCHANGED <<mem, rx_ptr, tx_ptr, info_tx, ins, out>>

\* consume = 0 leaves the message in the ring.
CopyEnd(consume) ==
  /\ cpy.pc = "data" /\ cpy.i = PayloadCells(cpy.m)
  /\ rx_ptr' = IF consume THEN cpy.pos ELSE rx_ptr
  /\ out' = IF consume THEN <<cpy.m>> ELSE out
  /\ cpy' = Idle
  /\ UNCHANGED <<mem, tx_ptr, info_tx, ins>>

Insert == (\E m \in Messages : InsertBegin(m))
          \/ InsertHeader \/ InsertData \/ InsertFault \/ InsertPublish
Copy == (\E m \in Messages : CopyBegin(m)) \/ CopyData \/ (\E consume \in BOOLEAN : CopyEnd(consume))
Next == Insert \/ Copy

Spec == Init /\ [][Next]_vars
-----------------------------------------------------------------------------
(* Properties *)

\* Where the receiver still has to read: the bytes from rx_ptr to tx_ptr.
Unread(o) == BytesToRead(rx_ptr, o, RingLen) < BytesToRead(rx_ptr, tx_ptr, RingLen)

Jobs(pcs) == [pc : pcs, m : Messages \cup {NoMessage}, pos : Offsets, i : Nat,
              torn : BOOLEAN]

\* Type invariant: the pointers stay aligned and inside the ring, whatever
\* the lengths of the messages v4v_ringbuf_insert and v4v_copy_out step over.
TypeOK ==
  /\ rx_ptr \in Offsets /\ tx_ptr \in Offsets /\ info_tx \in Offsets
  /\ DOMAIN mem = Offsets
  /\ ins \in Jobs({"idle", "header", "data"})
  /\ cpy \in Jobs({"idle", "data"})
  /\ out \in Seq(Messages)

\* A receiver that finds the ring non-empty finds a whole message at rx_ptr:
\* v4v_copy_out never returns -1 half way, so gh_v4v_recover_ring is never
\* needed, although v4v_ringbuf_insert writes while the receiver looks.
HeadReadable == rx_ptr # tx_ptr => \E m \in Messages : HeadIs(m)

\* A receiver never copies a cell of a message other than the one whose
\* header it read, although it takes no lock against v4v_ringbuf_insert.
NoTornCopy == ~ cpy.torn

\* No step of v4v_ringbuf_insert writes a byte the receiver has yet to read.
NoOverwrite == [][\A o \in Offsets : mem'[o] # mem[o] => ~ Unread(o)]_vars

\* The strengthening that makes the space check of v4v_ringbuf_insert hold
\* through the whole insert: the receiver may move rx_ptr on in the meantime,
\* but that only adds space, and what is written stays in the space checked.
InsertInFreeSpace ==
  /\ info_tx = tx_ptr
  /\ ins.pc # "idle" =>
       /\ ins.m \in Messages
       /\ BytesToRead(rx_ptr, tx_ptr, RingLen) + MessageSize(ins.m.n) < RingLen
  /\ ins.pc = "header" => ins.pos = tx_ptr
  /\ ins.pc = "data" =>
       /\ ins.i <= PayloadCells(ins.m)
       /\ BytesToRead(tx_ptr, ins.pos, RingLen) = HeaderSize + 16 * ins.i
CopyInMessage ==
  cpy.pc = "data" =>
    /\ cpy.m \in Messages
    /\ cpy.i <= PayloadCells(cpy.m)
    /\ BytesToRead(rx_ptr, cpy.pos, RingLen) = HeaderSize + 16 * cpy.i
    /\ MessageSize(cpy.m.n) <= BytesToRead(rx_ptr, tx_ptr, RingLen)
SpaceInv == TypeOK /\ InsertInFreeSpace /\ CopyInMessage

\* The first k payload cells of m stand behind its header at offset o.
Holds(o, m, k) ==
  /\ mem[o] = HeaderCell(m)
  /\ \A i \in 0 .. k - 1 : mem[Wrap(o + (16 + 16 * i), RingLen)] = DataCell(m, i)
HasHeader(o) == \E m \in Messages : mem[o] = HeaderCell(m)

\* What lies between rx_ptr and tx_ptr is a chain of whole messages, each
\* with the next one, or the end, right behind it.
UnreadWhole ==
  /\ rx_ptr # tx_ptr => HasHeader(rx_ptr)
  /\ \A o \in Offsets : \A m \in Messages :
       Unread(o) /\ mem[o] = HeaderCell(m) =>
         /\ BytesToRead(rx_ptr, o, RingLen) + MessageSize(m.n)
              <= BytesToRead(rx_ptr, tx_ptr, RingLen)
         /\ Holds(o, m, PayloadCells(m))
         /\ LET next == Wrap(o + MessageSize(m.n), RingLen)
            IN  next = tx_ptr \/ HasHeader(next)

\* An insert under way has laid the beginning of one more message behind
\* them; a copy reads the first.
WholeMessages ==
  /\ UnreadWhole
  /\ ins.pc = "data" => Holds(tx_ptr, ins.m, ins.i)
  /\ cpy.pc = "data" => mem[rx_ptr] = HeaderCell(cpy.m)
  /\ ~ cpy.torn

\* The inductive invariant of the data path: v4v_ringbuf_insert works in the
\* space it checked, v4v_copy_out inside one message, and the unread part of
\* the ring parses as messages.
RingInv == SpaceInv /\ WholeMessages
=============================================================================
