-------------------------- MODULE V4VRingBufProofs --------------------------
(***************************************************************************)
(* The data path of a ring, for every ring length and every set of         *)
(* messages.  First its pointers: they stay aligned and inside the ring,   *)
(* an insert in progress writes only free space, and a copy in progress    *)
(* stays in its message.  Then what lies between them: the unread part of  *)
(* the ring is a chain of whole messages, and an insert never writes a     *)
(* byte the receiver has yet to read.  Last the refinement: the messages   *)
(* of that chain are the queue of V4VChannel.                              *)
(***************************************************************************)
EXTENDS V4VRingIsChannel, WellFoundedInduction, TLAPS

Dist(a, b) == BytesToRead(a, b, RingLen)

-----------------------------------------------------------------------------
(* Arithmetic *)

\* A ring length v4v_ring_add accepts is a multiple of 16.
LEMMA RingLenMultiple == RingLen \in Nat /\ RingLen >= 48 /\ RingLen % 16 = 0
  BY RingLenAssumption DEF ValidRingLen, MinRingLen, HeaderSize, RoundUp

\* The offsets of a ring's cells.
LEMMA OffsetsDef == \A p : p \in Offsets <=> p \in Nat /\ p % 16 = 0 /\ p < RingLen
<1>1. ASSUME NEW p, p \in Offsets PROVE p \in Nat /\ p % 16 = 0 /\ p < RingLen
  BY <1>1, RingLenMultiple DEF Offsets
<1>2. ASSUME NEW p, p \in Nat, p % 16 = 0, p < RingLen PROVE p \in Offsets
  <2>1. p = 16 * (p \div 16) /\ (p \div 16) \in 0 .. (RingLen \div 16) - 1
    BY <1>2, RingLenMultiple
  <2>. QED BY <2>1 DEF Offsets
<1>. QED BY <1>1, <1>2

\* V4V_ROUNDUP: the size of a message is its header and whole payload cells.
LEMMA MessageSizeCells ==
  ASSUME NEW m, m.n \in Nat
  PROVE  /\ PayloadCells(m) \in Nat /\ MessageSize(m.n) \in Nat
         /\ MessageSize(m.n) = HeaderSize + 16 * PayloadCells(m)
         /\ m.n + HeaderSize <= MessageSize(m.n)
         /\ \A b \in Nat : b % 16 = 0 /\ b >= m.n + HeaderSize => b >= MessageSize(m.n)
  BY DEF PayloadCells, MessageSize, RoundUp, HeaderSize

\* v4v_ring_bytes_to_read: a distance along the ring.
LEMMA DistType ==
  ASSUME NEW a \in Offsets, NEW b \in Offsets
  PROVE  /\ Dist(a, b) \in Nat /\ Dist(a, b) < RingLen /\ Dist(a, b) % 16 = 0
         /\ Dist(a, a) = 0
  BY OffsetsDef, RingLenMultiple DEF Dist, BytesToRead

\* Moving on by one cell, round the end of the ring if need be.
LEMMA WrapStep ==
  ASSUME NEW a \in Offsets, NEW p \in Offsets
  PROVE  /\ Wrap(p + 16, RingLen) \in Offsets
         /\ Dist(a, p) + 16 < RingLen => Dist(a, Wrap(p + 16, RingLen)) = Dist(a, p) + 16
<1>1. /\ a \in Nat /\ a % 16 = 0 /\ a < RingLen
      /\ p \in Nat /\ p % 16 = 0 /\ p < RingLen
  BY OffsetsDef, Zenon
<1>2. p + 16 <= RingLen
  BY <1>1, RingLenMultiple
<1>3. Wrap(p + 16, RingLen) \in Nat /\ Wrap(p + 16, RingLen) % 16 = 0
      /\ Wrap(p + 16, RingLen) < RingLen
  BY <1>1, <1>2, RingLenMultiple DEF Wrap
<1>4. Dist(a, p) + 16 < RingLen => Dist(a, Wrap(p + 16, RingLen)) = Dist(a, p) + 16
  BY <1>1, <1>2, RingLenMultiple DEF Wrap, Dist, BytesToRead
<1>. QED BY <1>3, <1>4, OffsetsDef

\* Distances add up as long as they stay short of the whole ring.
LEMMA DistChain ==
  ASSUME NEW a \in Offsets, NEW b \in Offsets, NEW c \in Offsets
  PROVE  /\ Dist(a, b) + Dist(b, c) < RingLen => Dist(a, c) = Dist(a, b) + Dist(b, c)
         /\ Dist(a, c) <= Dist(a, b) => Dist(c, b) = Dist(a, b) - Dist(a, c)
  BY OffsetsDef, RingLenMultiple DEF Dist, BytesToRead

\* v4v_ringbuf_insert: what the space check establishes.
LEMMA RoomMeansFree ==
  ASSUME NEW n \in Nat, NEW r \in Offsets, NEW t \in Offsets,
         ~ TooLong(n, RingLen), ~ NoRoom(n, r, t, RingLen)
  PROVE  Dist(r, t) + MessageSize(n) < RingLen
<1>1. /\ r \in Nat /\ r % 16 = 0 /\ r < RingLen
      /\ t \in Nat /\ t % 16 = 0 /\ t < RingLen
  BY OffsetsDef, Zenon
<1>2. SanitizeRx(r, RingLen) = r
  BY <1>1, RingLenMultiple DEF SanitizeRx, RoundUp
<1>3. MessageSize(n) \in Nat
  BY DEF MessageSize, RoundUp, HeaderSize
<1>. QED BY <1>1, <1>2, <1>3, RingLenMultiple
         DEF TooLong, NoRoom, InsertSpace, Dist, BytesToRead

-----------------------------------------------------------------------------
(* The inserts stay in the free space, the copies in the message read. *)

\* Wrap(p + 16) for the header cell.
LEMMA HeaderIsACell == HeaderSize = 16
  BY Zenon DEF HeaderSize

\* A job is idle or has all of its fields typed.
LEMMA IdleIsAJob ==
  ASSUME NEW pcs, "idle" \in pcs PROVE Idle \in Jobs(pcs)
<1>1. 0 \in Offsets
  BY OffsetsDef, RingLenMultiple
<1>. QED BY <1>1 DEF Idle, Jobs

\* The initial state.
LEMMA SpaceInvInit == Init => SpaceInv
<1>. SUFFICES ASSUME Init PROVE SpaceInv
  BY Zenon
<1>1. 0 \in Offsets
  BY OffsetsDef, RingLenMultiple
<1>2. TypeOK
  BY <1>1, IdleIsAJob DEF Init, TypeOK
<1>3. InsertInFreeSpace /\ CopyInMessage
  BY Zenon DEF Init, Idle, InsertInFreeSpace, CopyInMessage
<1>. QED BY <1>2, <1>3 DEF SpaceInv

\* Every step.
LEMMA SpaceInvStep == SpaceInv /\ [Next]_vars => SpaceInv'
<1>. SUFFICES ASSUME SpaceInv, [Next]_vars PROVE SpaceInv'
  BY Zenon
<1>. USE DEF SpaceInv
<1>t. /\ rx_ptr \in Offsets /\ tx_ptr \in Offsets /\ info_tx = tx_ptr
      /\ ins \in Jobs({"idle", "header", "data"}) /\ cpy \in Jobs({"idle", "data"})
      /\ ins.pos \in Offsets /\ cpy.pos \in Offsets
  BY Zenon DEF TypeOK, Jobs, InsertInFreeSpace
<1>n. \A m \in Messages : /\ m.n \in Nat /\ PayloadCells(m) \in Nat /\ MessageSize(m.n) \in Nat
                          /\ MessageSize(m.n) = HeaderSize + 16 * PayloadCells(m)
                          /\ m.n + HeaderSize <= MessageSize(m.n)
                          /\ \A b \in Nat : b % 16 = 0 /\ b >= m.n + HeaderSize
                                            => b >= MessageSize(m.n)
  BY MessagesAssumption, MessageSizeCells, Zenon
<1>1. ASSUME NEW m \in Messages, InsertBegin(m) PROVE SpaceInv'
  <2>1. Dist(rx_ptr, tx_ptr) + MessageSize(m.n) < RingLen
    BY <1>1, <1>t, <1>n, RoomMeansFree, Zenon DEF InsertBegin
  <2>2. TypeOK'
    BY <1>1, <1>t, Zenon DEF InsertBegin, TypeOK, Jobs, Busy
  <2>3. InsertInFreeSpace'
    BY <1>1, <1>t, <2>1, Zenon DEF InsertBegin, InsertInFreeSpace, Busy, Dist
  <2>4. CopyInMessage'
    BY <1>1, Zenon DEF InsertBegin, CopyInMessage
  <2>. QED BY <2>2, <2>3, <2>4
<1>2. ASSUME InsertHeader PROVE SpaceInv'
  <2>1. /\ ins.m \in Messages /\ ins.pos = tx_ptr
        /\ Dist(rx_ptr, tx_ptr) + MessageSize(ins.m.n) < RingLen
    BY <1>2, Zenon DEF InsertHeader, InsertInFreeSpace, Dist
  <2>2. /\ Wrap(ins.pos + 16, RingLen) \in Offsets
        /\ Dist(tx_ptr, Wrap(ins.pos + 16, RingLen)) = 16
    BY <1>t, <2>1, WrapStep, DistType, RingLenMultiple
  <2>3. TypeOK'
    BY <1>2, <2>1, <2>2, HeaderIsACell, Zenon DEF InsertHeader, TypeOK, Jobs, Busy
  <2>4. InsertInFreeSpace'
    BY <1>2, <1>n, <2>1, <2>2, HeaderIsACell
       DEF InsertHeader, InsertInFreeSpace, Busy, Dist
  <2>5. CopyInMessage'
    BY <1>2, Zenon DEF InsertHeader, CopyInMessage
  <2>. QED BY <2>3, <2>4, <2>5
<1>3. ASSUME InsertData PROVE SpaceInv'
  <2>1. /\ ins.m \in Messages /\ ins.i \in Nat /\ ins.i < PayloadCells(ins.m)
        /\ Dist(rx_ptr, tx_ptr) + MessageSize(ins.m.n) < RingLen
        /\ Dist(tx_ptr, ins.pos) = 16 + 16 * ins.i
    BY <1>3, HeaderIsACell, Zenon DEF InsertData, InsertInFreeSpace, Dist, TypeOK, Jobs
  <2>2. Dist(tx_ptr, ins.pos) + 16 < RingLen
    BY <2>1, <1>n, <1>t, DistType, HeaderIsACell, RingLenMultiple
  <2>3. /\ Wrap(ins.pos + 16, RingLen) \in Offsets
        /\ Dist(tx_ptr, Wrap(ins.pos + 16, RingLen)) = 16 + 16 * (ins.i + 1)
    BY <1>t, <2>1, <2>2, WrapStep
  <2>4. TypeOK'
    BY <1>3, <2>1, <2>3 DEF InsertData, TypeOK, Jobs, Busy
  <2>5. InsertInFreeSpace'
    <3>. DEFINE q == Wrap(ins.pos + 16, RingLen)
    <3>1. ins' = Busy("data", ins.m, q, ins.i + 1, FALSE)
      BY <1>3, Zenon DEF InsertData
    <3>2. ins'.pc = "data" /\ ins'.m = ins.m /\ ins'.pos = q /\ ins'.i = ins.i + 1
      BY <3>1, Zenon DEF Busy
    <3>3. ins.i + 1 <= PayloadCells(ins.m)
      BY <2>1, <1>n
    <3>. QED BY <1>3, <2>1, <2>3, <3>2, <3>3, <1>t, HeaderIsACell, Zenon
             DEF InsertData, InsertInFreeSpace, Dist
  <2>6. CopyInMessage'
    BY <1>3, Zenon DEF InsertData, CopyInMessage
  <2>. QED BY <2>4, <2>5, <2>6
<1>4. ASSUME InsertFault PROVE SpaceInv'
  BY <1>4, <1>t, IdleIsAJob, Zenon DEF InsertFault, TypeOK, Idle, InsertInFreeSpace, CopyInMessage
<1>5. ASSUME InsertPublish PROVE SpaceInv'
  <2>1. /\ ins.m \in Messages /\ ins.i = PayloadCells(ins.m)
        /\ Dist(rx_ptr, tx_ptr) + MessageSize(ins.m.n) < RingLen
        /\ Dist(tx_ptr, ins.pos) = MessageSize(ins.m.n)
    BY <1>5, <1>n, Zenon DEF InsertPublish, InsertInFreeSpace, Dist
  <2>2. Dist(rx_ptr, ins.pos) = Dist(rx_ptr, tx_ptr) + MessageSize(ins.m.n)
    BY <1>t, <2>1, DistChain
  <2>3. TypeOK'
    BY <1>5, <1>t, IdleIsAJob, Zenon DEF InsertPublish, TypeOK
  <2>4. InsertInFreeSpace'
    BY <1>5, Zenon DEF InsertPublish, InsertInFreeSpace, Idle
  <2>5. CopyInMessage'
    BY <1>5, <1>n, <1>t, <2>1, <2>2, DistType DEF InsertPublish, CopyInMessage, Dist
  <2>. QED BY <2>3, <2>4, <2>5
<1>6. ASSUME NEW m \in Messages, CopyBegin(m) PROVE SpaceInv'
  <2>1. MessageSize(m.n) <= Dist(rx_ptr, tx_ptr)
    BY <1>6, <1>n, <1>t, DistType, Zenon DEF CopyBegin, HeadIs, Dist
  <2>2. /\ Wrap(rx_ptr + 16, RingLen) \in Offsets
        /\ Dist(rx_ptr, Wrap(rx_ptr + 16, RingLen)) = 16
    BY <1>t, WrapStep, DistType, RingLenMultiple
  <2>3. TypeOK'
    BY <1>6, <2>2, HeaderIsACell, Zenon DEF CopyBegin, TypeOK, Jobs, Busy
  <2>4. InsertInFreeSpace'
    BY <1>6, Zenon DEF CopyBegin, InsertInFreeSpace
  <2>5. CopyInMessage'
    BY <1>6, <1>n, <2>1, <2>2, HeaderIsACell DEF CopyBegin, CopyInMessage, Busy, Dist
  <2>. QED BY <2>3, <2>4, <2>5
<1>7. ASSUME CopyData PROVE SpaceInv'
  <2>1. /\ cpy.m \in Messages /\ cpy.i \in Nat /\ cpy.i < PayloadCells(cpy.m)
        /\ Dist(rx_ptr, cpy.pos) = 16 + 16 * cpy.i
        /\ MessageSize(cpy.m.n) <= Dist(rx_ptr, tx_ptr)
    BY <1>7, HeaderIsACell, Zenon DEF CopyData, CopyInMessage, Dist, TypeOK, Jobs
  <2>2. Dist(rx_ptr, cpy.pos) + 16 < RingLen
    BY <2>1, <1>n, <1>t, DistType, HeaderIsACell, RingLenMultiple
  <2>3. /\ Wrap(cpy.pos + 16, RingLen) \in Offsets
        /\ Dist(rx_ptr, Wrap(cpy.pos + 16, RingLen)) = 16 + 16 * (cpy.i + 1)
    BY <1>t, <2>1, <2>2, WrapStep
  <2>. DEFINE torn == cpy.torn \/ mem[cpy.pos] # DataCell(cpy.m, cpy.i)
              q == Wrap(cpy.pos + 16, RingLen)
  <2>4. torn \in BOOLEAN
    BY Zenon DEF TypeOK, Jobs
  <2>5. cpy' = [pc |-> "data", m |-> cpy.m, pos |-> q, i |-> cpy.i + 1, torn |-> torn]
    BY <1>7, Zenon DEF CopyData, Busy
  <2>. HIDE DEF torn, q
  <2>6. TypeOK'
    <3>1. cpy' \in Jobs({"idle", "data"})
      BY <2>1, <2>3, <2>4, <2>5 DEF Jobs, q
    <3>. QED BY <1>7, <3>1 DEF CopyData, TypeOK
  <2>7. InsertInFreeSpace'
    BY <1>7, Zenon DEF CopyData, InsertInFreeSpace
  <2>8. CopyInMessage'
    <3>1. cpy'.m = cpy.m /\ cpy'.i = cpy.i + 1 /\ cpy'.pos = q
      BY <2>5, Zenon
    <3>2. cpy.i + 1 <= PayloadCells(cpy.m) /\ Dist(rx_ptr, q) = 16 + 16 * (cpy.i + 1)
      BY <2>1, <1>n, <2>3 DEF q
    <3>3. rx_ptr' = rx_ptr /\ tx_ptr' = tx_ptr
      BY <1>7, Zenon DEF CopyData
    <3>. QED BY <3>1, <3>2, <3>3, <2>1, HeaderIsACell DEF CopyInMessage, Dist
  <2>. QED BY <2>6, <2>7, <2>8
<1>8. ASSUME NEW consume \in BOOLEAN, CopyEnd(consume) PROVE SpaceInv'
  <2>1. /\ cpy.m \in Messages /\ Dist(rx_ptr, cpy.pos) = MessageSize(cpy.m.n)
        /\ MessageSize(cpy.m.n) <= Dist(rx_ptr, tx_ptr)
    BY <1>8, <1>n, Zenon DEF CopyEnd, CopyInMessage, Dist
  <2>2. Dist(cpy.pos, tx_ptr) <= Dist(rx_ptr, tx_ptr)
    <3>1. Dist(cpy.pos, tx_ptr) = Dist(rx_ptr, tx_ptr) - MessageSize(cpy.m.n)
      BY <2>1, <1>t, DistChain
    <3>. QED BY <3>1, <2>1, <1>n, <1>t, DistType
  <2>3. rx_ptr' \in Offsets /\ Dist(rx_ptr', tx_ptr) <= Dist(rx_ptr, tx_ptr)
    BY <1>8, <1>t, <2>2, DistType DEF CopyEnd
  <2>4. TypeOK'
    <3>1. out' \in Seq(Messages)
      BY <1>8, <2>1 DEF CopyEnd, TypeOK
    <3>. QED BY <1>8, <2>3, <3>1, IdleIsAJob DEF CopyEnd, TypeOK
  <2>5. InsertInFreeSpace'
    <3>1. Dist(rx_ptr', tx_ptr) \in Nat /\ Dist(rx_ptr, tx_ptr) \in Nat
      BY <1>t, <2>3, DistType, Zenon
    <3>2. ins.pc # "idle" => Dist(rx_ptr', tx_ptr) + MessageSize(ins.m.n) < RingLen
      BY <1>n, <2>3, <3>1, RingLenMultiple DEF InsertInFreeSpace, Dist
    <3>. QED BY <1>8, <3>2 DEF CopyEnd, InsertInFreeSpace, Dist
  <2>6. CopyInMessage'
    BY <1>8, Zenon DEF CopyEnd, CopyInMessage, Idle
  <2>. QED BY <2>4, <2>5, <2>6
<1>9. CASE UNCHANGED vars
  BY <1>9, Zenon DEF vars, TypeOK, InsertInFreeSpace, CopyInMessage
<1>. QED BY <1>1, <1>2, <1>3, <1>4, <1>5, <1>6, <1>7, <1>8, <1>9 DEF Next, Insert, Copy

\* The pointers of a ring stay aligned and inside it, for every ring length
\* and all message lengths.
THEOREM PointersInRing == Spec => []TypeOK
<1>1. SpaceInv => TypeOK
  BY Zenon DEF SpaceInv
<1>. QED BY SpaceInvInit, SpaceInvStep, <1>1, PTL DEF Spec

-----------------------------------------------------------------------------
(* The unread messages are whole. *)

\* Moving on by several cells.
LEMMA WrapMove ==
  ASSUME NEW a \in Offsets, NEW p \in Offsets, NEW k \in Nat, k % 16 = 0,
         Dist(a, p) + k < RingLen
  PROVE  /\ Wrap(p + k, RingLen) \in Offsets
         /\ Dist(a, Wrap(p + k, RingLen)) = Dist(a, p) + k
<1>1. /\ a \in Nat /\ a % 16 = 0 /\ a < RingLen
      /\ p \in Nat /\ p % 16 = 0 /\ p < RingLen
  BY OffsetsDef, Zenon
<1>2. k < RingLen
  BY <1>1, RingLenMultiple DEF Dist, BytesToRead
<1>3. Wrap(p + k, RingLen) \in Nat /\ Wrap(p + k, RingLen) % 16 = 0
      /\ Wrap(p + k, RingLen) < RingLen
  BY <1>1, <1>2, RingLenMultiple DEF Wrap
<1>4. Dist(a, Wrap(p + k, RingLen)) = Dist(a, p) + k
  BY <1>1, <1>2, RingLenMultiple DEF Wrap, Dist, BytesToRead
<1>. QED BY <1>3, <1>4, OffsetsDef

\* An offset is determined by its distance.
LEMMA DistInjective ==
  ASSUME NEW a \in Offsets, NEW b \in Offsets, NEW c \in Offsets, Dist(a, b) = Dist(a, c)
  PROVE  b = c
  BY OffsetsDef, RingLenMultiple DEF Dist, BytesToRead

\* The two kinds of cells are never confused.
LEMMA CellsDiffer ==
  \A m, m2, i : /\ HeaderCell(m) # DataCell(m2, i)
                /\ HeaderCell(m) = HeaderCell(m2) => m = m2
  BY Zenon DEF HeaderCell, DataCell

\* The sizes of the messages.
LEMMA Sizes ==
  \A m \in Messages : /\ m.n \in Nat /\ PayloadCells(m) \in Nat /\ MessageSize(m.n) \in Nat
                      /\ MessageSize(m.n) = 16 + 16 * PayloadCells(m)
                      /\ MessageSize(m.n) % 16 = 0
                      /\ m.n + HeaderSize <= MessageSize(m.n)
<1>. SUFFICES ASSUME NEW m \in Messages
              PROVE  /\ m.n \in Nat /\ PayloadCells(m) \in Nat /\ MessageSize(m.n) \in Nat
                     /\ MessageSize(m.n) = 16 + 16 * PayloadCells(m)
                     /\ MessageSize(m.n) % 16 = 0
                     /\ m.n + HeaderSize <= MessageSize(m.n)
  BY Zenon
<1>1. m.n \in Nat
  BY MessagesAssumption, Zenon
<1>. QED BY <1>1, MessageSizeCells, HeaderIsACell

\* The cells of an unread message are unread, and the next one follows it.
LEMMA Interior ==
  ASSUME SpaceInv, UnreadWhole,
         NEW o \in Offsets, NEW m \in Messages, Unread(o), mem[o] = HeaderCell(m)
  PROVE  /\ \A i \in 0 .. PayloadCells(m) - 1 :
              LET q == Wrap(o + (16 + 16 * i), RingLen)
              IN  q \in Offsets /\ Dist(rx_ptr, q) = Dist(rx_ptr, o) + 16 + 16 * i
                  /\ Unread(q) /\ mem[q] = DataCell(m, i)
         /\ LET next == Wrap(o + MessageSize(m.n), RingLen)
            IN  /\ next \in Offsets /\ Dist(rx_ptr, next) = Dist(rx_ptr, o) + MessageSize(m.n)
                /\ next = tx_ptr \/ (Unread(next) /\ HasHeader(next))
<1>1. rx_ptr \in Offsets /\ tx_ptr \in Offsets
  BY Zenon DEF SpaceInv, TypeOK
<1>2. /\ Dist(rx_ptr, o) + MessageSize(m.n) <= Dist(rx_ptr, tx_ptr)
      /\ Holds(o, m, PayloadCells(m))
      /\ LET next == Wrap(o + MessageSize(m.n), RingLen) IN next = tx_ptr \/ HasHeader(next)
  BY Zenon DEF UnreadWhole, Dist
<1>3. /\ Dist(rx_ptr, o) \in Nat /\ Dist(rx_ptr, tx_ptr) \in Nat
      /\ Dist(rx_ptr, tx_ptr) < RingLen /\ RingLen \in Nat
  BY <1>1, DistType, RingLenMultiple, Zenon
<1>4. ASSUME NEW i \in 0 .. PayloadCells(m) - 1
      PROVE  LET q == Wrap(o + (16 + 16 * i), RingLen)
             IN  q \in Offsets /\ Dist(rx_ptr, q) = Dist(rx_ptr, o) + 16 + 16 * i
                 /\ Unread(q) /\ mem[q] = DataCell(m, i)
  <2>1. /\ 16 + 16 * i \in Nat /\ (16 + 16 * i) % 16 = 0
        /\ 16 + 16 * i < MessageSize(m.n)
    BY Sizes
  <2>2. Dist(rx_ptr, o) + (16 + 16 * i) < Dist(rx_ptr, tx_ptr)
    BY <1>2, <1>3, <2>1, Sizes
  <2>3. Dist(rx_ptr, o) + (16 + 16 * i) < RingLen
    BY <1>3, <2>1, <2>2
  <2>. DEFINE k == 16 + 16 * i
  <2>4. /\ Wrap(o + k, RingLen) \in Offsets
        /\ Dist(rx_ptr, Wrap(o + k, RingLen)) = Dist(rx_ptr, o) + k
    <3>. HIDE DEF k
    <3>. QED BY <1>1, <2>1, <2>3, WrapMove DEF k
  <2>5. mem[Wrap(o + (16 + 16 * i), RingLen)] = DataCell(m, i)
    BY <1>2, Zenon DEF Holds
  <2>. QED BY <1>3, <2>1, <2>2, <2>4, <2>5 DEF Unread, Dist
<1>5. LET next == Wrap(o + MessageSize(m.n), RingLen)
      IN  /\ next \in Offsets /\ Dist(rx_ptr, next) = Dist(rx_ptr, o) + MessageSize(m.n)
          /\ next = tx_ptr \/ (Unread(next) /\ HasHeader(next))
  <2>. DEFINE next == Wrap(o + MessageSize(m.n), RingLen)
  <2>1. next \in Offsets /\ Dist(rx_ptr, next) = Dist(rx_ptr, o) + MessageSize(m.n)
    <3>1. Dist(rx_ptr, o) + MessageSize(m.n) < RingLen
      BY <1>2, <1>3, Sizes
    <3>. QED BY <1>1, <3>1, Sizes, WrapMove
  <2>2. next # tx_ptr => Dist(rx_ptr, next) < Dist(rx_ptr, tx_ptr)
    BY <1>1, <1>2, <1>3, <2>1, DistInjective, Sizes
  <2>. QED BY <1>2, <2>1, <2>2 DEF Unread, Dist
<1>. QED BY <1>4, <1>5

\* A step that writes outside the unread part leaves the chain as it is.
LEMMA ChainFrame ==
  ASSUME SpaceInv, UnreadWhole, rx_ptr' = rx_ptr, tx_ptr' = tx_ptr,
         \A o \in Offsets : Unread(o) => mem'[o] = mem[o]
  PROVE  UnreadWhole'
<1>1. rx_ptr \in Offsets /\ tx_ptr \in Offsets
  BY Zenon DEF SpaceInv, TypeOK
<1>2. rx_ptr # tx_ptr => Unread(rx_ptr)
  BY <1>1, DistType, DistInjective DEF Unread, Dist
<1>3. rx_ptr' # tx_ptr' => HasHeader(rx_ptr)'
  BY <1>1, <1>2, Zenon DEF UnreadWhole, HasHeader
<1>4. ASSUME NEW o \in Offsets, NEW m \in Messages, Unread(o)', mem'[o] = HeaderCell(m)
      PROVE  /\ BytesToRead(rx_ptr, o, RingLen) + MessageSize(m.n)
                  <= BytesToRead(rx_ptr, tx_ptr, RingLen)
             /\ Holds(o, m, PayloadCells(m))'
             /\ LET next == Wrap(o + MessageSize(m.n), RingLen)
                IN  next = tx_ptr \/ HasHeader(next)'
  <2>1. Unread(o) /\ mem[o] = HeaderCell(m)
    BY <1>4, Zenon DEF Unread
  <2>2. Holds(o, m, PayloadCells(m))'
    BY <2>1, Interior DEF Holds
  <2>3. LET next == Wrap(o + MessageSize(m.n), RingLen)
        IN  next = tx_ptr \/ HasHeader(next)'
    BY <2>1, Interior DEF HasHeader
  <2>. QED BY <2>1, <2>2, <2>3 DEF UnreadWhole
<1>. QED BY <1>3, <1>4 DEF UnreadWhole

\* The initial ring is empty.
LEMMA WholeInit == Init => WholeMessages
<1>. SUFFICES ASSUME Init PROVE WholeMessages
  OBVIOUS
<1>1. \A o \in Offsets : ~ Unread(o)
  <2>1. 0 \in Offsets
    BY OffsetsDef, RingLenMultiple
  <2>. QED BY <2>1, DistType DEF Init, Unread, Dist
<1>. QED BY <1>1 DEF Init, WholeMessages, UnreadWhole, Idle

\* v4v_ringbuf_insert writes the cells at tx_ptr and beyond: none of them is
\* unread, and none of them holds a part of the message laid so far.
LEMMA WriteIsFree ==
  ASSUME SpaceInv, ins.pc \in {"header", "data"}
  PROVE  ins.pc = "header" \/ ins.i < PayloadCells(ins.m) => ~ Unread(ins.pos)
<1>. SUFFICES ASSUME ins.pc = "header" \/ ins.i < PayloadCells(ins.m)
              PROVE  ~ Unread(ins.pos)
  BY Zenon
<1>1. /\ rx_ptr \in Offsets /\ tx_ptr \in Offsets /\ ins.pos \in Offsets
      /\ ins.m \in Messages /\ ins.i \in Nat
      /\ Dist(rx_ptr, tx_ptr) + MessageSize(ins.m.n) < RingLen
  BY Zenon DEF SpaceInv, TypeOK, Jobs, InsertInFreeSpace, Dist
<1>2. /\ Dist(rx_ptr, tx_ptr) \in Nat /\ Dist(rx_ptr, ins.pos) \in Nat
      /\ Dist(tx_ptr, ins.pos) \in Nat /\ RingLen \in Nat
  BY <1>1, DistType, RingLenMultiple, Zenon
<1>3. CASE ins.pc = "header"
  BY <1>1, <1>2, <1>3 DEF SpaceInv, InsertInFreeSpace, Unread, Dist
<1>4. CASE ins.pc = "data"
  <2>1. /\ Dist(tx_ptr, ins.pos) = 16 + 16 * ins.i
        /\ Dist(tx_ptr, ins.pos) < MessageSize(ins.m.n)
    BY <1>1, <1>4, Sizes, HeaderIsACell DEF SpaceInv, InsertInFreeSpace, Dist
  <2>2. Dist(rx_ptr, ins.pos) = Dist(rx_ptr, tx_ptr) + Dist(tx_ptr, ins.pos)
    BY <1>1, <1>2, <2>1, Sizes, DistChain
  <2>. QED BY <1>2, <2>2 DEF Unread, Dist
<1>. QED BY <1>3, <1>4

\* The cells of the message being inserted lie at distinct offsets.
LEMMA LaidCells ==
  ASSUME SpaceInv, ins.pc = "data", NEW i \in 0 .. PayloadCells(ins.m) - 1
  PROVE  LET q == Wrap(tx_ptr + (16 + 16 * i), RingLen)
         IN  /\ q \in Offsets /\ Dist(tx_ptr, q) = 16 + 16 * i
             /\ q # tx_ptr /\ ins.pos # tx_ptr
             /\ q = ins.pos <=> i = ins.i
<1>1. /\ rx_ptr \in Offsets /\ tx_ptr \in Offsets /\ ins.pos \in Offsets
      /\ ins.m \in Messages /\ ins.i \in Nat
      /\ Dist(rx_ptr, tx_ptr) + MessageSize(ins.m.n) < RingLen
      /\ Dist(tx_ptr, ins.pos) = 16 + 16 * ins.i
  BY HeaderIsACell, Zenon DEF SpaceInv, TypeOK, Jobs, InsertInFreeSpace, Dist
<1>2. Dist(rx_ptr, tx_ptr) \in Nat /\ Dist(tx_ptr, tx_ptr) = 0 /\ RingLen \in Nat
  BY <1>1, DistType, RingLenMultiple, Zenon
<1>. DEFINE k == 16 + 16 * i
            q == Wrap(tx_ptr + k, RingLen)
<1>3. k \in Nat /\ k % 16 = 0 /\ k < RingLen
  BY <1>1, <1>2, Sizes
<1>4. q \in Offsets /\ Dist(tx_ptr, q) = k
  <2>. HIDE DEF k
  <2>. QED BY <1>1, <1>2, <1>3, WrapMove
<1>5. q = ins.pos <=> i = ins.i
  <2>1. q = ins.pos <=> k = 16 + 16 * ins.i
    <3>. HIDE DEF q, k
    <3>. QED BY <1>1, <1>4, DistInjective
  <2>2. k = 16 + 16 * ins.i <=> i = ins.i
    <3>1. i \in Int /\ ins.i \in Int
      BY <1>1, Sizes
    <3>2. \A a, b \in Int : 16 + 16 * a = 16 + 16 * b => a = b
      OBVIOUS
    <3>. QED BY <3>1, <3>2, Zenon
  <2>. QED BY <2>1, <2>2
<1>6. q # tx_ptr /\ ins.pos # tx_ptr
  BY <1>1, <1>2, <1>4
<1>. QED BY <1>4, <1>5, <1>6

\* Every step.
LEMMA WholeStep == RingInv /\ SpaceInv' /\ [Next]_vars => WholeMessages'
<1>. SUFFICES ASSUME RingInv, SpaceInv', [Next]_vars PROVE WholeMessages'
  BY Zenon
<1>. USE DEF RingInv
<1>t. /\ rx_ptr \in Offsets /\ tx_ptr \in Offsets /\ ins.pos \in Offsets /\ cpy.pos \in Offsets
      /\ DOMAIN mem = Offsets /\ ins.i \in Nat /\ cpy.i \in Nat
  BY Zenon DEF SpaceInv, TypeOK, Jobs
<1>w. UnreadWhole
  BY Zenon DEF WholeMessages
<1>1. ASSUME NEW m \in Messages, InsertBegin(m) PROVE WholeMessages'
  <2>1. UnreadWhole'
    BY <1>1, <1>w, ChainFrame, Zenon DEF InsertBegin
  <2>. QED BY <1>1, <2>1 DEF InsertBegin, Busy, WholeMessages
<1>2. ASSUME InsertHeader PROVE WholeMessages'
  <2>1. ~ Unread(ins.pos) /\ ins.pos = tx_ptr
    BY <1>2, WriteIsFree, Zenon DEF InsertHeader, SpaceInv, InsertInFreeSpace
  <2>2. UnreadWhole'
    BY <1>2, <1>t, <1>w, <2>1, ChainFrame, Zenon DEF InsertHeader
  <2>3. Holds(tx_ptr, ins.m, ins.i)'
    BY <1>2, <1>t, <2>1 DEF InsertHeader, Holds, Busy
  <2>4. cpy.pc = "data" => rx_ptr # tx_ptr
    <3>1. cpy.pc = "data" => 16 <= Dist(rx_ptr, tx_ptr)
      BY <1>t, Sizes, DistType DEF SpaceInv, CopyInMessage, Dist
    <3>. QED BY <1>t, <3>1, DistType
  <2>. QED BY <1>2, <1>t, <2>1, <2>2, <2>3, <2>4, Zenon DEF InsertHeader, WholeMessages
<1>3. ASSUME InsertData PROVE WholeMessages'
  <2>1. ~ Unread(ins.pos)
    BY <1>3, WriteIsFree, Zenon DEF InsertData
  <2>2. UnreadWhole'
    BY <1>3, <1>t, <1>w, <2>1, ChainFrame, Zenon DEF InsertData
  <2>3. /\ ins.i \in 0 .. PayloadCells(ins.m) - 1 /\ ins.pc = "data"
        /\ ins.m \in Messages /\ PayloadCells(ins.m) \in Nat
    BY <1>3, <1>t, Sizes DEF InsertData, SpaceInv, InsertInFreeSpace
  <2>4. mem' = [mem EXCEPT ![ins.pos] = DataCell(ins.m, ins.i)]
        /\ ins'.pc = "data" /\ ins'.m = ins.m /\ ins'.i = ins.i + 1 /\ tx_ptr' = tx_ptr
    BY <1>3, Zenon DEF InsertData, Busy
  <2>5. Holds(tx_ptr, ins.m, ins.i)'
    <3>1. mem'[tx_ptr] = HeaderCell(ins.m)
      BY <1>t, <2>3, <2>4, LaidCells, Zenon DEF WholeMessages, Holds
    <3>2. ASSUME NEW i \in 0 .. ins.i
          PROVE  mem'[Wrap(tx_ptr + (16 + 16 * i), RingLen)] = DataCell(ins.m, i)
      <4>1. i \in 0 .. PayloadCells(ins.m) - 1
        BY <1>t, <2>3
      <4>2. i # ins.i => mem[Wrap(tx_ptr + (16 + 16 * i), RingLen)] = DataCell(ins.m, i)
        BY <1>t, <2>3 DEF WholeMessages, Holds
      <4>. QED BY <1>t, <2>3, <2>4, <4>1, <4>2, LaidCells
    <3>3. 0 .. (ins.i + 1) - 1 = 0 .. ins.i
      BY <1>t
    <3>. QED BY <2>4, <3>1, <3>2, <3>3, Zenon DEF Holds
  <2>6. cpy.pc = "data" => mem'[rx_ptr] = mem[rx_ptr]
    <3>1. cpy.pc = "data" => Unread(rx_ptr)
      BY <1>t, Sizes, DistType DEF SpaceInv, CopyInMessage, Dist, Unread
    <3>. QED BY <1>t, <2>1, <2>4, <3>1
  <2>. QED BY <1>3, <2>2, <2>4, <2>5, <2>6, Zenon DEF InsertData, WholeMessages
<1>4. ASSUME InsertFault PROVE WholeMessages'
  <2>1. UnreadWhole'
    BY <1>4, <1>w, ChainFrame, Zenon DEF InsertFault
  <2>. QED BY <1>4, <2>1 DEF InsertFault, Idle, WholeMessages
<1>5. ASSUME InsertPublish PROVE WholeMessages'
  <2>1. /\ ins.pc = "data" /\ ins.m \in Messages /\ ins.i = PayloadCells(ins.m)
        /\ Dist(rx_ptr, tx_ptr) + MessageSize(ins.m.n) < RingLen
        /\ Dist(tx_ptr, ins.pos) = MessageSize(ins.m.n)
        /\ Holds(tx_ptr, ins.m, PayloadCells(ins.m))
    BY <1>5, Sizes, HeaderIsACell, Zenon
       DEF InsertPublish, SpaceInv, InsertInFreeSpace, Dist, WholeMessages
  <2>2. /\ mem' = mem /\ rx_ptr' = rx_ptr /\ tx_ptr' = ins.pos
        /\ ins'.pc = "idle" /\ cpy' = cpy
    BY <1>5, Zenon DEF InsertPublish, Idle
  <2>3. Dist(rx_ptr, ins.pos) = Dist(rx_ptr, tx_ptr) + MessageSize(ins.m.n)
    BY <1>t, <2>1, DistChain
  <2>4. Dist(rx_ptr, tx_ptr) \in Nat /\ RingLen \in Nat /\ MessageSize(ins.m.n) \in Nat
    BY <1>t, <2>1, DistType, RingLenMultiple, Sizes, Zenon
  <2>5. ins.pos = Wrap(tx_ptr + MessageSize(ins.m.n), RingLen)
    <3>1. /\ Wrap(tx_ptr + MessageSize(ins.m.n), RingLen) \in Offsets
          /\ Dist(rx_ptr, Wrap(tx_ptr + MessageSize(ins.m.n), RingLen)) = Dist(rx_ptr, ins.pos)
      BY <1>t, <2>1, <2>3, <2>4, Sizes, WrapMove
    <3>. QED BY <1>t, <3>1, DistInjective
  <2>6. HasHeader(rx_ptr)
    <3>1. rx_ptr = tx_ptr => HasHeader(rx_ptr)
      BY <2>1, Zenon DEF Holds, HasHeader
    <3>. QED BY <1>w, <3>1 DEF UnreadWhole
  <2>7. ASSUME NEW o \in Offsets, NEW m \in Messages, Unread(o)', mem'[o] = HeaderCell(m)
        PROVE  /\ BytesToRead(rx_ptr, o, RingLen) + MessageSize(m.n)
                    <= BytesToRead(rx_ptr, ins.pos, RingLen)
               /\ Holds(o, m, PayloadCells(m))'
               /\ LET next == Wrap(o + MessageSize(m.n), RingLen)
                  IN  next = ins.pos \/ HasHeader(next)'
    <3>1. /\ mem[o] = HeaderCell(m) /\ Dist(rx_ptr, o) \in Nat
          /\ Dist(rx_ptr, o) < Dist(rx_ptr, tx_ptr) + MessageSize(ins.m.n)
      BY <1>t, <2>2, <2>3, <2>7, DistType, Zenon DEF Unread, Dist
    <3>2. CASE Dist(rx_ptr, o) < Dist(rx_ptr, tx_ptr)
      <4>1. Unread(o)
        BY <3>2, Zenon DEF Unread, Dist
      <4>2. /\ Dist(rx_ptr, o) + MessageSize(m.n) <= Dist(rx_ptr, tx_ptr)
            /\ Holds(o, m, PayloadCells(m))
            /\ LET next == Wrap(o + MessageSize(m.n), RingLen)
               IN  next = tx_ptr \/ HasHeader(next)
        BY <1>w, <3>1, <4>1, Zenon DEF UnreadWhole, Dist
      <4>3. HasHeader(tx_ptr)
        BY <2>1, Zenon DEF Holds, HasHeader
      <4>4. Dist(rx_ptr, o) + MessageSize(m.n) <= Dist(rx_ptr, ins.pos)
        BY <2>3, <2>4, <3>1, <4>2, Sizes
      <4>. QED BY <2>2, <4>2, <4>3, <4>4 DEF Holds, HasHeader, Dist
    <3>3. CASE Dist(rx_ptr, tx_ptr) <= Dist(rx_ptr, o)
      <4>1. o = tx_ptr
        <5>. SUFFICES ASSUME o # tx_ptr PROVE FALSE
          BY Zenon
        <5>1. Dist(tx_ptr, o) = Dist(rx_ptr, o) - Dist(rx_ptr, tx_ptr)
          BY <1>t, <3>3, DistChain
        <5>2. /\ Dist(tx_ptr, o) \in Nat /\ Dist(tx_ptr, o) % 16 = 0
              /\ Dist(tx_ptr, o) < MessageSize(ins.m.n)
              /\ Dist(tx_ptr, o) # 0
          BY <1>t, <2>4, <3>1, <5>1, DistType, DistInjective
        <5>. DEFINE i == (Dist(tx_ptr, o) \div 16) - 1
        <5>3. i \in 0 .. PayloadCells(ins.m) - 1 /\ 16 + 16 * i = Dist(tx_ptr, o)
          BY <2>1, <5>2, Sizes
        <5>4. Wrap(tx_ptr + (16 + 16 * i), RingLen) = o
          <6>. HIDE DEF i
          <6>1. /\ Wrap(tx_ptr + (16 + 16 * i), RingLen) \in Offsets
                /\ Dist(tx_ptr, Wrap(tx_ptr + (16 + 16 * i), RingLen)) = 16 + 16 * i
            BY <2>1, <5>3, LaidCells, Zenon
          <6>. QED BY <1>t, <5>3, <6>1, DistInjective
        <5>5. mem[o] = DataCell(ins.m, i)
          <6>. HIDE DEF i
          <6>. QED BY <2>1, <5>3, <5>4 DEF Holds
        <5>. HIDE DEF i
        <5>. QED BY <3>1, <5>5, CellsDiffer, Zenon
      <4>2. m = ins.m
        BY <2>1, <3>1, <4>1, CellsDiffer, Zenon DEF Holds
      <4>. QED BY <2>1, <2>2, <2>3, <2>4, <2>5, <4>1, <4>2 DEF Holds, Dist
    <3>. QED BY <2>4, <3>1, <3>2, <3>3
  <2>8. UnreadWhole'
    BY <2>2, <2>6, <2>7, Zenon DEF UnreadWhole, HasHeader
  <2>. QED BY <2>2, <2>8 DEF WholeMessages
<1>6. ASSUME NEW m \in Messages, CopyBegin(m) PROVE WholeMessages'
  <2>1. UnreadWhole'
    BY <1>6, <1>w, ChainFrame, Zenon DEF CopyBegin
  <2>. QED BY <1>6, <2>1 DEF CopyBegin, HeadIs, Busy, WholeMessages, Holds
<1>7. ASSUME CopyData PROVE WholeMessages'
  <2>1. UnreadWhole'
    BY <1>7, <1>w, ChainFrame, Zenon DEF CopyData
  <2>2. /\ cpy.m \in Messages /\ cpy.i \in 0 .. PayloadCells(cpy.m) - 1
        /\ Dist(rx_ptr, cpy.pos) = 16 + 16 * cpy.i
        /\ mem[rx_ptr] = HeaderCell(cpy.m) /\ Unread(rx_ptr) /\ ~ cpy.torn
    <3>1. /\ cpy.pc = "data" /\ cpy.m \in Messages /\ cpy.i < PayloadCells(cpy.m)
          /\ cpy.i \in 0 .. PayloadCells(cpy.m)
      BY <1>7, <1>t, SMTT(60) DEF CopyData, SpaceInv, CopyInMessage
    <3>2. PayloadCells(cpy.m) \in Nat /\ MessageSize(cpy.m.n) \in Nat /\ MessageSize(cpy.m.n) > 0
      BY <3>1, Sizes
    <3>3. /\ Dist(rx_ptr, cpy.pos) = 16 + 16 * cpy.i
          /\ MessageSize(cpy.m.n) <= Dist(rx_ptr, tx_ptr)
      BY <3>1, HeaderIsACell, Zenon DEF SpaceInv, CopyInMessage, Dist
    <3>4. mem[rx_ptr] = HeaderCell(cpy.m) /\ ~ cpy.torn
      BY <3>1, Zenon DEF WholeMessages
    <3>5. Unread(rx_ptr)
      BY <1>t, <3>2, <3>3, DistType DEF Unread, Dist
    <3>. QED BY <3>1, <3>2, <3>3, <3>4, <3>5
  <2>. DEFINE q == Wrap(rx_ptr + (16 + 16 * cpy.i), RingLen)
  <2>3. /\ q \in Offsets /\ Dist(rx_ptr, q) = Dist(rx_ptr, rx_ptr) + 16 + 16 * cpy.i
        /\ mem[q] = DataCell(cpy.m, cpy.i)
    BY <1>t, <1>w, <2>2, Interior
  <2>4. mem[cpy.pos] = DataCell(cpy.m, cpy.i)
    <3>1. Dist(rx_ptr, rx_ptr) = 0
      BY <1>t, DistType, Zenon
    <3>2. Dist(rx_ptr, q) = Dist(rx_ptr, cpy.pos)
      BY <1>t, <2>2, <2>3, <3>1
    <3>. QED BY <1>t, <2>3, <3>2, DistInjective
  <2>5. cpy'.m = cpy.m /\ ~ cpy'.torn
    BY <1>7, <2>2, <2>4, Zenon DEF CopyData, Busy
  <2>. QED BY <1>7, <2>1, <2>2, <2>5 DEF CopyData, WholeMessages, Holds
<1>8. ASSUME NEW consume \in BOOLEAN, CopyEnd(consume) PROVE WholeMessages'
  <2>1. CASE ~ consume
    <3>1. UnreadWhole'
      BY <1>8, <1>w, <2>1, ChainFrame, Zenon DEF CopyEnd
    <3>. QED BY <1>8, <3>1 DEF CopyEnd, Idle, WholeMessages, Holds
  <2>2. CASE consume
    <3>1. /\ rx_ptr' = cpy.pos /\ tx_ptr' = tx_ptr /\ mem' = mem /\ ins' = ins
          /\ cpy'.pc = "idle" /\ ~ cpy'.torn
      BY <1>8, <2>2, Zenon DEF CopyEnd, Idle
    <3>2. /\ cpy.m \in Messages /\ Dist(rx_ptr, cpy.pos) = MessageSize(cpy.m.n)
          /\ MessageSize(cpy.m.n) <= Dist(rx_ptr, tx_ptr)
          /\ mem[rx_ptr] = HeaderCell(cpy.m) /\ Unread(rx_ptr)
      BY <1>8, <1>t, Sizes, DistType, HeaderIsACell, SMTT(60)
         DEF CopyEnd, SpaceInv, CopyInMessage, WholeMessages, Unread, Dist
    <3>3. cpy.pos = tx_ptr \/ HasHeader(cpy.pos)
      <4>. DEFINE next == Wrap(rx_ptr + MessageSize(cpy.m.n), RingLen)
      <4>1. /\ next \in Offsets
            /\ next = tx_ptr \/ HasHeader(next)
            /\ Dist(rx_ptr, next) = Dist(rx_ptr, rx_ptr) + MessageSize(cpy.m.n)
        BY <1>t, <1>w, <3>2, Interior, Zenon
      <4>2. next = cpy.pos
        <5>1. Dist(rx_ptr, rx_ptr) = 0
          BY <1>t, DistType, Zenon
        <5>2. MessageSize(cpy.m.n) \in Nat
          BY <3>2, Sizes, Zenon
        <5>3. Dist(rx_ptr, next) = Dist(rx_ptr, cpy.pos)
          BY <3>2, <4>1, <5>1, <5>2
        <5>. QED BY <1>t, <4>1, <5>3, DistInjective
      <4>. QED BY <4>1, <4>2
    <3>4. Dist(cpy.pos, tx_ptr) = Dist(rx_ptr, tx_ptr) - MessageSize(cpy.m.n)
      BY <1>t, <3>2, DistChain, SMTT(60)
    <3>5. ASSUME NEW o \in Offsets, Unread(o)'
          PROVE  Unread(o) /\ Dist(cpy.pos, o) = Dist(rx_ptr, o) - MessageSize(cpy.m.n)
      <4>1. Dist(cpy.pos, o) < Dist(cpy.pos, tx_ptr)
        BY <3>1, <3>5, Zenon DEF Unread, Dist
      <4>2. /\ Dist(cpy.pos, o) \in Nat /\ Dist(rx_ptr, tx_ptr) \in Nat /\ RingLen \in Nat
            /\ Dist(rx_ptr, tx_ptr) < RingLen /\ MessageSize(cpy.m.n) \in Nat
        BY <1>t, <3>2, DistType, RingLenMultiple, Sizes, Zenon
      <4>3. Dist(rx_ptr, o) = Dist(rx_ptr, cpy.pos) + Dist(cpy.pos, o)
        BY <1>t, <3>2, <3>4, <4>1, <4>2, DistChain, SMTT(60)
      <4>. QED BY <3>2, <3>4, <4>1, <4>2, <4>3 DEF Unread, Dist
    <3>6. UnreadWhole'
      <4>1. rx_ptr' # tx_ptr' => HasHeader(rx_ptr)'
        BY <3>1, <3>3, Zenon DEF HasHeader
      <4>2. ASSUME NEW o \in Offsets, NEW m \in Messages, Unread(o)', mem'[o] = HeaderCell(m)
            PROVE  /\ BytesToRead(cpy.pos, o, RingLen) + MessageSize(m.n)
                        <= BytesToRead(cpy.pos, tx_ptr, RingLen)
                   /\ Holds(o, m, PayloadCells(m))'
                   /\ LET next == Wrap(o + MessageSize(m.n), RingLen)
                      IN  next = tx_ptr \/ HasHeader(next)'
        <5>1. Unread(o) /\ mem[o] = HeaderCell(m)
              /\ Dist(cpy.pos, o) = Dist(rx_ptr, o) - MessageSize(cpy.m.n)
          BY <3>1, <3>5, <4>2, Zenon
        <5>2. /\ Dist(rx_ptr, o) + MessageSize(m.n) <= Dist(rx_ptr, tx_ptr)
              /\ Holds(o, m, PayloadCells(m))
              /\ LET next == Wrap(o + MessageSize(m.n), RingLen)
                 IN  next = tx_ptr \/ HasHeader(next)
          BY <1>w, <5>1, Zenon DEF UnreadWhole, Dist
        <5>3. Dist(cpy.pos, o) + MessageSize(m.n) <= Dist(cpy.pos, tx_ptr)
          <6>1. /\ Dist(rx_ptr, o) \in Nat /\ Dist(rx_ptr, tx_ptr) \in Nat
                /\ MessageSize(m.n) \in Nat /\ MessageSize(cpy.m.n) \in Nat
            BY <1>t, <3>2, DistType, Sizes, Zenon
          <6>. HIDE DEF Dist
          <6>. QED BY <3>4, <5>1, <5>2, <6>1, SMTT(60)
        <5>. QED BY <3>1, <5>2, <5>3 DEF Holds, HasHeader, Dist
      <4>. QED BY <3>1, <4>1, <4>2 DEF UnreadWhole
    <3>. QED BY <3>1, <3>6 DEF WholeMessages, Holds
  <2>. QED BY <2>1, <2>2
<1>9. CASE UNCHANGED vars
  <2>1. UnreadWhole'
    BY <1>9, <1>w, ChainFrame, Zenon DEF vars
  <2>. QED BY <1>9, <2>1 DEF vars, WholeMessages, Holds
<1>. QED BY <1>1, <1>2, <1>3, <1>4, <1>5, <1>6, <1>7, <1>8, <1>9 DEF Next, Insert, Copy

-----------------------------------------------------------------------------
(* The theorems *)

\* RingInv is an inductive invariant of the data path of
\* v4v_ringbuf_insert and v4v_copy_out.
THEOREM RingInvariant == Spec => []RingInv
<1>1. Init => RingInv
  BY SpaceInvInit, WholeInit, Zenon DEF RingInv
<1>2. RingInv /\ [Next]_vars => RingInv'
  BY SpaceInvStep, WholeStep, Zenon DEF RingInv
<1>. QED BY <1>1, <1>2, PTL DEF Spec

\* Every non-empty ring has a whole message at rx_ptr for v4v_copy_out.
THEOREM RingAlwaysReadable == Spec => []HeadReadable
<1>1. RingInv => HeadReadable
  <2>. SUFFICES ASSUME RingInv, rx_ptr # tx_ptr PROVE \E m \in Messages : HeadIs(m)
    BY Zenon DEF HeadReadable
  <2>1. rx_ptr \in Offsets /\ tx_ptr \in Offsets
    BY Zenon DEF RingInv, SpaceInv, TypeOK
  <2>2. Dist(rx_ptr, rx_ptr) < Dist(rx_ptr, tx_ptr)
    BY <2>1, DistType, DistInjective
  <2>3. PICK m \in Messages : mem[rx_ptr] = HeaderCell(m)
    BY Zenon DEF RingInv, WholeMessages, UnreadWhole, HasHeader
  <2>4. Dist(rx_ptr, rx_ptr) + MessageSize(m.n) <= Dist(rx_ptr, tx_ptr)
    BY <2>1, <2>2, <2>3, Zenon DEF RingInv, WholeMessages, UnreadWhole, Unread, Dist
  <2>5. Dist(rx_ptr, tx_ptr) >= m.n + HeaderSize
    <3>1. Dist(rx_ptr, rx_ptr) = 0 /\ Dist(rx_ptr, tx_ptr) \in Nat
      BY <2>1, DistType, Zenon
    <3>2. m.n \in Nat /\ MessageSize(m.n) \in Nat /\ m.n + HeaderSize <= MessageSize(m.n)
      BY Sizes, Zenon
    <3>. QED BY <2>4, <3>1, <3>2, HeaderIsACell
  <2>. QED BY <2>3, <2>5 DEF HeadIs, Dist
<1>. QED BY RingInvariant, <1>1, PTL

\* v4v_copy_out never returns a payload mixed from two messages.
THEOREM CopiesAreWhole == Spec => []NoTornCopy
<1>1. RingInv => NoTornCopy
  BY Zenon DEF RingInv, WholeMessages, NoTornCopy
<1>. QED BY RingInvariant, <1>1, PTL

\* v4v_ringbuf_insert never writes what the receiver has yet to read.
THEOREM UnreadIsNeverOverwritten == Spec => NoOverwrite
<1>1. ASSUME RingInv, [Next]_vars, NEW o \in Offsets, mem'[o] # mem[o] PROVE ~ Unread(o)
  <2>1. CASE InsertHeader
    BY <1>1, <2>1, WriteIsFree, Zenon DEF InsertHeader, RingInv, SpaceInv, TypeOK
  <2>2. CASE InsertData
    BY <1>1, <2>2, WriteIsFree, Zenon DEF InsertData, RingInv, SpaceInv, TypeOK
  <2>3. ~ InsertHeader /\ ~ InsertData => mem' = mem
    BY <1>1, Zenon DEF Next, Insert, Copy, InsertBegin, InsertFault, InsertPublish, CopyBegin,
                CopyData, CopyEnd, vars
  <2>. QED BY <1>1, <2>1, <2>2, <2>3
<1>2. RingInv /\ [Next]_vars => [\A o \in Offsets : mem'[o] # mem[o] => ~ Unread(o)]_vars
  BY <1>1, Zenon
<1>. QED BY RingInvariant, <1>2, PTL DEF Spec, NoOverwrite

-----------------------------------------------------------------------------
(* Induction, in terms of sets *)

LEMMA LessThanWellFounded == IsWellFoundedOn({ss \in Nat \X Nat : ss[1] < ss[2]}, Nat)
BY NatLessThanWellFounded, Zenon DEF OpToRel

\* Every non-empty set of naturals has a least element.
LEMMA LeastElement ==
  ASSUME NEW T, T \subseteq Nat, T # {}
  PROVE  \E x \in T : \A y \in T : x <= y
<1>. DEFINE R == {ss \in Nat \X Nat : ss[1] < ss[2]}
<1>1. \E x \in T : \A y \in T : ~ (<<y, x>> \in R)
  <2>1. IsWellFoundedOn(R, Nat)
    BY LessThanWellFounded, Zenon
  <2>. HIDE DEF R
  <2>. QED BY <2>1, WFMin, Zenon
<1>2. \A x, y \in Nat : y < x => <<y, x>> \in R
  BY Zenon
<1>. HIDE DEF R
<1>3. PICK x \in T : \A y \in T : ~ (<<y, x>> \in R)
  BY <1>1, Zenon
<1>4. \A y \in T : ~ (y < x)
  BY <1>2, <1>3, Zenon
<1>5. \A y \in T : x <= y
  BY <1>4, SMT
<1>. QED BY <1>5

\* A set that has every number up to n that follows only members has them all.
LEMMA Induction ==
  ASSUME NEW S, NEW n \in Nat,
         \A i \in 0 .. n : (\A j \in 0 .. n : j < i => j \in S) => i \in S
  PROVE  \A i \in 0 .. n : i \in S
<1>. SUFFICES ASSUME NEW k \in 0 .. n, k \notin S PROVE FALSE
  BY Zenon
<1>. DEFINE T == {i \in 0 .. n : i \notin S}
<1>1. T \subseteq Nat /\ T # {}
  OBVIOUS
<1>2. PICK x \in T : \A y \in T : x <= y
  <2>. HIDE DEF T
  <2>. QED BY <1>1, LeastElement, Zenon
<1>3. \A j \in 0 .. n : j < x => j \in S
  BY <1>2
<1>. QED BY <1>2, <1>3

-----------------------------------------------------------------------------
(* What the messages of a queue occupy *)

Occupied(s) == Channel!Occupied(s)

\* The number of bytes of the first i messages of s.
Sums(s, f) ==
  f = [i \in 0 .. Len(s) |-> IF i = 0 THEN 0 ELSE f[i - 1] + MessageSize(s[i].n)]

LEMMA OccupiedIs == \A s : Occupied(s) = (CHOOSE f : Sums(s, f))[Len(s)]
BY Zenon DEF Occupied, Channel!Occupied, Sums, MessageSize, RoundUp, HeaderSize,
       Channel!MessageSize, Channel!RoundUp, Channel!HeaderSize

LEMMA SumsExist ==
  ASSUME NEW s \in Seq(Messages)
  PROVE  \E f : Sums(s, f)
<1>. DEFINE P(k, f) ==
              f = [i \in 0 .. k |-> IF i = 0 THEN 0 ELSE f[i - 1] + MessageSize(s[i].n)]
            S == {k \in 0 .. Len(s) : \E f : P(k, f)}
<1>0. Len(s) \in Nat
  OBVIOUS
<1>1. 0 \in S
  <2>. DEFINE f == [i \in 0 .. 0 |-> 0]
  <2>1. P(0, f)
    OBVIOUS
  <2>. HIDE DEF P
  <2>. QED BY <1>0, <2>1
<1>2. ASSUME NEW k \in 0 .. Len(s), k \in S, k < Len(s) PROVE k + 1 \in S
  <2>1. PICK f : P(k, f)
    BY <1>2, Zenon
  <2>. DEFINE g == [i \in 0 .. k + 1 |->
                      IF i = k + 1 THEN f[k] + MessageSize(s[k + 1].n) ELSE f[i]]
              h == [i \in 0 .. k + 1 |-> IF i = 0 THEN 0 ELSE g[i - 1] + MessageSize(s[i].n)]
  <2>2. ASSUME NEW i \in 0 .. k + 1 PROVE g[i] = h[i]
    <3>1. CASE i = k + 1
      BY <1>0, <1>2, <3>1
    <3>2. CASE i # k + 1
      <4>1. i \in 0 .. k /\ g[i] = f[i]
        BY <1>0, <1>2, <3>2
      <4>2. f[i] = IF i = 0 THEN 0 ELSE f[i - 1] + MessageSize(s[i].n)
        BY <2>1, <4>1, Zenon
      <4>3. i # 0 => i - 1 \in 0 .. k + 1 /\ i - 1 # k + 1 /\ g[i - 1] = f[i - 1]
        BY <1>0, <1>2, <4>1
      <4>. QED BY <4>1, <4>2, <4>3
    <3>. QED BY <3>1, <3>2
  <2>3. g = h
    BY <2>2, Zenon
  <2>4. P(k + 1, g)
    BY <2>3, Zenon
  <2>. HIDE DEF P, g, h
  <2>. QED BY <1>0, <1>2, <2>4
<1>3. Len(s) \in S
  <2>. HIDE DEF S, P
  <2>1. ASSUME NEW i \in 0 .. Len(s), \A j \in 0 .. Len(s) : j < i => j \in S PROVE i \in S
    <3>1. i # 0 => i - 1 \in 0 .. Len(s) /\ i - 1 < i /\ i - 1 < Len(s) /\ (i - 1) + 1 = i
      BY <1>0
    <3>. QED BY <1>1, <1>2, <2>1, <3>1
  <2>2. \A k \in 0 .. Len(s) : k \in S
    BY <1>0, <2>1, Induction, Zenon
  <2>. QED BY <1>0, <2>2
<1>. QED BY <1>3 DEF Sums

LEMMA SumsValues ==
  ASSUME NEW s \in Seq(Messages), NEW f, Sums(s, f)
  PROVE  /\ f[0] = 0
         /\ \A i \in 1 .. Len(s) : f[i] = f[i - 1] + MessageSize(s[i].n)
<1>0. Len(s) \in Nat
  OBVIOUS
<1>. QED BY <1>0 DEF Sums

\* An empty queue occupies nothing.
LEMMA OccupiedEmpty == Occupied(<<>>) = 0
<1>. DEFINE g == CHOOSE h : Sums(<<>>, h)
<1>0. <<>> \in Seq(Messages) /\ Len(<<>>) = 0
  OBVIOUS
<1>1. Sums(<<>>, g)
  BY <1>0, SumsExist, Zenon
<1>. HIDE DEF g
<1>2. g[0] = 0
  BY <1>0, <1>1, SumsValues, Zenon
<1>. QED BY <1>0, <1>2, OccupiedIs DEF g

\* A message in front adds its size.
LEMMA OccupiedCons ==
  ASSUME NEW m \in Messages, NEW s \in Seq(Messages)
  PROVE  Occupied(<<m>> \o s) = MessageSize(m.n) + Occupied(s)
<1>. DEFINE p == <<m>> \o s
            f == CHOOSE h : Sums(s, h)
            g == CHOOSE h : Sums(p, h)
            S == {i \in 0 .. Len(s) : f[i] \in Nat /\ g[i + 1] = MessageSize(m.n) + f[i]}
<1>0. /\ p \in Seq(Messages) /\ Len(s) \in Nat /\ Len(p) = Len(s) + 1 /\ p[1] = m
      /\ \A i \in 1 .. Len(s) : p[i + 1] = s[i] /\ s[i] \in Messages
  OBVIOUS
<1>1. Sums(s, f) /\ Occupied(s) = f[Len(s)]
  BY SumsExist, OccupiedIs, Zenon
<1>2. Sums(p, g) /\ Occupied(p) = g[Len(p)]
  <2>. HIDE DEF p
  <2>. QED BY <1>0, SumsExist, OccupiedIs
<1>. HIDE DEF p, f, g
<1>3. /\ f[0] = 0 /\ \A i \in 1 .. Len(s) : f[i] = f[i - 1] + MessageSize(s[i].n)
      /\ g[0] = 0 /\ \A i \in 1 .. Len(p) : g[i] = g[i - 1] + MessageSize(p[i].n)
      /\ MessageSize(m.n) \in Nat /\ \A i \in 1 .. Len(s) : MessageSize(s[i].n) \in Nat
  BY <1>0, <1>1, <1>2, SumsValues, Sizes, Zenon
<1>4. 0 \in S
  <2>1. g[1] = g[1 - 1] + MessageSize(p[1].n)
    BY <1>0, <1>3
  <2>. QED BY <1>0, <1>3, <2>1
<1>5. ASSUME NEW i \in 0 .. Len(s), i # 0, i - 1 \in S PROVE i \in S
  <2>1. i \in 1 .. Len(s) /\ i + 1 \in 1 .. Len(p) /\ p[i + 1] = s[i] /\ (i + 1) - 1 = i
    BY <1>0, <1>5
  <2>2. f[i] = f[i - 1] + MessageSize(s[i].n) /\ g[i + 1] = g[i] + MessageSize(s[i].n)
    BY <1>3, <2>1, Zenon
  <2>3. /\ f[i - 1] \in Nat /\ g[i] = MessageSize(m.n) + f[i - 1]
        /\ MessageSize(s[i].n) \in Nat /\ MessageSize(m.n) \in Nat
    <3>1. (i - 1) + 1 = i
      BY <2>1
    <3>. QED BY <1>3, <1>5, <2>1, <3>1
  <2>4. f[i] \in Nat /\ g[i + 1] = MessageSize(m.n) + f[i]
    BY <2>2, <2>3
  <2>. QED BY <2>1, <2>4
<1>6. \A i \in 0 .. Len(s) : i \in S
  <2>1. ASSUME NEW i \in 0 .. Len(s), \A j \in 0 .. Len(s) : j < i => j \in S PROVE i \in S
    <3>. HIDE DEF S
    <3>1. i # 0 => i - 1 \in 0 .. Len(s) /\ i - 1 < i
      BY <1>0
    <3>. QED BY <1>4, <1>5, <2>1, <3>1
  <2>. HIDE DEF S
  <2>. QED BY <1>0, <2>1, Induction, Zenon
<1>7. g[Len(s) + 1] = MessageSize(m.n) + f[Len(s)]
  BY <1>0, <1>6
<1>. QED BY <1>0, <1>1, <1>2, <1>7 DEF p

-----------------------------------------------------------------------------
(* The messages before an offset *)

\* MessagesBefore at b, when the values at smaller distances are those of f.
Parse(cells, t, f, b) ==
  IF b = 0 THEN <<>>
  ELSE IF \E m \in Messages : HeaderBefore(cells, t, b, m)
  THEN LET m == cells[Wrap(t + (RingLen - b), RingLen)][2]
       IN  <<m>> \o f[b - MessageSize(m.n)]
  ELSE <<NoMessage>>

\* m, with the messages behind it.
Cons(f, b, m) == <<m>> \o f[b - MessageSize(m.n)]

LEMMA MessagesBeforeIs ==
  \A cells, t :
    MessagesBefore(cells, t) = CHOOSE f : f = [b \in 0 .. RingLen |-> Parse(cells, t, f, b)]
BY Zenon DEF MessagesBefore, Parse

\* A parse that starts with m.
LEMMA HeaderFits ==
  ASSUME NEW cells, NEW t, NEW b \in Nat, NEW m \in Messages, HeaderBefore(cells, t, b, m)
  PROVE  b # 0 /\ b - MessageSize(m.n) \in Nat /\ b - MessageSize(m.n) < b
<1>1. MessageSize(m.n) \in Nat /\ MessageSize(m.n) >= 16 /\ MessageSize(m.n) <= b
  BY Sizes DEF HeaderBefore
<1>. QED BY <1>1

LEMMA ParseHeader ==
  ASSUME NEW cells, NEW t, NEW b \in Nat, NEW m \in Messages, HeaderBefore(cells, t, b, m), NEW h
  PROVE  Parse(cells, t, h, b) = Cons(h, b, m)
<1>1. cells[Wrap(t + (RingLen - b), RingLen)][2] = m
  BY DEF HeaderBefore, HeaderCell
<1>. QED BY <1>1, HeaderFits, Zenon DEF Parse, Cons

\* A parse looks at smaller distances only.
LEMMA ParseLocal ==
  ASSUME NEW cells, NEW t, NEW f, NEW g, NEW b \in Nat,
         \A j \in Nat : j < b => f[j] = g[j]
  PROVE  Parse(cells, t, f, b) = Parse(cells, t, g, b)
<1>1. CASE \E m \in Messages : HeaderBefore(cells, t, b, m)
  <2>1. PICK m \in Messages : HeaderBefore(cells, t, b, m)
    BY <1>1, Zenon
  <2>2. Parse(cells, t, f, b) = Cons(f, b, m) /\ Parse(cells, t, g, b) = Cons(g, b, m)
    BY <2>1, ParseHeader
  <2>3. b - MessageSize(m.n) \in Nat /\ b - MessageSize(m.n) < b
    BY <2>1, HeaderFits, Zenon
  <2>4. f[b - MessageSize(m.n)] = g[b - MessageSize(m.n)]
    BY <2>3, Zenon
  <2>. QED BY <2>2, <2>4, Zenon DEF Cons
<1>2. CASE ~ \E m \in Messages : HeaderBefore(cells, t, b, m)
  BY <1>2, Zenon DEF Parse
<1>. QED BY <1>1, <1>2

LEMMA ParseExists ==
  ASSUME NEW cells, NEW t
  PROVE  \E f : f = [b \in 0 .. RingLen |-> Parse(cells, t, f, b)]
<1>. DEFINE P(k, f) == f = [b \in 0 .. k |-> Parse(cells, t, f, b)]
            S == {k \in 0 .. RingLen : \E f : P(k, f)}
<1>0. RingLen \in Nat
  BY RingLenMultiple, Zenon
<1>1. 0 \in S
  <2>. DEFINE f == [b \in 0 .. 0 |-> <<>>]
              h == [b \in 0 .. 0 |-> Parse(cells, t, f, b)]
  <2>1. f = h
    BY DEF Parse
  <2>2. P(0, f)
    BY <2>1, Zenon
  <2>. HIDE DEF P
  <2>. QED BY <1>0, <2>2
<1>2. ASSUME NEW k \in 0 .. RingLen, k # 0, k - 1 \in S PROVE k \in S
  <2>1. PICK f : P(k - 1, f)
    BY <1>2, Zenon
  <2>. DEFINE g == [b \in 0 .. k |-> IF b = k THEN Parse(cells, t, f, k) ELSE f[b]]
              h == [b \in 0 .. k |-> Parse(cells, t, g, b)]
  <2>2. \A j \in Nat : j < k => f[j] = g[j]
    BY <1>0
  <2>3. ASSUME NEW b \in 0 .. k PROVE g[b] = h[b]
    <3>1. Parse(cells, t, f, b) = Parse(cells, t, g, b)
      <4>. HIDE DEF g
      <4>1. b \in Nat /\ \A j \in Nat : j < b => f[j] = g[j]
        BY <1>0, <2>2
      <4>. QED BY <4>1, ParseLocal, Zenon
    <3>2. CASE b = k
      BY <3>1, <3>2, Zenon
    <3>3. CASE b # k
      <4>1. b \in 0 .. k - 1 /\ g[b] = f[b]
        BY <1>0, <3>3
      <4>2. f[b] = Parse(cells, t, f, b)
        BY <2>1, <4>1, Zenon
      <4>. QED BY <3>1, <4>1, <4>2
    <3>. QED BY <3>2, <3>3
  <2>4. g = h
    BY <2>3, Zenon
  <2>5. P(k, g)
    BY <2>4, Zenon
  <2>. HIDE DEF P, g, h
  <2>. QED BY <1>0, <2>5
<1>3. RingLen \in S
  <2>. HIDE DEF S, P
  <2>1. ASSUME NEW i \in 0 .. RingLen, \A j \in 0 .. RingLen : j < i => j \in S PROVE i \in S
    <3>1. i # 0 => i - 1 \in 0 .. RingLen /\ i - 1 < i
      BY <1>0
    <3>. QED BY <1>1, <1>2, <2>1, <3>1
  <2>2. \A k \in 0 .. RingLen : k \in S
    BY <1>0, <2>1, Induction, Zenon
  <2>. QED BY <1>0, <2>2
<1>. QED BY <1>3

\* What MessagesBefore returns.
LEMMA MessagesBeforeFacts ==
  ASSUME NEW cells, NEW t, NEW b \in 0 .. RingLen
  PROVE  MessagesBefore(cells, t)[b] = Parse(cells, t, MessagesBefore(cells, t), b)
<1>. DEFINE f == MessagesBefore(cells, t)
<1>1. f = [c \in 0 .. RingLen |-> Parse(cells, t, f, c)]
  BY MessagesBeforeIs, ParseExists, Zenon
<1>. HIDE DEF f
<1>. QED BY <1>1 DEF f

LEMMA MessagesNone ==
  ASSUME NEW cells, NEW t PROVE MessagesBefore(cells, t)[0] = <<>>
<1>1. 0 \in 0 .. RingLen
  BY RingLenMultiple
<1>. QED BY <1>1, MessagesBeforeFacts DEF Parse

LEMMA MessagesFirst ==
  ASSUME NEW cells, NEW t, NEW b \in 0 .. RingLen, NEW m \in Messages, HeaderBefore(cells, t, b, m)
  PROVE  /\ MessagesBefore(cells, t)[b] = <<m>> \o MessagesBefore(cells, t)[b - MessageSize(m.n)]
         /\ b - MessageSize(m.n) \in 0 .. RingLen /\ b - MessageSize(m.n) < b
<1>1. b \in Nat /\ RingLen \in Nat
  BY RingLenMultiple
<1>2. b - MessageSize(m.n) \in Nat /\ b - MessageSize(m.n) < b
  BY <1>1, HeaderFits, Zenon
<1>3. b - MessageSize(m.n) \in 0 .. RingLen
  BY <1>1, <1>2
<1>4. Parse(cells, t, MessagesBefore(cells, t), b) = Cons(MessagesBefore(cells, t), b, m)
  BY <1>1, ParseHeader
<1>. QED BY <1>2, <1>3, <1>4, MessagesBeforeFacts DEF Cons

LEMMA MessagesOnly ==
  ASSUME NEW cells, NEW t, NEW m \in Messages, MessageSize(m.n) \in 0 .. RingLen,
         HeaderBefore(cells, t, MessageSize(m.n), m)
  PROVE  MessagesBefore(cells, t)[MessageSize(m.n)] = <<m>>
<1>. DEFINE b == MessageSize(m.n)
            f == MessagesBefore(cells, t)
<1>1. /\ b \in Nat /\ b \in 0 .. RingLen /\ HeaderBefore(cells, t, b, m)
      /\ b - MessageSize(m.n) = 0
  BY Sizes
<1>. HIDE DEF b, f
<1>2. f[b] = <<m>> \o f[0]
  <2>1. f[b] = Parse(cells, t, f, b)
    BY <1>1, MessagesBeforeFacts, Zenon DEF f
  <2>2. Parse(cells, t, f, b) = Cons(f, b, m)
    BY <1>1, ParseHeader
  <2>. QED BY <1>1, <2>1, <2>2 DEF Cons
<1>3. <<m>> \o <<>> = <<m>>
  OBVIOUS
<1>. QED BY <1>2, <1>3, MessagesNone DEF b, f

-----------------------------------------------------------------------------
(* The chain of unread messages *)

\* The offset b bytes before t.
Before(t, b) == Wrap(t + (RingLen - b), RingLen)

LEMMA BeforeFacts ==
  ASSUME NEW a \in Offsets, NEW t \in Offsets, NEW b \in Nat, b # 0, b % 16 = 0, b <= Dist(a, t)
  PROVE  /\ Before(t, b) \in Offsets /\ Dist(a, Before(t, b)) = Dist(a, t) - b
         /\ Dist(a, t) \in Nat /\ b < RingLen
<1>1. /\ a \in Nat /\ a % 16 = 0 /\ a < RingLen
      /\ t \in Nat /\ t % 16 = 0 /\ t < RingLen
  BY OffsetsDef, Zenon
<1>2. Dist(a, t) \in Nat /\ Dist(a, t) < RingLen
  BY DistType, Zenon
<1>3. /\ Before(t, b) \in Nat /\ Before(t, b) % 16 = 0 /\ Before(t, b) < RingLen
  BY <1>1, <1>2, RingLenMultiple DEF Before, Wrap
<1>4. Dist(a, Before(t, b)) = Dist(a, t) - b
  BY <1>1, <1>2, RingLenMultiple DEF Before, Wrap, Dist, BytesToRead
<1>5. b < RingLen
  BY <1>2, RingLenMultiple
<1>6. Before(t, b) \in Offsets
  BY <1>3, OffsetsDef, Zenon
<1>. QED BY <1>2, <1>4, <1>5, <1>6

\* s bytes further on.
LEMMA BeforeNext ==
  ASSUME NEW t \in Offsets, NEW b \in Nat, NEW s \in Nat, 0 < s, s < b, b < RingLen
  PROVE  Before(t, b - s) = Wrap(Before(t, b) + s, RingLen)
<1>1. t \in Nat /\ t < RingLen /\ RingLen \in Nat
  BY OffsetsDef, RingLenMultiple, Zenon
<1>. QED BY <1>1 DEF Before, Wrap

\* The same offset, from a point s bytes further on.
LEMMA BeforeMoved ==
  ASSUME NEW t \in Offsets, NEW b \in Nat, NEW s \in Nat, 0 < s, b + s < RingLen
  PROVE  Before(Wrap(t + s, RingLen), b + s) = IF b = 0 THEN t ELSE Before(t, b)
<1>1. t \in Nat /\ t < RingLen /\ RingLen \in Nat
  BY OffsetsDef, RingLenMultiple, Zenon
<1>. QED BY <1>1 DEF Before, Wrap

\* One of the messages between rx_ptr and tx_ptr begins b bytes before the
\* latter, or b is 0.
OnChain(b) ==
  /\ b \in 0 .. RingLen /\ b <= Dist(rx_ptr, tx_ptr) /\ b % 16 = 0
  /\ b # 0 => HasHeader(Before(tx_ptr, b))

LEMMA ChainStart == RingInv => OnChain(Dist(rx_ptr, tx_ptr))
<1>. SUFFICES ASSUME RingInv PROVE OnChain(Dist(rx_ptr, tx_ptr))
  BY Zenon
<1>. DEFINE b == Dist(rx_ptr, tx_ptr)
<1>1. rx_ptr \in Offsets /\ tx_ptr \in Offsets
  BY Zenon DEF RingInv, SpaceInv, TypeOK
<1>2. b \in Nat /\ b < RingLen /\ b % 16 = 0 /\ RingLen \in Nat
  BY <1>1, DistType, RingLenMultiple, Zenon
<1>3. ASSUME b # 0 PROVE HasHeader(Before(tx_ptr, b))
  <2>1. Dist(rx_ptr, rx_ptr) = 0
    BY <1>1, DistType, Zenon
  <2>2. HasHeader(rx_ptr)
    BY <1>3, <2>1, Zenon DEF RingInv, WholeMessages, UnreadWhole
  <2>3. Before(tx_ptr, b) \in Offsets /\ Dist(rx_ptr, Before(tx_ptr, b)) = b - b
    <3>. HIDE DEF b
    <3>1. b <= b
      BY <1>2
    <3>. QED BY <1>1, <1>2, <1>3, <3>1, BeforeFacts DEF b
  <2>4. Before(tx_ptr, b) = rx_ptr
    <3>1. Dist(rx_ptr, Before(tx_ptr, b)) = Dist(rx_ptr, rx_ptr)
      BY <1>2, <2>1, <2>3
    <3>. QED BY <1>1, <2>3, <3>1, DistInjective
  <2>. QED BY <2>2, <2>4
<1>. QED BY <1>2, <1>3 DEF OnChain

LEMMA ChainStep ==
  ASSUME RingInv, NEW b, OnChain(b), b # 0
  PROVE  \E m \in Messages : /\ HeaderBefore(mem, tx_ptr, b, m)
                             /\ Unread(Before(tx_ptr, b)) /\ Before(tx_ptr, b) \in Offsets
                             /\ OnChain(b - MessageSize(m.n))
<1>. DEFINE o == Before(tx_ptr, b)
            D == Dist(rx_ptr, tx_ptr)
<1>1. /\ rx_ptr \in Offsets /\ tx_ptr \in Offsets /\ RingLen \in Nat
      /\ b \in Nat /\ b <= D /\ b % 16 = 0 /\ HasHeader(o)
  BY RingLenMultiple DEF RingInv, SpaceInv, TypeOK, OnChain
<1>2. o \in Offsets /\ Dist(rx_ptr, o) = D - b /\ D \in Nat /\ b < RingLen
  <2>. HIDE DEF o, D
  <2>. QED BY <1>1, BeforeFacts DEF o, D
<1>3. PICK m \in Messages : mem[o] = HeaderCell(m)
  BY <1>1, Zenon DEF HasHeader
<1>. DEFINE s == MessageSize(m.n)
<1>. HIDE DEF o, D
<1>4. Unread(o)
  BY <1>1, <1>2 DEF Unread, Dist, D
<1>5. s \in Nat /\ s % 16 = 0 /\ 0 < s
  BY Sizes
<1>6. Dist(rx_ptr, o) + s <= D /\ (Wrap(o + s, RingLen) = tx_ptr \/ HasHeader(Wrap(o + s, RingLen)))
  BY <1>2, <1>3, <1>4, Zenon DEF RingInv, WholeMessages, UnreadWhole, Dist, D
<1>. HIDE DEF s
<1>7. s <= b
  BY <1>1, <1>2, <1>5, <1>6
<1>8. ASSUME b # s PROVE HasHeader(Before(tx_ptr, b - s))
  <2>1. Before(tx_ptr, b - s) = Wrap(o + s, RingLen)
    <3>1. s < b
      BY <1>1, <1>5, <1>7, <1>8
    <3>. QED BY <1>1, <1>2, <1>5, <3>1, BeforeNext DEF o
  <2>2. Before(tx_ptr, b - s) # tx_ptr
    <3>1. b - s \in Nat /\ b - s # 0 /\ b - s < RingLen
      BY <1>1, <1>2, <1>5, <1>7, <1>8
    <3>2. tx_ptr \in Nat
      BY <1>1, OffsetsDef, Zenon
    <3>. QED BY <1>1, <3>1, <3>2 DEF Before, Wrap
  <2>. QED BY <1>6, <2>1, <2>2
<1>9. OnChain(b - s)
  <2>1. b - s \in 0 .. RingLen /\ b - s <= D /\ (b - s) % 16 = 0 /\ (b - s # 0 => b # s)
    BY <1>1, <1>2, <1>5, <1>7
  <2>. QED BY <1>8, <2>1 DEF OnChain, D
<1>10. HeaderBefore(mem, tx_ptr, b, m)
  BY <1>3, <1>7, Zenon DEF HeaderBefore, o, Before, s
<1>. QED BY <1>2, <1>4, <1>9, <1>10 DEF o, s

\* What the unread messages are, and what they occupy.
LEMMA ChainIsMessages ==
  ASSUME RingInv
  PROVE  \A b \in 0 .. RingLen : OnChain(b) =>
           /\ MessagesBefore(mem, tx_ptr)[b] \in Seq(Messages)
           /\ Occupied(MessagesBefore(mem, tx_ptr)[b]) = b
<1>. DEFINE f == MessagesBefore(mem, tx_ptr)
            S == {b \in 0 .. RingLen : OnChain(b) => f[b] \in Seq(Messages) /\ Occupied(f[b]) = b}
<1>0. RingLen \in Nat
  BY RingLenMultiple, Zenon
<1>. HIDE DEF f
<1>1. ASSUME NEW b \in 0 .. RingLen, \A j \in 0 .. RingLen : j < b => j \in S, OnChain(b)
      PROVE  f[b] \in Seq(Messages) /\ Occupied(f[b]) = b
  <2>1. CASE b = 0
    <3>1. f[0] = <<>>
      BY MessagesNone, Zenon DEF f
    <3>. QED BY <2>1, <3>1, OccupiedEmpty
  <2>2. CASE b # 0
    <3>1. PICK m \in Messages : HeaderBefore(mem, tx_ptr, b, m) /\ OnChain(b - MessageSize(m.n))
      BY <1>1, <2>2, ChainStep, Zenon
    <3>. DEFINE k == b - MessageSize(m.n)
    <3>2. f[b] = <<m>> \o f[k] /\ k \in 0 .. RingLen /\ k < b
      BY <3>1, MessagesFirst, SMTT(30) DEF f
    <3>3. b = MessageSize(m.n) + k /\ MessageSize(m.n) \in Nat
      BY <1>0, Sizes
    <3>4. OnChain(k)
      BY <3>1, Zenon
    <3>. HIDE DEF k
    <3>5. f[k] \in Seq(Messages) /\ Occupied(f[k]) = k
      BY <1>1, <3>2, <3>4, Zenon
    <3>6. Occupied(<<m>> \o f[k]) = MessageSize(m.n) + Occupied(f[k])
      BY <3>5, OccupiedCons, Zenon
    <3>7. <<m>> \o f[k] \in Seq(Messages)
      BY <3>5
    <3>. QED BY <3>2, <3>3, <3>5, <3>6, <3>7, Zenon
  <2>. QED BY <2>1, <2>2
<1>2. \A b \in 0 .. RingLen : b \in S
  <2>1. \A b \in 0 .. RingLen : (\A j \in 0 .. RingLen : j < b => j \in S) => b \in S
    BY <1>1, Zenon
  <2>. HIDE DEF S
  <2>. QED BY <1>0, <2>1, Induction, Zenon
<1>. QED BY <1>2 DEF f

\* The messages depend on the unread part of the ring only.
SameUnread(cells) == \A o \in Offsets : Unread(o) => cells[o] = mem[o]

LEMMA UnreadDecides ==
  ASSUME RingInv, NEW cells, SameUnread(cells)
  PROVE  MessagesBefore(cells, tx_ptr)[Dist(rx_ptr, tx_ptr)] = Stored
<1>. DEFINE f == MessagesBefore(mem, tx_ptr)
            g == MessagesBefore(cells, tx_ptr)
            S == {b \in 0 .. RingLen : OnChain(b) => f[b] = g[b]}
<1>0. RingLen \in Nat
  BY RingLenMultiple, Zenon
<1>. HIDE DEF f, g
<1>1. ASSUME NEW b \in 0 .. RingLen, \A j \in 0 .. RingLen : j < b => j \in S, OnChain(b)
      PROVE  f[b] = g[b]
  <2>1. CASE b = 0
    BY <2>1, MessagesNone, Zenon DEF f, g
  <2>2. CASE b # 0
    <3>1. PICK m \in Messages : /\ HeaderBefore(mem, tx_ptr, b, m) /\ OnChain(b - MessageSize(m.n))
                               /\ Unread(Before(tx_ptr, b)) /\ Before(tx_ptr, b) \in Offsets
      BY <1>1, <2>2, ChainStep, Zenon
    <3>2. HeaderBefore(cells, tx_ptr, b, m)
      <4>1. cells[Before(tx_ptr, b)] = mem[Before(tx_ptr, b)]
        BY <3>1, Zenon DEF SameUnread
      <4>. QED BY <3>1, <4>1, Zenon DEF HeaderBefore, Before
    <3>. DEFINE k == b - MessageSize(m.n)
    <3>3. f[b] = <<m>> \o f[k] /\ k \in 0 .. RingLen /\ k < b
      BY <3>1, MessagesFirst, SMTT(30) DEF f
    <3>4. g[b] = <<m>> \o g[k]
      BY <3>2, MessagesFirst, SMTT(30) DEF g
    <3>5. OnChain(k)
      BY <3>1, Zenon
    <3>. HIDE DEF k
    <3>. QED BY <1>1, <3>3, <3>4, <3>5
  <2>. QED BY <2>1, <2>2
<1>2. \A b \in 0 .. RingLen : b \in S
  <2>1. \A b \in 0 .. RingLen : (\A j \in 0 .. RingLen : j < b => j \in S) => b \in S
    BY <1>1, Zenon
  <2>. HIDE DEF S
  <2>. QED BY <1>0, <2>1, Induction, Zenon
<1>3. OnChain(Dist(rx_ptr, tx_ptr)) /\ Dist(rx_ptr, tx_ptr) \in 0 .. RingLen
  BY ChainStart, Zenon DEF OnChain
<1>4. f[Dist(rx_ptr, tx_ptr)] = g[Dist(rx_ptr, tx_ptr)]
  BY <1>2, <1>3, Zenon
<1>. QED BY <1>4, Zenon DEF Stored, f, g, Dist

LEMMA StoredKept ==
  ASSUME RingInv, rx_ptr' = rx_ptr, tx_ptr' = tx_ptr,
         \A o \in Offsets : Unread(o) => mem'[o] = mem[o]
  PROVE  Stored' = Stored
<1>1. MessagesBefore(mem', tx_ptr)[Dist(rx_ptr, tx_ptr)] = Stored
  BY UnreadDecides, Zenon DEF SameUnread
<1>. QED BY <1>1, Zenon DEF Stored, Dist

\* A message laid at tx_ptr, with tx_ptr moved behind it, is the last one.
LEMMA PublishedIsLast ==
  ASSUME RingInv, NEW m \in Messages, mem[tx_ptr] = HeaderCell(m),
         Dist(rx_ptr, tx_ptr) + MessageSize(m.n) < RingLen
  PROVE  MessagesBefore(mem, Wrap(tx_ptr + MessageSize(m.n), RingLen))
           [Dist(rx_ptr, tx_ptr) + MessageSize(m.n)] = Append(Stored, m)
<1>. DEFINE s == MessageSize(m.n)
            t == Wrap(tx_ptr + s, RingLen)
            D == Dist(rx_ptr, tx_ptr)
            f == MessagesBefore(mem, tx_ptr)
            g == MessagesBefore(mem, t)
            S == {b \in 0 .. RingLen : OnChain(b) => g[b + s] = Append(f[b], m)}
<1>0. /\ RingLen \in Nat /\ s \in Nat /\ 0 < s /\ D \in Nat /\ D + s < RingLen
      /\ rx_ptr \in Offsets /\ tx_ptr \in Offsets
  <2>1. rx_ptr \in Offsets /\ tx_ptr \in Offsets
    BY Zenon DEF RingInv, SpaceInv, TypeOK
  <2>2. s \in Nat /\ 0 < s
    BY Sizes
  <2>. QED BY <2>1, <2>2, RingLenMultiple, DistType
<1>d. ASSUME NEW b, OnChain(b) PROVE b \in Nat /\ b + s < RingLen /\ b + s \in 0 .. RingLen
  <2>1. b \in Nat /\ b <= D
    BY <1>0, <1>d DEF OnChain
  <2>. HIDE DEF s, D
  <2>. QED BY <1>0, <2>1
<1>. HIDE DEF s, t, D, f, g
<1>1. ASSUME NEW b \in 0 .. RingLen, \A j \in 0 .. RingLen : j < b => j \in S, OnChain(b)
      PROVE  g[b + s] = Append(f[b], m)
  <2>0. b \in Nat /\ b + s < RingLen /\ b + s \in 0 .. RingLen
    BY <1>1, <1>d, Zenon
  <2>a. Before(t, b + s) = IF b = 0 THEN tx_ptr ELSE Before(tx_ptr, b)
    BY <1>0, <2>0, BeforeMoved, Zenon DEF t
  <2>1. CASE b = 0
    <3>1. b + s = s
      BY <1>0, <2>1
    <3>2. HeaderBefore(mem, t, s, m)
      <4>1. mem[Before(t, s)] = HeaderCell(m)
        BY <2>1, <2>a, <3>1, Zenon
      <4>2. MessageSize(m.n) <= s
        BY <1>0 DEF s
      <4>. QED BY <4>1, <4>2 DEF HeaderBefore, Before
    <3>3. g[s] = <<m>>
      <4>1. s \in 0 .. RingLen
        BY <2>0, <3>1, Zenon
      <4>. QED BY <3>2, <4>1, MessagesOnly DEF g, s
    <3>4. f[0] = <<>>
      BY MessagesNone, Zenon DEF f
    <3>5. <<m>> = Append(<<>>, m)
      OBVIOUS
    <3>. QED BY <2>1, <3>1, <3>3, <3>4, <3>5, Zenon
  <2>2. CASE b # 0
    <3>1. PICK n \in Messages : HeaderBefore(mem, tx_ptr, b, n) /\ OnChain(b - MessageSize(n.n))
      BY <1>1, <2>2, ChainStep, Zenon
    <3>. DEFINE k == b - MessageSize(n.n)
    <3>2. MessageSize(n.n) \in Nat
      BY Sizes, Zenon
    <3>3. HeaderBefore(mem, t, b + s, n)
      <4>1. mem[Before(t, b + s)] = HeaderCell(n) /\ MessageSize(n.n) <= b
        BY <2>2, <2>a, <3>1, Zenon DEF HeaderBefore, Before
      <4>2. MessageSize(n.n) <= b + s
        BY <1>0, <2>0, <3>2, <4>1
      <4>. QED BY <4>1, <4>2 DEF HeaderBefore, Before
    <3>4. f[b] = <<n>> \o f[k] /\ k \in 0 .. RingLen /\ k < b
      BY <3>1, MessagesFirst, SMTT(30) DEF f
    <3>5. g[b + s] = <<n>> \o g[k + s]
      <4>. DEFINE c == b + s
      <4>1. g[b + s] = <<n>> \o g[(b + s) - MessageSize(n.n)]
        <5>1. c \in 0 .. RingLen /\ HeaderBefore(mem, t, c, n)
          BY <2>0, <3>3, Zenon
        <5>. HIDE DEF c
        <5>2. g[c] = <<n>> \o g[c - MessageSize(n.n)]
          BY <5>1, MessagesFirst DEF g
        <5>. QED BY <5>2 DEF c
      <4>2. (b + s) - MessageSize(n.n) = k + s
        BY <1>0, <2>0, <3>2
      <4>. QED BY <4>1, <4>2
    <3>6. OnChain(k)
      BY <3>1, Zenon
    <3>. HIDE DEF k
    <3>7. g[k + s] = Append(f[k], m)
      BY <1>1, <3>4, <3>6, Zenon
    <3>8. f[k] \in Seq(Messages)
      BY <3>4, <3>6, ChainIsMessages, Zenon DEF f
    <3>9. <<n>> \o Append(f[k], m) = Append(<<n>> \o f[k], m)
      BY <3>8
    <3>. QED BY <3>4, <3>5, <3>7, <3>9, Zenon
  <2>. QED BY <2>1, <2>2
<1>2. \A b \in 0 .. RingLen : b \in S
  <2>1. \A b \in 0 .. RingLen : (\A j \in 0 .. RingLen : j < b => j \in S) => b \in S
    BY <1>1, Zenon
  <2>. HIDE DEF S
  <2>. QED BY <1>0, <2>1, Induction, Zenon
<1>3. OnChain(D) /\ D \in 0 .. RingLen
  BY ChainStart, Zenon DEF OnChain, D
<1>4. g[D + s] = Append(f[D], m)
  BY <1>2, <1>3, Zenon
<1>. QED BY <1>4 DEF Stored, f, g, s, t, D, Dist

-----------------------------------------------------------------------------
(* The refinement *)

LEMMA InitIsChannelInit == Init => Channel!Init
<1>. SUFFICES ASSUME Init PROVE Channel!Init
  OBVIOUS
<1>1. BytesToRead(rx_ptr, tx_ptr, RingLen) = 0
  BY DEF Init, BytesToRead
<1>2. Stored = <<>>
  BY <1>1, MessagesNone, Zenon DEF Stored
<1>. QED BY <1>2 DEF Init, Channel!Init

LEMMA StepIsChannelStep ==
  RingInv /\ RingInv' /\ [Next]_vars => [Channel!Next]_<<Stored, out>>
<1>. SUFFICES ASSUME RingInv, RingInv', [Next]_vars
              PROVE  Channel!Next \/ (Stored' = Stored /\ out' = out)
  BY Zenon
<1>t. /\ rx_ptr \in Offsets /\ tx_ptr \in Offsets /\ ins.pos \in Offsets /\ cpy.pos \in Offsets
      /\ DOMAIN mem = Offsets
  BY Zenon DEF RingInv, SpaceInv, TypeOK, Jobs
<1>k. ASSUME rx_ptr' = rx_ptr, tx_ptr' = tx_ptr, out' = out,
             \A o \in Offsets : Unread(o) => mem'[o] = mem[o]
      PROVE  Stored' = Stored /\ out' = out
  BY <1>k, StoredKept, Zenon
<1>1. ASSUME NEW m \in Messages, InsertBegin(m) PROVE Stored' = Stored /\ out' = out
  BY <1>1, <1>k, Zenon DEF InsertBegin
<1>2. ASSUME InsertHeader PROVE Stored' = Stored /\ out' = out
  <2>1. ~ Unread(ins.pos)
    BY <1>2, WriteIsFree, Zenon DEF InsertHeader, RingInv
  <2>. QED BY <1>2, <1>t, <1>k, <2>1 DEF InsertHeader
<1>3. ASSUME InsertData PROVE Stored' = Stored /\ out' = out
  <2>1. ~ Unread(ins.pos)
    BY <1>3, WriteIsFree, Zenon DEF InsertData, RingInv
  <2>. QED BY <1>3, <1>t, <1>k, <2>1 DEF InsertData
<1>4. ASSUME InsertFault PROVE Stored' = Stored /\ out' = out
  BY <1>4, <1>k, Zenon DEF InsertFault
<1>5. ASSUME InsertPublish PROVE Channel!Accept(ins.m) /\ ins.m \in Messages
  <2>. DEFINE s == MessageSize(ins.m.n)
              D == Dist(rx_ptr, tx_ptr)
  <2>1. /\ ins.pc = "data" /\ ins.m \in Messages /\ D + s < RingLen
        /\ Dist(tx_ptr, ins.pos) = s /\ mem[tx_ptr] = HeaderCell(ins.m)
    BY <1>5, Sizes, HeaderIsACell, Zenon
       DEF InsertPublish, RingInv, SpaceInv, InsertInFreeSpace, Dist, WholeMessages, Holds
  <2>2. mem' = mem /\ rx_ptr' = rx_ptr /\ tx_ptr' = ins.pos /\ out' = out
    BY <1>5, Zenon DEF InsertPublish
  <2>3. s \in Nat /\ s % 16 = 0 /\ D \in Nat /\ RingLen \in Nat
    BY <1>t, <2>1, Sizes, DistType, RingLenMultiple, Zenon
  <2>. HIDE DEF s
  <2>4. Dist(rx_ptr, ins.pos) = D + s
    BY <1>t, <2>1, DistChain
  <2>5. ins.pos = Wrap(tx_ptr + s, RingLen)
    <3>1. /\ Wrap(tx_ptr + s, RingLen) \in Offsets
          /\ Dist(rx_ptr, Wrap(tx_ptr + s, RingLen)) = Dist(rx_ptr, ins.pos)
      <4>1. rx_ptr \in Offsets /\ tx_ptr \in Offsets /\ s \in Nat /\ s % 16 = 0
            /\ Dist(rx_ptr, tx_ptr) + s < RingLen
        BY <1>t, <2>1, <2>3, Zenon
      <4>2. /\ Wrap(tx_ptr + s, RingLen) \in Offsets
            /\ Dist(rx_ptr, Wrap(tx_ptr + s, RingLen)) = Dist(rx_ptr, tx_ptr) + s
        BY <4>1, WrapMove, Zenon
      <4>. QED BY <2>4, <4>2
    <3>. QED BY <1>t, <3>1, DistInjective
  <2>6. Stored' = Append(Stored, ins.m)
    <3>1. MessagesBefore(mem, Wrap(tx_ptr + s, RingLen))[D + s] = Append(Stored, ins.m)
      <4>1. RingInv /\ ins.m \in Messages /\ mem[tx_ptr] = HeaderCell(ins.m)
            /\ Dist(rx_ptr, tx_ptr) + MessageSize(ins.m.n) < RingLen
        BY <2>1, Zenon DEF s
      <4>. QED BY <4>1, PublishedIsLast, Zenon DEF s
    <3>. QED BY <2>2, <2>4, <2>5, <3>1, Zenon DEF Stored, Dist
  <2>7. Occupied(Stored) = D
    BY ChainStart, ChainIsMessages, Zenon DEF Stored, Dist, OnChain
  <2>8. Channel!Occupied(Stored) + Channel!MessageSize(ins.m.n) < RingLen
    BY <2>1, <2>7, Zenon DEF Occupied, s, MessageSize, RoundUp, HeaderSize,
          Channel!MessageSize, Channel!RoundUp, Channel!HeaderSize
  <2>. QED BY <2>1, <2>2, <2>6, <2>8 DEF Channel!Accept
<1>6. ASSUME NEW m \in Messages, CopyBegin(m) PROVE Stored' = Stored /\ out' = out
  BY <1>6, <1>k, Zenon DEF CopyBegin
<1>7. ASSUME CopyData PROVE Stored' = Stored /\ out' = out
  BY <1>7, <1>k, Zenon DEF CopyData
<1>8. ASSUME CopyEnd(FALSE) PROVE Stored' = Stored /\ out' = out
  BY <1>8, <1>k, Zenon DEF CopyEnd
<1>9. ASSUME CopyEnd(TRUE) PROVE Channel!Deliver
  <2>. DEFINE s == MessageSize(cpy.m.n)
              D == Dist(rx_ptr, tx_ptr)
              f == MessagesBefore(mem, tx_ptr)
  <2>1. /\ cpy.m \in Messages /\ Dist(rx_ptr, cpy.pos) = s /\ s <= D
        /\ mem[rx_ptr] = HeaderCell(cpy.m)
    BY <1>9, Sizes, HeaderIsACell, Zenon
       DEF CopyEnd, RingInv, SpaceInv, CopyInMessage, WholeMessages, Dist
  <2>2. mem' = mem /\ rx_ptr' = cpy.pos /\ tx_ptr' = tx_ptr /\ out' = <<cpy.m>>
    BY <1>9, Zenon DEF CopyEnd
  <2>3. s \in Nat /\ 0 < s /\ D \in Nat /\ RingLen \in Nat
    BY <1>t, <2>1, Sizes, DistType, RingLenMultiple
  <2>4. Dist(cpy.pos, tx_ptr) = D - s
    BY <1>t, <2>1, DistChain
  <2>5. OnChain(D) /\ D \in 0 .. RingLen /\ D # 0
    BY <2>1, <2>3, ChainStart DEF OnChain
  <2>. HIDE DEF s, D, f
  <2>6. HeaderBefore(mem, tx_ptr, D, cpy.m) /\ OnChain(D - s)
    <3>1. PICK m \in Messages : HeaderBefore(mem, tx_ptr, D, m) /\ OnChain(D - MessageSize(m.n))
      BY <2>5, ChainStep, Zenon
    <3>2. Before(tx_ptr, D) = rx_ptr
      <4>1. D % 16 = 0 /\ D <= D /\ Dist(rx_ptr, rx_ptr) = 0
        BY <1>t, <2>3, DistType DEF D
      <4>2. Before(tx_ptr, D) \in Offsets /\ Dist(rx_ptr, Before(tx_ptr, D)) = D - D
        BY <1>t, <2>3, <2>5, <4>1, BeforeFacts DEF D
      <4>3. Dist(rx_ptr, Before(tx_ptr, D)) = Dist(rx_ptr, rx_ptr)
        BY <2>3, <4>1, <4>2
      <4>. QED BY <1>t, <4>2, <4>3, DistInjective
    <3>3. m = cpy.m
      BY <2>1, <3>1, <3>2, CellsDiffer, Zenon DEF HeaderBefore, Before
    <3>. QED BY <3>1, <3>3 DEF s
  <2>7. Stored = <<cpy.m>> \o f[D - s]
    <3>1. f[D] = <<cpy.m>> \o f[D - MessageSize(cpy.m.n)]
      BY <2>1, <2>5, <2>6, MessagesFirst, SMTT(30) DEF f
    <3>. QED BY <3>1 DEF Stored, f, D, s, Dist
  <2>8. Stored' = f[D - s]
    BY <2>2, <2>4, Zenon DEF Stored, f, Dist
  <2>9. f[D - s] \in Seq(Messages)
    <3>1. D - s \in 0 .. RingLen
      BY <2>6, Zenon DEF OnChain
    <3>. QED BY <2>6, <3>1, ChainIsMessages DEF f
  <2>10. Stored # <<>> /\ Head(Stored) = cpy.m /\ Tail(Stored) = f[D - s]
    BY <2>7, <2>9
  <2>. QED BY <2>2, <2>8, <2>10 DEF Channel!Deliver
<1>10. CASE UNCHANGED vars
  BY <1>10, <1>k, Zenon DEF vars
<1>11. ASSUME NEW consume \in BOOLEAN, CopyEnd(consume) PROVE CopyEnd(TRUE) \/ CopyEnd(FALSE)
  BY <1>11, Zenon
<1>. QED BY <1>1, <1>2, <1>3, <1>4, <1>5, <1>6, <1>7, <1>8, <1>9, <1>10, <1>11
         DEF Next, Insert, Copy, Channel!Next

\* A ring implements the first-in first-out queue of V4VChannel.
THEOREM RingIsChannel == Spec => IsChannel
<1>. QED BY RingInvariant, InitIsChannelInit, StepIsChannelStep, PTL
     DEF Spec, IsChannel, Channel!Spec
=============================================================================
