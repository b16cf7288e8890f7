----------------------------- MODULE V4VProofs -----------------------------
(***************************************************************************)
(* The v4v hypercalls keep the contents of the rings, agree on the room in *)
(* them, announce every message and miss no sender that waits for room,    *)
(* for any number of domains, rings and message lengths: the inductive     *)
(* invariant V4VInv, and what is inductive together with it.               *)
(***************************************************************************)
EXTENDS V4V, WellFoundedInduction, TLAPS

USE Zenon

\* Where a message may start: the pointers of a ring are such offsets.
Offsets == {p \in 0 .. RingLen - 1 : p % 16 = 0}

\* The types of the variables.
EntryType == [id : Domains, len : Nat]
InfoType == [exists : BOOLEAN, len : {0, RingLen}, tx : Offsets,
             paged : BOOLEAN, pending : SUBSET EntryType]
MemType == [rx : Offsets, tx : Offsets, q : Seq(Nat), torn : BOOLEAN]
AskType == [addr : Addrs, want : Nat]
OpType == [pc : {"idle", "register", "sent", "check", "find", "fill"},
           ring : RingIds \cup {Idle.ring}, tx : Offsets, force : BOOLEAN,
           todo : SUBSET RingIds, space : Nat,
           notify : SUBSET [ring : RingIds, id : Domains], asks : Seq(AskType)]

TypeInv ==
  /\ v4v \in [Domains -> BOOLEAN] /\ awake \in [Domains -> BOOLEAN]
  /\ info \in [RingIds -> InfoType] /\ mem \in [RingIds -> MemType]
  /\ own \in [RingIds -> BOOLEAN] /\ op \in [Domains -> OpType]
  /\ irq \in [Domains -> BOOLEAN] /\ scan \subseteq RingIds /\ dirty \subseteq RingIds
  /\ waiting \in [Domains -> SUBSET [ring : RingIds, n : Nat]]

\* What a hypercall remembers across the steps it takes: its own rings,
\* whom it has yet to signal, and what it was asked.
OpOk(d, o) ==
  /\ o.pc \in {"register", "sent", "find"} => o.ring \in RingIds
  /\ o.pc \in {"register", "find"} => o.ring.dom = d
  /\ o.pc \in {"check", "find"} => o.todo \subseteq OwnRings(d)
  /\ o.pc \notin {"check", "find"} => o.notify = {}
  /\ o.pc = "fill" => o.asks # <<>>

\* A registration of a ring that is not set up keeps the tx_ptr it read: nobody
\* moves it before it is done.
OpInv(d) ==
  /\ OpOk(d, op[d])
  /\ op[d].pc = "register" =>
       own[op[d].ring] /\ (info[op[d].ring].len = 0 => op[d].tx = mem[op[d].ring].tx)

\* A ring that is set up belongs to a domain that is there and that has the ring's
\* memory; the pointers in the memory delimit the ring's messages, unless it is torn.
RingInv(r) ==
  /\ ~info[r].exists => info[r] = NoInfo
  /\ Live(r) => own[r]
  /\ own[r] => v4v[r.dom]
  /\ ~ mem[r].torn => BytesToRead(mem[r].rx, mem[r].tx, RingLen) = Occupied(mem[r].q)
  /\ mem[r].torn => mem[r].q = <<>>

V4VInv ==
  /\ TypeInv
  /\ \A d \in Domains : OpInv(d) /\ (awake[d] => v4v[d])
  /\ \A r \in RingIds : RingInv(r)

-----------------------------------------------------------------------------
(* Induction, in terms of sets *)

LEMMA LessThanWellFounded == IsWellFoundedOn({ss \in Nat \X Nat : ss[1] < ss[2]}, Nat)
BY NatLessThanWellFounded DEF OpToRel

\* Every non-empty set of naturals has a least element.
LEMMA LeastElement ==
  ASSUME NEW T, T \subseteq Nat, T # {}
  PROVE  \E x \in T : \A y \in T : x <= y
<1>. DEFINE R == {ss \in Nat \X Nat : ss[1] < ss[2]}
<1>1. \E x \in T : \A y \in T : ~ (<<y, x>> \in R)
  <2>1. IsWellFoundedOn(R, Nat)
    BY LessThanWellFounded
  <2>. HIDE DEF R
  <2>. QED BY <2>1, WFMin
<1>2. \A x, y \in Nat : y < x => <<y, x>> \in R
  OBVIOUS
<1>. HIDE DEF R
<1>3. PICK x \in T : \A y \in T : ~ (<<y, x>> \in R)
  BY <1>1
<1>4. \A y \in T : ~ (y < x)
  BY <1>2, <1>3
<1>5. \A y \in T : x <= y
  BY <1>4, SMT
<1>. QED BY <1>5

\* A set that has 0, and with every number up to n the next one, has them all.
LEMMA Induction ==
  ASSUME NEW S, NEW n \in Nat, 0 \in S, \A i \in 0 .. n : i \in S /\ i < n => i + 1 \in S
  PROVE  \A i \in 0 .. n : i \in S
<1>. SUFFICES ASSUME NEW j \in 0 .. n, j \notin S PROVE FALSE
  OBVIOUS
<1>. DEFINE T == {i \in 0 .. n : i \notin S}
<1>1. T \subseteq Nat /\ T # {}
  BY SMT
<1>2. PICK x \in T : \A y \in T : x <= y
  <2>. HIDE DEF T
  <2>. QED BY <1>1, LeastElement
<1>3. x \in 0 .. n /\ x \notin S /\ x # 0
  BY <1>2
<1>4. x - 1 \in 0 .. n /\ x - 1 < n
  BY <1>3, SMT
<1>5. x - 1 \in S
  BY <1>2, <1>4, SMT
<1>. QED BY <1>3, <1>4, <1>5, SMT

-----------------------------------------------------------------------------
(* What the messages of a ring occupy *)

\* The number of bytes of the first i messages of q.
Sums(q, f) == f = [i \in 0 .. Len(q) |-> IF i = 0 THEN 0 ELSE f[i - 1] + MessageSize(q[i])]

LEMMA MessageSizeType ==
  \A n \in Nat : MessageSize(n) \in Nat /\ MessageSize(n) >= 16 /\ MessageSize(n) % 16 = 0
BY SMT DEF MessageSize, RoundUp, HeaderSize

LEMMA OccupiedIs == \A q : Occupied(q) = (CHOOSE f : Sums(q, f))[Len(q)]
BY DEF Occupied, Sums

LEMMA SumsExist ==
  ASSUME NEW q \in Seq(Nat)
  PROVE  \E f : Sums(q, f)
<1>. DEFINE P(k, f) == f = [i \in 0 .. k |-> IF i = 0 THEN 0 ELSE f[i - 1] + MessageSize(q[i])]
            S == {k \in 0 .. Len(q) : \E f : P(k, f)}
<1>0. Len(q) \in Nat
  BY SMT
<1>1. 0 \in S
  <2>. DEFINE f == [i \in 0 .. 0 |-> 0]
  <2>1. P(0, f)
    BY SMT
  <2>. HIDE DEF P
  <2>. QED BY <1>0, <2>1, SMT
<1>2. ASSUME NEW k \in 0 .. Len(q), k \in S, k < Len(q) PROVE k + 1 \in S
  <2>1. PICK f : P(k, f)
    BY <1>2
  <2>. DEFINE g == [i \in 0 .. k + 1 |-> IF i = k + 1 THEN f[k] + MessageSize(q[k + 1]) ELSE f[i]]
              h == [i \in 0 .. k + 1 |-> IF i = 0 THEN 0 ELSE g[i - 1] + MessageSize(q[i])]
  <2>2. ASSUME NEW i \in 0 .. k + 1 PROVE g[i] = h[i]
    <3>1. CASE i = k + 1
      BY <1>0, <1>2, <3>1, SMT
    <3>2. CASE i # k + 1
      <4>1. i \in 0 .. k /\ g[i] = f[i]
        BY <1>0, <1>2, <3>2, SMT
      <4>2. f[i] = IF i = 0 THEN 0 ELSE f[i - 1] + MessageSize(q[i])
        BY <2>1, <4>1
      <4>3. i # 0 => i - 1 \in 0 .. k + 1 /\ i - 1 # k + 1 /\ g[i - 1] = f[i - 1]
        BY <1>0, <1>2, <4>1, SMT
      <4>. QED BY <4>1, <4>2, <4>3
    <3>. QED BY <3>1, <3>2
  <2>3. g = h
    BY <2>2
  <2>4. P(k + 1, g)
    BY <2>3
  <2>. HIDE DEF P, g, h
  <2>. QED BY <1>0, <1>2, <2>4, SMT
<1>3. Len(q) \in S
  <2>. HIDE DEF S, P
  <2>1. \A k \in 0 .. Len(q) : k \in S
    BY <1>0, <1>1, <1>2, Induction
  <2>. QED BY <1>0, <2>1, SMT
<1>. QED BY <1>3 DEF Sums

LEMMA SumsValues ==
  ASSUME NEW q \in Seq(Nat), NEW f, Sums(q, f)
  PROVE  /\ f[0] = 0
         /\ \A i \in 1 .. Len(q) : f[i] = f[i - 1] + MessageSize(q[i])
         /\ \A i \in 0 .. Len(q) : f[i] \in Nat
<1>0. Len(q) \in Nat /\ \A i \in 1 .. Len(q) : q[i] \in Nat
  BY SMT
<1>1. f[0] = 0
  BY <1>0, SMT DEF Sums
<1>2. \A i \in 1 .. Len(q) : f[i] = f[i - 1] + MessageSize(q[i])
  BY <1>0, SMTT(30) DEF Sums
<1>. DEFINE S == {i \in 0 .. Len(q) : f[i] \in Nat}
<1>3. 0 \in S
  BY <1>0, <1>1, SMT
<1>4. ASSUME NEW i \in 0 .. Len(q), i \in S, i < Len(q) PROVE i + 1 \in S
  <2>1. i + 1 \in 1 .. Len(q) /\ f[i] \in Nat /\ i + 1 - 1 = i
    BY <1>0, <1>4, SMT
  <2>2. MessageSize(q[i + 1]) \in Nat
    BY <1>0, <2>1, MessageSizeType
  <2>. QED BY <1>0, <1>2, <2>1, <2>2, SMT
<1>5. \A i \in 0 .. Len(q) : i \in S
  <2>. HIDE DEF S
  <2>. QED BY <1>0, <1>3, <1>4, Induction
<1>. QED BY <1>1, <1>2, <1>5

\* An empty ring occupies nothing.
LEMMA OccupiedEmpty == Occupied(<<>>) = 0
<1>0. <<>> \in Seq(Nat)
  BY SMT
<1>1. PICK f : Sums(<<>>, f)
  BY <1>0, SumsExist
<1>. DEFINE g == CHOOSE h : Sums(<<>>, h)
<1>2. Sums(<<>>, g)
  BY <1>1
<1>. HIDE DEF g
<1>3. g[0] = 0
  BY <1>0, <1>2, SumsValues
<1>4. Len(<<>>) = 0
  OBVIOUS
<1>. QED BY <1>3, <1>4, OccupiedIs DEF g

\* A message more adds its size.
LEMMA OccupiedAppend ==
  ASSUME NEW q \in Seq(Nat), NEW n \in Nat
  PROVE  Occupied(q) \in Nat /\ Occupied(Append(q, n)) = Occupied(q) + MessageSize(n)
<1>. DEFINE p == Append(q, n)
            f == CHOOSE h : Sums(q, h)
            g == CHOOSE h : Sums(p, h)
            S == {i \in 0 .. Len(q) : f[i] = g[i]}
<1>0. /\ p \in Seq(Nat) /\ Len(q) \in Nat /\ Len(p) = Len(q) + 1 /\ p[Len(q) + 1] = n
      /\ \A i \in 1 .. Len(q) : p[i] = q[i] /\ q[i] \in Nat
  BY SMT
<1>1. Sums(q, f) /\ Occupied(q) = f[Len(q)]
  BY SumsExist, OccupiedIs
<1>2. Sums(p, g) /\ Occupied(p) = g[Len(p)]
  <2>. HIDE DEF p
  <2>. QED BY <1>0, SumsExist, OccupiedIs
<1>. HIDE DEF p, f, g
<1>3. /\ f[0] = 0 /\ g[0] = 0 /\ f[Len(q)] \in Nat
      /\ \A i \in 1 .. Len(q) : f[i] = f[i - 1] + MessageSize(q[i])
      /\ \A i \in 1 .. Len(q) : g[i] = g[i - 1] + MessageSize(q[i])
      /\ g[Len(q) + 1] = g[Len(q)] + MessageSize(n)
  <2>1. f[0] = 0 /\ f[Len(q)] \in Nat /\ \A i \in 1 .. Len(q) : f[i] = f[i - 1] + MessageSize(q[i])
    BY <1>0, <1>1, SumsValues, SMT
  <2>2. g[0] = 0 /\ \A i \in 1 .. Len(q) + 1 : g[i] = g[i - 1] + MessageSize(p[i])
    BY <1>0, <1>2, SumsValues, SMT
  <2>3. \A i \in 1 .. Len(q) : g[i] = g[i - 1] + MessageSize(q[i])
    BY <1>0, <2>2, SMTT(30)
  <2>4. g[Len(q) + 1] = g[Len(q) + 1 - 1] + MessageSize(n)
    BY <1>0, <2>2, SMT
  <2>. QED BY <1>0, <2>1, <2>2, <2>3, <2>4, SMT
<1>4. 0 \in S
  BY <1>0, <1>3, SMT
<1>5. ASSUME NEW i \in 0 .. Len(q), i \in S, i < Len(q) PROVE i + 1 \in S
  BY <1>0, <1>3, <1>5, SMTT(30)
<1>6. \A i \in 0 .. Len(q) : i \in S
  <2>. HIDE DEF S
  <2>. QED BY <1>0, <1>4, <1>5, Induction
<1>7. f[Len(q)] = g[Len(q)]
  BY <1>0, <1>6, SMT
<1>. QED BY <1>0, <1>1, <1>2, <1>3, <1>7 DEF p

\* Without the first message its size is gone.
LEMMA OccupiedTail ==
  ASSUME NEW q \in Seq(Nat), q # <<>>
  PROVE  /\ Occupied(Tail(q)) \in Nat /\ Head(q) \in Nat /\ Tail(q) \in Seq(Nat)
         /\ Occupied(q) = MessageSize(Head(q)) + Occupied(Tail(q))
<1>. DEFINE p == Tail(q)
            f == CHOOSE h : Sums(q, h)
            g == CHOOSE h : Sums(p, h)
            S == {i \in 0 .. Len(p) : f[i + 1] = MessageSize(Head(q)) + g[i]}
<1>0. /\ p \in Seq(Nat) /\ Len(p) \in Nat /\ Len(q) = Len(p) + 1 /\ Head(q) = q[1]
      /\ \A i \in 1 .. Len(p) : p[i] = q[i + 1] /\ p[i] \in Nat
      /\ Head(q) \in Nat
  BY SMT
<1>1. Sums(q, f) /\ Occupied(q) = f[Len(q)]
  BY SumsExist, OccupiedIs
<1>2. Sums(p, g) /\ Occupied(p) = g[Len(p)]
  <2>. HIDE DEF p
  <2>. QED BY <1>0, SumsExist, OccupiedIs
<1>. HIDE DEF p, f, g
<1>3. /\ f[0] = 0 /\ g[0] = 0
      /\ \A i \in 1 .. Len(q) : f[i] = f[i - 1] + MessageSize(q[i])
      /\ \A i \in 1 .. Len(p) : g[i] = g[i - 1] + MessageSize(p[i])
      /\ \A i \in 0 .. Len(p) : g[i] \in Nat
      /\ MessageSize(Head(q)) \in Nat
      /\ \A i \in 1 .. Len(p) : MessageSize(p[i]) \in Nat
  BY <1>0, <1>1, <1>2, SumsValues, MessageSizeType
<1>4. 0 \in S
  BY <1>0, <1>3, SMT
<1>5. ASSUME NEW i \in 0 .. Len(p), i \in S, i < Len(p) PROVE i + 1 \in S
  <2>1. i + 1 \in 1 .. Len(p) /\ i + 2 \in 1 .. Len(q) /\ p[i + 1] = q[i + 2]
    BY <1>0, <1>5, SMTT(60)
  <2>2. f[i + 2] = f[i + 1] + MessageSize(p[i + 1]) /\ g[i + 1] = g[i] + MessageSize(p[i + 1])
    BY <1>3, <2>1, SMT
  <2>3. f[i + 1] = MessageSize(Head(q)) + g[i] /\ g[i] \in Nat /\ MessageSize(p[i + 1]) \in Nat
    BY <1>3, <1>5, <2>1
  <2>4. f[(i + 1) + 1] = MessageSize(Head(q)) + g[i + 1]
    BY <1>3, <2>2, <2>3, SMT
  <2>. QED BY <1>0, <2>1, <2>4, SMT
<1>6. \A i \in 0 .. Len(p) : i \in S
  <2>. HIDE DEF S
  <2>. QED BY <1>0, <1>4, <1>5, Induction
<1>7. f[Len(p) + 1] = MessageSize(Head(q)) + g[Len(p)]
  BY <1>0, <1>6, SMT
<1>. QED BY <1>0, <1>1, <1>2, <1>3, <1>7, SMT DEF p

-----------------------------------------------------------------------------
(* The pointers of a ring *)

LEMMA LenFacts == RingLen \in Nat /\ RingLen >= 48 /\ RingLen % 16 = 0
BY LenAssumption, SMT DEF ValidRingLen, MinRingLen, HeaderSize, RoundUp

LEMMA OffsetFacts ==
  /\ 0 \in Offsets
  /\ \A p \in Offsets : p \in Nat /\ p < RingLen /\ p % 16 = 0
  /\ \A p \in Nat : p < RingLen /\ p % 16 = 0 => p \in Offsets
BY LenFacts, SMT DEF Offsets

\* v4v_sanitize_ring and the check of v4v_ring_add leave a pointer of a ring alone.
LEMMA PointerKept ==
  ASSUME NEW p \in Offsets
  PROVE  SanitizeRx(p, RingLen) = p /\ \A rx \in Offsets : FixTx(rx, p, RingLen) = p
<1>1. RoundUp(p) = p
  BY OffsetFacts, SMT DEF RoundUp
<1>. QED BY <1>1, OffsetFacts, LenFacts, SMT DEF SanitizeRx, FixTx

LEMMA SpaceType ==
  ASSUME NEW rx \in Offsets, NEW tx \in Offsets
  PROVE  /\ PayloadSpace(rx, tx, RingLen) \in Nat
         /\ BytesToRead(rx, tx, RingLen) \in Nat /\ BytesToRead(rx, tx, RingLen) < RingLen
BY OffsetFacts, LenFacts, SMT DEF PayloadSpace, InsertSpace, HeaderSize, RoundUp, BytesToRead

\* v4v_ringbuf_insert moves tx_ptr by what it wrote, and that costs space.
LEMMA InsertMoves ==
  ASSUME NEW rx \in Offsets, NEW tx \in Offsets, NEW n \in Nat,
         ~ TooLong(n, RingLen), ~ NoRoom(n, rx, tx, RingLen)
  PROVE  /\ Wrap(tx + MessageSize(n), RingLen) \in Offsets
         /\ BytesToRead(rx, Wrap(tx + MessageSize(n), RingLen), RingLen)
              = BytesToRead(rx, tx, RingLen) + MessageSize(n)
         /\ PayloadSpace(rx, Wrap(tx + MessageSize(n), RingLen), RingLen)
              <= PayloadSpace(rx, tx, RingLen)
<1>. DEFINE s == MessageSize(n)
<1>1. /\ rx \in Nat /\ rx % 16 = 0 /\ rx < RingLen
      /\ tx \in Nat /\ tx % 16 = 0 /\ tx < RingLen
      /\ s \in Nat /\ s >= 16 /\ s % 16 = 0
  BY OffsetFacts, MessageSizeType
<1>2. s < RingLen /\ s < InsertSpace(rx, tx, RingLen)
  <2>1. InsertSpace(rx, tx, RingLen) \in Int
    BY <1>1, LenFacts, SMT DEF InsertSpace
  <2>. QED BY <1>1, <2>1, PointerKept, LenFacts, SMT DEF TooLong, NoRoom
<1>. HIDE DEF s
<1>3. Wrap(tx + s, RingLen) \in Nat /\ Wrap(tx + s, RingLen) < RingLen
      /\ Wrap(tx + s, RingLen) % 16 = 0
  BY <1>1, <1>2, LenFacts, SMT DEF Wrap
<1>4. BytesToRead(rx, Wrap(tx + s, RingLen), RingLen) = BytesToRead(rx, tx, RingLen) + s
  BY <1>1, <1>2, LenFacts, SMT DEF Wrap, InsertSpace, BytesToRead
<1>5. PayloadSpace(rx, Wrap(tx + s, RingLen), RingLen) <= PayloadSpace(rx, tx, RingLen)
  BY <1>1, <1>2, LenFacts, SMT DEF Wrap, InsertSpace, PayloadSpace, HeaderSize, RoundUp
<1>. QED BY <1>3, <1>4, <1>5, OffsetFacts DEF s

\* v4v_copy_out moves rx_ptr by what it read.
LEMMA AdvanceMoves ==
  ASSUME NEW rx \in Offsets, NEW tx \in Offsets, NEW s \in Nat, s % 16 = 0,
         s <= BytesToRead(rx, tx, RingLen)
  PROVE  /\ Wrap(rx + s, RingLen) \in Offsets
         /\ BytesToRead(Wrap(rx + s, RingLen), tx, RingLen) = BytesToRead(rx, tx, RingLen) - s
<1>1. /\ rx \in Nat /\ rx % 16 = 0 /\ rx < RingLen
      /\ tx \in Nat /\ tx % 16 = 0 /\ tx < RingLen
  BY OffsetFacts
<1>2. Wrap(rx + s, RingLen) \in Nat /\ Wrap(rx + s, RingLen) < RingLen
      /\ Wrap(rx + s, RingLen) % 16 = 0
  BY <1>1, LenFacts, SMT DEF Wrap, BytesToRead
<1>3. BytesToRead(Wrap(rx + s, RingLen), tx, RingLen) = BytesToRead(rx, tx, RingLen) - s
  BY <1>1, LenFacts, SMT DEF Wrap, BytesToRead
<1>. QED BY <1>2, <1>3, OffsetFacts

LEMMA ConsumeMoves ==
  ASSUME NEW rx \in Offsets, NEW tx \in Offsets, NEW n \in Nat,
         MessageSize(n) <= BytesToRead(rx, tx, RingLen)
  PROVE  /\ Wrap(rx + MessageSize(n), RingLen) \in Offsets
         /\ BytesToRead(Wrap(rx + MessageSize(n), RingLen), tx, RingLen)
              = BytesToRead(rx, tx, RingLen) - MessageSize(n)
<1>. DEFINE s == MessageSize(n)
<1>1. s \in Nat /\ s % 16 = 0 /\ s <= BytesToRead(rx, tx, RingLen)
  BY MessageSizeType
<1>. HIDE DEF s
<1>2. /\ Wrap(rx + s, RingLen) \in Offsets
      /\ BytesToRead(Wrap(rx + s, RingLen), tx, RingLen) = BytesToRead(rx, tx, RingLen) - s
  BY <1>1, AdvanceMoves
<1>. QED BY <1>2 DEF s

\* v4v_ringbuf_payload_space and the check of v4v_ringbuf_insert agree on a length
\* that is not 0; where not even a length of 0 goes in, no space is reported.
LEMMA SpaceAgrees ==
  ASSUME NEW rx \in Offsets, NEW tx \in Offsets, NEW n \in Nat, ~ TooLong(n, RingLen)
  PROVE  /\ n # 0 => (PayloadSpace(rx, tx, RingLen) >= n <=> ~ NoRoom(n, rx, tx, RingLen))
         /\ NoRoom(0, rx, tx, RingLen) => PayloadSpace(rx, tx, RingLen) = 0
<1>1. /\ rx \in Nat /\ rx % 16 = 0 /\ rx < RingLen
      /\ tx \in Nat /\ tx % 16 = 0 /\ tx < RingLen
  BY OffsetFacts
<1>2. /\ RoundUp(n) \in Nat /\ RoundUp(n) % 16 = 0 /\ n <= RoundUp(n) /\ RoundUp(n) < n + 16
      /\ MessageSize(n) = RoundUp(n) + 16 /\ MessageSize(0) = 16 /\ RoundUp(1) = 16
  BY SMT DEF RoundUp, MessageSize, HeaderSize
<1>3. SanitizeRx(rx, RingLen) = rx
  BY PointerKept
<1>. DEFINE sp == InsertSpace(rx, tx, RingLen)
<1>4. sp \in Nat /\ sp % 16 = 0 /\ sp >= 16 /\ sp <= RingLen /\ (rx = tx => sp = RingLen)
  BY <1>1, LenFacts, SMT DEF InsertSpace
<1>5. PayloadSpace(rx, tx, RingLen) =
        IF rx = tx THEN RingLen - 16 ELSE IF sp - 32 < 0 THEN 0 ELSE sp - 32
  <2>1. sp - HeaderSize - RoundUp(1) = sp - 32
    BY <1>2, <1>4, SMT DEF HeaderSize
  <2>. HIDE DEF sp
  <2>. QED BY <2>1 DEF PayloadSpace, HeaderSize, sp
<1>6. /\ NoRoom(n, rx, tx, RingLen) <=> RoundUp(n) + 16 >= sp
      /\ NoRoom(0, rx, tx, RingLen) <=> 16 >= sp
  BY <1>2, <1>3 DEF NoRoom
<1>7. RoundUp(n) + 16 < RingLen
  BY <1>2, LenFacts, SMT DEF TooLong
<1>. HIDE DEF sp
<1>8. n # 0 => (PayloadSpace(rx, tx, RingLen) >= n <=> ~ (RoundUp(n) + 16 >= sp))
  BY <1>2, <1>4, <1>5, <1>7, LenFacts, SMT
<1>9. 16 >= sp => PayloadSpace(rx, tx, RingLen) = 0
  BY <1>4, <1>5, LenFacts, SMT
<1>. QED BY <1>6, <1>8, <1>9

-----------------------------------------------------------------------------
(* What a step changes *)

LEMMA IdleFacts ==
  /\ Idle \in OpType /\ \A d \in Domains : OpOk(d, Idle)
  /\ Idle.pc = "idle"
  /\ NoInfo \in InfoType /\ NoInfo.len = 0 /\ ~ NoInfo.exists /\ NoInfo.pending = {}
  /\ FreshRing \in MemType
  /\ FreshRing.rx = 0 /\ FreshRing.tx = 0 /\ FreshRing.q = <<>> /\ FreshRing.torn = FALSE
BY OffsetFacts, SMT DEF Idle, OpType, OpOk, NoInfo, InfoType, FreshRing, MemType

\* A hypercall of d moves on, and leaves the rings of other domains as their
\* registrations found them.
LEMMA HypercallMoves ==
  ASSUME V4VInv, NEW d \in Domains, NEW o \in OpType, OpOk(d, o),
         op' = [op EXCEPT ![d] = o],
         o.pc = "register" =>
           own'[o.ring] /\ (info'[o.ring].len = 0 => o.tx = mem'[o.ring].tx),
         \A x \in RingIds : x.dom # d =>
           /\ own[x] => own'[x]
           /\ info'[x].len = 0 => info[x].len = 0 /\ mem'[x].tx = mem[x].tx
  PROVE  op' \in [Domains -> OpType] /\ \A e \in Domains : OpInv(e)'
<1>1. op' \in [Domains -> OpType] /\ op'[d] = o /\ \A e \in Domains : e # d => op'[e] = op[e]
  BY DEF V4VInv, TypeInv
<1>2. ASSUME NEW e \in Domains, e # d PROVE OpInv(e)'
  BY <1>1, <1>2, SMT DEF V4VInv, OpInv, OpOk
<1>3. OpInv(d)'
  BY <1>1 DEF OpInv
<1>. QED BY <1>1, <1>2, <1>3

\* No hypercall moves, and d is in none.
LEMMA HypercallsStay ==
  ASSUME V4VInv, NEW d \in Domains, op[d].pc = "idle", op' = op,
         \A x \in RingIds : x.dom # d =>
           /\ own[x] => own'[x]
           /\ info'[x].len = 0 => info[x].len = 0 /\ mem'[x].tx = mem[x].tx
  PROVE  op' \in [Domains -> OpType] /\ \A e \in Domains : OpInv(e)'
<1>1. op[d] \in OpType /\ OpOk(d, op[d]) /\ op' = [op EXCEPT ![d] = op[d]]
  BY SMT DEF V4VInv, TypeInv, OpInv
<1>. QED BY <1>1, HypercallMoves

\* No hypercall is under way.
LEMMA NoHypercall ==
  ASSUME V4VInv, WriteL1, op' = op
  PROVE  op' \in [Domains -> OpType] /\ \A e \in Domains : OpInv(e)'
BY DEF V4VInv, TypeInv, OpInv, WriteL1

LEMMA RingsStay ==
  ASSUME V4VInv, UNCHANGED <<v4v, info, mem, own>>
  PROVE  \A x \in RingIds : RingInv(x)'
BY DEF V4VInv, RingInv, Live

\* The pending list of a ring changes, and nothing else of the ring.
LEMMA PendingMoves ==
  ASSUME V4VInv, NEW r \in RingIds, info[r].exists, NEW P \in SUBSET EntryType,
         info' = [info EXCEPT ![r].pending = P], UNCHANGED <<v4v, mem, own>>
  PROVE  /\ info' \in [RingIds -> InfoType]
         /\ \A x \in RingIds : RingInv(x)' /\ info'[x].len = info[x].len
<1>. DEFINE i == [info[r] EXCEPT !.pending = P]
<1>1. /\ i \in InfoType
      /\ i.exists = info[r].exists /\ i.len = info[r].len /\ i.tx = info[r].tx
  BY DEF V4VInv, TypeInv, InfoType
<1>2. info' = [info EXCEPT ![r] = i]
  OBVIOUS
<1>. HIDE DEF i
<1>3. info' \in [RingIds -> InfoType] /\ info'[r] = i
      /\ \A x \in RingIds : x # r => info'[x] = info[x]
  BY <1>1, <1>2 DEF V4VInv, TypeInv
<1>4. \A x \in RingIds : x # r => RingInv(x)'
  BY <1>3 DEF V4VInv, RingInv, Live
<1>5. RingInv(r)'
  BY <1>1, <1>3 DEF V4VInv, RingInv, Live
<1>. QED BY <1>1, <1>3, <1>4, <1>5

LEMMA PendingType ==
  ASSUME NEW P \in SUBSET EntryType, NEW d \in Domains, NEW n \in Nat
  PROVE  Requeue(P, d, n) \in SUBSET EntryType /\ CancelFor(P, d) \in SUBSET EntryType
BY SMT DEF EntryType, Requeue, CancelFor

\* A ring that a lookup returns is there.
LEMMA RingsForFacts ==
  \A a, d : RingsFor(a, d) \subseteq {r \in RingIds : info[r].exists}
BY DEF RingsFor

LEMMA WantTypes ==
  /\ \A d \in Domains : V4VInv =>
       waiting[d] \in SUBSET [ring : RingIds, n : Nat]
  /\ \A p \in SUBSET [ring : RingIds, n : Nat] :
       /\ \A rs : Without(p, rs) \in SUBSET [ring : RingIds, n : Nat]
       /\ \A r \in RingIds, n \in Nat :
            p \cup {[ring |-> r, n |-> n]} \in SUBSET [ring : RingIds, n : Nat]
BY SMT DEF V4VInv, TypeInv, Without

-----------------------------------------------------------------------------
(* V4VInv is inductive *)

\* Steps that leave the rings alone.
LEMMA RegisterExistsInv ==
  ASSUME V4VInv, NEW d \in Domains, RegisterExists(d)
  PROVE  V4VInv'
<1>1. op' = [op EXCEPT ![d] = Idle] /\ UNCHANGED <<owners, v4v, info, mem, irq, waiting>>
  BY DEF RegisterExists, Return
<1>2. op' \in [Domains -> OpType] /\ \A e \in Domains : OpInv(e)'
  BY <1>1, IdleFacts, HypercallMoves DEF owners
<1>3. \A x \in RingIds : RingInv(x)'
  BY <1>1, RingsStay DEF owners
<1>. QED BY <1>1, <1>2, <1>3 DEF V4VInv, TypeInv, owners

LEMMA SendSignalInv ==
  ASSUME V4VInv, NEW d \in Domains, SendSignal(d)
  PROVE  V4VInv'
<1>1. op' = [op EXCEPT ![d] = Idle] /\ UNCHANGED <<owners, v4v, info, mem, waiting>>
  BY DEF SendSignal, Return
<1>2. op' \in [Domains -> OpType] /\ \A e \in Domains : OpInv(e)'
  BY <1>1, IdleFacts, HypercallMoves DEF owners
<1>3. \A x \in RingIds : RingInv(x)'
  BY <1>1, RingsStay DEF owners
<1>4. irq' \in [Domains -> BOOLEAN]
  BY DEF SendSignal, V4VInv, TypeInv
<1>. QED BY <1>1, <1>2, <1>3, <1>4 DEF V4VInv, TypeInv, owners

LEMMA NotifyCallInv ==
  ASSUME V4VInv, NEW d \in Domains, NEW asks \in {<<>>} \cup {<<x>> : x \in Asks(d)},
         NotifyCall(d, asks)
  PROVE  V4VInv'
<1>. DEFINE o == [Idle EXCEPT !.pc = "check", !.asks = asks,
                              !.todo = {r \in OwnRings(d) : info[r].exists}]
<1>1. op' = [op EXCEPT ![d] = o] /\ UNCHANGED <<v4v, awake, info, mem, own, irq, scan, waiting>>
  BY DEF NotifyCall
<1>2. asks \in Seq(AskType)
  <2>1. \A x \in Asks(d) : x \in AskType
    BY SizesAssumption, SMT DEF Asks, AskType
  <2>2. CASE asks = <<>>
    BY <2>2, SMT
  <2>3. CASE \E x \in Asks(d) : asks = <<x>>
    BY <2>1, <2>3, SMT
  <2>. QED BY <2>2, <2>3
<1>3. o \in OpType /\ OpOk(d, o) /\ o.pc = "check"
  BY <1>2, IdleFacts DEF OpType, OpOk, OwnRings, Idle
<1>. HIDE DEF o
<1>4. op' \in [Domains -> OpType] /\ \A e \in Domains : OpInv(e)'
  BY <1>1, <1>3, HypercallMoves
<1>5. \A x \in RingIds : RingInv(x)'
  BY <1>1, RingsStay
<1>6. dirty' \subseteq RingIds
  BY DEF NotifyCall, V4VInv, TypeInv
<1>. QED BY <1>1, <1>4, <1>5, <1>6 DEF V4VInv, TypeInv

\* The space reported for a ring.
LEMMA SpaceInFacts ==
  ASSUME V4VInv, NEW r \in RingIds
  PROVE  /\ SpaceIn(r) \in Nat
         /\ info[r].len \in {0, RingLen}
         /\ info[r].len = 0 => SpaceIn(r) = 0
         /\ Live(r) => /\ info[r].len = RingLen /\ info[r].exists
                       /\ mem[r].rx \in Offsets /\ info[r].tx \in Offsets
         /\ Live(r) /\ info[r].paged => SpaceIn(r) = PayloadSpace(mem[r].rx, info[r].tx, RingLen)
         /\ ~ info[r].paged => SpaceIn(r) = 0
<1>1. info[r] \in InfoType /\ mem[r] \in MemType /\ RingInv(r)
  BY DEF V4VInv, TypeInv
<1>2. /\ info[r].len \in {0, RingLen} /\ info[r].tx \in Offsets /\ mem[r].rx \in Offsets
      /\ Live(r) => info[r].exists
  BY <1>1, IdleFacts DEF InfoType, MemType, RingInv, Live
<1>. QED BY <1>2, SpaceType, LenFacts DEF SpaceIn, Live

LEMMA NotifySpaceInv ==
  ASSUME V4VInv, NEW d \in Domains, NEW r \in RingIds, NotifySpace(d, r)
  PROVE  V4VInv'
<1>. DEFINE o == [op[d] EXCEPT !.todo = @ \ {r},
                               !.pc = IF SpaceIn(r) = 0 THEN "check" ELSE "find",
                               !.ring = r, !.space = SpaceIn(r)]
<1>1. op' = [op EXCEPT ![d] = o] /\ UNCHANGED <<owners, v4v, info, mem, irq, waiting>>
  BY DEF NotifySpace
<1>2. op[d] \in OpType /\ OpOk(d, op[d]) /\ op[d].pc = "check" /\ r \in op[d].todo
  BY DEF NotifySpace, V4VInv, TypeInv, OpInv
<1>3. o \in OpType /\ OpOk(d, o) /\ o.pc \in {"check", "find"}
  BY <1>2, SpaceInFacts DEF OpType, OpOk, OwnRings
<1>. HIDE DEF o
<1>4. op' \in [Domains -> OpType] /\ \A e \in Domains : OpInv(e)'
  BY <1>1, <1>3, HypercallMoves DEF owners
<1>5. \A x \in RingIds : RingInv(x)'
  BY <1>1, RingsStay DEF owners
<1>. QED BY <1>1, <1>4, <1>5 DEF V4VInv, TypeInv, owners

LEMMA NotifySignalInv ==
  ASSUME V4VInv, NEW d \in Domains, NotifySignal(d)
  PROVE  V4VInv'
<1>. PICK x \in op[d].notify :
       /\ op' = [op EXCEPT ![d].notify = @ \ {x}]
       /\ irq' = [irq EXCEPT ![x.id] = @ \/ v4v[x.id]]
       /\ waiting' = [waiting EXCEPT ![x.id] = Without(@, {x.ring})]
  BY DEF NotifySignal
<1>. DEFINE o == [op[d] EXCEPT !.notify = @ \ {x}]
<1>1. op' = [op EXCEPT ![d] = o] /\ UNCHANGED <<owners, v4v, info, mem>>
  BY DEF NotifySignal
<1>2. op[d] \in OpType /\ OpOk(d, op[d]) /\ op[d].pc = "check"
  BY DEF NotifySignal, V4VInv, TypeInv, OpInv
<1>3. o \in OpType /\ OpOk(d, o) /\ o.pc = "check" /\ x.id \in Domains
  BY <1>2 DEF OpType, OpOk
<1>. HIDE DEF o
<1>4. op' \in [Domains -> OpType] /\ \A e \in Domains : OpInv(e)'
  BY <1>1, <1>3, HypercallMoves DEF owners
<1>5. \A y \in RingIds : RingInv(y)'
  BY <1>1, RingsStay DEF owners
<1>6. irq' \in [Domains -> BOOLEAN]
  BY <1>3 DEF V4VInv, TypeInv
<1>7. waiting' \in [Domains -> SUBSET [ring : RingIds, n : Nat]]
  BY <1>3, WantTypes, SMT DEF V4VInv, TypeInv
<1>. QED BY <1>1, <1>4, <1>5, <1>6, <1>7 DEF V4VInv, TypeInv, owners

LEMMA NotifyCheckedInv ==
  ASSUME V4VInv, NEW d \in Domains, NotifyChecked(d)
  PROVE  V4VInv'
<1>. DEFINE o == [Idle EXCEPT !.asks = op[d].asks,
                              !.pc = IF op[d].asks = <<>> THEN "idle" ELSE "fill"]
<1>1. op' = [op EXCEPT ![d] = o] /\ UNCHANGED <<owners, v4v, info, mem, irq, waiting>>
  BY DEF NotifyChecked
<1>2. op[d] \in OpType
  BY DEF V4VInv, TypeInv
<1>3. o \in OpType /\ OpOk(d, o) /\ o.pc \in {"idle", "fill"}
  BY <1>2, IdleFacts DEF OpType, OpOk, Idle
<1>. HIDE DEF o
<1>4. op' \in [Domains -> OpType] /\ \A e \in Domains : OpInv(e)'
  BY <1>1, <1>3, HypercallMoves DEF owners
<1>5. \A x \in RingIds : RingInv(x)'
  BY <1>1, RingsStay DEF owners
<1>. QED BY <1>1, <1>4, <1>5 DEF V4VInv, TypeInv, owners

\* v4v_fill_ring_datas goes on to the next entry.
LEMMA FillNextFacts ==
  ASSUME V4VInv, NEW d \in Domains, op[d].pc = "fill", FillNext(d)
  PROVE  \E o \in OpType : /\ op' = [op EXCEPT ![d] = o]
                           /\ OpOk(d, o) /\ o.pc \in {"idle", "fill"}
<1>1. op[d] \in OpType /\ OpOk(d, op[d])
  BY DEF V4VInv, TypeInv, OpInv
<1>2. CASE Len(op[d].asks) = 1
  BY <1>2, IdleFacts DEF FillNext, Return
<1>3. CASE Len(op[d].asks) # 1
  <2>. DEFINE o == [op[d] EXCEPT !.asks = Tail(@)]
  <2>1. op' = [op EXCEPT ![d] = o]
    BY <1>3 DEF FillNext
  <2>2. op[d].asks \in Seq(AskType) /\ op[d].asks # <<>>
    BY <1>1 DEF OpType, OpOk
  <2>3. Tail(op[d].asks) \in Seq(AskType) /\ Tail(op[d].asks) # <<>>
    <3>1. \A q \in Seq(AskType) : q # <<>> => Tail(q) \in Seq(AskType) /\ Len(Tail(q)) = Len(q) - 1
      BY SMT
    <3>2. \A q \in Seq(AskType) : q # <<>> => Len(q) \in Nat /\ Len(q) > 0
      BY SMT
    <3>3. Len(Tail(op[d].asks)) # 0
      BY <1>3, <2>2, <3>1, <3>2, SMT
    <3>. QED BY <2>2, <3>1, <3>3
  <2>4. /\ o \in OpType /\ o.pc = "fill" /\ o.asks = Tail(op[d].asks)
        /\ o.notify = op[d].notify
    BY <1>1, <2>3 DEF OpType
  <2>5. OpOk(d, o)
    BY <1>1, <2>3, <2>4 DEF OpOk
  <2>. HIDE DEF o
  <2>. QED BY <2>1, <2>4, <2>5
<1>. QED BY <1>2, <1>3

LEMMA HeadFacts ==
  ASSUME V4VInv, NEW d \in Domains, op[d].pc = "fill"
  PROVE  Head(op[d].asks).want \in Nat
<1>1. op[d].asks \in Seq(AskType) /\ op[d].asks # <<>>
  BY DEF V4VInv, TypeInv, OpType, OpInv, OpOk
<1>2. Head(op[d].asks) \in AskType
  BY <1>1, SMT
<1>. QED BY <1>2 DEF AskType

LEMMA FillNoRingInv ==
  ASSUME V4VInv, NEW d \in Domains, FillNoRing(d)
  PROVE  V4VInv'
<1>1. UNCHANGED <<owners, v4v, info, mem, irq, waiting>>
  BY DEF FillNoRing
<1>. PICK o \in OpType : op' = [op EXCEPT ![d] = o] /\ OpOk(d, o) /\ o.pc \in {"idle", "fill"}
  BY FillNextFacts DEF FillNoRing
<1>2. op' \in [Domains -> OpType] /\ \A e \in Domains : OpInv(e)'
  BY <1>1, HypercallMoves DEF owners
<1>3. \A x \in RingIds : RingInv(x)'
  BY <1>1, RingsStay DEF owners
<1>. QED BY <1>1, <1>2, <1>3 DEF V4VInv, TypeInv, owners

LEMMA QuietInv ==
  ASSUME V4VInv, UNCHANGED <<v4v, info, op, mem, own>>,
         awake' \in [Domains -> BOOLEAN], irq' \in [Domains -> BOOLEAN],
         \A d \in Domains : awake'[d] => v4v[d],
         scan' \subseteq RingIds, dirty' \subseteq RingIds, waiting' = waiting
  PROVE  V4VInv'
BY DEF V4VInv, TypeInv, OpInv, OpOk, RingInv, Live

LEMMA SendRefusedInv ==
  ASSUME V4VInv, NEW d \in Domains, NEW a \in Addrs, SendRefused(d, a)
  PROVE  V4VInv'
<1>1. irq' \in [Domains -> BOOLEAN]
  BY DEF SendRefused, V4VInv, TypeInv
<1>. QED BY <1>1, QuietInv DEF SendRefused, hyper, owners, V4VInv, TypeInv

LEMMA TakeInterruptInv ==
  ASSUME V4VInv, NEW d \in Domains, TakeInterrupt(d)
  PROVE  V4VInv'
<1>1. irq' \in [Domains -> BOOLEAN] /\ scan' \subseteq RingIds
  BY DEF TakeInterrupt, OwnRings, V4VInv, TypeInv
<1>. QED BY <1>1, QuietInv DEF TakeInterrupt, hyper, V4VInv, TypeInv

LEMMA ScanEndInv ==
  ASSUME V4VInv, NEW r \in RingIds, ScanEnd(r)
  PROVE  V4VInv'
BY QuietInv DEF ScanEnd, hyper, V4VInv, TypeInv

LEMMA ResumeInv ==
  ASSUME V4VInv, NEW d \in Domains, Resume(d)
  PROVE  V4VInv'
<1>1. /\ irq' \in [Domains -> BOOLEAN] /\ awake' \in [Domains -> BOOLEAN]
      /\ \A e \in Domains : awake'[e] => v4v[e]
  BY DEF Resume, V4VInv, TypeInv
<1>. QED BY <1>1, QuietInv DEF Resume, hyper, V4VInv, TypeInv

\* Steps that change a pending list.
LEMMA NotifyFindInv ==
  ASSUME V4VInv, NEW d \in Domains, NotifyFind(d)
  PROVE  V4VInv'
<1>. DEFINE r == op[d].ring
            fit == {e \in info[r].pending : e.len <= op[d].space}
            o == [op[d] EXCEPT !.pc = "check",
                    !.notify = @ \cup {[ring |-> r, id |-> e.id] : e \in fit}]
<1>1. /\ op' = [op EXCEPT ![d] = o] /\ info' = [info EXCEPT ![r].pending = @ \ fit]
      /\ UNCHANGED <<owners, v4v, mem, irq, waiting>>
  BY DEF NotifyFind
<1>2. op[d] \in OpType /\ OpOk(d, op[d]) /\ op[d].pc = "find" /\ r \in RingIds
  BY DEF NotifyFind, V4VInv, TypeInv, OpInv, OpOk
<1>3. info[r].pending \in SUBSET EntryType /\ (info[r].pending # {} => info[r].exists)
  BY <1>2, IdleFacts DEF V4VInv, TypeInv, InfoType, RingInv
<1>4. fit \subseteq info[r].pending /\ \A e \in fit : e.id \in Domains
  BY <1>3 DEF EntryType
<1>. HIDE DEF fit
<1>5. o \in OpType /\ OpOk(d, o) /\ o.pc = "check"
  <2>1. op[d].notify \cup {[ring |-> r, id |-> e.id] : e \in fit}
          \in SUBSET [ring : RingIds, id : Domains]
    BY <1>2, <1>4, SMT DEF OpType
  <2>. QED BY <1>2, <2>1 DEF OpType, OpOk
<1>. HIDE DEF o
<1>6. /\ info' \in [RingIds -> InfoType]
      /\ \A x \in RingIds : RingInv(x)' /\ info'[x].len = info[x].len
  <2>1. CASE info[r].exists
    <3>1. info[r].pending \ fit \in SUBSET EntryType
      BY <1>3
    <3>. QED BY <1>1, <1>2, <2>1, <3>1, PendingMoves DEF owners
  <2>2. CASE ~ info[r].exists
    <3>1. info[r].pending \ fit = info[r].pending
      BY <1>3, <1>4, <2>2
    <3>2. info' = info
      BY <1>1, <1>2, <3>1 DEF V4VInv, TypeInv, InfoType
    <3>. QED BY <1>1, <3>2, RingsStay DEF owners, V4VInv, TypeInv
  <2>. QED BY <2>1, <2>2
<1>7. op' \in [Domains -> OpType] /\ \A e \in Domains : OpInv(e)'
  BY <1>1, <1>5, <1>6, HypercallMoves DEF owners
<1>. QED BY <1>1, <1>6, <1>7 DEF V4VInv, TypeInv, owners

LEMMA FillSufficientInv ==
  ASSUME V4VInv, NEW d \in Domains, FillSufficient(d)
  PROVE  V4VInv'
<1>. PICK r \in FillRings(d) :
       /\ info' = [info EXCEPT ![r].pending = CancelFor(@, d)]
       /\ waiting' = [waiting EXCEPT ![d] = Without(@, {r})]
  BY DEF FillSufficient
<1>1. UNCHANGED <<owners, v4v, mem, irq>>
  BY DEF FillSufficient
<1>2. r \in RingIds /\ info[r].exists
  BY RingsForFacts DEF FillRings
<1>. PICK o \in OpType : op' = [op EXCEPT ![d] = o] /\ OpOk(d, o) /\ o.pc \in {"idle", "fill"}
  BY FillNextFacts DEF FillSufficient
<1>3. CancelFor(info[r].pending, d) \in SUBSET EntryType
  BY <1>2 DEF V4VInv, TypeInv, InfoType, CancelFor
<1>4. /\ info' \in [RingIds -> InfoType]
      /\ \A x \in RingIds : RingInv(x)' /\ info'[x].len = info[x].len
  BY <1>1, <1>2, <1>3, PendingMoves DEF owners
<1>5. op' \in [Domains -> OpType] /\ \A e \in Domains : OpInv(e)'
  BY <1>1, <1>4, HypercallMoves DEF owners
<1>6. waiting' \in [Domains -> SUBSET [ring : RingIds, n : Nat]]
  BY <1>2, WantTypes, SMT DEF V4VInv, TypeInv
<1>. QED BY <1>1, <1>4, <1>5, <1>6 DEF V4VInv, TypeInv, owners

LEMMA FillPendingInv ==
  ASSUME V4VInv, NEW d \in Domains, FillPending(d)
  PROVE  V4VInv'
<1>. DEFINE want == Head(op[d].asks).want
<1>. PICK r \in FillRings(d) :
       /\ \/ info' = [info EXCEPT ![r].pending = Requeue(@, d, want)]
          \/ UNCHANGED info
       /\ waiting' = [waiting EXCEPT ![d] = @ \cup {[ring |-> r, n |-> want]}]
  BY DEF FillPending
<1>1. UNCHANGED <<owners, v4v, mem, irq>>
  BY DEF FillPending
<1>2. r \in RingIds /\ info[r].exists
  BY RingsForFacts DEF FillRings
<1>. PICK o \in OpType : op' = [op EXCEPT ![d] = o] /\ OpOk(d, o) /\ o.pc \in {"idle", "fill"}
  BY FillNextFacts DEF FillPending
<1>w. want \in Nat
  BY HeadFacts DEF FillPending
<1>. HIDE DEF want
<1>3. Requeue(info[r].pending, d, want) \in SUBSET EntryType
  BY <1>2, <1>w, PendingType DEF V4VInv, TypeInv, InfoType
<1>4. /\ info' \in [RingIds -> InfoType]
      /\ \A x \in RingIds : RingInv(x)' /\ info'[x].len = info[x].len
  <2>1. CASE info' = [info EXCEPT ![r].pending = Requeue(@, d, want)]
    BY <1>1, <1>2, <1>3, <2>1, PendingMoves DEF owners
  <2>2. CASE UNCHANGED info
    BY <1>1, <2>2, RingsStay DEF owners, V4VInv, TypeInv
  <2>. QED BY <2>1, <2>2
<1>5. op' \in [Domains -> OpType] /\ \A e \in Domains : OpInv(e)'
  BY <1>1, <1>4, HypercallMoves DEF owners
<1>6. waiting' \in [Domains -> SUBSET [ring : RingIds, n : Nat]]
  BY <1>2, <1>w, WantTypes DEF V4VInv, TypeInv
<1>. QED BY <1>1, <1>4, <1>5, <1>6 DEF V4VInv, TypeInv, owners

LEMMA SendAgainInv ==
  ASSUME V4VInv, NEW d \in Domains, NEW a \in Addrs, NEW n \in Sizes, SendAgain(d, a, n)
  PROVE  V4VInv'
<1>1. UNCHANGED <<owners, v4v, mem, op, irq>> /\ op[d].pc = "idle"
  BY DEF SendAgain, Sendable, Callable
<1>. PICK r \in RingsFor(a, d), want \in {0, n} :
       /\ info' = [info EXCEPT ![r].pending = Requeue(@, d, want)]
       /\ waiting' = [waiting EXCEPT ![d] = @ \cup {[ring |-> r, n |-> want]}]
  BY DEF SendAgain
<1>2. r \in RingIds /\ info[r].exists /\ want \in Nat
  BY RingsForFacts, SizesAssumption, SMT
<1>3. Requeue(info[r].pending, d, want) \in SUBSET EntryType
  BY <1>2, PendingType DEF V4VInv, TypeInv, InfoType
<1>4. /\ info' \in [RingIds -> InfoType]
      /\ \A x \in RingIds : RingInv(x)' /\ info'[x].len = info[x].len
  BY <1>1, <1>2, <1>3, PendingMoves DEF owners
<1>5. op' \in [Domains -> OpType] /\ \A e \in Domains : OpInv(e)'
  BY <1>1, <1>4, HypercallsStay DEF owners
<1>6. waiting' \in [Domains -> SUBSET [ring : RingIds, n : Nat]]
  BY <1>2, WantTypes DEF V4VInv, TypeInv
<1>. QED BY <1>1, <1>4, <1>5, <1>6 DEF V4VInv, TypeInv, owners

\* Steps that change a ring.
LEMMA RegisterReadInv ==
  ASSUME V4VInv, NEW d \in Domains, NEW r \in RingIds, NEW force \in BOOLEAN,
         RegisterRead(d, r, force)
  PROVE  V4VInv'
<1>. DEFINE ring == IF own[r] THEN mem[r] ELSE FreshRing
            o == [Idle EXCEPT !.pc = "register", !.ring = r, !.tx = ring.tx,
                              !.force = force]
<1>1. /\ ring \in MemType
      /\ ~ ring.torn => BytesToRead(ring.rx, ring.tx, RingLen) = Occupied(ring.q)
      /\ ring.torn => ring.q = <<>>
  <2>1. CASE own[r]
    BY <2>1 DEF V4VInv, TypeInv, RingInv
  <2>2. CASE ~ own[r]
    BY <2>2, IdleFacts, OccupiedEmpty, SMT DEF BytesToRead
  <2>. QED BY <2>1, <2>2
<1>2. ring.rx \in Offsets /\ ring.tx \in Offsets
  BY <1>1 DEF MemType
<1>3. RegisteredTx(ring) = ring.tx
  BY <1>2, PointerKept DEF RegisteredTx
<1>4. own[r] => ring.tx = mem[r].tx
  OBVIOUS
<1>5. /\ mem' = [mem EXCEPT ![r] = [ring EXCEPT !.tx = ring.tx]]
      /\ op' = [op EXCEPT ![d] = o] /\ own' = [own EXCEPT ![r] = TRUE]
      /\ UNCHANGED <<v4v, awake, info, irq, scan, dirty, waiting>>
      /\ r.dom = d /\ v4v[d]
  BY <1>3 DEF RegisterRead, Callable
<1>6. o \in OpType /\ OpOk(d, o) /\ o.ring = r /\ o.tx = ring.tx
  BY <1>2, <1>5, IdleFacts DEF OpType, OpOk, Idle
<1>. HIDE DEF o, ring
<1>7. [ring EXCEPT !.tx = ring.tx] = ring
  BY <1>1 DEF MemType
<1>8. /\ mem' \in [RingIds -> MemType] /\ mem'[r] = ring
      /\ \A x \in RingIds : x # r => mem'[x] = mem[x]
      /\ own' \in [RingIds -> BOOLEAN] /\ own'[r]
      /\ \A x \in RingIds : x # r => own'[x] = own[x]
  BY <1>1, <1>5, <1>7 DEF V4VInv, TypeInv
<1>9. op' \in [Domains -> OpType] /\ \A e \in Domains : OpInv(e)'
  <2>1. \A x \in RingIds : x.dom # d => own'[x] = own[x] /\ mem'[x] = mem[x]
    BY <1>5, <1>8
  <2>2. o.pc = "register" =>
          own'[o.ring] /\ (info'[o.ring].len = 0 => o.tx = mem'[o.ring].tx)
    BY <1>6, <1>8
  <2>3. \A x \in RingIds : x.dom # d =>
          /\ own[x] => own'[x]
          /\ info'[x].len = 0 => info[x].len = 0 /\ mem'[x].tx = mem[x].tx
    BY <1>5, <2>1
  <2>4. op' = [op EXCEPT ![d] = o]
    BY <1>5
  <2>. QED BY <1>6, <2>2, <2>3, <2>4, HypercallMoves
<1>10. RingInv(r)'
  BY <1>1, <1>4, <1>5, <1>8 DEF V4VInv, RingInv, Live
<1>11. \A x \in RingIds : x # r => RingInv(x)'
  BY <1>5, <1>8 DEF V4VInv, RingInv, Live
<1>. QED BY <1>5, <1>8, <1>9, <1>10, <1>11 DEF V4VInv, TypeInv

\* The ring d registers is found or created, and set up or left
\* at length 0.
LEMMA RegisteredInv ==
  ASSUME V4VInv, NEW d \in Domains, op[d].pc = "register",
         NEW r, r = op[d].ring, NEW i \in InfoType,
         info' = [info EXCEPT ![r] = i], i.exists,
         NEW o \in OpType, OpOk(d, o), o.pc # "register", op' = [op EXCEPT ![d] = o],
         UNCHANGED <<owners, v4v, mem, irq, waiting>>
  PROVE  V4VInv'
<1>1. r \in RingIds /\ r.dom = d /\ own[r]
  BY DEF V4VInv, OpInv, OpOk
<1>2. /\ info' \in [RingIds -> InfoType] /\ info'[r] = i
      /\ \A x \in RingIds : x # r => info'[x] = info[x]
  BY <1>1 DEF V4VInv, TypeInv
<1>3. op' \in [Domains -> OpType] /\ \A e \in Domains : OpInv(e)'
  BY <1>1, <1>2, HypercallMoves DEF owners
<1>4. \A x \in RingIds : RingInv(x)'
  <2>1. RingInv(r)'
    BY <1>1, <1>2 DEF V4VInv, RingInv, Live, owners
  <2>2. \A x \in RingIds : x # r => RingInv(x)'
    BY <1>2 DEF V4VInv, RingInv, Live, owners
  <2>. QED BY <2>1, <2>2
<1>. QED BY <1>2, <1>3, <1>4 DEF V4VInv, TypeInv, owners

LEMMA RegisterDoneInv ==
  ASSUME V4VInv, NEW d \in Domains, RegisterDone(d)
  PROVE  V4VInv'
<1>. DEFINE r == op[d].ring
            i == [info[r] EXCEPT !.exists = TRUE, !.tx = op[d].tx, !.len = RingLen,
                                  !.paged = TRUE]
            o == [op[d] EXCEPT !.pc = "check", !.todo = {x \in OwnRings(d) : info'[x].exists}]
<1>1. /\ op[d].pc = "register"
      /\ info' = [info EXCEPT ![r] = i] /\ op' = [op EXCEPT ![d] = o]
      /\ UNCHANGED <<owners, v4v, mem, irq, waiting>>
  BY DEF RegisterDone, SettingUp
<1>2. op[d] \in OpType /\ OpOk(d, op[d]) /\ r \in RingIds /\ info[r] \in InfoType
  BY <1>1 DEF V4VInv, TypeInv, OpInv, OpOk
<1>3. i \in InfoType /\ i.exists
  BY <1>2 DEF InfoType, OpType
<1>4. o \in OpType /\ OpOk(d, o) /\ o.pc # "register"
  BY <1>1, <1>2 DEF OpType, OpOk, OwnRings
<1>. HIDE DEF i, o
<1>. QED BY <1>1, <1>3, <1>4, RegisteredInv

LEMMA RegisterFailInv ==
  ASSUME V4VInv, NEW d \in Domains, RegisterFail(d)
  PROVE  V4VInv'
<1>. DEFINE r == op[d].ring
<1>1. /\ op[d].pc = "register" /\ op' = [op EXCEPT ![d] = Idle]
      /\ UNCHANGED <<owners, v4v, mem, irq, waiting>>
  BY DEF RegisterFail, SettingUp, Return
<1>2. op[d] \in OpType /\ r \in RingIds /\ info[r] \in InfoType
  BY <1>1 DEF V4VInv, TypeInv, OpInv, OpOk
<1>3. ASSUME NEW paged \in {FALSE, info[r].paged},
             info' = [info EXCEPT ![r].exists = TRUE, ![r].tx = op[d].tx, ![r].paged = paged]
      PROVE  V4VInv'
  <2>. DEFINE i == [info[r] EXCEPT !.exists = TRUE, !.tx = op[d].tx, !.paged = paged]
  <2>1. paged \in BOOLEAN
    BY <1>2 DEF InfoType
  <2>2. i \in InfoType /\ i.exists
    BY <1>1, <1>2, <2>1 DEF InfoType, OpType
  <2>3. info' = [info EXCEPT ![r] = i]
    BY <1>3
  <2>. HIDE DEF i
  <2>. QED BY <1>1, <2>2, <2>3, IdleFacts, RegisteredInv
<1>4. CASE UNCHANGED info
  <2>1. op' \in [Domains -> OpType] /\ \A e \in Domains : OpInv(e)'
    BY <1>1, <1>4, IdleFacts, HypercallMoves DEF owners
  <2>2. \A x \in RingIds : RingInv(x)'
    BY <1>1, <1>4, RingsStay DEF owners
  <2>. QED BY <1>1, <1>4, <2>1, <2>2 DEF V4VInv, TypeInv, owners
<1>. QED BY <1>3, <1>4 DEF RegisterFail

\* The rings rs are given up.
LEMMA ForgetFacts ==
  ASSUME V4VInv, NEW rs, NEW ds, Forget(rs, ds)
  PROVE  /\ mem' \in [RingIds -> MemType]
         /\ \A x \in RingIds : x \in rs => mem'[x] = FreshRing
         /\ \A x \in RingIds : x \notin rs => mem'[x] = mem[x]
         /\ scan' \subseteq RingIds /\ dirty' \subseteq RingIds
         /\ waiting' \in [Domains -> SUBSET [ring : RingIds, n : Nat]]
<1>1. /\ mem' \in [RingIds -> MemType]
      /\ \A x \in RingIds : x \in rs => mem'[x] = FreshRing
      /\ \A x \in RingIds : x \notin rs => mem'[x] = mem[x]
  BY IdleFacts DEF Forget, V4VInv, TypeInv
<1>2. scan' \subseteq RingIds /\ dirty' \subseteq RingIds
  BY DEF Forget, V4VInv, TypeInv
<1>3. waiting' \in [Domains -> SUBSET [ring : RingIds, n : Nat]]
  BY WantTypes DEF Forget
<1>. QED BY <1>1, <1>2, <1>3

LEMMA FreshFacts ==
  BytesToRead(FreshRing.rx, FreshRing.tx, RingLen) = Occupied(FreshRing.q)
BY IdleFacts, OccupiedEmpty, SMT DEF BytesToRead

LEMMA UnregisterInv ==
  ASSUME V4VInv, NEW d \in Domains, NEW r \in RingIds, NEW keep \in BOOLEAN,
         Unregister(d, r, keep)
  PROVE  V4VInv'
<1>1. /\ op[d].pc = "idle" /\ r.dom = d /\ own[r]
      /\ UNCHANGED <<v4v, awake, op, irq>>
  BY DEF Unregister, Callable
<1>2. /\ info' \in [RingIds -> InfoType] /\ info'[r] = NoInfo
      /\ \A x \in RingIds : x # r => info'[x] = info[x]
      /\ own' \in [RingIds -> BOOLEAN]
      /\ \A x \in RingIds : (own'[x] => own[x]) /\ (x # r => own'[x] = own[x])
  BY <1>1, IdleFacts DEF Unregister, V4VInv, TypeInv
<1>3. /\ mem' \in [RingIds -> MemType]
      /\ mem'[r] \in {mem[r], FreshRing}
      /\ \A x \in RingIds : x # r => mem'[x] = mem[x]
      /\ scan' \subseteq RingIds /\ dirty' \subseteq RingIds
      /\ waiting' \in [Domains -> SUBSET [ring : RingIds, n : Nat]]
  <2>1. CASE keep
    BY <2>1 DEF Unregister, V4VInv, TypeInv
  <2>2. CASE ~ keep
    <3>1. Forget({r}, {})
      BY <2>2 DEF Unregister
    <3>. QED BY <3>1, ForgetFacts, SMT
  <2>. QED BY <2>1, <2>2
<1>4. op' \in [Domains -> OpType] /\ \A e \in Domains : OpInv(e)'
  BY <1>1, <1>2, <1>3, HypercallsStay, SMT
<1>5. RingInv(r)'
  BY <1>1, <1>2, <1>3, IdleFacts, FreshFacts DEF V4VInv, RingInv, Live
<1>6. \A x \in RingIds : x # r => RingInv(x)'
  BY <1>1, <1>2, <1>3, SMT DEF V4VInv, RingInv, Live
<1>. QED BY <1>1, <1>2, <1>3, <1>4, <1>5, <1>6 DEF V4VInv, TypeInv

LEMMA CreateRingInv ==
  ASSUME V4VInv, NEW r \in RingIds, CreateRing(r)
  PROVE  V4VInv'
<1>1. /\ Host \in Domains /\ op[Host].pc = "idle" /\ ~ info[r].exists
      /\ info' = [info EXCEPT ![r] = Placeholder]
      /\ UNCHANGED <<owners, v4v, mem, op, irq, waiting>>
  BY HostAssumption DEF CreateRing, Callable
<1>2. Placeholder \in InfoType /\ Placeholder.exists /\ Placeholder.len = 0
  BY OffsetFacts DEF Placeholder, NoInfo, InfoType
<1>3. /\ info' \in [RingIds -> InfoType] /\ info'[r] = Placeholder
      /\ \A x \in RingIds : x # r => info'[x] = info[x]
  BY <1>1, <1>2 DEF V4VInv, TypeInv
<1>4. info[r].len = 0
  BY <1>1, IdleFacts DEF V4VInv, RingInv
<1>5. op' \in [Domains -> OpType] /\ \A e \in Domains : OpInv(e)'
  BY <1>1, <1>3, <1>4, HypercallsStay DEF owners
<1>6. \A x \in RingIds : RingInv(x)'
  BY <1>1, <1>2, <1>3 DEF V4VInv, RingInv, Live, owners
<1>. QED BY <1>1, <1>3, <1>5, <1>6 DEF V4VInv, TypeInv, owners

\* v4v_ringbuf_insert, on the ring a lookup returned: what it does to the ring in the
\* hypervisor and in the owner's memory.
InsertTorn(r) == mem[r].torn \/ info[r].tx # mem[r].tx

LEMMA InsertFacts ==
  ASSUME V4VInv, NEW d \in Domains, NEW a \in Addrs, NEW n \in Sizes, SendInsert(d, a, n)
  PROVE  \E r \in RingIds :
           /\ Live(r) /\ info[r].paged /\ TxAfter(r, n) \in Offsets
           /\ BytesToRead(mem[r].rx, TxAfter(r, n), RingLen)
                = BytesToRead(mem[r].rx, info[r].tx, RingLen) + MessageSize(n)
           /\ PayloadSpace(mem[r].rx, TxAfter(r, n), RingLen) <= SpaceIn(r)
           /\ info' = [info EXCEPT ![r].tx = TxAfter(r, n)]
           /\ mem' = [mem EXCEPT ![r].tx = TxAfter(r, n), ![r].torn = InsertTorn(r),
                                 ![r].q = IF InsertTorn(r) THEN <<>> ELSE Append(@, n)]
           /\ op' = Start(d, "sent", r)
<1>. PICK r \in RingsFor(a, d) :
       /\ info[r].len # 0 /\ info[r].paged
       /\ ~ TooLong(n, info[r].len)
       /\ ~ NoRoom(n, SanitizeRx(mem[r].rx, info[r].len), info[r].tx, info[r].len)
       /\ info' = [info EXCEPT ![r].tx = TxAfter(r, n)]
       /\ mem' = [mem EXCEPT ![r].tx = TxAfter(r, n), ![r].torn = InsertTorn(r),
                             ![r].q = IF InsertTorn(r) THEN <<>> ELSE Append(@, n)]
       /\ op' = Start(d, "sent", r)
  BY DEF SendInsert, InsertTorn
<1>1. r \in RingIds /\ Live(r) /\ n \in Nat
  BY RingsForFacts, SizesAssumption DEF Live
<1>2. /\ info[r].len = RingLen /\ mem[r].rx \in Offsets /\ info[r].tx \in Offsets
      /\ SpaceIn(r) = PayloadSpace(mem[r].rx, info[r].tx, RingLen)
  BY <1>1, SpaceInFacts
<1>3. ~ TooLong(n, RingLen) /\ ~ NoRoom(n, mem[r].rx, info[r].tx, RingLen)
  BY <1>2, PointerKept
<1>4. TxAfter(r, n) = Wrap(info[r].tx + MessageSize(n), RingLen)
  BY <1>2 DEF TxAfter
<1>5. /\ TxAfter(r, n) \in Offsets
      /\ BytesToRead(mem[r].rx, TxAfter(r, n), RingLen)
           = BytesToRead(mem[r].rx, info[r].tx, RingLen) + MessageSize(n)
      /\ PayloadSpace(mem[r].rx, TxAfter(r, n), RingLen)
           <= PayloadSpace(mem[r].rx, info[r].tx, RingLen)
  BY <1>1, <1>2, <1>3, <1>4, InsertMoves, SMT
<1>. QED BY <1>1, <1>2, <1>5

LEMMA SendInsertInv ==
  ASSUME V4VInv, NEW d \in Domains, NEW a \in Addrs, NEW n \in Sizes, SendInsert(d, a, n)
  PROVE  V4VInv'
<1>. PICK r \in RingIds :
       /\ Live(r) /\ TxAfter(r, n) \in Offsets
       /\ BytesToRead(mem[r].rx, TxAfter(r, n), RingLen)
            = BytesToRead(mem[r].rx, info[r].tx, RingLen) + MessageSize(n)
       /\ info' = [info EXCEPT ![r].tx = TxAfter(r, n)]
       /\ mem' = [mem EXCEPT ![r].tx = TxAfter(r, n), ![r].torn = InsertTorn(r),
                             ![r].q = IF InsertTorn(r) THEN <<>> ELSE Append(@, n)]
       /\ op' = Start(d, "sent", r)
  BY InsertFacts
<1>. DEFINE tx == TxAfter(r, n)
            torn == InsertTorn(r)
            q == IF torn THEN <<>> ELSE Append(mem[r].q, n)
            i == [info[r] EXCEPT !.tx = tx]
            m == [mem[r] EXCEPT !.tx = tx, !.torn = torn, !.q = q]
            o == [Idle EXCEPT !.pc = "sent", !.ring = r]
<1>5. /\ info' = [info EXCEPT ![r] = i] /\ mem' = [mem EXCEPT ![r] = m]
      /\ op' = [op EXCEPT ![d] = o] /\ UNCHANGED <<owners, v4v, irq, waiting>>
  BY ZenonT(60) DEF SendInsert, Start
<1>1. n \in Nat /\ tx \in Offsets /\ info[r] \in InfoType /\ mem[r] \in MemType
      /\ mem[r].q \in Seq(Nat) /\ mem[r].torn \in BOOLEAN /\ torn \in BOOLEAN
  BY SizesAssumption DEF V4VInv, TypeInv, MemType, InsertTorn
<1>. HIDE DEF tx, torn
<1>2. i \in InfoType /\ i.tx = tx /\ i.len = info[r].len /\ i.exists = info[r].exists
  BY <1>1 DEF InfoType
<1>3. m \in MemType /\ m.rx = mem[r].rx /\ m.tx = tx /\ m.q = q /\ m.torn = torn
  <2>1. q \in Seq(Nat)
    BY <1>1, SMT
  <2>. HIDE DEF q
  <2>. QED BY <1>1, <2>1 DEF MemType
<1>4. o \in OpType /\ OpOk(d, o) /\ o.pc = "sent"
  BY IdleFacts DEF OpType, OpOk, Idle
<1>. HIDE DEF i, m, o
<1>6. /\ info' \in [RingIds -> InfoType] /\ info'[r] = i
      /\ mem' \in [RingIds -> MemType] /\ mem'[r] = m
      /\ \A x \in RingIds : x # r => info'[x] = info[x] /\ mem'[x] = mem[x]
  <2>1. info \in [RingIds -> InfoType] /\ mem \in [RingIds -> MemType]
    BY DEF V4VInv, TypeInv
  <2>2. info' \in [RingIds -> InfoType] /\ info'[r] = i
        /\ \A x \in RingIds : x # r => info'[x] = info[x]
    BY <1>2, <1>5, <2>1, SMT
  <2>3. mem' \in [RingIds -> MemType] /\ mem'[r] = m
        /\ \A x \in RingIds : x # r => mem'[x] = mem[x]
    BY <1>3, <1>5, <2>1, ZenonT(60)
  <2>. QED BY <2>2, <2>3
<1>7. op' \in [Domains -> OpType] /\ \A e \in Domains : OpInv(e)'
  BY <1>2, <1>4, <1>5, <1>6, HypercallMoves DEF owners, Live
<1>a. m.torn => m.q = <<>>
  BY <1>3 DEF q
<1>8. ~ m.torn => BytesToRead(m.rx, m.tx, RingLen) = Occupied(m.q)
  <2>. SUFFICES ASSUME ~ torn PROVE BytesToRead(m.rx, m.tx, RingLen) = Occupied(m.q)
    BY <1>3
  <2>1. ~ mem[r].torn /\ info[r].tx = mem[r].tx /\ m.q = Append(mem[r].q, n)
    BY <1>3 DEF torn, InsertTorn
  <2>2. BytesToRead(mem[r].rx, mem[r].tx, RingLen) = Occupied(mem[r].q)
    BY <2>1 DEF V4VInv, RingInv
  <2>3. Occupied(m.q) = Occupied(mem[r].q) + MessageSize(n)
    BY <1>1, <2>1, OccupiedAppend
  <2>. QED BY <1>3, <2>1, <2>2, <2>3 DEF tx
<1>9. RingInv(r)'
  BY <1>2, <1>3, <1>5, <1>6, <1>8, <1>a, SpaceInFacts DEF V4VInv, RingInv, Live, owners
<1>10. \A x \in RingIds : x # r => RingInv(x)'
  BY <1>5, <1>6, SMT DEF V4VInv, RingInv, Live, owners
<1>. QED BY <1>5, <1>6, <1>7, <1>9, <1>10 DEF V4VInv, TypeInv, owners

\* The owner of ring r moves its rx_ptr.
LEMMA ReceivedInv ==
  ASSUME V4VInv, NEW r \in RingIds, NEW m \in MemType, m.tx = mem[r].tx,
         ~ m.torn => BytesToRead(m.rx, m.tx, RingLen) = Occupied(m.q),
         m.torn => m.q = <<>>,
         mem' = [mem EXCEPT ![r] = m], UNCHANGED <<hyper, awake, own, irq, scan, waiting>>,
         dirty' \subseteq RingIds
  PROVE  V4VInv'
<1>1. /\ mem' \in [RingIds -> MemType] /\ mem'[r] = m
      /\ \A x \in RingIds : x # r => mem'[x] = mem[x]
  BY DEF V4VInv, TypeInv
<1>2. \A x \in RingIds : mem'[x].tx = mem[x].tx
  BY <1>1
<1>3. \A x \in RingIds : RingInv(x)'
  <2>1. RingInv(r)'
    BY <1>1 DEF V4VInv, RingInv, Live, hyper
  <2>2. \A x \in RingIds : x # r => RingInv(x)'
    BY <1>1 DEF V4VInv, RingInv, Live, hyper
  <2>. QED BY <2>1, <2>2
<1>4. \A d \in Domains : OpInv(d)'
  BY <1>2, SMT DEF V4VInv, OpInv, OpOk, hyper
<1>. QED BY <1>1, <1>3, <1>4 DEF V4VInv, TypeInv, hyper

LEMMA MemFacts ==
  ASSUME V4VInv, NEW r \in RingIds
  PROVE  /\ mem[r] \in MemType /\ mem[r].q \in Seq(Nat) /\ mem[r].torn \in BOOLEAN
         /\ mem[r].rx \in Offsets /\ mem[r].tx \in Offsets
         /\ ~ mem[r].torn => Unread(r) = Occupied(mem[r].q)
         /\ mem[r].torn => mem[r].q = <<>>
         /\ Unread(r) \in Nat /\ (Unread(r) = 0 <=> mem[r].rx = mem[r].tx)
<1>1. /\ mem[r] \in MemType /\ mem[r].q \in Seq(Nat) /\ mem[r].torn \in BOOLEAN
      /\ mem[r].rx \in Offsets /\ mem[r].tx \in Offsets
      /\ ~ mem[r].torn => Unread(r) = Occupied(mem[r].q)
      /\ mem[r].torn => mem[r].q = <<>>
  BY DEF V4VInv, TypeInv, MemType, RingInv, Unread
<1>2. Unread(r) \in Nat /\ (Unread(r) = 0 <=> mem[r].rx = mem[r].tx)
  BY <1>1, OffsetFacts, LenFacts, SMTT(30) DEF Unread, BytesToRead
<1>. QED BY <1>1, <1>2

LEMMA ReceiveInv ==
  ASSUME V4VInv, NEW r \in RingIds, Receive(r)
  PROVE  V4VInv'
<1>. DEFINE n == Head(mem[r].q)
            rx == Wrap(mem[r].rx + MessageSize(n), RingLen)
            m == [mem[r] EXCEPT !.rx = rx, !.q = Tail(mem[r].q)]
<1>1. /\ mem[r] \in MemType /\ mem[r].q \in Seq(Nat) /\ mem[r].q # <<>> /\ ~ mem[r].torn
      /\ mem[r].rx \in Offsets /\ mem[r].tx \in Offsets
      /\ BytesToRead(mem[r].rx, mem[r].tx, RingLen) = Occupied(mem[r].q)
  BY MemFacts, OccupiedEmpty DEF Receive, Unread
<1>2. /\ n \in Nat /\ Tail(mem[r].q) \in Seq(Nat) /\ Occupied(Tail(mem[r].q)) \in Nat
      /\ Occupied(mem[r].q) = MessageSize(n) + Occupied(Tail(mem[r].q))
  BY <1>1, OccupiedTail
<1>3. mem' = [mem EXCEPT ![r] = m] /\ UNCHANGED <<hyper, awake, own, irq, scan, waiting>>
  BY DEF Receive
<1>. HIDE DEF n
<1>4. MessageSize(n) <= BytesToRead(mem[r].rx, mem[r].tx, RingLen) /\ MessageSize(n) \in Nat
  BY <1>1, <1>2, MessageSizeType, SMT
<1>5. /\ rx \in Offsets
      /\ BytesToRead(rx, mem[r].tx, RingLen)
           = BytesToRead(mem[r].rx, mem[r].tx, RingLen) - MessageSize(n)
  BY <1>1, <1>2, <1>4, ConsumeMoves
<1>. HIDE DEF rx
<1>6. m \in MemType /\ m.rx = rx /\ m.tx = mem[r].tx /\ m.q = Tail(mem[r].q) /\ ~ m.torn
  BY <1>1, <1>2, <1>5 DEF MemType
<1>. HIDE DEF m
<1>7. BytesToRead(m.rx, m.tx, RingLen) = Occupied(m.q)
  BY <1>1, <1>2, <1>4, <1>5, <1>6, SMT
<1>8. dirty' \subseteq RingIds
  BY DEF Receive, V4VInv, TypeInv
<1>. QED BY <1>3, <1>6, <1>7, <1>8, ReceivedInv

LEMMA ReceiveTornInv ==
  ASSUME V4VInv, NEW r \in RingIds, ReceiveTorn(r)
  PROVE  V4VInv'
<1>. PICK k \in 1 .. (Unread(r) \div HeaderSize) :
       mem' = [mem EXCEPT ![r].rx = Wrap(@ + k * HeaderSize, RingLen),
                          ![r].torn = k * HeaderSize # Unread(r)]
  BY DEF ReceiveTorn
<1>. DEFINE s == k * HeaderSize
            rx == Wrap(mem[r].rx + s, RingLen)
            m == [mem[r] EXCEPT !.rx = rx, !.torn = (s # Unread(r))]
<1>1. mem' = [mem EXCEPT ![r] = m] /\ UNCHANGED <<hyper, awake, own, irq, scan, waiting>>
  BY DEF ReceiveTorn
<1>2. s \in Nat /\ s % 16 = 0 /\ s <= Unread(r)
  BY MemFacts, SMT DEF HeaderSize
<1>. HIDE DEF s
<1>3. rx \in Offsets /\ BytesToRead(rx, mem[r].tx, RingLen) = Unread(r) - s
  BY <1>2, MemFacts, AdvanceMoves DEF Unread
<1>4. m \in MemType /\ m.rx = rx /\ m.tx = mem[r].tx /\ m.q = <<>> /\ (~ m.torn => s = Unread(r))
  BY <1>3, MemFacts DEF ReceiveTorn, MemType
<1>. HIDE DEF m, rx
<1>5. ~ m.torn => BytesToRead(m.rx, m.tx, RingLen) = Occupied(m.q)
  BY <1>2, <1>3, <1>4, MemFacts, OccupiedEmpty, SMT
<1>6. dirty' \subseteq RingIds
  BY DEF ReceiveTorn, V4VInv, TypeInv
<1>. QED BY <1>1, <1>4, <1>5, <1>6, ReceivedInv

LEMMA RecoverRingInv ==
  ASSUME V4VInv, NEW r \in RingIds, RecoverRing(r)
  PROVE  V4VInv'
<1>. DEFINE m == [mem[r] EXCEPT !.rx = mem[r].tx, !.torn = FALSE]
<1>1. /\ mem' = [mem EXCEPT ![r] = m] /\ dirty' \subseteq RingIds
      /\ UNCHANGED <<hyper, awake, own, irq, scan, waiting>>
  BY DEF RecoverRing, owners, V4VInv, TypeInv
<1>2. /\ m \in MemType /\ m.rx = mem[r].tx /\ m.tx = mem[r].tx /\ m.q = <<>> /\ ~ m.torn
      /\ m.tx \in Offsets
  BY MemFacts DEF RecoverRing, MemType
<1>. HIDE DEF m
<1>3. BytesToRead(m.rx, m.tx, RingLen) = Occupied(m.q)
  BY <1>2, OffsetFacts, OccupiedEmpty, SMT DEF BytesToRead
<1>. QED BY <1>1, <1>2, <1>3, ReceivedInv

LEMMA SuspendInv ==
  ASSUME V4VInv, NEW d \in Domains, Suspend(d)
  PROVE  V4VInv'
<1>1. op' \in [Domains -> OpType] /\ \A e \in Domains : OpInv(e)'
  BY NoHypercall DEF Suspend
<1>2. /\ awake' \in [Domains -> BOOLEAN] /\ \A e \in Domains : awake'[e] => v4v[e]
      /\ irq' \in [Domains -> BOOLEAN] /\ UNCHANGED <<v4v, mem, own, op, scan, dirty, waiting>>
  BY DEF Suspend, V4VInv, TypeInv
<1>3. \A i \in InfoType :
        LET j == [i EXCEPT !.len = 0, !.tx = 0, !.paged = FALSE] IN
        /\ j \in InfoType /\ j.len = 0 /\ j.exists = i.exists /\ (i = NoInfo => j = NoInfo)
  <2>. TAKE i \in InfoType
  <2>. DEFINE j == [i EXCEPT !.len = 0, !.tx = 0, !.paged = FALSE]
  <2>1. j \in InfoType /\ j.len = 0 /\ j.exists = i.exists
    BY OffsetFacts DEF InfoType
  <2>2. i = NoInfo => j = NoInfo
    <3>1. \A k \in InfoType : k.exists = i.exists /\ k.len = i.len /\ k.tx = i.tx
                              /\ k.paged = i.paged /\ k.pending = i.pending => k = i
      BY SMT DEF InfoType
    <3>2. j.pending = i.pending /\ (i = NoInfo => j.tx = i.tx /\ j.len = i.len)
      BY SMT DEF InfoType, NoInfo
    <3>3. i = NoInfo => j.paged = i.paged
      <4>1. j.paged = FALSE
        BY DEF InfoType
      <4>2. NoInfo.paged = FALSE
        BY DEF NoInfo
      <4>. QED BY <4>1, <4>2
    <3>. HIDE DEF j
    <3>. QED BY <2>1, <3>1, <3>2, <3>3
  <2>. QED BY <2>1, <2>2
<1>4. /\ info' \in [RingIds -> InfoType]
      /\ \A x \in RingIds : x.dom # d => info'[x] = info[x]
      /\ \A x \in RingIds : x.dom = d => info'[x] = [info[x] EXCEPT !.len = 0, !.tx = 0, !.paged = FALSE]
  BY <1>3 DEF Suspend, V4VInv, TypeInv
<1>5. ASSUME NEW x \in RingIds PROVE RingInv(x)'
  <2>1. RingInv(x) /\ info[x] \in InfoType
    BY DEF V4VInv, TypeInv
  <2>2. CASE x.dom # d
    BY <1>2, <1>4, <2>1, <2>2 DEF RingInv, Live
  <2>3. CASE x.dom = d
    <3>1. /\ info'[x].len = 0 /\ info'[x].exists = info[x].exists
          /\ info[x] = NoInfo => info'[x] = NoInfo
      BY <1>3, <1>4, <2>1, <2>3
    <3>. QED BY <1>2, <2>1, <3>1 DEF RingInv, Live
  <2>. QED BY <2>2, <2>3
<1>. QED BY <1>1, <1>2, <1>4, <1>5 DEF V4VInv, TypeInv

LEMMA DestroyInv ==
  ASSUME V4VInv, NEW d \in Domains, Destroy(d)
  PROVE  V4VInv'
<1>1. op' \in [Domains -> OpType] /\ \A e \in Domains : OpInv(e)'
  BY NoHypercall DEF Destroy
<1>2. /\ v4v' \in [Domains -> BOOLEAN] /\ awake' \in [Domains -> BOOLEAN]
      /\ irq' \in [Domains -> BOOLEAN]
      /\ \A e \in Domains : (awake'[e] => v4v'[e]) /\ (e # d => v4v'[e] = v4v[e])
  BY DEF Destroy, V4VInv, TypeInv
<1>3. /\ info' \in [RingIds -> InfoType] /\ own' \in [RingIds -> BOOLEAN]
      /\ \A x \in RingIds : x.dom = d => info'[x] = NoInfo /\ ~ own'[x]
      /\ \A x \in RingIds : x.dom # d => info'[x] = info[x] /\ own'[x] = own[x]
  BY IdleFacts DEF Destroy, V4VInv, TypeInv
<1>4. /\ mem' \in [RingIds -> MemType]
      /\ \A x \in RingIds : x.dom = d => mem'[x] = FreshRing
      /\ \A x \in RingIds : x.dom # d => mem'[x] = mem[x]
      /\ scan' \subseteq RingIds /\ dirty' \subseteq RingIds
      /\ waiting' \in [Domains -> SUBSET [ring : RingIds, n : Nat]]
  BY ForgetFacts, SMTT(30) DEF Destroy, OwnRings
<1>5. ASSUME NEW x \in RingIds PROVE RingInv(x)'
  <2>1. CASE x.dom # d
    BY <1>2, <1>3, <1>4, <2>1, RingIdsAssumption, SMT DEF V4VInv, RingInv, Live
  <2>2. CASE x.dom = d
    BY <1>3, <1>4, <2>2, IdleFacts, FreshFacts DEF RingInv, Live
  <2>. QED BY <2>1, <2>2
<1>. QED BY <1>1, <1>2, <1>3, <1>4, <1>5 DEF V4VInv, TypeInv

LEMMA InitDomainInv ==
  ASSUME V4VInv, NEW d \in Domains, InitDomain(d)
  PROVE  V4VInv'
<1>1. op' \in [Domains -> OpType] /\ \A e \in Domains : OpInv(e)'
  BY NoHypercall DEF InitDomain
<1>2. /\ v4v' \in [Domains -> BOOLEAN] /\ awake' \in [Domains -> BOOLEAN]
      /\ \A e \in Domains : (awake'[e] => v4v'[e]) /\ (v4v[e] => v4v'[e])
      /\ UNCHANGED <<info, mem, own, op, irq, scan, dirty, waiting>>
  BY DEF InitDomain, V4VInv, TypeInv
<1>3. \A x \in RingIds : RingInv(x)'
  BY <1>2, RingIdsAssumption DEF V4VInv, RingInv, Live
<1>. QED BY <1>1, <1>2, <1>3 DEF V4VInv, TypeInv

LEMMA V4VInvNext == V4VInv /\ [Next]_vars => V4VInv'
<1>. SUFFICES ASSUME V4VInv, [Next]_vars PROVE V4VInv'
  OBVIOUS
<1>1. CASE UNCHANGED vars
  BY <1>1 DEF vars, V4VInv, TypeInv, OpInv, OpOk, RingInv, Live
<1>2. ASSUME NEW d \in Domains, Step(d) PROVE V4VInv'
  BY <1>2, RegisterDoneInv, RegisterFailInv, RegisterExistsInv, SendSignalInv,
     NotifySpaceInv, NotifyFindInv, NotifySignalInv, NotifyCheckedInv,
     FillSufficientInv, FillPendingInv, FillNoRingInv DEF Step
<1>3. ASSUME NEW d \in Domains, Call(d) PROVE V4VInv'
  BY <1>3, RegisterReadInv, UnregisterInv, SendInsertInv, SendAgainInv, SendRefusedInv,
     NotifyCallInv DEF Call
<1>4. ASSUME NEW d \in Domains,
             TakeInterrupt(d) \/ Suspend(d) \/ Resume(d) \/ Destroy(d) \/ InitDomain(d)
      PROVE  V4VInv'
  BY <1>4, TakeInterruptInv, SuspendInv, ResumeInv, DestroyInv, InitDomainInv
<1>5. ASSUME NEW r \in RingIds,
             CreateRing(r) \/ Receive(r) \/ ReceiveTorn(r) \/ RecoverRing(r) \/ ScanEnd(r)
      PROVE  V4VInv'
  BY <1>5, CreateRingInv, ReceiveInv, ReceiveTornInv, RecoverRingInv, ScanEndInv
<1>. QED BY <1>1, <1>2, <1>3, <1>4, <1>5 DEF Next

LEMMA V4VInvInit == Init => V4VInv
<1>. SUFFICES ASSUME Init PROVE V4VInv
  OBVIOUS
<1>1. TypeInv
  BY IdleFacts DEF Init, TypeInv
<1>2. \A d \in Domains : OpInv(d) /\ (awake[d] => v4v[d])
  BY IdleFacts DEF Init, OpInv
<1>3. \A r \in RingIds : RingInv(r)
  BY IdleFacts, FreshFacts DEF Init, RingInv, Live
<1>. QED BY <1>1, <1>2, <1>3 DEF V4VInv

LEMMA V4VInvHolds == Spec => []V4VInv
BY V4VInvInit, V4VInvNext, PTL DEF Spec

-----------------------------------------------------------------------------
(* ContentsKept *)

\* What V4VInv leaves open of Whole(r).
Sound(r) ==
  /\ Live(r) => info[r].tx = mem[r].tx
  /\ own[r] => ~ mem[r].torn

LEMMA WholeIsSound ==
  ASSUME V4VInv, NEW r \in RingIds
  PROVE  Whole(r) <=> Sound(r)
BY DEF V4VInv, RingInv, Whole, Sound, Unread

LEMMA SoundStays ==
  ASSUME NEW r \in RingIds, Sound(r), own'[r] => own[r],
         info'[r].len = 0 \/ (info'[r].len = info[r].len /\ info'[r].tx = info[r].tx),
         mem'[r].tx = mem[r].tx, mem'[r].torn = mem[r].torn
  PROVE  Sound(r)'
BY DEF Sound, Live

\* A pending list, or nothing at all, changes.
LEMMA SoundPending ==
  ASSUME V4VInv, NEW r \in RingIds, Sound(r), NEW x \in RingIds, NEW P,
         info' = [info EXCEPT ![x].pending = P], UNCHANGED <<mem, own>>
  PROVE  Sound(r)'
<1>1. info'[r].len = info[r].len /\ info'[r].tx = info[r].tx
  BY DEF V4VInv, TypeInv, InfoType
<1>. QED BY <1>1, SoundStays

\* Only a registration by force of a ring that is set up can give it another tx_ptr.
LEMMA SoundRegister ==
  ASSUME V4VInv, NEW r \in RingIds, Sound(r), NEW d \in Domains,
         RegisterDone(d) \/ RegisterFail(d)
  PROVE  Sound(r)' \/ (ForceEnds(r) /\ op[r.dom].tx # info[r].tx)
<1>1. /\ op[d].pc = "register" /\ (info[op[d].ring].len # 0 => op[d].force)
      /\ UNCHANGED <<mem, own>> /\ op'[d].pc # "register"
  <2>1. CASE RegisterDone(d)
    BY <2>1 DEF RegisterDone, SettingUp, owners, V4VInv, TypeInv, OpType
  <2>2. CASE RegisterFail(d)
    BY <2>2, IdleFacts DEF RegisterFail, SettingUp, Return, owners, V4VInv, TypeInv
  <2>. QED BY <2>1, <2>2
<1>2. op[d].ring \in RingIds /\ op[d].ring.dom = d
      /\ (info[op[d].ring].len = 0 => op[d].tx = mem[op[d].ring].tx)
  BY <1>1 DEF V4VInv, OpInv, OpOk
<1>3. \/ info' = info
      \/ /\ r # op[d].ring => info'[r] = info[r]
         /\ r = op[d].ring => info'[r].tx = op[d].tx
  <2>0. info[op[d].ring] \in InfoType /\ info \in [RingIds -> InfoType]
    BY <1>2 DEF V4VInv, TypeInv
  <2>1. CASE RegisterDone(d)
    BY <1>2, <2>0, <2>1 DEF RegisterDone, InfoType
  <2>2. CASE RegisterFail(d)
    <3>1. ASSUME NEW paged, info' = [info EXCEPT ![op[d].ring].exists = TRUE,
                   ![op[d].ring].tx = op[d].tx, ![op[d].ring].paged = paged]
          PROVE  /\ r # op[d].ring => info'[r] = info[r]
                 /\ r = op[d].ring => info'[r].tx = op[d].tx
      BY <1>2, <2>0, <3>1 DEF InfoType
    <3>. QED BY <2>2, <3>1 DEF RegisterFail
  <2>. QED BY <2>1, <2>2
<1>4. CASE info' = info \/ r # op[d].ring
  BY <1>1, <1>3, <1>4, SoundStays
<1>5. CASE r = op[d].ring /\ info'[r].tx = op[d].tx
  <2>1. CASE ~ Live(r)
    BY <1>1, <1>2, <1>5, <2>1 DEF Sound, Live
  <2>2. CASE Live(r)
    <3>1. ForceEnds(r)
      BY <1>1, <1>2, <1>5, <2>2 DEF ForceEnds, Live
    <3>2. CASE op[d].tx = info[r].tx
      BY <1>1, <1>5, <2>2, <3>2 DEF Sound, Live
    <3>. QED BY <1>2, <1>5, <3>1, <3>2
  <2>. QED BY <2>1, <2>2
<1>. QED BY <1>3, <1>4, <1>5

LEMMA SoundStep ==
  ASSUME V4VInv, NEW r \in RingIds, Sound(r), NEW d \in Domains, Step(d)
  PROVE  Sound(r)' \/ (ForceEnds(r) /\ op[r.dom].tx # info[r].tx)
<1>1. CASE RegisterDone(d) \/ RegisterFail(d)
  BY <1>1, SoundRegister
<1>2. CASE UNCHANGED <<info, mem, own>>
  BY <1>2, SoundStays
<1>3. CASE NotifyFind(d)
  <2>1. op[d].ring \in RingIds
    BY <1>3 DEF NotifyFind, V4VInv, OpInv, OpOk
  <2>. QED BY <1>3, <2>1, SoundPending DEF NotifyFind, owners
<1>4. CASE FillSufficient(d)
  BY <1>4, RingsForFacts, SoundPending DEF FillSufficient, FillRings, owners
<1>5. CASE FillPending(d)
  <2>1. CASE UNCHANGED info
    BY <1>2, <1>5, <2>1 DEF FillPending, owners
  <2>2. CASE ~ UNCHANGED info
    BY <1>5, <2>2, RingsForFacts, SoundPending DEF FillPending, FillRings, owners
  <2>. QED BY <2>1, <2>2
<1>. QED BY <1>1, <1>2, <1>3, <1>4, <1>5
     DEF Step, RegisterExists, SendSignal, NotifySpace, NotifySignal, NotifyChecked,
         FillNoRing, owners

LEMMA SoundCall ==
  ASSUME V4VInv, NEW r \in RingIds, Sound(r), NEW d \in Domains, Call(d)
  PROVE  Sound(r)'
<1>1. ASSUME NEW x \in RingIds, NEW force \in BOOLEAN, RegisterRead(d, x, force)
      PROVE  Sound(r)'
  <2>. DEFINE ring == IF own[x] THEN mem[x] ELSE FreshRing
  <2>1. /\ ring \in MemType /\ RegisteredTx(ring) = ring.tx
        /\ own[x] => ring = mem[x]
        /\ ~ own[x] => ~ ring.torn
    <3>1. ring \in MemType
      BY IdleFacts DEF V4VInv, TypeInv
    <3>2. ring.rx \in Offsets /\ ring.tx \in Offsets
      BY <3>1 DEF MemType
    <3>. QED BY <3>1, <3>2, PointerKept, IdleFacts DEF RegisteredTx
  <2>2. /\ mem' = [mem EXCEPT ![x] = [ring EXCEPT !.tx = RegisteredTx(ring)]]
        /\ own' = [own EXCEPT ![x] = TRUE] /\ info' = info
    BY <1>1 DEF RegisterRead
  <2>. HIDE DEF ring
  <2>3. [ring EXCEPT !.tx = RegisteredTx(ring)] = ring
    BY <2>1 DEF MemType
  <2>4. /\ mem'[x] = ring
        /\ r # x => mem'[r] = mem[r] /\ own'[r] = own[r]
    BY <2>2, <2>3 DEF V4VInv, TypeInv
  <2>5. CASE r = x
    <3>1. Live(r) => own[r]
      BY DEF V4VInv, RingInv
    <3>. QED BY <2>1, <2>2, <2>4, <2>5, <3>1 DEF Sound, Live
  <2>6. CASE r # x
    BY <2>2, <2>4, <2>6, SoundStays
  <2>. QED BY <2>5, <2>6
<1>2. ASSUME NEW x \in RingIds, NEW keep \in BOOLEAN, Unregister(d, x, keep) PROVE Sound(r)'
  <2>1. /\ r = x => info'[r].len = 0
        /\ r # x => info'[r] = info[r]
        /\ own'[r] => own[r]
    BY <1>2, IdleFacts DEF Unregister, V4VInv, TypeInv
  <2>2. \/ mem'[r] = mem[r]
        \/ r = x /\ mem'[r] = FreshRing
    BY <1>2 DEF Unregister, Forget
  <2>3. CASE mem'[r] = mem[r]
    BY <2>1, <2>3, SoundStays
  <2>4. CASE r = x /\ mem'[r] = FreshRing
    BY <2>1, <2>4, IdleFacts DEF Sound, Live
  <2>. QED BY <2>2, <2>3, <2>4
<1>3. ASSUME NEW a \in Addrs, NEW n \in Sizes, SendInsert(d, a, n) PROVE Sound(r)'
  <2>. PICK x \in RingIds :
         /\ Live(x)
         /\ info' = [info EXCEPT ![x].tx = TxAfter(x, n)]
         /\ mem' = [mem EXCEPT ![x].tx = TxAfter(x, n), ![x].torn = InsertTorn(x),
                               ![x].q = IF InsertTorn(x) THEN <<>> ELSE Append(@, n)]
    BY <1>3, InsertFacts
  <2>1. own' = own
    BY <1>3 DEF SendInsert, owners
  <2>2. /\ r # x => info'[r] = info[r] /\ mem'[r] = mem[r]
        /\ r = x => /\ info'[r].tx = TxAfter(x, n) /\ mem'[r].tx = TxAfter(x, n)
                    /\ mem'[r].torn = InsertTorn(x)
    BY DEF V4VInv, TypeInv, InfoType, MemType
  <2>3. CASE r # x
    BY <2>1, <2>2, <2>3, SoundStays
  <2>4. CASE r = x
    <3>1. own[r]
      BY <2>4 DEF V4VInv, RingInv
    <3>2. ~ InsertTorn(x)
      BY <2>4, <3>1 DEF Sound, InsertTorn
    <3>. QED BY <2>2, <2>4, <3>2 DEF Sound
  <2>. QED BY <2>3, <2>4
<1>4. ASSUME NEW a \in Addrs, NEW n \in Sizes, SendAgain(d, a, n) PROVE Sound(r)'
  BY <1>4, RingsForFacts, SoundPending DEF SendAgain, owners
<1>5. ASSUME UNCHANGED <<info, mem, own>> PROVE Sound(r)'
  BY <1>5, SoundStays
<1>. QED BY <1>1, <1>2, <1>3, <1>4, <1>5 DEF Call, SendRefused, NotifyCall, hyper, owners

LEMMA SoundRest ==
  ASSUME V4VInv, NEW r \in RingIds, Sound(r),
         \/ \E d \in Domains : TakeInterrupt(d) \/ Suspend(d) \/ Resume(d) \/ Destroy(d)
                                 \/ InitDomain(d)
         \/ \E x \in RingIds : CreateRing(x) \/ Receive(x) \/ ReceiveTorn(x) \/ RecoverRing(x)
                                 \/ ScanEnd(x)
  PROVE  Sound(r)'
<1>1. ASSUME UNCHANGED <<info, mem, own>> PROVE Sound(r)'
  BY <1>1, SoundStays
<1>2. ASSUME NEW d \in Domains, Suspend(d) PROVE Sound(r)'
  <2>1. info'[r].len = 0 \/ info'[r] = info[r]
    <3>1. \A i \in InfoType : [i EXCEPT !.len = 0, !.tx = 0, !.paged = FALSE].len = 0
      BY DEF InfoType
    <3>. QED BY <1>2, <3>1 DEF Suspend, V4VInv, TypeInv
  <2>. QED BY <1>2, <2>1, SoundStays DEF Suspend
<1>3. ASSUME NEW d \in Domains, Destroy(d) PROVE Sound(r)'
  <2>1. CASE r.dom = d
    BY <1>3, <2>1, IdleFacts DEF Destroy, Sound, Live
  <2>2. CASE r.dom # d
    BY <1>3, <2>2, SoundStays DEF Destroy, Forget, OwnRings
  <2>. QED BY <2>1, <2>2
<1>4. ASSUME NEW x \in RingIds, CreateRing(x) PROVE Sound(r)'
  <2>1. info'[r].len = 0 \/ info'[r] = info[r]
    BY <1>4 DEF CreateRing, Placeholder, NoInfo, V4VInv, TypeInv
  <2>. QED BY <1>4, <2>1, SoundStays DEF CreateRing, owners
<1>5. ASSUME NEW x \in RingIds, Receive(x) \/ ReceiveTorn(x) \/ RecoverRing(x) PROVE Sound(r)'
  <2>1. UNCHANGED <<info, own>>
    BY <1>5 DEF Receive, ReceiveTorn, RecoverRing, hyper, owners
  <2>2. mem'[r].tx = mem[r].tx /\ (~ mem[r].torn => ~ mem'[r].torn)
    <3>0. mem \in [RingIds -> MemType] /\ mem[x] \in MemType
      BY DEF V4VInv, TypeInv
    <3>1. CASE Receive(x)
      BY <3>0, <3>1 DEF Receive, MemType
    <3>2. CASE ReceiveTorn(x)
      <4>1. ASSUME NEW rx, NEW torn, mem' = [mem EXCEPT ![x].rx = rx, ![x].torn = torn]
            PROVE  mem'[r].tx = mem[r].tx /\ (r # x => mem'[r] = mem[r])
        BY <3>0, <4>1 DEF MemType
      <4>. QED BY <3>2, <4>1 DEF ReceiveTorn
    <3>3. CASE RecoverRing(x)
      BY <3>0, <3>3 DEF RecoverRing, MemType
    <3>. QED BY <1>5, <3>1, <3>2, <3>3
  <2>. QED BY <2>1, <2>2 DEF Sound, Live
<1>. QED BY <1>1, <1>2, <1>3, <1>4, <1>5 DEF TakeInterrupt, Resume, InitDomain, ScanEnd, hyper

\* ContentsKept (v4v_ring_add, v4v_ringbuf_insert, v4v_copy_out, v4v_destroy): whatever
\* is registered, removed, suspended or resumed, the hypervisor's tx_ptr stays the one in
\* the owner's memory, and the bytes between the pointers those of the messages; only a
\* registration with fail_exist = 0 of a ring that is set up, which a send has overtaken,
\* ends that.
THEOREM RingsKeepContents == Spec => ContentsKept
<1>1. Init => \A r \in RingIds : Whole(r)
  <2>1. Init => \A r \in RingIds : Sound(r)
    BY IdleFacts DEF Init, Sound, Live
  <2>. QED BY <2>1, V4VInvInit, WholeIsSound
<1>2. V4VInv /\ [Next]_vars =>
        [\A r \in RingIds : Whole(r) =>
           Whole(r)' \/ (ForceEnds(r) /\ op[r.dom].tx # info[r].tx)]_vars
  <2>. SUFFICES ASSUME V4VInv, Next, NEW r \in RingIds, Whole(r)
                PROVE  Whole(r)' \/ (ForceEnds(r) /\ op[r.dom].tx # info[r].tx)
    OBVIOUS
  <2>1. Sound(r)
    BY WholeIsSound
  <2>2. Sound(r)' => Whole(r)'
    BY V4VInvNext DEF V4VInv, RingInv, Whole, Sound, Unread
  <2>3. Sound(r)' \/ (ForceEnds(r) /\ op[r.dom].tx # info[r].tx)
    BY <2>1, SoundStep, SoundCall, SoundRest DEF Next
  <2>. QED BY <2>2, <2>3
<1>. QED BY <1>1, <1>2, V4VInvHolds, PTL DEF Spec, ContentsKept

\* SufficientMeansSendable (v4v_fill_ring_data, v4v_ringbuf_insert): what a notify calls
\* sufficient is what a send accepts, in every ring and for every length but 0.
THEOREM SufficientSends == Spec => []SufficientMeansSendable
<1>1. V4VInv => SufficientMeansSendable
  <2>. SUFFICES ASSUME V4VInv, NEW r \in RingIds, NEW n \in Sizes \ {0}, Live(r),
                       ~ TooLong(n, info[r].len)
                PROVE  SpaceIn(r) >= n <=>
                       /\ info[r].paged
                       /\ ~ NoRoom(n, SanitizeRx(mem[r].rx, info[r].len), info[r].tx, info[r].len)
    BY DEF SufficientMeansSendable, Sufficient
  <2>1. n \in Nat /\ n # 0
    BY SizesAssumption, SMT
  <2>2. /\ info[r].len = RingLen /\ mem[r].rx \in Offsets /\ info[r].tx \in Offsets
    BY SpaceInFacts
  <2>3. SanitizeRx(mem[r].rx, RingLen) = mem[r].rx /\ ~ TooLong(n, RingLen)
    BY <2>2, PointerKept
  <2>4. CASE info[r].paged
    <3>1. SpaceIn(r) = PayloadSpace(mem[r].rx, info[r].tx, RingLen)
      BY <2>4, SpaceInFacts
    <3>. QED BY <2>1, <2>2, <2>3, <2>4, <3>1, SpaceAgrees
  <2>5. CASE ~ info[r].paged
    <3>1. SpaceIn(r) = 0
      BY <2>5, SpaceInFacts
    <3>2. ~ (SpaceIn(r) >= n)
      BY <2>1, <3>1, SMT
    <3>. QED BY <2>5, <3>2
  <2>. QED BY <2>4, <2>5
<1>. QED BY <1>1, V4VInvHolds, PTL

-----------------------------------------------------------------------------
(* MessageAnnounced *)

Announced(r) ==
  own[r] /\ awake[r.dom] /\ Unread(r) # 0 =>
    irq[r.dom] \/ r \in scan \/ \E d \in Domains : op[d].pc = "sent" /\ op[d].ring = r

LEMMA UnreadStays ==
  ASSUME NEW r, mem'[r] = mem[r]
  PROVE  Unread(r)' = Unread(r)
BY DEF Unread

\* Nothing of what announces the messages of a ring goes away.
LEMMA AnnouncedStays ==
  ASSUME NEW r \in RingIds, Announced(r),
         own'[r] => own[r], awake'[r.dom] => awake[r.dom],
         mem'[r] = mem[r] \/ ~ (Unread(r)' # 0) \/ Unread(r) # 0,
         irq[r.dom] => irq'[r.dom], r \in scan => r \in scan',
         \A d \in Domains : op[d].pc = "sent" => op'[d] = op[d]
  PROVE  Announced(r)'
BY DEF Announced, Unread

\* A hypercall of d that is not in the middle of a send moves on.
LEMMA SendersStay ==
  ASSUME V4VInv, NEW d \in Domains, op[d].pc # "sent", NEW o, op' = [op EXCEPT ![d] = o]
  PROVE  \A e \in Domains : op[e].pc = "sent" => op'[e] = op[e]
BY DEF V4VInv, TypeInv

LEMMA AnnouncedStep ==
  ASSUME V4VInv, \A r \in RingIds : Announced(r), NEW d \in Domains, Step(d)
  PROVE  \A r \in RingIds : Announced(r)'
<1>1. CASE SendSignal(d)
  <2>. TAKE r \in RingIds
  <2>1. /\ UNCHANGED <<own, awake, mem, scan>> /\ op[d].pc = "sent" /\ op[d].ring \in RingIds
        /\ irq' = [irq EXCEPT ![op[d].ring.dom] = TRUE]
        /\ \A e \in Domains : e # d => op'[e] = op[e]
    BY <1>1, SMT DEF SendSignal, Return, owners, V4VInv, OpInv, OpOk
  <2>2. op[d].ring = r => irq'[r.dom]
    BY <2>1, RingIdsAssumption DEF V4VInv, TypeInv
  <2>3. irq[r.dom] => irq'[r.dom]
    BY <2>1, RingIdsAssumption DEF V4VInv, TypeInv
  <2>4. Unread(r)' = Unread(r)
    BY <2>1, UnreadStays
  <2>. QED BY <2>1, <2>2, <2>3, <2>4, SMT DEF Announced
<1>2. CASE NotifySignal(d)
  <2>1. /\ UNCHANGED <<own, awake, mem, scan>>
        /\ \A e \in Domains : op[e].pc = "sent" => op'[e] = op[e]
    BY <1>2 DEF NotifySignal, owners, V4VInv, TypeInv
  <2>2. \A e \in Domains : irq[e] => irq'[e]
    BY <1>2 DEF NotifySignal, V4VInv, TypeInv
  <2>. QED BY <2>1, <2>2, AnnouncedStays, RingIdsAssumption
<1>3. CASE ~ SendSignal(d) /\ ~ NotifySignal(d)
  <2>1. UNCHANGED <<owners, mem, irq>>
    BY <1>3 DEF Step, RegisterDone, RegisterFail, RegisterExists, NotifySpace, NotifyFind,
                NotifyChecked, FillSufficient, FillPending, FillNoRing
  <2>2. op[d].pc # "sent"
    BY <1>3 DEF Step, RegisterDone, RegisterFail, RegisterExists, SettingUp, NotifySpace, NotifyFind,
                NotifyChecked, FillSufficient, FillPending, FillNoRing
  <2>3. \A e \in Domains : e # d => op'[e] = op[e]
    BY <1>3 DEF Step, RegisterDone, RegisterFail, RegisterExists, NotifySpace, NotifyFind,
                NotifyChecked, FillSufficient, FillPending, FillNoRing, FillNext, Return,
                V4VInv, TypeInv
  <2>. QED BY <2>1, <2>2, <2>3, AnnouncedStays DEF owners
<1>. QED BY <1>1, <1>2, <1>3

LEMMA AnnouncedCall ==
  ASSUME V4VInv, \A r \in RingIds : Announced(r), NEW d \in Domains, Call(d)
  PROVE  \A r \in RingIds : Announced(r)'
<1>. USE RingIdsAssumption
<1>0. op[d].pc = "idle"
  BY DEF Call, RegisterRead, Unregister, SendInsert, SendAgain, SendRefused, NotifyCall,
         Sendable, Callable
<1>1. ASSUME NEW x \in RingIds, NEW force \in BOOLEAN, RegisterRead(d, x, force)
      PROVE  \A r \in RingIds : Announced(r)'
  <2>. TAKE r \in RingIds
  <2>1. /\ UNCHANGED <<awake, irq, scan>>
        /\ \A e \in Domains : op[e].pc = "sent" => op'[e] = op[e]
    BY <1>0, <1>1, SendersStay DEF RegisterRead
  <2>2. CASE r # x
    BY <1>1, <2>1, <2>2, AnnouncedStays, SMT DEF RegisterRead
  <2>3. CASE r = x
    <3>. DEFINE ring == IF own[x] THEN mem[x] ELSE FreshRing
    <3>1. ring \in MemType
      BY IdleFacts DEF V4VInv, TypeInv
    <3>2. RegisteredTx(ring) = ring.tx
      BY <3>1, PointerKept DEF RegisteredTx, MemType
    <3>3. mem'[x] = [ring EXCEPT !.tx = RegisteredTx(ring)]
      BY <1>1 DEF RegisterRead, V4VInv, TypeInv
    <3>4. mem'[x] = ring
      <4>. HIDE DEF ring
      <4>. QED BY <3>1, <3>2, <3>3 DEF MemType
    <3>5. CASE own[x]
      BY <2>1, <2>3, <3>4, <3>5, AnnouncedStays
    <3>6. CASE ~ own[x]
      <4>1. Unread(x)' = 0
        BY <3>4, <3>6, FreshFacts, IdleFacts, OccupiedEmpty DEF Unread
      <4>. QED BY <2>3, <4>1 DEF Announced
    <3>. QED BY <3>5, <3>6
  <2>. QED BY <2>2, <2>3
<1>2. ASSUME NEW x \in RingIds, NEW keep \in BOOLEAN, Unregister(d, x, keep)
      PROVE  \A r \in RingIds : Announced(r)'
  <2>. TAKE r \in RingIds
  <2>1. UNCHANGED <<awake, irq, op>> /\ own[x]
    BY <1>2 DEF Unregister
  <2>2. CASE keep
    BY <1>2, <2>1, <2>2, AnnouncedStays DEF Unregister, V4VInv, TypeInv
  <2>3. CASE ~ keep /\ r # x
    BY <1>2, <2>1, <2>3, AnnouncedStays, SMT DEF Unregister, Forget
  <2>4. CASE ~ keep /\ r = x
    BY <1>2, <2>1, <2>4 DEF Unregister, Announced, V4VInv, TypeInv
  <2>. QED BY <2>2, <2>3, <2>4
<1>3. ASSUME NEW a \in Addrs, NEW n \in Sizes, SendInsert(d, a, n)
      PROVE  \A r \in RingIds : Announced(r)'
  <2>. TAKE r \in RingIds
  <2>. PICK x \in RingIds :
         /\ mem' = [mem EXCEPT ![x].tx = TxAfter(x, n), ![x].torn = InsertTorn(x),
                               ![x].q = IF InsertTorn(x) THEN <<>> ELSE Append(@, n)]
         /\ op' = Start(d, "sent", x)
    BY <1>3, InsertFacts
  <2>1. /\ UNCHANGED <<awake, irq, own, scan>>
        /\ \A e \in Domains : op[e].pc = "sent" => op'[e] = op[e]
    BY <1>0, <1>3, SendersStay DEF SendInsert, Start, owners
  <2>2. CASE r # x
    <3>1. mem'[r] = mem[r]
      BY <2>2 DEF V4VInv, TypeInv
    <3>. QED BY <2>1, <3>1, AnnouncedStays
  <2>3. CASE r = x
    <3>1. op'[d].pc = "sent" /\ op'[d].ring = x
      BY DEF Start, Idle, V4VInv, TypeInv
    <3>. QED BY <2>3, <3>1 DEF Announced
  <2>. QED BY <2>2, <2>3
<1>4. ASSUME NEW a \in Addrs, NEW n \in Sizes, SendAgain(d, a, n)
      PROVE  \A r \in RingIds : Announced(r)'
  BY <1>4, AnnouncedStays DEF SendAgain, owners
<1>5. ASSUME NEW a \in Addrs, SendRefused(d, a) PROVE \A r \in RingIds : Announced(r)'
  <2>1. \A e \in Domains : irq[e] => irq'[e]
    BY <1>5 DEF SendRefused, V4VInv, TypeInv
  <2>. QED BY <1>5, <2>1, AnnouncedStays DEF SendRefused, owners, hyper
<1>6. ASSUME NEW asks, NotifyCall(d, asks) PROVE \A r \in RingIds : Announced(r)'
  <2>1. \A e \in Domains : op[e].pc = "sent" => op'[e] = op[e]
    BY <1>0, <1>6, SendersStay DEF NotifyCall
  <2>. QED BY <1>6, <2>1, AnnouncedStays DEF NotifyCall
<1>. QED BY <1>1, <1>2, <1>3, <1>4, <1>5, <1>6 DEF Call

LEMMA AnnouncedDomain ==
  ASSUME V4VInv, \A r \in RingIds : Announced(r), NEW d \in Domains,
         TakeInterrupt(d) \/ Suspend(d) \/ Resume(d) \/ Destroy(d) \/ InitDomain(d)
  PROVE  \A r \in RingIds : Announced(r)'
<1>. USE RingIdsAssumption
<1>. TAKE r \in RingIds
<1>0. mem' = mem => Unread(r)' = Unread(r)
  BY UnreadStays
<1>1. CASE TakeInterrupt(d)
  BY <1>0, <1>1 DEF TakeInterrupt, OwnRings, hyper, Announced, V4VInv, TypeInv
<1>2. CASE Suspend(d)
  BY <1>0, <1>2 DEF Suspend, Announced, V4VInv, TypeInv
<1>3. CASE Resume(d)
  BY <1>0, <1>3 DEF Resume, hyper, Announced, V4VInv, TypeInv
<1>4. CASE Destroy(d)
  <2>1. CASE r.dom = d
    BY <1>4, <2>1 DEF Destroy, Announced
  <2>2. CASE r.dom # d
    BY <1>4, <2>2, AnnouncedStays DEF Destroy, Forget, OwnRings, V4VInv, TypeInv
  <2>. QED BY <2>1, <2>2
<1>5. CASE InitDomain(d)
  BY <1>0, <1>5, SMT DEF InitDomain, Announced, V4VInv, TypeInv, RingInv
<1>. QED BY <1>1, <1>2, <1>3, <1>4, <1>5

LEMMA AnnouncedRing ==
  ASSUME V4VInv, \A r \in RingIds : Announced(r), NEW x \in RingIds,
         CreateRing(x) \/ Receive(x) \/ ReceiveTorn(x) \/ RecoverRing(x) \/ ScanEnd(x)
  PROVE  \A r \in RingIds : Announced(r)'
<1>. TAKE r \in RingIds
<1>1. CASE CreateRing(x)
  BY <1>1, AnnouncedStays DEF CreateRing, owners
<1>2. CASE Receive(x) \/ ReceiveTorn(x) \/ RecoverRing(x)
  <2>1. mem'[r] = mem[r] \/ Unread(r) # 0
    BY <1>2 DEF Receive, ReceiveTorn, RecoverRing, V4VInv, TypeInv
  <2>. QED BY <1>2, <2>1, AnnouncedStays DEF Receive, ReceiveTorn, RecoverRing, hyper, owners
<1>3. CASE ScanEnd(x)
  BY <1>3, UnreadStays DEF ScanEnd, hyper, Announced
<1>. QED BY <1>1, <1>2, <1>3

\* MessageAnnounced (v4v_send, v4v_signal_domain, v4v_resume): no interrupt is lost, however
\* sends, interrupts, registrations and suspends of any number of domains interleave.
THEOREM MessagesAnnounced == Spec => []MessageAnnounced
<1>. DEFINE AInv == \A r \in RingIds : Announced(r)
<1>1. Init => AInv
  BY DEF Init, Announced
<1>2. V4VInv /\ AInv /\ [Next]_vars => AInv'
  <2>. SUFFICES ASSUME V4VInv, AInv, [Next]_vars PROVE AInv'
    OBVIOUS
  <2>1. CASE UNCHANGED vars
    BY <2>1, UnreadStays DEF vars, Announced
  <2>. QED BY <2>1, AnnouncedStep, AnnouncedCall, AnnouncedDomain, AnnouncedRing DEF Next
<1>3. AInv => MessageAnnounced
  BY DEF Announced, MessageAnnounced
<1>. HIDE DEF AInv
<1>. QED BY <1>1, <1>2, <1>3, V4VInvHolds, PTL DEF Spec

-----------------------------------------------------------------------------
(* NoLostWakeup *)

\* Ring r has room for entry e of its pending list.
Fits(r, e) == Live(r) /\ SpaceIn(r) > 0 /\ e.len <= SpaceIn(r)

\* The owner of ring r is going to look for entry e, or is due to notify.
Due(r, e) ==
  LET o == op[r.dom] IN
  \/ r \in dirty
  \/ o.pc \in {"check", "find"} /\ r \in o.todo
  \/ o.pc = "find" /\ o.ring = r /\ e.len <= o.space


LEMMA TendedIs ==
  ASSUME NEW r
  PROVE  /\ Tended(r) <=> \A e \in info[r].pending : Fits(r, e) => Due(r, e)
         /\ Tended(r)' <=> \A e \in info'[r].pending : Fits(r, e)' => Due(r, e)'
BY DEF Tended, Fits, Due

\* Ring r and what its owner is at stay as they are, but for entries that go, or
\* that ask for more than there is room for.
LEMMA TendedStays ==
  ASSUME NEW r \in RingIds, Tended(r),
         info'[r].len = info[r].len, info'[r].tx = info[r].tx,
         info'[r].paged = info[r].paged, mem'[r].rx = mem[r].rx,
         r \in dirty => r \in dirty',
         op'[r.dom] = op[r.dom] \/ op[r.dom].pc \notin {"check", "find"},
         \A e \in info'[r].pending : e \in info[r].pending \/ ~ Fits(r, e)
  PROVE  Tended(r)'
<1>1. SpaceIn(r)' = SpaceIn(r)
  BY DEF SpaceIn
<1>2. \A e : Fits(r, e)' <=> Fits(r, e)
  BY <1>1 DEF Fits, Live
<1>3. \A e : Due(r, e) => Due(r, e)'
  BY DEF Due
<1>. QED BY <1>2, <1>3, TendedIs

LEMMA TendedUnset ==
  ASSUME NEW r \in RingIds, info'[r].len = 0
  PROVE  Tended(r)'
BY TendedIs DEF Fits, Live

\* The list P has no entry that the room in ring r is enough for, but for old ones.
Asking(r, P) == \A e \in P : e \in info[r].pending \/ ~ Fits(r, e)

\* At most d's hypercall moves.
OnlyMoves(d) == \A e \in Domains : e # d => op'[e] = op[e]

\* A domain that was turned away asks for more room than there is.
LEMMA RequeueFits ==
  ASSUME V4VInv, NEW r \in RingIds, NEW d \in Domains, NEW n \in Nat,
         SpaceIn(r) = 0 \/ SpaceIn(r) < n
  PROVE  Asking(r, Requeue(info[r].pending, d, n))
BY SpaceInFacts, SMT DEF Requeue, Fits, Asking

\* A step that changes nothing but hypercalls of d, which is not looking for waiters,
\* and the pending list of ring x.
LEMMA TendedPending ==
  ASSUME V4VInv, NEW r \in RingIds, Tended(r), NEW d \in Domains, NEW x \in RingIds,
         NEW P, info' = [info EXCEPT ![x].pending = P],
         Asking(x, P),
         mem' = mem, dirty' = dirty, op[d].pc \notin {"check", "find"}, OnlyMoves(d)
  PROVE  Tended(r)'
<1>1. /\ info'[r].len = info[r].len /\ info'[r].tx = info[r].tx
      /\ info'[r].paged = info[r].paged
      /\ r = x => info'[r].pending = P
      /\ r # x => info'[r] = info[r]
  BY DEF V4VInv, TypeInv, InfoType
<1>2. r.dom \in Domains
  BY RingIdsAssumption
<1>. QED BY <1>1, <1>2, TendedStays DEF OnlyMoves, Asking

\* A step of d that leaves rings alone, and that is not in the middle of looking.
LEMMA TendedQuiet ==
  ASSUME V4VInv, NEW r \in RingIds, Tended(r), NEW d \in Domains,
         mem'[r].rx = mem[r].rx,
         UNCHANGED <<info, dirty>>, op[d].pc \notin {"check", "find"}, OnlyMoves(d)
  PROVE  Tended(r)'
BY TendedStays, RingIdsAssumption DEF OnlyMoves

LEMMA TendedRegister ==
  ASSUME V4VInv, NEW r \in RingIds, Tended(r), NEW d \in Domains,
         RegisterDone(d) \/ RegisterFail(d) \/ RegisterExists(d) \/ SendSignal(d)
  PROVE  Tended(r)' \/ (ForceEnds(r) /\ op'[r.dom].pc = "idle")
<1>1. CASE RegisterDone(d)
  <2>0. op[d].ring \in RingIds /\ op[d].ring.dom = d
    BY <1>1 DEF RegisterDone, SettingUp, V4VInv, OpInv, OpOk
  <2>1. CASE r.dom = d
    <3>1. info'[r].exists \/ info'[r].len = 0
      <4>1. info[r] \in InfoType /\ (~ info[r].exists => info[r].len = 0)
        BY IdleFacts DEF V4VInv, TypeInv, RingInv
      <4>2. CASE r = op[d].ring
        BY <1>1, <4>1, <4>2 DEF RegisterDone, V4VInv, TypeInv, InfoType
      <4>3. CASE r # op[d].ring
        <5>1. info'[r] = info[r]
          BY <1>1, <2>0, <4>3 DEF RegisterDone, V4VInv, TypeInv
        <5>. QED BY <4>1, <5>1
      <4>. QED BY <4>2, <4>3
    <3>2. op'[d].pc = "check" /\ op'[d].todo = {x \in OwnRings(d) : info'[x].exists}
      BY <1>1 DEF RegisterDone, V4VInv, TypeInv, OpType
    <3>3. info'[r].exists => \A e : Due(r, e)'
      BY <2>1, <3>2 DEF Due, OwnRings
    <3>. QED BY <3>1, <3>3, TendedUnset, TendedIs
  <2>2. CASE r.dom # d
    <3>1. info'[r] = info[r] /\ mem' = mem /\ dirty' = dirty /\ op'[r.dom] = op[r.dom]
      BY <1>1, <2>0, <2>2, RingIdsAssumption DEF RegisterDone, owners, V4VInv, TypeInv
    <3>. QED BY <3>1, TendedStays
  <2>. QED BY <2>1, <2>2
<1>2. CASE RegisterFail(d)
  <2>1. /\ mem' = mem /\ dirty' = dirty /\ op[d].pc = "register"
        /\ OnlyMoves(d) /\ op' = Return(d)
    <3>1. mem' = mem /\ dirty' = dirty /\ op[d].pc = "register" /\ op' = Return(d)
      BY <1>2 DEF RegisterFail, SettingUp, owners
    <3>2. OnlyMoves(d)
      BY <3>1 DEF Return, OnlyMoves, V4VInv, TypeInv
    <3>. QED BY <3>1, <3>2
  <2>2. CASE r = op[d].ring
    <3>1. info'[r].len = info[r].len
      BY <1>2, <2>2, SMTT(30) DEF RegisterFail, V4VInv, TypeInv, InfoType
    <3>2. CASE ~ Live(r)
      BY <3>1, <3>2, TendedUnset DEF Live
    <3>3. CASE Live(r)
      <4>1. op[d].force /\ r.dom = d
        BY <1>2, <2>2, <3>3 DEF RegisterFail, SettingUp, Live, V4VInv, OpInv, OpOk
      <4>2. op'[d].pc = "idle"
        BY <2>1 DEF Return, Idle, V4VInv, TypeInv
      <4>. QED BY <2>1, <2>2, <3>3, <4>1, <4>2 DEF ForceEnds
    <3>. QED BY <3>2, <3>3
  <2>3. CASE r # op[d].ring
    <3>1. info'[r] = info[r]
      BY <1>2, <2>3 DEF RegisterFail, V4VInv, TypeInv
    <3>. QED BY <2>1, <3>1, TendedStays, RingIdsAssumption DEF OnlyMoves
  <2>. QED BY <2>2, <2>3
<1>3. CASE RegisterExists(d) \/ SendSignal(d)
  <2>1. /\ UNCHANGED <<mem, info, dirty>> /\ op[d].pc \notin {"check", "find"}
        /\ OnlyMoves(d)
    <3>1. CASE RegisterExists(d)
      BY <3>1, SMT DEF RegisterExists, Return, owners, OnlyMoves
    <3>2. CASE SendSignal(d)
      BY <3>2, SMT DEF SendSignal, Return, owners, OnlyMoves
    <3>. QED BY <1>3, <3>1, <3>2
  <2>. QED BY <2>1, TendedQuiet
<1>. QED BY <1>1, <1>2, <1>3

LEMMA TendedNotify ==
  ASSUME V4VInv, NEW r \in RingIds, Tended(r), NEW d \in Domains,
         (\E x \in RingIds : NotifySpace(d, x)) \/ NotifyFind(d) \/ NotifySignal(d)
           \/ NotifyChecked(d)
  PROVE  Tended(r)'
<1>0. op[d] \in OpType /\ OpOk(d, op[d])
  BY DEF V4VInv, TypeInv, OpInv
<1>1. ASSUME NEW x \in RingIds, NotifySpace(d, x) PROVE Tended(r)'
  <2>1. /\ UNCHANGED <<mem, info, dirty>> /\ op[d].pc = "check" /\ x \in op[d].todo
        /\ OnlyMoves(d)
        /\ op'[d].pc = (IF SpaceIn(x) = 0 THEN "check" ELSE "find")
        /\ op'[d].todo = op[d].todo \ {x} /\ op'[d].ring = x /\ op'[d].space = SpaceIn(x)
    BY <1>0, <1>1 DEF NotifySpace, owners, V4VInv, TypeInv, OpType, OnlyMoves
  <2>2. \A e : Fits(r, e)' <=> Fits(r, e)
    BY <2>1 DEF Fits, Live, SpaceIn
  <2>3. CASE r.dom # d
    BY <2>1, <2>3, TendedStays, RingIdsAssumption DEF OnlyMoves
  <2>4. CASE r.dom = d /\ r # x
    <3>1. \A e : Due(r, e) => Due(r, e)'
      BY <2>1, <2>4 DEF Due
    <3>. QED BY <2>1, <2>2, <3>1, TendedIs
  <2>5. CASE r.dom = d /\ r = x
    <3>1. \A e : Fits(r, e) => Due(r, e)'
      BY <2>1, <2>5, SpaceInFacts, SMT DEF Due, Fits
    <3>. QED BY <2>1, <2>2, <3>1, TendedIs
  <2>. QED BY <2>3, <2>4, <2>5
<1>2. CASE NotifyFind(d)
  <2>1. PICK x : x = op[d].ring
    OBVIOUS
  <2>2. /\ UNCHANGED <<mem, dirty>> /\ op[d].pc = "find" /\ x \in RingIds /\ x.dom = d
        /\ OnlyMoves(d)
        /\ op'[d].pc = "check" /\ op'[d].todo = op[d].todo
    BY <1>0, <1>2, <2>1 DEF NotifyFind, owners, V4VInv, TypeInv, OpType, OpOk, OnlyMoves
  <2>3. /\ r # x => info'[r] = info[r]
        /\ info'[r].len = info[r].len /\ info'[r].tx = info[r].tx
        /\ info'[r].paged = info[r].paged
        /\ info'[r].pending \subseteq info[r].pending
        /\ r = x => \A e \in info'[r].pending : ~ (e.len <= op[d].space)
    BY <1>2, <2>1, <2>2, SMT DEF NotifyFind, V4VInv, TypeInv, InfoType
  <2>4. \A e : Fits(r, e)' <=> Fits(r, e)
    BY <2>2, <2>3 DEF Fits, Live, SpaceIn
  <2>5. CASE r.dom # d
    BY <2>2, <2>3, <2>5, TendedStays, RingIdsAssumption DEF OnlyMoves
  <2>6. CASE r.dom = d
    <3>1. \A e \in info'[r].pending : Due(r, e) => Due(r, e)'
      BY <2>1, <2>2, <2>3, <2>6 DEF Due
    <3>. QED BY <2>3, <2>4, <3>1, TendedIs
  <2>. QED BY <2>5, <2>6
<1>3. CASE NotifySignal(d)
  <2>1. /\ UNCHANGED <<mem, info, dirty>> /\ OnlyMoves(d)
        /\ op'[d].pc = op[d].pc /\ op'[d].todo = op[d].todo
        /\ op'[d].ring = op[d].ring /\ op'[d].space = op[d].space
    BY <1>0, <1>3, SMT DEF NotifySignal, owners, V4VInv, TypeInv, OpType, OnlyMoves
  <2>2. \A e : Due(r, e) => Due(r, e)'
    BY <2>1, RingIdsAssumption DEF Due, OnlyMoves
  <2>. QED BY <2>1, <2>2, TendedIs DEF Fits, Live, SpaceIn
<1>4. CASE NotifyChecked(d)
  <2>1. /\ UNCHANGED <<mem, info, dirty>> /\ OnlyMoves(d)
        /\ op[d].pc = "check" /\ op[d].todo = {}
    BY <1>4, SMT DEF NotifyChecked, owners, OnlyMoves
  <2>2. \A e : Due(r, e) => Due(r, e)'
    BY <2>1, RingIdsAssumption DEF Due, OnlyMoves
  <2>. QED BY <2>1, <2>2, TendedIs DEF Fits, Live, SpaceIn
<1>. QED BY <1>1, <1>2, <1>3, <1>4

LEMMA TendedFill ==
  ASSUME V4VInv, NEW r \in RingIds, Tended(r), NEW d \in Domains,
         FillSufficient(d) \/ FillPending(d) \/ FillNoRing(d)
  PROVE  Tended(r)'
<1>1. /\ UNCHANGED <<mem, dirty>> /\ op[d].pc = "fill"
      /\ OnlyMoves(d)
  BY DEF FillSufficient, FillPending, FillNoRing, FillNext, Return, owners, OnlyMoves,
         V4VInv, TypeInv
<1>2. CASE FillSufficient(d)
  <2>. PICK x \in FillRings(d) : info' = [info EXCEPT ![x].pending = CancelFor(@, d)]
    BY <1>2 DEF FillSufficient
  <2>1. x \in RingIds
    BY RingsForFacts DEF FillRings
  <2>2. Asking(x, CancelFor(info[x].pending, d))
    BY DEF CancelFor, Asking
  <2>. QED BY <1>1, <2>1, <2>2, TendedPending
<1>3. CASE FillPending(d)
  <2>. DEFINE want == Head(op[d].asks).want
  <2>. PICK x \in FillRings(d) :
         /\ ~ Sufficient(x, want)
         /\ info' = [info EXCEPT ![x].pending = Requeue(@, d, want)] \/ UNCHANGED info
    BY <1>3 DEF FillPending
  <2>1. x \in RingIds
    BY RingsForFacts DEF FillRings
  <2>2. want \in Nat
    BY <1>1, HeadFacts
  <2>. HIDE DEF want
  <2>3. SpaceIn(x) < want
    BY <2>1, <2>2, SpaceInFacts, SMT DEF Sufficient
  <2>4. Asking(x, Requeue(info[x].pending, d, want))
    BY <2>1, <2>2, <2>3, RequeueFits
  <2>. QED BY <1>1, <2>1, <2>4, TendedPending, TendedQuiet
<1>4. CASE FillNoRing(d)
  BY <1>1, <1>4, TendedQuiet DEF FillNoRing
<1>. QED BY <1>2, <1>3, <1>4

LEMMA TendedCall ==
  ASSUME V4VInv, NEW r \in RingIds, Tended(r), NEW d \in Domains, Call(d)
  PROVE  Tended(r)'
<1>0. op[d].pc = "idle"
  BY DEF Call, RegisterRead, Unregister, SendInsert, SendAgain, SendRefused, NotifyCall,
         Sendable, Callable
<1>1. ASSUME NEW x \in RingIds, NEW force \in BOOLEAN, RegisterRead(d, x, force)
      PROVE  Tended(r)'
  <2>1. UNCHANGED <<info, dirty>> /\ OnlyMoves(d)
    BY <1>1, SMT DEF RegisterRead, OnlyMoves
  <2>2. CASE Live(r)
    <3>1. own[r] /\ mem[r] \in MemType
      BY <2>2 DEF V4VInv, TypeInv, RingInv
    <3>2. mem'[r].rx = mem[r].rx
      BY <1>1, <3>1 DEF RegisterRead, V4VInv, TypeInv, MemType
    <3>. QED BY <1>0, <2>1, <3>2, TendedStays, RingIdsAssumption DEF OnlyMoves
  <2>3. CASE ~ Live(r)
    BY <2>1, <2>3, TendedUnset DEF Live
  <2>. QED BY <2>2, <2>3
<1>2. ASSUME NEW x \in RingIds, NEW keep \in BOOLEAN, Unregister(d, x, keep)
      PROVE  Tended(r)'
  <2>1. CASE r = x
    <3>1. info'[r].len = 0
      BY <1>2, <2>1, IdleFacts DEF Unregister, V4VInv, TypeInv
    <3>. QED BY <3>1, TendedUnset
  <2>2. CASE r # x
    <3>1. info'[r] = info[r] /\ mem'[r] = mem[r] /\ op' = op /\ (r \in dirty => r \in dirty')
      BY <1>2, <2>2, SMT DEF Unregister, Forget
    <3>. QED BY <3>1, TendedStays
  <2>. QED BY <2>1, <2>2
<1>3. ASSUME NEW a \in Addrs, NEW n \in Sizes, SendInsert(d, a, n)
      PROVE  Tended(r)'
  <2>. PICK x \in RingIds :
         /\ Live(x) /\ info[x].paged /\ TxAfter(x, n) \in Offsets
         /\ PayloadSpace(mem[x].rx, TxAfter(x, n), RingLen) <= SpaceIn(x)
         /\ info' = [info EXCEPT ![x].tx = TxAfter(x, n)]
         /\ mem' = [mem EXCEPT ![x].tx = TxAfter(x, n), ![x].torn = InsertTorn(x),
                               ![x].q = IF InsertTorn(x) THEN <<>> ELSE Append(@, n)]
         /\ op' = Start(d, "sent", x)
    BY <1>3, InsertFacts
  <2>1. dirty' = dirty /\ OnlyMoves(d)
    BY <1>3, SMT DEF SendInsert, Start, owners, OnlyMoves
  <2>2. /\ info'[r].len = info[r].len /\ info'[r].pending = info[r].pending
        /\ mem'[r].rx = mem[r].rx /\ (r # x => info'[r] = info[r])
        /\ r = x => info'[r].tx = TxAfter(x, n)
    BY SMT DEF V4VInv, TypeInv, InfoType, MemType
  <2>3. CASE r # x
    BY <1>0, <2>1, <2>2, <2>3, TendedStays, RingIdsAssumption DEF OnlyMoves
  <2>4. CASE r = x
    <3>1. info[x].len = RingLen /\ RingLen # 0 /\ SpaceIn(x) \in Nat
          /\ mem[x].rx \in Offsets
      BY SpaceInFacts, LenFacts, SMT
    <3>0. info'[r].paged
      BY <2>4 DEF V4VInv, TypeInv, InfoType
    <3>2. SpaceIn(r)' = PayloadSpace(mem[x].rx, TxAfter(x, n), RingLen)
      BY <2>2, <2>4, <3>0, <3>1 DEF SpaceIn
    <3>3. SpaceIn(r)' \in Nat /\ SpaceIn(r)' <= SpaceIn(r)
      BY <2>4, <3>1, <3>2, SpaceType
    <3>4. \A e \in info[r].pending : Fits(r, e)' => Fits(r, e)
      <4>1. \A e \in info[r].pending : e.len \in Nat
        BY SMT DEF V4VInv, TypeInv, InfoType, EntryType
      <4>. QED BY <2>2, <2>4, <3>1, <3>3, <4>1, SMT DEF Fits, Live
    <3>5. \A e : Due(r, e) => Due(r, e)'
      BY <1>0, <2>1, RingIdsAssumption DEF Due, OnlyMoves
    <3>. QED BY <2>2, <3>4, <3>5, TendedIs
  <2>. QED BY <2>3, <2>4
<1>4. ASSUME NEW a \in Addrs, NEW n \in Sizes, SendAgain(d, a, n)
      PROVE  Tended(r)'
  <2>. PICK x \in RingsFor(a, d), want \in {0, n} :
         /\ want = IF info[x].len = 0 THEN 0 ELSE n
         /\ info[x].len # 0 =>
              /\ info[x].paged /\ ~ TooLong(n, info[x].len)
              /\ NoRoom(n, SanitizeRx(mem[x].rx, info[x].len), info[x].tx, info[x].len)
         /\ info' = [info EXCEPT ![x].pending = Requeue(@, d, want)]
    BY <1>4 DEF SendAgain
  <2>1. x \in RingIds /\ n \in Nat /\ want \in Nat
    BY RingsForFacts, SizesAssumption
  <2>2. SpaceIn(x) = 0 \/ SpaceIn(x) < want
    <3>1. CASE info[x].len = 0
      BY <2>1, <3>1, SpaceInFacts
    <3>2. CASE info[x].len # 0
      <4>1. /\ info[x].len = RingLen /\ want = n /\ SpaceIn(x) \in Nat
            /\ mem[x].rx \in Offsets /\ info[x].tx \in Offsets
            /\ SpaceIn(x) = PayloadSpace(mem[x].rx, info[x].tx, RingLen)
        BY <2>1, <3>2, SpaceInFacts DEF Live
      <4>2. ~ TooLong(n, RingLen) /\ NoRoom(n, mem[x].rx, info[x].tx, RingLen)
        BY <3>2, <4>1, PointerKept
      <4>. QED BY <2>1, <4>1, <4>2, SpaceAgrees, SMT
    <3>. QED BY <3>1, <3>2
  <2>3. Asking(x, Requeue(info[x].pending, d, want))
    BY <2>1, <2>2, RequeueFits
  <2>4. UNCHANGED <<mem, dirty, op>>
    BY <1>4 DEF SendAgain, owners
  <2>5. OnlyMoves(d)
    BY <2>4 DEF OnlyMoves
  <2>. QED BY <1>0, <2>1, <2>3, <2>4, <2>5, TendedPending
<1>5. ASSUME NEW a \in Addrs, SendRefused(d, a) PROVE Tended(r)'
  BY <1>0, <1>5, TendedQuiet DEF SendRefused, owners, hyper, OnlyMoves
<1>6. ASSUME NEW asks, NotifyCall(d, asks) PROVE Tended(r)'
  <2>1. /\ UNCHANGED <<info, mem>> /\ dirty' = dirty \ OwnRings(d)
        /\ OnlyMoves(d)
        /\ op'[d].pc = "check" /\ op'[d].todo = {x \in OwnRings(d) : info[x].exists}
    BY <1>6 DEF NotifyCall, Idle, V4VInv, TypeInv, OnlyMoves
  <2>2. CASE r.dom = d
    <3>1. Live(r) => \A e : Due(r, e)'
      BY <2>1, <2>2, SpaceInFacts DEF Due, OwnRings
    <3>. QED BY <2>1, <3>1, TendedIs DEF Fits, Live
  <2>3. CASE r.dom # d
    <3>1. r \in dirty => r \in dirty'
      BY <2>1, <2>3 DEF OwnRings
    <3>. QED BY <2>1, <2>3, <3>1, TendedStays, RingIdsAssumption DEF OnlyMoves
  <2>. QED BY <2>2, <2>3
<1>. QED BY <1>1, <1>2, <1>3, <1>4, <1>5, <1>6 DEF Call

LEMMA TendedRest ==
  ASSUME V4VInv, NEW r \in RingIds, Tended(r),
         \/ \E d \in Domains : TakeInterrupt(d) \/ Suspend(d) \/ Resume(d) \/ Destroy(d)
                                 \/ InitDomain(d)
         \/ \E x \in RingIds : CreateRing(x) \/ Receive(x) \/ ReceiveTorn(x)
                                 \/ RecoverRing(x) \/ ScanEnd(x)
  PROVE  Tended(r)' \/ (mem[r].torn /\ mem'[r].rx = mem[r].tx)
<1>1. ASSUME NEW d \in Domains, TakeInterrupt(d) \/ Resume(d) \/ InitDomain(d)
      PROVE  Tended(r)'
  BY <1>1, TendedStays DEF TakeInterrupt, Resume, InitDomain, hyper
<1>2. ASSUME NEW d \in Domains, Suspend(d) \/ Destroy(d) PROVE Tended(r)'
  <2>1. CASE r.dom = d
    <3>1. info'[r].len = 0
      <4>1. CASE Suspend(d)
        BY <2>1, <4>1 DEF Suspend, V4VInv, TypeInv, InfoType
      <4>2. CASE Destroy(d)
        BY <2>1, <4>2, IdleFacts DEF Destroy
      <4>. QED BY <1>2, <4>1, <4>2
    <3>. QED BY <3>1, TendedUnset
  <2>2. CASE r.dom # d
    <3>1. info'[r] = info[r] /\ mem'[r] = mem[r] /\ op' = op /\ (r \in dirty => r \in dirty')
      <4>1. CASE Suspend(d)
        BY <2>2, <4>1 DEF Suspend
      <4>2. CASE Destroy(d)
        BY <2>2, <4>2 DEF Destroy, Forget, OwnRings
      <4>. QED BY <1>2, <4>1, <4>2
    <3>. QED BY <3>1, TendedStays
  <2>. QED BY <2>1, <2>2
<1>3. ASSUME NEW x \in RingIds, CreateRing(x) PROVE Tended(r)'
  <2>1. CASE r = x
    <3>1. info'[r].len = 0
      BY <1>3, <2>1 DEF CreateRing, Placeholder, NoInfo, V4VInv, TypeInv
    <3>. QED BY <3>1, TendedUnset
  <2>2. CASE r # x
    BY <1>3, <2>2, TendedStays, SMT DEF CreateRing, owners
  <2>. QED BY <2>1, <2>2
<1>4. ASSUME NEW x \in RingIds, Receive(x) \/ ReceiveTorn(x) PROVE Tended(r)'
  <2>1. UNCHANGED <<info, op>> /\ dirty' = dirty \cup {x}
    BY <1>4 DEF Receive, ReceiveTorn, hyper
  <2>2. CASE r = x
    BY <2>1, <2>2, TendedIs DEF Due
  <2>3. CASE r # x
    <3>1. mem'[r] = mem[r]
      <4>1. CASE Receive(x)
        BY <2>3, <4>1 DEF Receive, V4VInv, TypeInv
      <4>2. CASE ReceiveTorn(x)
        BY <2>3, <4>2 DEF ReceiveTorn, V4VInv, TypeInv
      <4>. QED BY <1>4, <4>1, <4>2
    <3>. QED BY <2>1, <3>1, TendedStays
  <2>. QED BY <2>2, <2>3
<1>5. ASSUME NEW x \in RingIds, RecoverRing(x)
      PROVE  Tended(r)' \/ (mem[r].torn /\ mem'[r].rx = mem[r].tx)
  <2>1. CASE r = x
    BY <1>5, <2>1 DEF RecoverRing, V4VInv, TypeInv, MemType
  <2>2. CASE r # x
    <3>1. mem'[r] = mem[r] /\ UNCHANGED <<info, op, dirty>>
      BY <1>5, <2>2 DEF RecoverRing, hyper, owners, V4VInv, TypeInv
    <3>. QED BY <3>1, TendedStays
  <2>. QED BY <2>1, <2>2
<1>6. ASSUME NEW x \in RingIds, ScanEnd(x) PROVE Tended(r)'
  BY <1>6, TendedStays DEF ScanEnd, hyper
<1>. QED BY <1>1, <1>2, <1>3, <1>4, <1>5, <1>6

\* NoLostWakeup (v4v_notify_ring, v4v_pending_find, v4v_pending_requeue): no sender that a
\* ring has room for is forgotten, although the ring's lock is dropped between reading the
\* space and collecting the senders, for any number of domains and rings.  Where no driver
\* registers by force neither of its exceptions is met: ForceEnds needs op[d].force, and a
\* ring is torn only after such a registration.
THEOREM WakeupsKept == Spec => NoLostWakeup
<1>. DEFINE Kept(r) == \/ Tended(r)'
                       \/ ForceEnds(r) /\ op'[r.dom].pc = "idle"
                       \/ mem[r].torn /\ mem'[r].rx = mem[r].tx
            Keeps == \A r \in RingIds : Tended(r) => Kept(r)
<1>1. Init => \A r \in RingIds : Tended(r)
  BY IdleFacts DEF Init, Tended
<1>2. V4VInv /\ [Next]_vars => [Keeps]_vars
  <2>. SUFFICES ASSUME V4VInv, Next, NEW r \in RingIds, Tended(r) PROVE Kept(r)
    OBVIOUS
  <2>1. ASSUME NEW d \in Domains, Step(d) PROVE Kept(r)
    BY <2>1, TendedRegister, TendedNotify, TendedFill DEF Step
  <2>2. ASSUME NEW d \in Domains, Call(d) PROVE Kept(r)
    BY <2>2, TendedCall
  <2>. QED BY <2>1, <2>2, TendedRest DEF Next
<1>. QED BY <1>1, <1>2, V4VInvHolds, PTL DEF Spec, NoLostWakeup

-----------------------------------------------------------------------------
(* Where no driver registers by force *)

\* No registration under way is by force, and no ring is torn.
Unforced == \A d \in Domains : op[d].pc = "register" => ~ op[d].force
Untorn == \A r \in RingIds : ~ mem[r].torn

LEMMA UnforcedStep ==
  ASSUME V4VInv, Unforced, NEW d \in Domains, Step(d)
  PROVE  Unforced'
<1>. SUFFICES OnlyMoves(d) /\ op'[d].pc # "register"
  BY DEF Unforced, OnlyMoves
<1>0. op[d] \in OpType /\ DOMAIN op = Domains /\ Idle.pc = "idle"
  BY DEF V4VInv, TypeInv, Idle
<1>1. CASE RegisterDone(d)
  BY <1>0, <1>1 DEF RegisterDone, OpType, OnlyMoves
<1>2. CASE RegisterFail(d) \/ RegisterExists(d) \/ SendSignal(d)
  BY <1>0, <1>2 DEF RegisterFail, RegisterExists, SendSignal, Return, OnlyMoves
<1>3. ASSUME NEW x \in RingIds, NotifySpace(d, x) PROVE OnlyMoves(d) /\ op'[d].pc # "register"
  BY <1>0, <1>3 DEF NotifySpace, OpType, OnlyMoves
<1>4. CASE NotifyFind(d)
  BY <1>0, <1>4 DEF NotifyFind, OpType, OnlyMoves
<1>5. CASE NotifySignal(d)
  <2>. PICK x \in op[d].notify : op' = [op EXCEPT ![d].notify = @ \ {x}]
    BY <1>5 DEF NotifySignal
  <2>. QED BY <1>0, <1>5, SMT DEF NotifySignal, OpType, OnlyMoves
<1>6. CASE NotifyChecked(d)
  BY <1>0, <1>6 DEF NotifyChecked, Idle, OnlyMoves
<1>7. CASE FillSufficient(d) \/ FillPending(d) \/ FillNoRing(d)
  <2>1. op[d].pc = "fill" /\ FillNext(d)
    BY <1>7 DEF FillSufficient, FillPending, FillNoRing
  <2>. QED BY <1>0, <2>1 DEF FillNext, Return, OpType, OnlyMoves
<1>. QED BY <1>1, <1>2, <1>3, <1>4, <1>5, <1>6, <1>7 DEF Step

LEMMA UnforcedCall ==
  ASSUME Forced = {}, V4VInv, Unforced, NEW d \in Domains, Call(d)
  PROVE  Unforced'
<1>. SUFFICES OnlyMoves(d) /\ (op'[d].pc = "register" => ~ op'[d].force)
  BY DEF Unforced, OnlyMoves
<1>0. op[d].pc = "idle" /\ DOMAIN op = Domains
  BY DEF Call, RegisterRead, Unregister, SendInsert, SendAgain, SendRefused, NotifyCall,
         Sendable, Callable, V4VInv, TypeInv
<1>1. ASSUME NEW x \in RingIds, NEW force \in BOOLEAN, RegisterRead(d, x, force)
      PROVE  OnlyMoves(d) /\ ~ op'[d].force
  <2>. PICK tx : op' = [op EXCEPT ![d] = [Idle EXCEPT !.pc = "register", !.ring = x,
                                                       !.tx = tx, !.force = force]]
    BY <1>1 DEF RegisterRead
  <2>1. ~ force
    BY <1>1 DEF RegisterRead
  <2>2. OnlyMoves(d)
    BY <1>0 DEF OnlyMoves
  <2>3. op'[d].force = force
    BY <1>0 DEF Idle
  <2>. QED BY <2>1, <2>2, <2>3
<1>2. ASSUME NEW a \in Addrs, NEW n \in Sizes, SendInsert(d, a, n)
      PROVE  OnlyMoves(d) /\ op'[d].pc # "register"
  <2>. PICK x \in RingIds : op' = Start(d, "sent", x)
    BY <1>2, InsertFacts
  <2>. QED BY <1>0 DEF Start, Idle, OnlyMoves
<1>3. ASSUME NEW asks, NotifyCall(d, asks) PROVE OnlyMoves(d) /\ op'[d].pc # "register"
  BY <1>0, <1>3 DEF NotifyCall, Idle, OnlyMoves
<1>4. ASSUME op' = op PROVE OnlyMoves(d) /\ op'[d].pc # "register"
  BY <1>0, <1>4 DEF OnlyMoves
<1>5. ASSUME \/ \E x \in RingIds, keep \in BOOLEAN : Unregister(d, x, keep)
             \/ \E a \in Addrs : SendRefused(d, a) \/ \E n \in Sizes : SendAgain(d, a, n)
      PROVE  op' = op
  BY <1>5 DEF Unregister, SendAgain, SendRefused, hyper
<1>. QED BY <1>1, <1>2, <1>3, <1>4, <1>5 DEF Call

LEMMA UntornNext ==
  ASSUME V4VInv, Untorn, \A r \in RingIds : Whole(r), Next
  PROVE  Untorn'
<1>. SUFFICES ASSUME NEW r \in RingIds PROVE ~ mem'[r].torn
  BY DEF Untorn
<1>0. ~ mem[r].torn /\ mem[r] \in MemType /\ DOMAIN mem = RingIds /\ ~ FreshRing.torn
  BY DEF Untorn, V4VInv, TypeInv, FreshRing
<1>1. ASSUME NEW d \in Domains, Step(d) PROVE mem' = mem
  BY <1>1 DEF Step, RegisterDone, RegisterFail, RegisterExists, SendSignal, NotifySpace,
              NotifyFind, NotifySignal, NotifyChecked, FillSufficient, FillPending, FillNoRing
<1>2. ASSUME NEW d \in Domains, NEW x \in RingIds, NEW force \in BOOLEAN,
             RegisterRead(d, x, force)
      PROVE  ~ mem'[r].torn
  BY <1>0, <1>2, IdleFacts DEF RegisterRead, MemType
<1>3. ASSUME NEW rs, NEW ds, Forget(rs, ds) PROVE ~ mem'[r].torn
  BY <1>0, <1>3 DEF Forget
<1>4. ASSUME NEW d \in Domains, NEW a \in Addrs, NEW n \in Sizes, SendInsert(d, a, n)
      PROVE  ~ mem'[r].torn
  <2>. PICK x \in RingIds :
         /\ Live(x)
         /\ mem' = [mem EXCEPT ![x].tx = TxAfter(x, n), ![x].torn = InsertTorn(x),
                               ![x].q = IF InsertTorn(x) THEN <<>> ELSE Append(@, n)]
    BY <1>4, InsertFacts
  <2>1. ~ InsertTorn(x)
    BY DEF InsertTorn, Untorn, Whole
  <2>. QED BY <1>0, <2>1 DEF MemType
<1>5. ASSUME NEW x \in RingIds, Receive(x) PROVE ~ mem'[r].torn
  BY <1>0, <1>5 DEF Receive, MemType
<1>6. ASSUME NEW x \in RingIds PROVE ~ ReceiveTorn(x) /\ ~ RecoverRing(x)
  BY DEF ReceiveTorn, RecoverRing, Untorn
<1>7. ASSUME NEW d \in Domains, Call(d) PROVE ~ mem'[r].torn
  <2>1. ASSUME NEW x \in RingIds, NEW keep \in BOOLEAN, Unregister(d, x, keep)
        PROVE  mem' = mem \/ Forget({x}, {})
    BY <2>1 DEF Unregister
  <2>2. ASSUME \/ \E a \in Addrs : SendRefused(d, a) \/ \E n \in Sizes : SendAgain(d, a, n)
               \/ \E asks : NotifyCall(d, asks)
        PROVE  mem' = mem
    BY <2>2 DEF SendAgain, SendRefused, NotifyCall
  <2>. QED BY <1>0, <1>2, <1>3, <1>4, <1>7, <2>1, <2>2 DEF Call
<1>8. ASSUME \/ \E d \in Domains : TakeInterrupt(d) \/ Suspend(d) \/ Resume(d)
                                     \/ InitDomain(d)
             \/ \E x \in RingIds : CreateRing(x) \/ ScanEnd(x)
      PROVE  mem' = mem
  BY <1>8 DEF TakeInterrupt, Suspend, Resume, InitDomain, CreateRing, ScanEnd
<1>9. ASSUME NEW d \in Domains, Destroy(d) PROVE ~ mem'[r].torn
  BY <1>3, <1>9 DEF Destroy
<1>. QED BY <1>0, <1>1, <1>5, <1>6, <1>7, <1>8, <1>9 DEF Next

\* Among drivers that never register with fail_exist = 0, neither exception of ContentsKept
\* and NoLostWakeup is met: every ring is whole at all times (v4v_ring_add,
\* v4v_ringbuf_insert), and no sender that a ring has room for is forgotten (v4v_notify_ring).
THEOREM UnforcedRings ==
  ASSUME Forced = {}
  PROVE  Spec => [](\A r \in RingIds : Whole(r) /\ Tended(r))
<1>. DEFINE Good == \A r \in RingIds : Whole(r) /\ Tended(r)
            WholeStep == \A r \in RingIds : Whole(r) =>
                            Whole(r)' \/ (ForceEnds(r) /\ op[r.dom].tx # info[r].tx)
            TendedStep == \A r \in RingIds : Tended(r) =>
                            \/ Tended(r)'
                            \/ ForceEnds(r) /\ op'[r.dom].pc = "idle"
                            \/ mem[r].torn /\ mem'[r].rx = mem[r].tx
            Calm == Good /\ Unforced /\ Untorn
<1>1. Init => Unforced /\ Untorn
  BY IdleFacts DEF Init, Unforced, Untorn
<1>2. V4VInv /\ [WholeStep]_vars /\ [TendedStep]_vars /\ Calm /\ [Next]_vars => Calm'
  <2>. SUFFICES ASSUME V4VInv, [WholeStep]_vars, [TendedStep]_vars, Calm, [Next]_vars
                PROVE  Calm'
    OBVIOUS
  <2>1. CASE UNCHANGED vars
    BY <2>1 DEF vars, Whole, Tended, Live, SpaceIn, Unread, Unforced, Untorn
  <2>2. CASE Next /\ vars' # vars
    <3>1. \A r \in RingIds : ~ ForceEnds(r) /\ ~ mem[r].torn
      BY RingIdsAssumption DEF ForceEnds, Unforced, Untorn
    <3>2. Good'
      BY <2>2, <3>1
    <3>3. Untorn'
      BY <2>2, UntornNext
    <3>4. Unforced'
      <4>1. ASSUME \/ \E d \in Domains : TakeInterrupt(d) \/ Suspend(d) \/ Resume(d)
                                           \/ Destroy(d) \/ InitDomain(d)
                   \/ \E x \in RingIds : CreateRing(x) \/ Receive(x) \/ ReceiveTorn(x)
                                           \/ RecoverRing(x) \/ ScanEnd(x)
            PROVE  op' = op
        BY <4>1 DEF TakeInterrupt, Suspend, Resume, Destroy, InitDomain, CreateRing, Receive,
                    ReceiveTorn, RecoverRing, ScanEnd, hyper
      <4>2. op' = op => Unforced'
        BY DEF Unforced
      <4>. QED BY <2>2, <4>1, <4>2, UnforcedStep, UnforcedCall DEF Next
    <3>. QED BY <3>2, <3>3, <3>4
  <2>. QED BY <2>1, <2>2
<1>3. Spec => [](V4VInv)
  BY V4VInvHolds
<1>4. Spec => (\A r \in RingIds : Whole(r)) /\ [][WholeStep]_vars
  BY RingsKeepContents DEF ContentsKept
<1>5. Spec => (\A r \in RingIds : Tended(r)) /\ [][TendedStep]_vars
  BY WakeupsKept DEF NoLostWakeup
<1>6. (\A r \in RingIds : Whole(r)) /\ (\A r \in RingIds : Tended(r)) <=> Good
  OBVIOUS
<1>7. Spec => []Good
  <2>. HIDE DEF Good, WholeStep, TendedStep
  <2>. QED BY <1>1, <1>2, <1>3, <1>4, <1>5, <1>6, PTL DEF Spec
<1>. QED BY <1>7

-----------------------------------------------------------------------------
(* WaiterListed, where v4v_xmalloc does not fail and a driver that unregisters a
   ring gives it up *)

\* The pending list P has d down for at least n bytes.
Lists(P, d, n) == \E e \in P : e.id = d /\ e.len >= n

\* d has been collected for a signal about ring r.
Collected(d, r) == \E o \in Domains : [ring |-> r, id |-> d] \in op[o].notify

Listed(d, w) == Lists(info[w.ring].pending, d, w.n) \/ Collected(d, w.ring)

LInv == \A d \in Domains : \A w \in waiting[d] : Listed(d, w)

\* v4v_pending_requeue keeps what the list promises, and adds what it is asked to.
LEMMA RequeueLists ==
  ASSUME NEW P \in SUBSET EntryType, NEW d \in Domains, NEW n \in Nat
  PROVE  /\ Lists(Requeue(P, d, n), d, n)
         /\ \A e \in Domains, k \in Nat : Lists(P, e, k) => Lists(Requeue(P, d, n), e, k)
<1>1. \A e \in P : e.id \in Domains /\ e.len \in Nat
  BY DEF EntryType
<1>. DEFINE raised(e) == IF e.id = d /\ e.len < n THEN [id |-> d, len |-> n] ELSE e
<1>2. \A e \in P : /\ raised(e).id = e.id /\ raised(e).len \in Nat /\ raised(e).len >= e.len
                   /\ e.id = d => raised(e).len >= n
  BY <1>1, SMT
<1>3. CASE \E e \in P : e.id = d
  <2>1. \A e \in P : raised(e) \in Requeue(P, d, n)
    BY <1>3 DEF Requeue
  <2>. HIDE DEF raised
  <2>. QED BY <1>1, <1>2, <1>3, <2>1, SMT DEF Lists
<1>4. CASE ~ \E e \in P : e.id = d
  <2>1. Requeue(P, d, n) = P \cup {[id |-> d, len |-> n]}
    BY <1>4 DEF Requeue
  <2>2. [id |-> d, len |-> n] \in Requeue(P, d, n) /\ P \subseteq Requeue(P, d, n) /\ n >= n
    BY <2>1, SMT
  <2>. QED BY <2>2 DEF Lists
<1>. QED BY <1>3, <1>4

\* No pending list changes.
SamePending == \A r \in RingIds : info'[r].pending = info[r].pending

\* No collected domain is forgotten.
NotifyKept == \A o \in Domains : op[o].notify \subseteq op'[o].notify

LEMMA CollectedStays ==
  ASSUME NotifyKept
  PROVE  \A d, r : Collected(d, r) => Collected(d, r)'
BY DEF NotifyKept, Collected

\* A hypercall that is not going through its rings has nobody to signal.
LEMMA NotifyKeptQuiet ==
  ASSUME V4VInv, NEW d \in Domains, OnlyMoves(d), op[d].pc \notin {"check", "find"}
  PROVE  NotifyKept
BY DEF V4VInv, OpInv, OpOk, OnlyMoves, NotifyKept

LEMMA LInvStays ==
  ASSUME V4VInv, LInv, SamePending, NotifyKept, waiting' = waiting
  PROVE  LInv'
<1>. SUFFICES ASSUME NEW d \in Domains, NEW w \in waiting[d] PROVE Listed(d, w)'
  BY DEF LInv
<1>1. w.ring \in RingIds /\ Listed(d, w)
  BY SMT DEF V4VInv, TypeInv, LInv
<1>. QED BY <1>1, CollectedStays DEF Listed, SamePending

\* d was turned away from ring x, and is put down for n bytes of room.
LEMMA LInvRequeue ==
  ASSUME V4VInv, LInv, NotifyKept, NEW d \in Domains, NEW x \in RingIds, NEW n \in Nat,
         info' = [info EXCEPT ![x].pending = Requeue(@, d, n)],
         waiting' = [waiting EXCEPT ![d] = @ \cup {[ring |-> x, n |-> n]}]
  PROVE  LInv'
<1>1. /\ \A r \in RingIds : r # x => info'[r] = info[r]
      /\ info'[x].pending = Requeue(info[x].pending, d, n)
      /\ info[x].pending \in SUBSET EntryType
  BY DEF V4VInv, TypeInv, InfoType
<1>. SUFFICES ASSUME NEW e \in Domains, NEW w \in waiting'[e] PROVE Listed(e, w)'
  BY DEF LInv
<1>2. CASE w \in waiting[e]
  <2>1. w.ring \in RingIds /\ w.n \in Nat /\ Listed(e, w)
    BY <1>2, SMT DEF V4VInv, TypeInv, LInv
  <2>2. Lists(info[w.ring].pending, e, w.n) => Lists(info'[w.ring].pending, e, w.n)
    BY <1>1, <2>1, RequeueLists, SMT
  <2>. QED BY <2>1, <2>2, CollectedStays DEF Listed
<1>3. CASE w \notin waiting[e]
  <2>1. e = d /\ w.ring = x /\ w.n = n
    BY <1>3, SMT DEF V4VInv, TypeInv
  <2>. QED BY <1>1, <2>1, RequeueLists, SMT DEF Listed
<1>. QED BY <1>2, <1>3

\* Where what is promised about the rings rs is taken back, their lists may go.
LEMMA LInvForget ==
  ASSUME V4VInv, LInv, NotifyKept, NEW rs,
         \A r \in RingIds : r \notin rs => info'[r].pending = info[r].pending,
         \A e \in Domains : waiting'[e] \subseteq Without(waiting[e], rs)
  PROVE  LInv'
<1>. SUFFICES ASSUME NEW e \in Domains, NEW w \in waiting'[e] PROVE Listed(e, w)'
  BY DEF LInv
<1>1. w \in waiting[e] /\ w.ring \notin rs
  BY DEF Without
<1>2. w.ring \in RingIds /\ Listed(e, w)
  BY <1>1, SMT DEF V4VInv, TypeInv, LInv
<1>. QED BY <1>1, <1>2, CollectedStays DEF Listed

LEMMA LInvStep ==
  ASSUME ~ MayRunOut, V4VInv, LInv, NEW d \in Domains, Step(d)
  PROVE  LInv'
<1>0. op[d] \in OpType /\ OpOk(d, op[d])
  BY DEF V4VInv, TypeInv, OpInv
<1>1. CASE RegisterDone(d)
  <2>1. NotifyKept
    BY <1>0, <1>1, SMTT(30) DEF RegisterDone, NotifyKept, V4VInv, TypeInv, OpType
  <2>2. SamePending
    BY <1>1, SMT DEF RegisterDone, SamePending, V4VInv, TypeInv, InfoType
  <2>3. waiting' = waiting
    BY <1>1 DEF RegisterDone
  <2>. QED BY <2>1, <2>2, <2>3, LInvStays
<1>2. CASE RegisterFail(d)
  <2>1. OnlyMoves(d) /\ op[d].pc = "register"
    <3>1. op[d].pc = "register" /\ op' = Return(d)
      BY <1>2 DEF RegisterFail, SettingUp
    <3>. QED BY <3>1 DEF Return, OnlyMoves, V4VInv, TypeInv
  <2>2. SamePending
    BY <1>2, SMTT(30) DEF RegisterFail, SamePending, V4VInv, TypeInv, InfoType
  <2>. QED BY <1>2, <2>1, <2>2, NotifyKeptQuiet, LInvStays DEF RegisterFail
<1>3. CASE RegisterExists(d)
  <2>1. OnlyMoves(d) /\ op[d].pc = "register"
    BY <1>3, SMT DEF RegisterExists, Return, OnlyMoves
  <2>. QED BY <1>3, <2>1, NotifyKeptQuiet, LInvStays DEF RegisterExists, SamePending
<1>4. CASE SendSignal(d)
  <2>1. OnlyMoves(d) /\ op[d].pc = "sent"
    BY <1>4, SMT DEF SendSignal, Return, OnlyMoves
  <2>. QED BY <1>4, <2>1, NotifyKeptQuiet, LInvStays DEF SendSignal, SamePending
<1>5. ASSUME NEW x \in RingIds, NotifySpace(d, x) PROVE LInv'
  <2>1. NotifyKept
    BY <1>0, <1>5 DEF NotifySpace, NotifyKept, V4VInv, TypeInv, OpType
  <2>. QED BY <1>5, <2>1, LInvStays DEF NotifySpace, SamePending
<1>6. CASE NotifyFind(d)
  <2>. PICK x : x = op[d].ring
    OBVIOUS
  <2>. PICK fit : fit = {e \in info[x].pending : e.len <= op[d].space}
    OBVIOUS
  <2>1. /\ waiting' = waiting /\ x \in RingIds
        /\ \A r \in RingIds : r # x => info'[r] = info[r]
        /\ info'[x].pending = info[x].pending \ fit
        /\ op'[d].notify = op[d].notify \cup {[ring |-> x, id |-> e.id] : e \in fit}
        /\ OnlyMoves(d)
    BY <1>0, <1>6, SMT DEF NotifyFind, OnlyMoves, V4VInv, TypeInv, InfoType, OpType, OpOk
  <2>2. NotifyKept
    BY <2>1 DEF NotifyKept, OnlyMoves
  <2>. SUFFICES ASSUME NEW e \in Domains, NEW w \in waiting[e] PROVE Listed(e, w)'
    BY <2>1 DEF LInv
  <2>3. w.ring \in RingIds /\ Listed(e, w)
    BY SMT DEF V4VInv, TypeInv, LInv
  <2>4. CASE w.ring # x
    BY <2>1, <2>2, <2>3, <2>4, CollectedStays DEF Listed
  <2>5. CASE w.ring = x /\ \E y \in fit : y.id = e
    <3>1. [ring |-> w.ring, id |-> e] \in op'[d].notify
      BY <2>1, <2>5, SMTT(30)
    <3>. QED BY <3>1 DEF Listed, Collected
  <2>6. CASE w.ring = x /\ \A y \in fit : y.id # e
    <3>1. Lists(info[x].pending, e, w.n) => Lists(info'[x].pending, e, w.n)
      BY <2>1, <2>6 DEF Lists
    <3>. QED BY <2>2, <2>3, <2>6, <3>1, CollectedStays DEF Listed
  <2>. QED BY <2>4, <2>5, <2>6
<1>7. CASE NotifySignal(d)
  <2>. PICK x \in op[d].notify :
         /\ op' = [op EXCEPT ![d].notify = @ \ {x}]
         /\ waiting' = [waiting EXCEPT ![x.id] = Without(@, {x.ring})]
    BY <1>7 DEF NotifySignal
  <2>1. /\ x.ring \in RingIds /\ x.id \in Domains /\ x = [ring |-> x.ring, id |-> x.id]
        /\ info' = info
        /\ \A o \in Domains : op[o].notify \ {x} \subseteq op'[o].notify
    BY <1>0, <1>7 DEF NotifySignal, V4VInv, TypeInv, OpType
  <2>. SUFFICES ASSUME NEW e \in Domains, NEW w \in waiting'[e] PROVE Listed(e, w)'
    BY DEF LInv
  <2>2. w \in waiting[e] /\ (e = x.id => w.ring # x.ring)
    BY <2>1 DEF V4VInv, TypeInv, Without
  <2>3. Listed(e, w)
    BY <2>2 DEF LInv
  <2>4. [ring |-> w.ring, id |-> e] # x
    BY <2>1, <2>2, SMT
  <2>5. Collected(e, w.ring) => Collected(e, w.ring)'
    BY <2>1, <2>4 DEF Collected
  <2>. QED BY <2>1, <2>3, <2>5 DEF Listed
<1>8. CASE NotifyChecked(d)
  <2>1. NotifyKept
    BY <1>8, SMT DEF NotifyChecked, NotifyKept
  <2>. QED BY <1>8, <2>1, LInvStays DEF NotifyChecked, SamePending
<1>9. CASE FillSufficient(d)
  <2>. PICK x \in FillRings(d) :
         /\ info' = [info EXCEPT ![x].pending = CancelFor(@, d)]
         /\ waiting' = [waiting EXCEPT ![d] = Without(@, {x})]
    BY <1>9 DEF FillSufficient
  <2>1. OnlyMoves(d) /\ op[d].pc = "fill" /\ x \in RingIds
    BY <1>9, RingsForFacts
    DEF FillSufficient, FillRings, FillNext, Return, OnlyMoves, V4VInv, TypeInv
  <2>2. NotifyKept
    BY <2>1, NotifyKeptQuiet
  <2>3. /\ \A r \in RingIds : r # x => info'[r] = info[r]
        /\ info'[x].pending = CancelFor(info[x].pending, d)
    BY <2>1 DEF V4VInv, TypeInv, InfoType
  <2>. SUFFICES ASSUME NEW e \in Domains, NEW w \in waiting'[e] PROVE Listed(e, w)'
    BY DEF LInv
  <2>4. w \in waiting[e] /\ (e = d => w.ring # x)
    BY DEF V4VInv, TypeInv, Without
  <2>5. Listed(e, w) /\ w.ring \in RingIds
    BY <2>4, SMT DEF V4VInv, TypeInv, LInv
  <2>6. Lists(info[w.ring].pending, e, w.n) => Lists(info'[w.ring].pending, e, w.n)
    BY <2>3, <2>4, <2>5 DEF Lists, CancelFor
  <2>. QED BY <2>2, <2>5, <2>6, CollectedStays DEF Listed
<1>10. CASE FillPending(d)
  <2>. DEFINE want == Head(op[d].asks).want
  <2>. PICK x \in FillRings(d) :
         /\ info' = [info EXCEPT ![x].pending = Requeue(@, d, want)]
         /\ waiting' = [waiting EXCEPT ![d] = @ \cup {[ring |-> x, n |-> want]}]
    BY <1>10 DEF FillPending
  <2>1. OnlyMoves(d) /\ op[d].pc = "fill" /\ x \in RingIds
    BY <1>10, RingsForFacts
    DEF FillPending, FillRings, FillNext, Return, OnlyMoves, V4VInv, TypeInv
  <2>2. want \in Nat
    BY <2>1, HeadFacts
  <2>. HIDE DEF want
  <2>. QED BY <2>1, <2>2, NotifyKeptQuiet, LInvRequeue
<1>11. CASE FillNoRing(d)
  <2>1. OnlyMoves(d) /\ op[d].pc = "fill"
    BY <1>11 DEF FillNoRing, FillNext, Return, OnlyMoves, V4VInv, TypeInv
  <2>. QED BY <1>11, <2>1, NotifyKeptQuiet, LInvStays DEF FillNoRing, SamePending
<1>. QED BY <1>1, <1>2, <1>3, <1>4, <1>5, <1>6, <1>7, <1>8, <1>9, <1>10, <1>11, SMTT(30) DEF Step

LEMMA LInvCall ==
  ASSUME ~ Reregister, V4VInv, LInv, NEW d \in Domains, Call(d)
  PROVE  LInv'
<1>0. op[d].pc = "idle"
  BY DEF Call, RegisterRead, Unregister, SendInsert, SendAgain, SendRefused, NotifyCall,
         Sendable, Callable
<1>1. ASSUME NEW x \in RingIds, NEW force \in BOOLEAN, RegisterRead(d, x, force)
      PROVE  LInv'
  <2>1. OnlyMoves(d)
    BY <1>1, SMT DEF RegisterRead, OnlyMoves
  <2>. QED BY <1>0, <1>1, <2>1, NotifyKeptQuiet, LInvStays DEF RegisterRead, SamePending
<1>2. ASSUME NEW x \in RingIds, NEW keep \in BOOLEAN, Unregister(d, x, keep) PROVE LInv'
  <2>1. op' = op /\ Forget({x}, {}) /\ info' = [info EXCEPT ![x] = NoInfo]
    BY <1>2 DEF Unregister
  <2>2. NotifyKept
    BY <2>1 DEF NotifyKept
  <2>3. \A e \in Domains : waiting'[e] \subseteq Without(waiting[e], {x})
    BY <2>1 DEF Forget
  <2>4. \A r \in RingIds : r \notin {x} => info'[r].pending = info[r].pending
    BY <2>1, SMT
  <2>. QED BY <2>2, <2>3, <2>4, LInvForget
<1>3. ASSUME NEW a \in Addrs, NEW n \in Sizes, SendInsert(d, a, n) PROVE LInv'
  <2>1. OnlyMoves(d) /\ waiting' = waiting
    BY <1>3, SMT DEF SendInsert, Start, OnlyMoves
  <2>2. SamePending
    BY <1>3, SMT DEF SendInsert, SamePending, V4VInv, TypeInv, InfoType
  <2>. QED BY <1>0, <2>1, <2>2, NotifyKeptQuiet, LInvStays
<1>4. ASSUME NEW a \in Addrs, NEW n \in Sizes, SendAgain(d, a, n) PROVE LInv'
  <2>. PICK x \in RingsFor(a, d), want \in {0, n} :
         /\ info' = [info EXCEPT ![x].pending = Requeue(@, d, want)]
         /\ waiting' = [waiting EXCEPT ![d] = @ \cup {[ring |-> x, n |-> want]}]
    BY <1>4 DEF SendAgain
  <2>1. x \in RingIds /\ want \in Nat
    BY RingsForFacts, SizesAssumption, SMT
  <2>2. NotifyKept
    BY <1>4 DEF SendAgain, NotifyKept
  <2>. QED BY <2>1, <2>2, LInvRequeue
<1>5. ASSUME NEW a \in Addrs, SendRefused(d, a) PROVE LInv'
  BY <1>5, LInvStays DEF SendRefused, hyper, SamePending, NotifyKept
<1>6. ASSUME NEW asks, NotifyCall(d, asks) PROVE LInv'
  <2>1. OnlyMoves(d)
    BY <1>6, SMT DEF NotifyCall, OnlyMoves
  <2>. QED BY <1>0, <1>6, <2>1, NotifyKeptQuiet, LInvStays DEF NotifyCall, SamePending
<1>. QED BY <1>1, <1>2, <1>3, <1>4, <1>5, <1>6 DEF Call

LEMMA LInvRest ==
  ASSUME V4VInv, LInv,
         \/ \E d \in Domains : TakeInterrupt(d) \/ Suspend(d) \/ Resume(d) \/ Destroy(d)
                                 \/ InitDomain(d)
         \/ \E x \in RingIds : CreateRing(x) \/ Receive(x) \/ ReceiveTorn(x)
                                 \/ RecoverRing(x) \/ ScanEnd(x)
  PROVE  LInv'
<1>0. op' = op /\ NotifyKept
  BY DEF TakeInterrupt, Suspend, Resume, Destroy, InitDomain, CreateRing, Receive,
         ReceiveTorn, RecoverRing, ScanEnd, hyper, NotifyKept
<1>1. ASSUME NEW d \in Domains, Suspend(d) PROVE LInv'
  <2>1. SamePending
    <3>1. \A i \in InfoType : [i EXCEPT !.len = 0, !.tx = 0, !.paged = FALSE].pending = i.pending
      BY DEF InfoType
    <3>. QED BY <1>1, <3>1 DEF Suspend, SamePending, V4VInv, TypeInv
  <2>. QED BY <1>0, <1>1, <2>1, LInvStays DEF Suspend
<1>2. ASSUME NEW d \in Domains, Destroy(d) PROVE LInv'
  <2>1. \A r \in RingIds : r \notin OwnRings(d) => info'[r].pending = info[r].pending
    BY <1>2 DEF Destroy, OwnRings
  <2>2. \A e \in Domains : waiting'[e] \subseteq Without(waiting[e], OwnRings(d))
    BY <1>2 DEF Destroy, Forget
  <2>. QED BY <1>0, <2>1, <2>2, LInvForget
<1>3. ASSUME NEW x \in RingIds, CreateRing(x) PROVE LInv'
  <2>1. Placeholder.pending = {} /\ info[x].pending = {}
    BY <1>3, IdleFacts, SMT DEF CreateRing, Placeholder, NoInfo, V4VInv, RingInv
  <2>2. SamePending
    BY <1>3, <2>1 DEF CreateRing, SamePending, V4VInv, TypeInv
  <2>. QED BY <1>0, <1>3, <2>2, LInvStays DEF CreateRing
<1>4. ASSUME UNCHANGED <<info, waiting>> PROVE LInv'
  BY <1>0, <1>4, LInvStays DEF SamePending
<1>5. ASSUME \/ \E d \in Domains : TakeInterrupt(d) \/ Resume(d) \/ InitDomain(d)
             \/ \E x \in RingIds : Receive(x) \/ ReceiveTorn(x) \/ RecoverRing(x) \/ ScanEnd(x)
      PROVE  UNCHANGED <<info, waiting>>
  BY <1>5 DEF TakeInterrupt, Resume, InitDomain, Receive, ReceiveTorn, RecoverRing, ScanEnd, hyper
<1>. QED BY <1>1, <1>2, <1>3, <1>4, <1>5

\* WaiterListed (v4v_pending_requeue, v4v_pending_find, v4v_notify_check_pending,
\* v4v_ring_remove): a domain that was told to wait is on the ring's list, or collected for
\* a signal, until it is signalled, answered or the ring is given up.  The two assumptions
\* are those of the run: v4v_fill_ring_data ignores a v4v_pending_requeue that runs out of
\* memory, and v4v_ring_remove drops the list of a ring that is to be registered again.
THEOREM WaitersListed ==
  ASSUME ~ MayRunOut, ~ Reregister
  PROVE  Spec => []WaiterListed
<1>1. Init => LInv
  BY DEF Init, LInv
<1>2. V4VInv /\ LInv /\ [Next]_vars => LInv'
  <2>. SUFFICES ASSUME V4VInv, LInv, [Next]_vars PROVE LInv'
    OBVIOUS
  <2>1. CASE UNCHANGED vars
    BY <2>1, LInvStays DEF vars, SamePending, NotifyKept
  <2>. QED BY <2>1, LInvStep, LInvCall, LInvRest DEF Next
<1>3. LInv => WaiterListed
  BY DEF LInv, Listed, Lists, Collected, WaiterListed
<1>. QED BY <1>1, <1>2, <1>3, V4VInvHolds, PTL DEF Spec

=============================================================================
