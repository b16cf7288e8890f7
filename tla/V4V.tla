-------------------------------- MODULE V4V --------------------------------
(***************************************************************************)
(* The v4v hypercalls (xen/common/v4v.c): registering, removing and        *)
(* creating rings, sending, and the notify call that wakes the senders a   *)
(* full ring has turned away; the domains' life cycle around them.         *)
(*                                                                         *)
(* Locks.  domain_lock serialises the hypercalls of one domain: op[d] is   *)
(* the one it is in.  Every hypercall holds R(L1) throughout, so whatever  *)
(* takes W(L1) waits for all of them.  R(L2) of a domain protects its      *)
(* table of rings, W(L2) changes the table, and L3 protects one ring: what *)
(* happens under one holding of L3 is one step here.                       *)
(*                                                                         *)
(* A registered ring is a queue of messages (V4VRingBuf), kept here with   *)
(* the two pointers the space in it is computed from.                      *)
(***************************************************************************)
EXTENDS Integers, Sequences, V4VRing

CONSTANTS Domains,
          Host,        \* the domain with domain_id 0, the partner of all guests
          Any,         \* V4V_DOMID_ANY
          RingIds,     \* [dom, port, partner]
          RingLen,     \* the length all rings are registered with
          Sizes,       \* payload lengths of sends
          Wants,       \* values of space_required in notify
          MayRunOut,   \* v4v_xmalloc may fail
          Reregister,  \* a driver may unregister a ring to register it again
          Mortal,      \* the guests that may be suspended or destroyed
          Forced       \* the domains whose driver may register with fail_exist = 0

ASSUME HostAssumption == Host \in Domains /\ Any \notin Domains
                            /\ Mortal \subseteq Domains \ {Host}
ASSUME RingIdsAssumption ==
  \A r \in RingIds : /\ r.dom \in Domains
                     /\ r.dom # Host => r.partner = Host
ASSUME LenAssumption == RingLen \in Nat /\ ValidRingLen(RingLen)
ASSUME SizesAssumption == Sizes \subseteq Nat /\ Wants \subseteq Nat
ASSUME FlagsAssumption == MayRunOut \in BOOLEAN /\ Reregister \in BOOLEAN
ASSUME ForcedAssumption == Forced \subseteq Domains

VARIABLES v4v,      \* d->v4v is not NULL
          awake,    \* the domain runs: it exists and is not suspended
          info,     \* the ring_info of each ring id; paged: all pages are listed
          mem,      \* the v4v_ring_t in the owner's memory, q its messages, or
                    \* torn: what lies between its pointers is not messages
          own,      \* the owner has a ring object for the id
          op,       \* the hypercall each domain is in
          irq,      \* an interrupt of v4v_signal_domain not yet taken
          scan,     \* rings the owner's interrupt handler has yet to empty
          dirty,    \* rings consumed from since their owner's last notify
          waiting   \* [ring, n]: a wake-up promised for n bytes of room in ring

vars == <<v4v, awake, info, mem, own, op, irq, scan, dirty, waiting>>
hyper == <<v4v, info, op>>          \* the hypervisor's own state
owners == <<awake, own, scan, dirty>> \* what the domains know of their rings

Addrs == {[dom |-> r.dom, port |-> r.port] : r \in RingIds}

NoInfo == [exists |-> FALSE, len |-> 0, tx |-> 0, paged |-> FALSE,
           pending |-> {}]
Placeholder == [NoInfo EXCEPT !.exists = TRUE]
FreshRing == [rx |-> 0, tx |-> 0, q |-> <<>>, torn |-> FALSE]

Idle == [pc |-> "idle", ring |-> [dom |-> Any], tx |-> 0, force |-> FALSE,
         todo |-> {}, space |-> 0, notify |-> {}, asks |-> <<>>]

Init ==
  /\ v4v = [d \in Domains |-> TRUE]
  /\ awake = [d \in Domains |-> TRUE]
  /\ info = [r \in RingIds |-> NoInfo]
  /\ mem = [r \in RingIds |-> FreshRing]
  /\ own = [r \in RingIds |-> FALSE]
  /\ op = [d \in Domains |-> Idle]
  /\ irq = [d \in Domains |-> FALSE]
  /\ scan = {}
  /\ dirty = {}
  /\ waiting = [d \in Domains |-> {}]
-----------------------------------------------------------------------------
(* Locks, lookups and the pending list *)

\* d may start a hypercall.
Callable(d) == v4v[d] /\ awake[d] /\ op[d].pc = "idle"

\* W(L1) can be taken: no hypercall is under way.
WriteL1 == \A d \in Domains : op[d].pc = "idle"

\* W(L2) of d can be taken: no send is between its insert and the end, and
\* d is not going through its rings in v4v_notify_check_pending.
WriteL2(d) ==
  /\ op[d].pc \notin {"check", "find"}
  /\ \A e \in Domains : ~ (op[e].pc = "sent" /\ op[e].ring.dom = d)

\* v4v_validate_channel: guests talk to the host only.
MayTalk(d, dst) == d = Host \/ dst = Host

\* v4v_ring_find_info_by_addr, for a sender d: the rings that match best.
RingsFor(a, d) ==
  LET match(p) == {r \in RingIds : /\ r.dom = a.dom /\ r.port = a.port
                                   /\ r.partner = p /\ info[r].exists}
  IN  IF match(d) # {} THEN match(d) ELSE match(Any)

\* Mutant: an empty ring is not told from a full one.
SpaceInFull(r) ==
  IF mem[r].rx = info[r].tx \/ info[r].len = 0 \/ ~ info[r].paged
  THEN 0 ELSE PayloadSpace(mem[r].rx, info[r].tx, info[r].len)

\* v4v_ringbuf_payload_space
SpaceIn(r) ==
  IF info[r].len = 0 \/ ~ info[r].paged
  THEN 0 ELSE PayloadSpace(mem[r].rx, info[r].tx, info[r].len)

\* Mutant: the entry keeps its length.
RequeueKeep(pending, d, n) ==
  IF \E e \in pending : e.id = d THEN pending ELSE pending \cup {[id |-> d, len |-> n]}

\* v4v_pending_requeue: one entry per domain, for the largest length asked.
Requeue(pending, d, n) ==
  IF \E e \in pending : e.id = d
  THEN {IF e.id = d /\ e.len < n THEN [id |-> d, len |-> n] ELSE e : e \in pending}
  ELSE pending \cup {[id |-> d, len |-> n]}

\* v4v_pending_cancel
CancelFor(pending, d) == {e \in pending : e.id # d}

Start(d, pc, r) == [op EXCEPT ![d] = [Idle EXCEPT !.pc = pc, !.ring = r]]
Return(d) == [op EXCEPT ![d] = Idle]
OwnRings(d) == {r \in RingIds : r.dom = d}

\* Promises p without those about the rings rs.
Without(p, rs) == {w \in p : w.ring \notin rs}

\* The rings rs are given up: their memory is freed, and nothing is owed to
\* their owner or their senders, nor to the domains ds that are gone.
Forget(rs, ds) ==
  /\ mem' = [r \in RingIds |-> IF r \in rs THEN FreshRing ELSE mem[r]]
  /\ scan' = scan \ rs
  /\ dirty' = dirty \ rs
  /\ waiting' = [d \in Domains |-> IF d \in ds THEN {} ELSE Without(waiting[d], rs)]
-----------------------------------------------------------------------------
(* V4VOP_register_ring: v4v_ring_add *)

\* Mutant: the ring is emptied whenever it is registered.
RegisteredTxReset(ring) == RoundUp(ring.rx)

\* The tx_ptr a ring is registered with: its own, unless it looks bogus.
RegisteredTx(ring) == FixTx(ring.rx, ring.tx, RingLen)

\* The owner has a ring to register: a new one, or one the hypervisor no
\* longer has set up (after a suspend, or a registration that failed).  The
\* header is read from the owner's memory, and a bogus tx_ptr in it reset.  A
\* call with fail_exist = 0 may also replace a ring that is set up.
RegisterRead(d, r, force) ==
  /\ Callable(d) /\ r.dom = d /\ MayTalk(d, r.partner)
  /\ r.partner # d /\ r.partner \in Domains /\ v4v[r.partner]
  /\ force => d \in Forced
  /\ LET ring == IF own[r] THEN mem[r] ELSE FreshRing
         tx == RegisteredTx(ring)
     IN  /\ mem' = [mem EXCEPT ![r] = [ring EXCEPT !.tx = tx]]
         /\ op' = [op EXCEPT ![d] = [Idle EXCEPT !.pc = "register", !.ring = r,
                                                 !.tx = tx, !.force = force]]
  /\ own' = [own EXCEPT ![r] = TRUE]
  /\ UNCHANGED <<v4v, awake, info, irq, scan, dirty, waiting>>

\* The ring is found or created under W(L2), which is dropped before L3 is
\* taken.  Nothing can use a ring of length 0 in between: a send only joins its
\* pending list.  By the time L3 of a ring that is set up is taken, a send to
\* it may be under way again.
SettingUp(d) ==
  LET live == info[op[d].ring].len # 0 IN
  /\ op[d].pc = "register"
  /\ live => op[d].force
  /\ live \/ WriteL2(d)

\* Mutant: nobody on the placeholder's pending list is looked at.
RegisterDoneNoCheck(d) ==
  /\ SettingUp(d)
  /\ info' = [info EXCEPT ![op[d].ring].exists = TRUE, ![op[d].ring].tx = op[d].tx,
                          ![op[d].ring].len = RingLen, ![op[d].ring].paged = TRUE]
  /\ op' = Return(d)
  /\ UNCHANGED <<owners, v4v, mem, irq, waiting>>

\* It is set up with the header read before, whatever tx_ptr it had.
RegisterDone(d) ==
  /\ SettingUp(d)
  /\ info' = [info EXCEPT ![op[d].ring].exists = TRUE, ![op[d].ring].tx = op[d].tx,
                          ![op[d].ring].len = RingLen, ![op[d].ring].paged = TRUE]
  /\ op' = [op EXCEPT ![d].pc = "check", ![d].todo = {x \in OwnRings(d) : info'[x].exists}]
  /\ UNCHANGED <<owners, v4v, mem, irq, waiting>>

\* No memory for the ring_info or for the page list, or a page is not there yet
\* (-ERETRY).  What remains is no ring, a ring of length 0, or the ring that was
\* set up, with the new tx_ptr, and without its pages once they were looked at.
RegisterFail(d) ==
  LET r == op[d].ring IN
  /\ SettingUp(d)
  /\ \/ \E paged \in {FALSE, info[r].paged} :
          info' = [info EXCEPT ![r].exists = TRUE, ![r].tx = op[d].tx, ![r].paged = paged]
     \/ MayRunOut /\ ~ info[r].exists /\ UNCHANGED info
  /\ op' = Return(d)
  /\ UNCHANGED <<owners, v4v, mem, irq, waiting>>

\* fail_exist: a ring that is set up is left as it is, -EEXIST.
RegisterExists(d) ==
  /\ op[d].pc = "register" /\ WriteL2(d)
  /\ info[op[d].ring].len # 0 /\ ~ op[d].force
  /\ op' = Return(d)
  /\ UNCHANGED <<owners, v4v, info, mem, irq, waiting>>

(* V4VOP_unregister_ring: v4v_ring_remove.  The pending list goes with the
   ring, and nobody on it is signalled. *)
Unregister(d, r, keep) ==
  /\ Callable(d) /\ r.dom = d /\ info[r].exists /\ WriteL2(d)
  /\ own[r] /\ (keep => Reregister)
  /\ info' = [info EXCEPT ![r] = NoInfo]
  /\ own' = [own EXCEPT ![r] = keep]   \* kept to be registered again
  /\ IF keep THEN UNCHANGED <<mem, scan, dirty, waiting>> ELSE Forget({r}, {})
  /\ UNCHANGED <<v4v, awake, op, irq>>

(* V4VOP_create_ring: v4v_ring_create.  The host makes a placeholder in a
   guest, for a ring the guest has not registered yet. *)
CreateRing(r) ==
  /\ Callable(Host) /\ r.partner \in {Host, Any} /\ r.dom # Host
  /\ v4v[r.dom] /\ WriteL2(r.dom)
  /\ ~ info[r].exists
  /\ info' = [info EXCEPT ![r] = Placeholder]
  /\ UNCHANGED <<owners, v4v, mem, op, irq, waiting>>
-----------------------------------------------------------------------------
(* V4VOP_send, V4VOP_sendv: v4v_send *)

Sendable(d, a) ==
  /\ Callable(d) /\ MayTalk(d, a.dom) /\ v4v[a.dom]

TxAfter(r, n) == Wrap(info[r].tx + MessageSize(n), info[r].len)

\* The message goes into the ring at ring_info's tx_ptr; where the ring's own
\* tx_ptr was elsewhere, it lies among what the ring held.  The lock on the ring
\* is dropped.  (To a ring without its pages every send fails, -EFAULT.)
SendInsert(d, a, n) ==
  /\ Sendable(d, a)
  /\ \E r \in RingsFor(a, d) :
       LET rx == SanitizeRx(mem[r].rx, info[r].len)
           tx == TxAfter(r, n)
           torn == mem[r].torn \/ info[r].tx # mem[r].tx
       IN  /\ info[r].len # 0 /\ info[r].paged
           /\ ~ TooLong(n, info[r].len)
           /\ ~ NoRoom(n, rx, info[r].tx, info[r].len)
           /\ info' = [info EXCEPT ![r].tx = tx]
           /\ mem' = [mem EXCEPT ![r].tx = tx, ![r].torn = torn,
                                 ![r].q = IF torn THEN <<>> ELSE Append(@, n)]
           /\ op' = Start(d, "sent", r)
  /\ UNCHANGED <<owners, v4v, irq, waiting>>

\* ... and the receiver is signalled.
SendSignal(d) ==
  /\ op[d].pc = "sent"
  /\ irq' = [irq EXCEPT ![op[d].ring.dom] = TRUE]
  /\ op' = Return(d)
  /\ UNCHANGED <<owners, v4v, info, mem, waiting>>

\* -EAGAIN: the message does not fit now, or the ring is a placeholder, for
\* which a length of 0 is queued.
SendAgain(d, a, n) ==
  /\ Sendable(d, a)
  /\ \E r \in RingsFor(a, d) :
       LET want == IF info[r].len = 0 THEN 0 ELSE n IN
       /\ info[r].len # 0 =>
            /\ info[r].paged /\ ~ TooLong(n, info[r].len)
            /\ NoRoom(n, SanitizeRx(mem[r].rx, info[r].len), info[r].tx, info[r].len)
       /\ info' = [info EXCEPT ![r].pending = Requeue(@, d, want)]
       /\ waiting' = [waiting EXCEPT ![d] = @ \cup {[ring |-> r, n |-> want]}]
  /\ UNCHANGED <<owners, v4v, mem, op, irq>>

\* -ECONNREFUSED: the domain has no such ring, and is signalled all the same.
SendRefused(d, a) ==
  /\ Sendable(d, a) /\ RingsFor(a, d) = {}
  /\ irq' = [irq EXCEPT ![a.dom] = TRUE]
  /\ UNCHANGED <<hyper, owners, mem, waiting>>
-----------------------------------------------------------------------------
(* V4VOP_notify: v4v_notify.  First v4v_notify_check_pending, also the end of
   a registration: every ring of the domain is looked at ... *)

Asks(d) == {[addr |-> a, want |-> n] : a \in {x \in Addrs : MayTalk(d, x.dom)}, n \in Wants}

\* Mutant: a notify that does not go through the domain's rings.
NotifyCallNoCheck(d, asks) ==
  /\ Callable(d)
  /\ op' = [op EXCEPT ![d] = [Idle EXCEPT !.pc = "check", !.asks = asks]]
  /\ dirty' = dirty \ OwnRings(d)
  /\ UNCHANGED <<v4v, awake, info, mem, own, irq, scan, waiting>>

NotifyCall(d, asks) ==
  /\ Callable(d)
  /\ op' = [op EXCEPT ![d] = [Idle EXCEPT !.pc = "check", !.asks = asks,
                              !.todo = {r \in OwnRings(d) : info[r].exists}]]
  /\ dirty' = dirty \ OwnRings(d)
  /\ UNCHANGED <<v4v, awake, info, mem, own, irq, scan, waiting>>

\* v4v_notify_ring reads the space under the ring's lock and drops it;
NotifySpace(d, r) ==
  /\ op[d].pc = "check" /\ r \in op[d].todo
  /\ op' = [op EXCEPT ![d].todo = @ \ {r},
                      ![d].pc = IF SpaceIn(r) = 0 THEN "check" ELSE "find",
                      ![d].ring = r, ![d].space = SpaceIn(r)]
  /\ UNCHANGED <<owners, v4v, info, mem, irq, waiting>>

\* v4v_pending_find takes it again, to collect those for whom it is enough.
NotifyFind(d) ==
  LET r == op[d].ring
      fit == {e \in info[r].pending : e.len <= op[d].space}
  IN  /\ op[d].pc = "find"
      /\ info' = [info EXCEPT ![r].pending = @ \ fit]
      /\ op' = [op EXCEPT ![d].pc = "check",
                          ![d].notify = @ \cup {[ring |-> r, id |-> e.id] : e \in fit}]
      /\ UNCHANGED <<owners, v4v, mem, irq, waiting>>

\* ... and, with R(L2) dropped, the domains collected are signalled.
NotifySignal(d) ==
  /\ op[d].pc = "check" /\ op[d].todo = {}
  /\ \E x \in op[d].notify :
       /\ op' = [op EXCEPT ![d].notify = @ \ {x}]
       /\ irq' = [irq EXCEPT ![x.id] = @ \/ v4v[x.id]]
       /\ waiting' = [waiting EXCEPT ![x.id] = Without(@, {x.ring})]
  /\ UNCHANGED <<owners, v4v, info, mem>>

NotifyChecked(d) ==
  /\ op[d].pc = "check" /\ op[d].todo = {} /\ op[d].notify = {}
  /\ op' = [op EXCEPT ![d] = [Idle EXCEPT
              !.asks = op[d].asks, !.pc = IF op[d].asks = <<>> THEN "idle" ELSE "fill"]]
  /\ UNCHANGED <<owners, v4v, info, mem, irq, waiting>>

(* Then v4v_fill_ring_datas: each entry asks whether a ring has room. *)

\* Whether the answer about ring r is V4V_RING_DATA_F_SUFFICIENT; if it is not,
\* it is V4V_RING_DATA_F_PENDING.
Sufficient(r, want) == SpaceIn(r) >= want

FillNext(d) ==
  op' = IF Len(op[d].asks) = 1 THEN Return(d) ELSE [op EXCEPT ![d].asks = Tail(@)]

FillRings(d) == RingsFor(Head(op[d].asks).addr, d)

FillSufficient(d) ==
  /\ op[d].pc = "fill"
  /\ \E r \in FillRings(d) :
       /\ Sufficient(r, Head(op[d].asks).want)
       /\ info' = [info EXCEPT ![r].pending = CancelFor(@, d)]
       /\ waiting' = [waiting EXCEPT ![d] = Without(@, {r})]
  /\ FillNext(d)
  /\ UNCHANGED <<owners, v4v, mem, irq>>

\* The result of v4v_pending_requeue is not looked at: the answer is PENDING
\* even where no entry could be allocated.
FillPending(d) ==
  /\ op[d].pc = "fill"
  /\ \E r \in FillRings(d) :
       LET want == Head(op[d].asks).want IN
       /\ ~ Sufficient(r, want)
       /\ \/ info' = [info EXCEPT ![r].pending = Requeue(@, d, want)]
          \/ /\ MayRunOut /\ \A e \in info[r].pending : e.id # d
             /\ UNCHANGED info
       /\ waiting' = [waiting EXCEPT ![d] = @ \cup {[ring |-> r, n |-> want]}]
  /\ FillNext(d)
  /\ UNCHANGED <<owners, v4v, mem, irq>>

FillNoRing(d) ==
  /\ op[d].pc = "fill" /\ FillRings(d) = {}
  /\ FillNext(d)
  /\ UNCHANGED <<owners, v4v, info, mem, irq, waiting>>
-----------------------------------------------------------------------------
(* What a domain does with its rings: on an interrupt it goes through all of
   them, takes the messages out (v4v_copy_out), and then notifies. *)

TakeInterrupt(d) ==
  /\ awake[d] /\ irq[d]
  /\ irq' = [irq EXCEPT ![d] = FALSE]
  /\ scan' = scan \cup {r \in OwnRings(d) : own[r]}
  /\ UNCHANGED <<hyper, awake, mem, own, dirty, waiting>>

\* v4v_ring_bytes_to_read
Unread(r) == BytesToRead(mem[r].rx, mem[r].tx, RingLen)

Receive(r) ==
  /\ awake[r.dom] /\ r \in scan /\ Unread(r) # 0 /\ ~ mem[r].torn
  /\ mem' = [mem EXCEPT ![r].rx = Wrap(@ + MessageSize(Head(mem[r].q)), RingLen),
                        ![r].q = Tail(@)]
  /\ dirty' = dirty \cup {r}
  /\ UNCHANGED <<hyper, awake, own, irq, scan, waiting>>

\* What is taken for a header in a torn ring has some length that is in the
\* ring; a ring read to its end is an empty one.
ReceiveTorn(r) ==
  /\ awake[r.dom] /\ r \in scan /\ Unread(r) # 0 /\ mem[r].torn
  /\ \E k \in 1..(Unread(r) \div HeaderSize) :
       mem' = [mem EXCEPT ![r].rx = Wrap(@ + k * HeaderSize, RingLen),
                          ![r].torn = k * HeaderSize # Unread(r)]
  /\ dirty' = dirty \cup {r}
  /\ UNCHANGED <<hyper, awake, own, irq, scan, waiting>>

\* gh_v4v_recover_ring: it has a length that is not.  No notify follows.
RecoverRing(r) ==
  /\ awake[r.dom] /\ r \in scan /\ Unread(r) # 0 /\ mem[r].torn
  /\ mem' = [mem EXCEPT ![r].rx = mem[r].tx, ![r].torn = FALSE]
  /\ UNCHANGED <<hyper, owners, irq, waiting>>

ScanEnd(r) ==
  /\ awake[r.dom] /\ r \in scan /\ Unread(r) = 0
  /\ scan' = scan \ {r}
  /\ UNCHANGED <<hyper, awake, mem, own, irq, dirty, waiting>>
-----------------------------------------------------------------------------
(* The life of a domain.  These take W(L1). *)

\* v4v_shutdown_for_suspend: the rings become placeholders, and keep their
\* pending lists; the domain keeps its memory.
Suspend(d) ==
  /\ d \in Mortal /\ v4v[d] /\ awake[d] /\ WriteL1
  /\ awake' = [awake EXCEPT ![d] = FALSE]
  /\ info' = [r \in RingIds |-> IF r.dom = d THEN [info[r] EXCEPT !.len = 0, !.tx = 0, !.paged = FALSE]
                                             ELSE info[r]]
  /\ irq' = [irq EXCEPT ![d] = FALSE]
  /\ UNCHANGED <<v4v, mem, own, op, scan, dirty, waiting>>

\* Mutant: the domain is not signalled.
ResumeSilent(d) ==
  /\ v4v[d] /\ ~ awake[d]
  /\ awake' = [awake EXCEPT ![d] = TRUE]
  /\ UNCHANGED <<hyper, mem, own, irq, scan, dirty, waiting>>

\* v4v_resume
Resume(d) ==
  /\ v4v[d] /\ ~ awake[d]
  /\ awake' = [awake EXCEPT ![d] = TRUE]
  /\ irq' = [irq EXCEPT ![d] = TRUE]
  /\ UNCHANGED <<hyper, mem, own, scan, dirty, waiting>>

\* v4v_destroy.  Entries of the domain on the rings of others stay.
Destroy(d) ==
  /\ d \in Mortal /\ v4v[d] /\ WriteL1
  /\ v4v' = [v4v EXCEPT ![d] = FALSE]
  /\ awake' = [awake EXCEPT ![d] = FALSE]
  /\ info' = [r \in RingIds |-> IF r.dom = d THEN NoInfo ELSE info[r]]
  /\ own' = [r \in RingIds |-> own[r] /\ r.dom # d]
  /\ irq' = [irq EXCEPT ![d] = FALSE]
  /\ Forget(OwnRings(d), {d})
  /\ UNCHANGED op

\* v4v_init, for a new domain with the same id.
InitDomain(d) ==
  /\ ~ v4v[d] /\ WriteL1
  /\ v4v' = [v4v EXCEPT ![d] = TRUE]
  /\ awake' = [awake EXCEPT ![d] = TRUE]
  /\ UNCHANGED <<info, mem, own, op, irq, scan, dirty, waiting>>

Step(d) ==
  \/ RegisterDone(d) \/ RegisterFail(d) \/ RegisterExists(d)
  \/ SendSignal(d)
  \/ (\E r \in RingIds : NotifySpace(d, r))
  \/ NotifyFind(d) \/ NotifySignal(d) \/ NotifyChecked(d)
  \/ FillSufficient(d) \/ FillPending(d) \/ FillNoRing(d)

Call(d) ==
  \/ \E r \in RingIds, b \in BOOLEAN : RegisterRead(d, r, b) \/ Unregister(d, r, b)
  \/ \E a \in Addrs, n \in Sizes : SendInsert(d, a, n) \/ SendAgain(d, a, n)
  \/ \E a \in Addrs : SendRefused(d, a)
  \/ \E asks \in {<<>>} \cup {<<x>> : x \in Asks(d)} : NotifyCall(d, asks)

Next ==
  \/ \E d \in Domains : Step(d) \/ Call(d) \/ TakeInterrupt(d)
                          \/ Suspend(d) \/ Resume(d) \/ Destroy(d) \/ InitDomain(d)
  \/ \E r \in RingIds : CreateRing(r) \/ Receive(r) \/ ReceiveTorn(r) \/ RecoverRing(r)
                          \/ ScanEnd(r)

Spec == Init /\ [][Next]_vars

(* Fairness.  A hypercall runs to its end, and an interrupt is taken.  The
   driver of a domain empties the rings an interrupt announces, notifies after
   it has read, registers again the rings a suspend took away, and in the end
   gets the domain_lock for it: others of the domain may have it often, but not
   always.  A registration is not turned away for lack of memory for ever, and a
   domain suspended again and again runs its driver in between. *)

DueNotify(d) == dirty \cap OwnRings(d) # {} /\ NotifyCall(d, <<>>)
DueRegister(r) == own[r] /\ info[r].len = 0 /\ RegisterRead(r.dom, r, FALSE)

Fairness ==
  /\ \A d \in Domains : /\ WF_vars(Step(d)) /\ SF_vars(RegisterDone(d))
                        /\ SF_vars(TakeInterrupt(d)) /\ WF_vars(Resume(d))
                        /\ SF_vars(DueNotify(d))
  /\ \A r \in RingIds : SF_vars(Receive(r)) /\ SF_vars(DueRegister(r))

FairSpec == Spec /\ Fairness

-----------------------------------------------------------------------------
(* Properties *)

Live(r) == info[r].len # 0

Occupied(q) ==
  LET sum[i \in 0..Len(q)] == IF i = 0 THEN 0 ELSE sum[i - 1] + MessageSize(q[i])
  IN  sum[Len(q)]

\* A registration by force of ring r, which is set up, ends with this step.
ForceEnds(r) ==
  LET o == op[r.dom] IN
  Live(r) /\ o.pc = "register" /\ o.ring = r /\ o.force /\ op'[r.dom] # o

\* The hypervisor's own tx_ptr is the one in the owner's memory, and what lies
\* between the pointers is the ring's messages.
Whole(r) ==
  /\ Live(r) => info[r].tx = mem[r].tx
  /\ own[r] => ~ mem[r].torn /\ Unread(r) = Occupied(mem[r].q)

\* No registration, suspend or resume loses, repeats or tears what a ring holds:
\* every ring is whole from the start, and stays so.  The one exception, against
\* v4v.h ("registration will not change tx_ptr unless it is invalid"): with
\* fail_exist = 0 a ring that is set up gets the tx_ptr read before L3 was
\* taken, which a send has moved on meanwhile.
ContentsKept ==
  /\ \A r \in RingIds : Whole(r)
  /\ [][\A r \in RingIds : Whole(r) =>
           Whole(r)' \/ (ForceEnds(r) /\ op[r.dom].tx # info[r].tx)]_vars

\* No interrupt is lost: a running domain with a message in a ring has an
\* interrupt coming, is going through that ring, or is about to be signalled
\* by the v4v_send that put it there.
MessageAnnounced ==
  \A r \in RingIds :
    own[r] /\ awake[r.dom] /\ Unread(r) # 0 =>
      irq[r.dom] \/ r \in scan \/ \E d \in Domains : op[d].pc = "sent" /\ op[d].ring = r

\* Every entry for which ring r has room is found by the pass its owner is
\* making, or the owner has consumed from the ring and a notify is due.
Tended(r) ==
  \A e \in info[r].pending :
    Live(r) /\ SpaceIn(r) > 0 /\ e.len <= SpaceIn(r) =>
      LET o == op[r.dom] IN
      \/ r \in dirty
      \/ o.pc \in {"check", "find"} /\ r \in o.todo
      \/ o.pc = "find" /\ o.ring = r /\ e.len <= o.space

\* v4v_notify_check_pending misses nobody: all rings are tended from the start,
\* and stay so.  The two exceptions: a registration by force of a ring that is
\* set up changes its tx_ptr, fails, and does not look at the pending list; and
\* no notify follows the recovery of a ring that such a registration has torn.
NoLostWakeup ==
  /\ \A r \in RingIds : Tended(r)
  /\ [][\A r \in RingIds : Tended(r) =>
           \/ Tended(r)'
           \/ ForceEnds(r) /\ op'[r.dom].pc = "idle"
           \/ mem[r].torn /\ mem'[r].rx = mem[r].tx]_vars

\* A domain that was told to wait for room in a ring (-EAGAIN, or the flag
\* V4V_RING_DATA_F_PENDING) is on the ring's pending list until it is
\* signalled, whatever happens to the ring short of its removal.
WaiterListed ==
  \A d \in Domains : \A w \in waiting[d] :
    \/ \E e \in info[w.ring].pending : e.id = d /\ e.len >= w.n
    \/ \E o \in Domains : [ring |-> w.ring, id |-> d] \in op[o].notify

\* A domain told to wait for room in a ring, for a length the ring can hold, is
\* signalled in the end, unless the owner gives up the ring, or the domain does
\* get a message in meanwhile.
WaiterSignalled ==
  \A d \in Domains, r \in RingIds :
    LET waits == \E w \in waiting[d] : w.ring = r /\ w.n <= MaxMessageSize(RingLen) IN
    waits /\ own[r] ~> ~ waits \/ ~ own[r] \/ (op[d].pc = "sent" /\ op[d].ring = r)

\* v4v_fill_ring_data and v4v_ringbuf_insert compute the room in a ring in two
\* ways, and agree: for any length but 0 that the ring can hold at all, the
\* answer is SUFFICIENT exactly when a send of that length goes in, which it
\* does not where the ring has lost its pages.
SufficientMeansSendable ==
  \A r \in RingIds, n \in Sizes \ {0} :
    Live(r) /\ ~ TooLong(n, info[r].len) =>
      (Sufficient(r, n) <=>
         /\ info[r].paged
         /\ ~ NoRoom(n, SanitizeRx(mem[r].rx, info[r].len), info[r].tx, info[r].len))
=============================================================================
