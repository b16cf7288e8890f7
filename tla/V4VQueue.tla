------------------------------ MODULE V4VQueue ------------------------------
(***************************************************************************)
(* Queued reads and writes in the Windows driver (windows/uxenv4vlib):     *)
(* gh_rw.c, the cancel-safe queue of gh_csq.c, the contexts of open files  *)
(* in gh_create.c and the interrupt thread of gh_xenv4v.c.                 *)
(*                                                                         *)
(* An IRP waits in pending_irp_queue until a thread takes it off, tries    *)
(* it, and completes it or puts it back.  Three kinds of thread do so: a   *)
(* caller in its own read or write, a caller of notify (an ioctl, another  *)
(* driver, or a read that consumed something), and the interrupt thread.   *)
(* Each holding of queue_lock, of context_lock and each hypercall is one   *)
(* step; rlock is the lock in a file's ring object.                        *)
(*                                                                         *)
(* The other end of each destination is kept as the hypervisor sees it:    *)
(* the room in the ring and this domain's one entry on the pending list.   *)
(***************************************************************************)
EXTENDS Integers, Sequences, FiniteSets

CONSTANTS Files,       \* open files, each bound to a ring of its own
          Dests,       \* addresses written to
          Writes, Reads,          \* IRPs
          FileOf,                 \* of each IRP
          DestOf, LenOf,          \* of each write
          IgnoreDLO,   \* writes with V4V_DATAGRAM_FLAG_IGNORE_DLO
          Virq, Callers,          \* the interrupt thread, the callers'
          None,
          Capacity,    \* the largest ring of a destination
          MaxCount,    \* XENV4V_MAX_IRP_COUNT
          MaxIssued,   \* bound: IRPs issued, of those above
          MayFail,     \* whether allocations and hypercalls may fail
          MaxEvents    \* bound: messages that arrive, failures, and calls of notify by
                       \* a client

Irps == Writes \cup Reads
Threads == Callers \cup {Virq}

ASSUME ConstantsAssumption ==
  /\ Writes \cap Reads = {} /\ Virq \notin Callers
  /\ FileOf \in [Irps -> Files] /\ DestOf \in [Writes -> Dests]
  /\ LenOf \in [Writes -> Nat \ {0}] /\ IgnoreDLO \subseteq Writes
  /\ \A n \in {Capacity, MaxCount, MaxIssued, MaxEvents} : n \in Nat
  /\ MayFail \in BOOLEAN
  /\ None \notin Irps \cup Files \cup Threads
  /\ None \notin [dst : Dests, exists : BOOLEAN, sufficient : BOOLEAN]

VARIABLES queue,    \* pending_irp_queue, its head first
          dest,     \* dest_list: refc, the chain of IRPs, nextLength
          ctx,      \* xenv4v_context_t of each file
          rlock,    \* the holder of each file's ring lock
          inbox,    \* unread messages in each file's ring
          event,    \* receive_event
          virq,     \* virq_event
          hv,       \* the destinations' rings in the hypervisor
          irp,      \* how far each IRP is
          sent,     \* how often each write has been put into a ring
          th,       \* the call each thread is in
          events,   \* how many messages, failures and notifies there have been
          skipped,  \* the interrupt thread's last pass got no list of contexts
          unwatched   \* writes that have lost their wake-up in a known way

vars == <<queue, dest, ctx, rlock, inbox, event, virq, hv, irp, sent, th,
          events, skipped, unwatched>>
csq == <<queue, dest>>
calls == <<events, skipped, unwatched>>

\* One of the events that MaxEvents bounds.
Happens == events < MaxEvents /\ events' = events + 1
Fails == MayFail /\ Happens

NoEntry == -1    \* no entry of this domain on a pending list
NoDest == [refc |-> 0, chain |-> <<>>, nextLength |-> 0]
NoCall == [pc |-> "idle", irp |-> None, file |-> None, ents |-> {}, ent |-> None,
           first |-> TRUE, byFile |-> FALSE, back |-> <<>>, notify |-> FALSE,
           sure |-> TRUE, ctxs |-> {}, todo |-> {}, dying |-> {}]

Init ==
  /\ queue = <<>>
  /\ dest = [d \in Dests |-> NoDest]
  \* a bound file, whose ring may be mapped into the client
  /\ ctx \in [Files -> {[state |-> "bound", refc |-> 2, listed |-> TRUE, freed |-> FALSE,
                         mapped |-> m] : m \in BOOLEAN}]
  /\ rlock = [f \in Files |-> None]
  /\ inbox = [f \in Files |-> 0]
  /\ event = [f \in Files |-> FALSE]
  /\ virq = FALSE
  \* a ring that is there is full of another domain's message
  /\ hv \in [Dests -> {[ring |-> "none", size |-> 0, q |-> <<>>, room |-> 0,
                         pend |-> NoEntry, owed |-> FALSE],
                        [ring |-> "up", size |-> Capacity, q |-> <<Capacity>>, room |-> 0,
                         pend |-> NoEntry, owed |-> FALSE]}]
  /\ irp = [i \in Irps |-> "new"]
  /\ sent = [w \in Writes |-> 0]
  /\ th = [t \in Threads |-> NoCall]
  /\ events = 0
  /\ skipped = FALSE /\ unwatched = {}
-----------------------------------------------------------------------------
(* gh_csq.c.  The queue's operations are given as the new values of queue and
   dest; each is one holding of queue_lock. *)

\* The list s without its entry i.
Without(s, i) ==
  LET k == CHOOSE k \in DOMAIN s : s[k] = i
  IN  SubSeq(s, 1, k - 1) \o SubSeq(s, k + 1, Len(s))

Queued == {queue[k] : k \in DOMAIN queue}

\* gh_v4v_csq_link_destination, gh_v4v_csq_chain_irp: at the end of the chain.
Link(w) ==
  LET d == DestOf[w] IN
  [dest EXCEPT ![d] = IF @.refc = 0
                      THEN [refc |-> 1, chain |-> <<w>>, nextLength |-> LenOf[w]]
                      ELSE [refc |-> @.refc + 1, chain |-> Append(@.chain, w),
                            nextLength |-> @.nextLength]]

\* Mutant: the next length stays that of a write that has gone.
UnlinkStale(w) ==
  [dest EXCEPT ![DestOf[w]] = IF @.refc = 1 THEN NoDest
                              ELSE [refc |-> @.refc - 1, chain |-> Without(@.chain, w),
                                    nextLength |-> @.nextLength]]

\* gh_v4v_csq_unlink_destination, gh_v4v_csq_unchain_irp
Unlink(w) ==
  LET d == DestOf[w]
      rest == Without(dest[d].chain, w)
  IN  [dest EXCEPT ![d] = IF @.refc = 1 THEN NoDest
                          ELSE [refc |-> @.refc - 1, chain |-> rest,
                                nextLength |-> IF @.chain[1] = w THEN LenOf[rest[1]]
                                               ELSE @.nextLength]]

\* gh_v4v_csq_insert_irp_ex puts the IRP at the head of the queue.
Insert(i) ==
  /\ Len(queue) < MaxCount
  /\ queue' = <<i>> \o queue
  /\ dest' = IF i \in Writes THEN Link(i) ELSE dest
  /\ irp' = [irp EXCEPT ![i] = "busy"]
  /\ UNCHANGED events

\* Mutant: an IRP that is refused is not completed.
InsertFailsLost(i) ==
  /\ \/ Len(queue) = MaxCount /\ UNCHANGED events
     \/ i \in Writes /\ Fails
  /\ irp' = [irp EXCEPT ![i] = "busy"]
  /\ UNCHANGED <<queue, dest>>

\* The quota is used up, or there is no memory for the destination: the caller
\* completes the IRP.
InsertFails(i) ==
  /\ \/ Len(queue) = MaxCount /\ UNCHANGED events
     \/ i \in Writes /\ Fails
  /\ irp' = [irp EXCEPT ![i] = "failed"]
  /\ UNCHANGED <<queue, dest>>

\* gh_v4v_csq_remove_irp
Remove(i) ==
  /\ queue' = Without(queue, i)
  /\ dest' = IF i \in Writes THEN Unlink(i) ELSE dest

\* gh_v4v_csq_peek_next_irp: the first in the queue among set, or None.
Peek(set) ==
  LET hits == {k \in DOMAIN queue : queue[k] \in set}
  IN  IF hits = {} THEN None
      ELSE queue[CHOOSE k \in hits : \A j \in hits : k <= j]

WritesOf(f) == {w \in Writes : FileOf[w] = f}
ReadsOf(f) == {r \in Reads : FileOf[r] = f}
WritesTo(d) == {w \in Writes : DestOf[w] = d}
-----------------------------------------------------------------------------
(* The hypervisor: v4v_send and v4v_notify as this domain meets them *)

Requeue(pend, n) == IF pend < n THEN n ELSE pend

Fits(d, n) == hv[d].ring = "up" /\ n <= hv[d].room
TooLong(d, n) == hv[d].ring = "up" /\ n > hv[d].size

\* v4v_fill_ring_data about destination d, in which n bytes are to go.
Answer(d, n) == [dst |-> d, exists |-> hv[d].ring # "none", sufficient |-> Fits(d, n)]

\* The entry after the question: cancelled, set or raised.  There may be no
\* memory for a new one, which the answer does not show.
EntryAfter(d, n, nomem) ==
  IF hv[d].ring = "none" \/ (nomem /\ hv[d].pend = NoEntry /\ ~ Fits(d, n))
  THEN hv[d].pend
  ELSE IF Fits(d, n) THEN NoEntry ELSE Requeue(hv[d].pend, n)

\* The receiver reads a message, and notifies some time later: then the
\* entry, if there is room enough for it, becomes an interrupt.
PeerReads(d) ==
  /\ hv[d].q # <<>>
  /\ hv' = [hv EXCEPT ![d].room = @ + Head(hv[d].q), ![d].q = Tail(@), ![d].owed = TRUE]
  /\ UNCHANGED <<csq, ctx, rlock, inbox, event, virq, irp, sent, th, calls>>

PeerNotifies(d) ==
  /\ hv[d].owed
  /\ LET wake == hv[d].pend # NoEntry /\ hv[d].pend <= hv[d].room
     IN  /\ virq' = (virq \/ wake)
         /\ hv' = [hv EXCEPT ![d].owed = FALSE, ![d].pend = IF wake THEN NoEntry ELSE @]
  /\ UNCHANGED <<csq, ctx, rlock, inbox, event, irp, sent, th, calls>>

\* The receiver registers a ring of some size; v4v_ring_add ends with the same check.
PeerRegisters(d) ==
  /\ hv[d].ring # "up"
  /\ \E n \in 1 .. Capacity :
       LET wake == hv[d].pend # NoEntry /\ hv[d].pend <= n
       IN  /\ virq' = (virq \/ wake)
           /\ hv' = [hv EXCEPT ![d].ring = "up", ![d].size = n, ![d].room = n,
                               ![d].pend = IF wake THEN NoEntry ELSE @]
  /\ UNCHANGED <<csq, ctx, rlock, inbox, event, irp, sent, th, calls>>

\* A message arrives in a file's ring, with an interrupt: gh_signaled.
MessageArrives(f) ==
  /\ ctx[f].state = "bound" /\ Happens
  /\ inbox' = [inbox EXCEPT ![f] = @ + 1]
  /\ virq' = TRUE
  /\ UNCHANGED <<csq, ctx, rlock, event, hv, irp, sent, th, skipped, unwatched>>
-----------------------------------------------------------------------------
(* Writes.  A thread is in process_context_writes (byFile) or in
   process_destination_writes, for the entry ent of the notify it makes. *)

\* The IRPs thread t has taken off the queue.
Held(t) == ({th[t].irp} \cup {th[t].back[k] : k \in DOMAIN th[t].back}) \ {None}

\* An IRP that may be issued, on a bound file; MaxIssued bounds how many there
\* are that the queue has room for.  The client of a mapped ring does not read
\* through the driver, and its writes, which do not depend on the mapping, are
\* left out.
Issuable(i) ==
  /\ irp[i] = "new" /\ ctx[FileOf[i]].state = "bound" /\ ~ ctx[FileOf[i]].mapped
  /\ \/ Cardinality({j \in Irps : irp[j] \notin {"new", "failed"}}) < MaxIssued
     \/ Len(queue) = MaxCount

Goto(t, pc) == [th EXCEPT ![t].pc = pc]
Free(f, t) == [g \in Files |-> IF g = f /\ rlock[g] = t THEN None ELSE rlock[g]]

\* gh_v4v_dispatch_write on a bound file.
DispatchWrite(t, w) ==
  /\ t \in Callers /\ th[t].pc = "idle"
  /\ Issuable(w)
  /\ \/ /\ Insert(w)
        /\ th' = [th EXCEPT ![t] = [NoCall EXCEPT !.pc = "lock", !.file = FileOf[w],
                                                 !.byFile = TRUE]]
     \/ InsertFails(w) /\ UNCHANGED th
  /\ UNCHANGED <<ctx, rlock, inbox, event, virq, hv, sent, skipped, unwatched>>

\* Write w comes off the queue, in the call c, or there is none.
Pop(t, w, c) ==
  /\ IF w = None
     THEN /\ th' = [th EXCEPT ![t] = [c EXCEPT !.pc = "requeue"]]
          /\ rlock' = Free(c.file, t)
          /\ UNCHANGED csq
     ELSE /\ Remove(w)
          /\ th' = [th EXCEPT ![t] = [c EXCEPT !.irp = w, !.file = FileOf[w],
                                               !.pc = IF c.byFile THEN "send" ELSE "lock"]]
          /\ UNCHANGED rlock
  /\ UNCHANGED <<ctx, inbox, event, virq, hv, irp, sent, calls>>

\* IoCsqRemoveNextIrp, by file with the ring's lock held, or by destination,
\* for the next entry of the hypercall's answer.
PopWrite(t) ==
  LET c == th[t] IN
  \/ /\ c.pc = "pop"
     /\ Pop(t, Peek(IF c.byFile THEN WritesOf(c.file) ELSE WritesTo(c.ent.dst)), c)
  \/ /\ c.pc = "dests"
     /\ \E e \in c.ents : Pop(t, Peek(WritesTo(e.dst)), [c EXCEPT !.ents = @ \ {e}, !.ent = e])

\* The first write for a destination is tried only if the length asked about
\* fits, or if there is no such ring.
LockRing(t) ==
  LET c == th[t]
      try == c.byFile \/ ~ c.first \/ ~ c.ent.exists \/ c.ent.sufficient
  IN  /\ c.pc = "lock" /\ rlock[c.file] = None
      /\ IF try
         THEN /\ rlock' = [rlock EXCEPT ![c.file] = t]
              /\ th' = Goto(t, IF c.byFile THEN "pop" ELSE "send")
         ELSE /\ th' = [th EXCEPT ![t].pc = "requeue", ![t].irp = None, ![t].back = <<c.irp>>]
              /\ UNCHANGED rlock
      /\ UNCHANGED <<csq, ctx, inbox, event, virq, hv, irp, sent, calls>>

\* Mutant: process_context_writes leaves a retry to the hypervisor's interrupt,
\* as process_destination_writes does.
RetryQuiet(t) ==
  /\ th' = [th EXCEPT ![t].irp = None, ![t].back = Append(@, th[t].irp),
                      ![t].pc = IF th[t].byFile THEN "pop" ELSE "requeue"]
  /\ rlock' = IF th[t].byFile THEN rlock ELSE Free(th[t].file, t)
  /\ UNCHANGED <<irp, sent>>

\* What the two loops do with the status of gh_v4v_do_write.
Retry(t) ==
  /\ th' = [th EXCEPT ![t].irp = None, ![t].back = Append(@, th[t].irp),
                      ![t].notify = @ \/ th[t].byFile,
                      ![t].pc = IF th[t].byFile THEN "pop" ELSE "requeue"]
  /\ rlock' = IF th[t].byFile THEN rlock ELSE Free(th[t].file, t)
  /\ UNCHANGED <<irp, sent>>

NoMemory(t) ==
  /\ th' = [th EXCEPT ![t].irp = None, ![t].back = Append(@, th[t].irp),
                      ![t].notify = TRUE, ![t].pc = "requeue"]
  /\ rlock' = Free(th[t].file, t)
  /\ UNCHANGED <<irp, sent>>

Complete(t, status) ==
  /\ irp' = [irp EXCEPT ![th[t].irp] = status]
  /\ th' = [th EXCEPT ![t].irp = None, ![t].pc = "pop",
                      ![t].first = @ /\ status # "ok"]
  /\ rlock' = IF th[t].byFile THEN rlock ELSE Free(th[t].file, t)

\* gh_v4v_do_write: the send, and its second try after a placeholder ring has
\* been created for a destination that has none.
DoWrite(t) ==
  LET w == th[t].irp
      d == DestOf[w]
      n == LenOf[w]
      want == IF hv[d].ring = "up" THEN n ELSE 0
      again == hv[d].ring # "none" /\ ~ Fits(d, n) /\ ~ TooLong(d, n)
  IN  /\ th[t].pc \in {"send", "resend"}
      /\ \/ /\ Fits(d, n)
            /\ hv' = [hv EXCEPT ![d].room = @ - n, ![d].q = Append(@, n)]
            /\ sent' = [sent EXCEPT ![w] = @ + 1]
            /\ Complete(t, "ok") /\ UNCHANGED events
         \/ /\ again
            /\ hv' = [hv EXCEPT ![d].pend = Requeue(@, want)]
            /\ Retry(t) /\ UNCHANGED events
         \/ /\ again /\ hv[d].pend = NoEntry /\ Fails
            /\ NoMemory(t) /\ UNCHANGED hv
         \/ /\ hv[d].ring = "none" /\ th[t].pc = "send" /\ w \notin IgnoreDLO
            /\ th' = Goto(t, "create")
            /\ UNCHANGED <<hv, irp, sent, rlock, events>>
         \/ /\ \/ TooLong(d, n)
               \/ hv[d].ring = "none" /\ (th[t].pc = "resend" \/ w \in IgnoreDLO)
            /\ Complete(t, "failed") /\ UNCHANGED <<hv, sent, events>>
      /\ UNCHANGED <<csq, ctx, inbox, event, virq, skipped, unwatched>>

\* gh_v4v_create_ring
CreateRing(t) ==
  LET d == DestOf[th[t].irp] IN
  /\ th[t].pc = "create"
  /\ \/ /\ hv' = [hv EXCEPT ![d].ring = IF @ = "none" THEN "placeholder" ELSE @]
        /\ th' = Goto(t, "resend")
        /\ UNCHANGED <<irp, rlock, events>>
     \/ /\ Fails
        /\ Complete(t, "failed") /\ UNCHANGED hv
  /\ UNCHANGED <<csq, ctx, inbox, event, virq, sent, skipped, unwatched>>

\* gh_v4v_requeue_irps, one IRP at a time.
RequeueIrp(t) ==
  LET c == th[t] IN
  /\ c.pc = "requeue" /\ c.back # <<>>
  /\ \/ /\ Insert(Head(c.back))
        /\ unwatched' = IF c.byFile \/ c.notify \/ c.sure THEN unwatched
                        ELSE unwatched \cup {Head(c.back)}
     \/ InsertFails(Head(c.back)) /\ UNCHANGED unwatched
  /\ th' = [th EXCEPT ![t].back = Tail(@)]
  /\ UNCHANGED <<ctx, rlock, inbox, event, virq, hv, sent, skipped>>

\* ... and the event, if a write has to be tried again without an interrupt.
RequeueDone(t) ==
  LET c == th[t] IN
  /\ c.pc = "requeue" /\ c.back = <<>>
  /\ virq' = (virq \/ c.notify)
  /\ th' = [th EXCEPT ![t] = IF c.byFile \/ c.ents = {} THEN NoCall
                             ELSE [NoCall EXCEPT !.pc = "dests", !.ents = c.ents, !.sure = c.sure]]
  /\ UNCHANGED <<csq, ctx, rlock, inbox, event, hv, irp, sent, calls>>
-----------------------------------------------------------------------------
(* gh_v4v_process_notify *)

Notifying(t) == ~ th[t].byFile /\ (th[t].pc \in {"notify", "dests"} \/ th[t].ent # None)

\* The call c of t begins.  A notify is sure that what it puts back will be
\* looked at again as long as no other one is under way at the same time.
BeginNotify(t, c) ==
  [u \in Threads |-> IF u = t THEN c ELSE [th[u] EXCEPT !.sure = @ /\ ~ Notifying(u)]]

\* V4V_IOCTL_NOTIFY, uxen_v4v_notify
Notify(t) ==
  /\ t \in Callers /\ th[t].pc = "idle" /\ Happens
  /\ th' = Goto(t, "copy")
  /\ UNCHANGED <<csq, ctx, rlock, inbox, event, virq, hv, irp, sent, skipped, unwatched>>

\* A pass that fails; uxen_v4v_notify, not the others, leaves a failed
\* hypercall to the interrupt thread.
NotifyFails(t) ==
  /\ th[t].pc \in {"copy", "notify"} /\ Fails
  /\ th' = BeginNotify(t, NoCall)
  /\ \/ UNCHANGED virq
     \/ t # Virq /\ th[t].pc = "notify" /\ virq' = TRUE
  /\ unwatched' = IF t = Virq THEN unwatched \cup (Queued \cap Writes) ELSE unwatched
  /\ UNCHANGED <<csq, ctx, rlock, inbox, event, hv, irp, sent, skipped>>

\* gh_v4v_copy_destination_ring_data
CopyDestinations(t) ==
  /\ th[t].pc = "copy"
  /\ th' = BeginNotify(t, [NoCall EXCEPT
              !.pc = "notify", !.sure = \A u \in Threads \ {t} : ~ Notifying(u),
              !.ents = {[dst |-> d, len |-> dest[d].nextLength] :
                          d \in {x \in Dests : dest[x].refc > 0}}])
  /\ unwatched' = IF t = Virq THEN unwatched \ Queued ELSE unwatched
  /\ UNCHANGED <<csq, ctx, rlock, inbox, event, virq, hv, irp, sent, events, skipped>>

\* V4VOP_notify; one entry may find no memory.
NotifyHypercall(t) ==
  LET asked == {e.dst : e \in th[t].ents}
      len == [d \in asked |-> (CHOOSE e \in th[t].ents : e.dst = d).len]
  IN  /\ th[t].pc = "notify"
      /\ \E nomem \in SUBSET asked :
           /\ Cardinality(nomem) <= MaxEvents - events /\ (nomem # {} => MayFail)
           /\ \A d \in nomem : EntryAfter(d, len[d], TRUE) # EntryAfter(d, len[d], FALSE)
           /\ events' = events + Cardinality(nomem)
           /\ hv' = [d \in Dests |->
                       IF d \in asked
                       THEN [hv[d] EXCEPT !.pend = EntryAfter(d, len[d], d \in nomem)]
                       ELSE hv[d]]
           /\ th' = [th EXCEPT ![t] = IF asked = {} THEN NoCall
                       ELSE [th[t] EXCEPT !.pc = "dests", !.sure = th[t].sure /\ nomem = {},
                                          !.ents = {Answer(d, len[d]) : d \in asked}]]
           /\ unwatched' = unwatched \cup {w \in Queued \cap Writes : DestOf[w] \in nomem}
      /\ UNCHANGED <<csq, ctx, rlock, inbox, event, virq, irp, sent, skipped>>

-----------------------------------------------------------------------------
(* Reads: gh_v4v_dispatch_read, gh_v4v_process_datagram_reads *)

DispatchRead(t, r) ==
  /\ t \in Callers /\ th[t].pc = "idle"
  /\ Issuable(r)
  /\ \/ /\ Insert(r)
        /\ th' = [th EXCEPT ![t] = [NoCall EXCEPT !.pc = "reads", !.file = FileOf[r]]]
     \/ InsertFails(r) /\ UNCHANGED th
  /\ UNCHANGED <<ctx, rlock, inbox, event, virq, hv, sent, skipped, unwatched>>

\* With the ring's lock held a read IRP is completed with a message, again and
\* again.  A mapped ring is read by the client: only the event is set, without
\* the lock.
ReadTake(t) ==
  LET f == th[t].file
      r == Peek(ReadsOf(f))
  IN  /\ th[t].pc \in {"reads", "take"}
      /\ ctx[f].mapped \/ rlock[f] \in {None, t}
      /\ rlock' = IF ctx[f].mapped THEN rlock ELSE [rlock EXCEPT ![f] = t]
      /\ IF inbox[f] = 0 \/ ctx[f].mapped \/ r = None
         THEN /\ th' = Goto(t, IF inbox[f] = 0 THEN "clear" ELSE "set")
              /\ UNCHANGED <<csq, inbox, irp>>
         ELSE /\ Remove(r)
              /\ inbox' = [inbox EXCEPT ![f] = @ - 1]
              /\ irp' = [irp EXCEPT ![r] = "ok"]
              /\ th' = [th EXCEPT ![t].pc = "take", ![t].notify = TRUE]
      /\ UNCHANGED <<ctx, event, virq, hv, sent, calls>>

\* Nothing to read, or nobody to read it: the client's event tells.  A caller
\* that has read something goes on to notify.
ReadEnd(t) ==
  LET c == th[t] IN
  /\ c.pc \in {"clear", "set"}
  /\ event' = [event EXCEPT ![c.file] = (c.pc = "set")]
  /\ rlock' = Free(c.file, t)
  /\ th' = [th EXCEPT ![t] = IF t = Virq THEN [NoCall EXCEPT !.pc = "contexts", !.ctxs = c.ctxs,
                                                             !.todo = c.todo]
                             ELSE [NoCall EXCEPT !.pc = IF c.notify THEN "copy" ELSE "idle"]]
  /\ UNCHANGED <<csq, ctx, inbox, virq, hv, irp, sent, calls>>

\* The client of a mapped ring reads it.
ClientReads(f) ==
  /\ ctx[f].mapped /\ ctx[f].state = "bound" /\ inbox[f] > 0
  /\ inbox' = [inbox EXCEPT ![f] = @ - 1]
  /\ UNCHANGED <<csq, ctx, rlock, event, virq, hv, irp, sent, th, calls>>
-----------------------------------------------------------------------------
(* gh_v4v_virq_thread, gh_v4v_virq_work *)

VirqWake ==
  /\ th[Virq].pc = "idle" /\ virq
  /\ virq' = FALSE
  /\ th' = Goto(Virq, "getall")
  /\ UNCHANGED <<csq, ctx, rlock, inbox, event, hv, irp, sent, calls>>

\* Mutant: the list is copied without references.
GetAllUncounted ==
  LET listed == {f \in Files : ctx[f].listed} IN
  /\ th[Virq].pc = "getall"
  /\ th' = [th EXCEPT ![Virq] = [NoCall EXCEPT !.pc = "contexts", !.ctxs = listed,
                                               !.todo = listed]]
  /\ skipped' = FALSE
  /\ UNCHANGED <<csq, ctx, rlock, inbox, event, virq, hv, irp, sent, events, unwatched>>

\* gh_v4v_get_all_contexts
GetAllContexts ==
  LET listed == {f \in Files : ctx[f].listed} IN
  /\ th[Virq].pc = "getall"
  /\ \/ /\ ctx' = [f \in Files |-> IF f \in listed THEN [ctx[f] EXCEPT !.refc = @ + 1] ELSE ctx[f]]
        /\ th' = [th EXCEPT ![Virq] = [NoCall EXCEPT !.pc = "contexts", !.ctxs = listed,
                                                     !.todo = listed]]
        /\ skipped' = FALSE /\ UNCHANGED events
     \/ /\ listed # {} /\ Fails
        /\ th' = Goto(Virq, "copy")
        /\ skipped' = TRUE /\ UNCHANGED ctx
  /\ UNCHANGED <<csq, rlock, inbox, event, virq, hv, irp, sent, unwatched>>

\* gh_v4v_process_context_reads
ContextReads(f) ==
  /\ th[Virq].pc = "contexts" /\ f \in th[Virq].todo
  /\ th' = [th EXCEPT ![Virq].todo = @ \ {f}, ![Virq].file = f,
                      ![Virq].pc = IF ctx[f].state = "bound" THEN "reads" ELSE @]
  /\ UNCHANGED <<csq, ctx, rlock, inbox, event, virq, hv, irp, sent, calls>>

\* gh_v4v_release_context_internal takes a reference away; the last one ends
\* the context.
Released(fs) == [f \in Files |-> IF f \in fs THEN [ctx[f] EXCEPT !.refc = @ - 1] ELSE ctx[f]]

\* The call of t with the contexts fs yet to end.
Ending(t, fs) ==
  [NoCall EXCEPT !.dying = fs,
                 !.pc = IF fs # {} THEN "end" ELSE IF t = Virq THEN "copy" ELSE "idle"]

\* Mutant: the interrupt thread clears its event after the reads as well.
PutAllAndClear ==
  /\ th[Virq].pc = "contexts" /\ th[Virq].todo = {}
  /\ ctx' = Released(th[Virq].ctxs)
  /\ virq' = FALSE
  /\ th' = [th EXCEPT ![Virq] = Ending(Virq, {f \in th[Virq].ctxs : ctx'[f].refc = 0})]
  /\ UNCHANGED <<csq, rlock, inbox, event, hv, irp, sent, calls>>

\* gh_v4v_put_all_contexts
PutAllContexts ==
  /\ th[Virq].pc = "contexts" /\ th[Virq].todo = {}
  /\ ctx' = Released(th[Virq].ctxs)
  /\ th' = [th EXCEPT ![Virq] = Ending(Virq, {f \in th[Virq].ctxs : ctx'[f].refc = 0})]
  /\ UNCHANGED <<csq, rlock, inbox, event, virq, hv, irp, sent, calls>>

\* gh_v4v_dispatch_cleanup, when the last handle is closed and no call on the
\* file is under way.
Cleanup(t, f) ==
  /\ t \in Callers /\ th[t].pc = "idle" /\ ctx[f].state = "bound"
  /\ \A u \in Callers : th[u].file = f => ~ th[u].byFile /\ th[u].pc \notin
                                            {"reads", "take", "clear", "set"}
  /\ ctx' = [Released({f}) EXCEPT ![f].state = "closed", ![f].listed = FALSE]
  /\ th' = [th EXCEPT ![t] = [NoCall EXCEPT !.pc = "release", !.file = f]]
  /\ UNCHANGED <<csq, rlock, inbox, event, virq, hv, irp, sent, calls>>

Release(t) ==
  LET f == th[t].file IN
  /\ th[t].pc = "release"
  /\ ctx' = Released({f})
  /\ th' = [th EXCEPT ![t] = Ending(t, IF ctx'[f].refc = 0 THEN {f} ELSE {})]
  /\ UNCHANGED <<csq, rlock, inbox, event, virq, hv, irp, sent, calls>>

\* gh_v4v_cancel_all_file_irps: the writes in the queue, one by one, then the
\* context is freed.
EndContext(t, f) ==
  LET w == Peek(WritesOf(f)) IN
  /\ th[t].pc = "end" /\ f \in th[t].dying
  /\ IF w # None
     THEN /\ Remove(w)
          /\ irp' = [irp EXCEPT ![w] = "cancelled"]
          /\ UNCHANGED <<ctx, th>>
     ELSE /\ ctx' = [ctx EXCEPT ![f].freed = TRUE]
          /\ th' = [th EXCEPT ![t] = Ending(t, th[t].dying \ {f})]
          /\ UNCHANGED <<csq, irp>>
  /\ UNCHANGED <<rlock, inbox, event, virq, hv, sent, calls>>

\* The I/O manager cancels a queued IRP: gh_v4v_csq_complete_canceled_irp.
CancelIrp(i) ==
  /\ i \in Queued
  /\ Remove(i)
  /\ irp' = [irp EXCEPT ![i] = "cancelled"]
  /\ UNCHANGED <<ctx, rlock, inbox, event, virq, hv, sent, th, calls>>
-----------------------------------------------------------------------------
\* What a thread in a call does next.
Step(t) ==
  \/ PopWrite(t) \/ LockRing(t) \/ DoWrite(t) \/ CreateRing(t)
  \/ RequeueIrp(t) \/ RequeueDone(t)
  \/ CopyDestinations(t) \/ NotifyHypercall(t) \/ NotifyFails(t)
  \/ ReadTake(t) \/ ReadEnd(t)
  \/ Release(t) \/ \E f \in Files : EndContext(t, f)

VirqStep ==
  \/ Step(Virq) \/ VirqWake \/ GetAllContexts \/ PutAllContexts
  \/ \E f \in Files : ContextReads(f)

\* What callers may ask for.
Call(t) ==
  \/ \E w \in Writes : DispatchWrite(t, w)
  \/ \E r \in Reads : DispatchRead(t, r)
  \/ \E f \in Files : Cleanup(t, f)
  \/ Notify(t)

Peer(d) == PeerReads(d) \/ PeerNotifies(d) \/ PeerRegisters(d)

Next ==
  \/ VirqStep
  \/ \E t \in Callers : Step(t) \/ Call(t)
  \/ \E d \in Dests : Peer(d)
  \/ \E f \in Files : MessageArrives(f) \/ ClientReads(f)
  \/ \E i \in Irps : CancelIrp(i)

Spec == Init /\ [][Next]_vars

\* Threads in a call go on; the interrupt thread answers its event; the other
\* ends read what they are sent and register their rings.
Fairness ==
  /\ WF_vars(VirqStep)
  /\ \A t \in Callers : WF_vars(Step(t))
  /\ \A d \in Dests : WF_vars(Peer(d))

FairSpec == Spec /\ Fairness
-----------------------------------------------------------------------------
(* Properties *)

\* The list of destinations is in step with the queue, whatever order IRPs are
\* taken off, put back and cancelled in: an entry for each destination of a
\* queued write, with its count, and the length of the write that is first on
\* its chain, which is what V4VOP_notify asks about.
DestinationsInStep ==
  \A d \in Dests :
    LET ws == Queued \cap WritesTo(d) IN
    /\ dest[d].refc = Cardinality(ws) /\ Len(dest[d].chain) = Cardinality(ws)
    /\ {dest[d].chain[k] : k \in DOMAIN dest[d].chain} = ws
    /\ ws # {} => dest[d].nextLength = LenOf[dest[d].chain[1]]

\* Between a caller, a notify and the interrupt thread that take IRPs from one
\* another's sight, an IRP is in one place, is completed once, and a write is
\* completed with success exactly if it went into the ring, once.
CompletedOnce ==
  /\ \A i \in Irps : irp[i] = "busy" <=> \/ i \in Queued
                                         \/ \E t \in Threads : i \in Held(t)
  /\ \A t, u \in Threads : t # u => Held(t) \cap Held(u) = {}
  /\ \A t \in Threads : Held(t) \cap Queued = {}
  /\ Len(queue) = Cardinality(Queued)
  /\ \A w \in Writes : sent[w] = IF irp[w] = "ok" THEN 1 ELSE 0

\* Thread t is still to try the writes queued for d, or to set the event.
WillTry(t, d) ==
  LET c == th[t]
      tries(e) == e.dst = d /\ (e.sufficient \/ ~ e.exists)
  IN  \/ c.notify /\ (c.byFile \/ c.ent # None)
      \/ t = Virq /\ c.pc \in {"getall", "contexts", "reads", "take", "clear",
                               "set", "end", "copy"}
      \/ c.pc = "notify" /\ \E e \in c.ents : e.dst = d
      \/ c.pc # "notify" /\ \E e \in c.ents : tries(e)
      \/ /\ c.pc \in {"pop", "lock", "send", "create", "resend"} /\ ~ c.byFile
         /\ c.ent.dst = d /\ (tries(c.ent) \/ ~ c.first)

\* The entry for d will become an interrupt: when the ring is registered, or
\* when its owner notifies after it has made room.
WillWake(d) ==
  /\ hv[d].pend # NoEntry
  /\ \/ hv[d].ring # "up"
     \/ hv[d].pend <= hv[d].size /\ (hv[d].owed \/ hv[d].pend > hv[d].room)

\* The entry for d is larger than the ring d has registered: it was noted for a
\* write on a placeholder, and v4v_pending_requeue never lowers it.
Outsized(d) == hv[d].ring = "up" /\ hv[d].pend > hv[d].size

\* No queued write is forgotten: there is an interrupt pending, or an entry in
\* the hypervisor that will become one, or a thread about to try the write.
\* The driver does forget one when memory or the hypercall failed in the pass
\* that should have served it, when process_destination_writes put it back while
\* another notify was under way, which may have used up its interrupt (the two
\* cases of unwatched), and when the entry it relies on is outsized.
NoForgottenWrite ==
  \A w \in Writes \cap Queued :
    \/ virq \/ WillWake(DestOf[w])
    \/ \E t \in Threads : WillTry(t, DestOf[w])
    \/ \E t \in Threads : th[t].byFile /\ th[t].file = FileOf[w] /\ th[t].pc # "requeue"
    \/ w \in unwatched \/ Outsized(DestOf[w])

\* A file's references are the handle's, the list's and the interrupt thread's,
\* and a context is not freed under a thread that reads for it, or that writes
\* for it in process_context_writes.  (It may be under one that has a write of the
\* file in hand in process_destination_writes, which has no reference.)
ContextHeld ==
  \A f \in Files :
    /\ ctx[f].refc = (IF ctx[f].listed THEN 1 ELSE 0)
                   + (IF ctx[f].state = "bound"
                         \/ \E t \in Callers : th[t].pc = "release" /\ th[t].file = f
                      THEN 1 ELSE 0)
                   + (IF f \in th[Virq].ctxs THEN 1 ELSE 0)
    /\ ctx[f].freed =>
         /\ \A t \in Threads : th[t].file = f => th[t].pc \notin {"reads", "take", "clear", "set"}
         /\ \A t \in Callers : th[t].file = f => ~ th[t].byFile

\* No message is left lying: as long as one is unread, an interrupt is pending,
\* a thread is on its way to the ring, or the client's event is set and no
\* read is waiting -- unless the list of contexts could not be allocated.
NoForgottenMessage ==
  \A f \in Files :
    inbox[f] > 0 /\ ctx[f].state = "bound" /\ ~ skipped =>
      \/ virq \/ th[Virq].pc = "getall" \/ f \in th[Virq].todo
      \/ \E t \in Threads : th[t].file = f /\ th[t].pc \in {"reads", "take", "set"}
      \/ event[f] /\ (ctx[f].mapped \/ Queued \cap ReadsOf(f) = {})

\* A write that is queued is completed: the comments in gh_rw.c promise an
\* interrupt for what could not be sent.
WritesComplete ==
  \A w \in Writes : irp[w] = "busy" ~> irp[w] # "busy"
=============================================================================
