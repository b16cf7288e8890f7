# uXen: a verification project in TLA+

uXen is a type-2 hypervisor for Windows and OSX hosts: a Xen derived
hypervisor (`xen/`), the host drivers that run it (`windows/uxen.sys`,
`osx/uxen.kext`), a device model per VM (`dm/`), guest drivers
(`vm-support/`) and tools (`common/`). This project models three parts of it in
which several actors meet without a common lock:

- **v4v**, the message passing between host and guests that display, storage,
  network, clipboard and shared folders are built on: the hypervisor's side
  (`xen/common/v4v.c`, `xen/include/public/v4v.h`) as a whole, and the Windows driver
  library (`windows/uxenv4vlib`): its rings, and its queues of reads and writes;
- **running a vcpu**: the host thread of a virtual CPU, between the driver
  (`windows/uxen.sys/uxen_ops.c`) where it sleeps and the hypervisor
  (`xen/uxen/main.c`, `xen/common/schedule.c`, `sched_host.c`) where it is scheduled, with
  everyone who interrupts, pauses, serves or stops it;
- **the shutdown of a domain** while its vcpus have I/O requests with the device model
  (`xen/common/domain.c`), as it happens before a save.

Below, `C:n` is line n of `v4v.c` and `H:n` line n of `v4v.h`.

*v4v.* A domain that wants to receive registers a *ring* in its own memory. A sender
makes a hypercall; the hypervisor copies the message into the receiver's ring
and raises an interrupt. The receiver takes messages out without a hypercall,
by moving `rx_ptr`. A sender that finds no room is put on the ring's pending
list and told `-EAGAIN`; when the receiver calls notify, the hypervisor signals
those for whom there is room now. The Windows driver keeps a write (an IRP) that found no
room on a queue, and tries again when such a signal comes.

*vcpus.* Each vcpu is a thread of the host. It calls the hypervisor, which runs the guest
until something happens that the host has to do: handle an interrupt, wait for the
device model to serve an I/O request, or sleep because the vcpu is halted or paused.

## 1. Inventory

| Part | State | Operations | What is hard | Here |
|---|---|---|---|---|
| v4v data path | ring bytes, rx_ptr, tx_ptr | insert, copy_out | no common lock; wrap; full/empty; a fault half way; a vector that changes | V4VRingBuf, V4VCopy, V4VChannel |
| v4v hypercalls | ring tables, pending lists, messages, interrupts | register, unregister, create, send, notify, suspend, resume, destroy, init | lost wake-ups, stale space, placeholders, out of memory | V4V |
| v4v locks | domain_lock, L1, L2, L3 | every call | use after a lock is dropped, nested read locks | V4VLocks |
| v4v pages | mfns, page references, nmfns, npage, len | find_ring_mfns, remove, retry | errors half way, retries, frames that change | V4VPages |
| uxenv4vlib rings | ring objects, list, registration, v4v_running | bind, release, device load, resume | unregister by id; list read without its lock; resume happens once | V4VRingObjects |
| uxenv4vlib queues | IRP queue, destinations, file contexts, events | read, write, notify, cancel, close, interrupt thread | IRPs off the queue while others look for them; interrupts used up; a file closed meanwhile | V4VQueue |
| vcpu scheduling | struct vcpu, vm_vcpu_info, thread, events, DPCs | run, block, wake, kick, pause, stop, I/O request | wake racing sleep, kick racing entry, stale reads outside the lock | VcpuRun |
| domain shutdown | shutdown flags, deferrals, pause counts | shutdown, resume, start and end of a deferral | two flags set and read crosswise; several finishers | DomShutdown |
| domain life cycle | references, destruction | create, kill | teardown while in use | planned; V4V has what it does to v4v |
| event channels | ports per domain | alloc, bind, send, close | two event locks | planned |
| memory, page store, p2m, templates | owners, translations, shared pages | populate, clone, decrease | partial work, compressed pages | planned; V4VPages has frames that change |
| timers, tasklets, rcu | heaps, queues | add, stop, run | stop racing run | later; VcpuRun has the vcpu timer |
| device model storage | write queue, dubtree levels, AIO | read, write, flush, merge | merge during reads, crash between levels | planned |
| device model events | async ops, bottom halves, IPC | post, complete, cancel | cancel racing completion | planned; the I/O request handshake is in VcpuRun |
| save and restore | phases, page batches | save, cancel, restore | cancel half way | planned |
| HVM emulation, nickel, guest drivers, consoles, tools | | | | not modelled: data rather than control, or glue to an operating system |
| vendored code (libvncserver, seabios, yajl, lz4, libvhd, qemu, vbox) | | | | not modelled: third party |

`PROJECT.json` lists the parts with their files, the hazards at the lines where
they bite, and the lines every definition stands for.

## 2. Modules

    V4VRing ──────────► V4VRingBuf ──► MCRingBuf
      │  arithmetic        │
      │                    └─ V4VRingIsChannel        V4VRingBufProofs
      │                         └─ INSTANCE V4VChannel
      ├───────────────► V4V ──► MCV4V                 V4VProofs
      └───────────────► V4VCopy ──► MCCopy
    V4VLocks ──► MCLocks                              V4VLocksProofs
    V4VPages                                          V4VPagesProofs
    V4VRingObjects                                    V4VRingObjectsProofs
    V4VQueue ──► MCQueue                              V4VQueueProofs
    VcpuRun                                           VcpuRunProofs
    DomShutdown                                       DomShutdownProofs

**V4VRing** has the arithmetic of ring pointers: rounding to 16 bytes, the size a
message takes, wrap-around, the payload space, the checks of a send and the
sanitizing of pointers read from a ring.

**V4VRingBuf** is one ring between the hypervisor and its receiver. Memory is in
cells of 16 bytes; a message is a header cell and its payload cells.
`InsertBegin` (with the checks on room), `InsertHeader`, `InsertData` cell by cell and
`InsertPublish` follow `v4v_ringbuf_insert`, which takes L3; `CopyBegin`,
`CopyData` and `CopyEnd` follow `v4v_copy_out`, which takes no lock of
the hypervisor, so every step of the one interleaves with every step of the
other. `InsertFault` is an error while the payload is copied.
**V4VChannel** is what a ring promises, a bounded FIFO of whole messages;
**V4VRingIsChannel** has the refinement mapping: the queue (`Stored`) is what the headers
in the bytes between rx_ptr and tx_ptr spell, message by message as `v4v_copy_out` steps
over them.

**V4VCopy** follows the bytes of one message: the gathering of a vector of buffers
into a ring with `v4v_ringbuf_insert`, every split at the end of the ring, and
`v4v_copy_out_offset` with its limit and skip. The vector lies in the sender's memory: an
entry may have another length (`Changed`) when it is read again after `v4v_iov_count`.

**V4V** composes all domains with their rings: hypercalls, pending lists, interrupts,
and the domains' life. A ring is the queue of V4VChannel plus the two pointers
from which the space is computed. What the hypervisor does under one holding
of L3 is one step; where the code drops the lock (between reading the space and
going through the pending list in `v4v_notify_ring`, between the insert and the
signal in `v4v_send`, between the read of the ring header and its setting up in
`v4v_ring_add`), there is a step boundary. `waiting` is a history
variable: the wake-ups the hypervisor has promised.

A registration with fail_exist = 0 (`op[d].force`, for the domains in `Forced`) replaces a
ring that is set up: the Windows driver makes one after -EEXIST (gh_hypercall.c:129-130),
the OSX driver no other (v4v_ops.cpp:33-37). The header it stores was read at C:1482,
before L2 and L3, so it undoes a send that came in between (`RegisterDone`), and when it
fails it can leave a ring without its pages (`info[r].paged`, `RegisterFail`). The next
send then writes into what the ring holds: from there on `mem[r].torn` says that the bytes
between the pointers are not messages, and the owner reads them as if they were
(`ReceiveTorn`) or gives them up (`RecoverRing`, gh_ring.c:105-116).

**V4VLocks** has the lock operations of every call of `v4v.c` in their order, and
whether each ring_info that a call points to still exists. Its rwlocks let
readers in while a writer waits, as `xen/common/spinlock.c` does. Who holds which lock
(`domLock`, `r1`, `r2`, `l3`) is state of its own, which only the lock operations change;
TypeOK ties it to where each call is, in both directions. `lost` is a history variable:
the structures freed while a `v4v_ring_create` held their lock.

**V4VPages** is the page list of one ring in `v4v_find_ring_mfns`: page by page, with
every exit (no memory, page not there, -ERETRY and the repeated call), while the
guest's frames change underneath. `forced` is a history variable.

**V4VRingObjects** is the Windows driver: several file objects may use the same ring
id, and the hypervisor knows rings by id only. Bind is register, the search for the id
on -EEXIST, the forced registration, the linking and `check_resume`; release
is unlink, unregister, free. The platform device sets the state bar first and then
the hypercall function; suspend clears `v4v_running`; `check_resume` tests it,
sets it, and registers all listed rings under `ring_lock`, in any thread.

**V4VQueue** is the same driver's `pending_irp_queue` with its list of destinations
(`gh_csq.c`), the reads and writes that go through it (`gh_rw.c`), the contexts of open
files (`gh_create.c`) and the interrupt thread (`gh_xenv4v.c`). A thread takes an
IRP off the queue, tries it, and completes it or puts it back; while it has the IRP in
hand nobody else sees it. Every holding of `queue_lock`, of `context_lock` and every
hypercall is one step. `th[t]` is the call a thread is in: the list it copied from the
destinations, the entry it works on, the IRP in hand. `hv` is what the hypervisor knows
of each destination (room, and this domain's entry on the pending list, as V4V has it).
Two history variables name cases in which the code gives something up:
`unwatched` (writes put back while another notify was under way, or queued when memory
or the hypercall failed) and `skipped` (a pass of the interrupt thread that got no list of
contexts). Assumed:
the I/O manager sends the cleanup of a file when no call on it is in progress; a message
arrives together with its interrupt. The peer may register a ring of any size up to
`Capacity`.

**VcpuRun** is one vcpu. `pc` is where its host thread is: in `uxen_vcpu_thread_fn`
(run, clear the event, sleep), in the scheduling loop of `do_run_vcpu` (softirqs,
`schedule_vcpu`, the timer, the idle path), or past it (`hvm_do_resume`, entry, the
guest, the handlers of its exits). `v` is `struct vcpu`, `vci` the structure shared with
the driver, `io` the slot of the request with its two events. The others run on other
processors: interrupt sources (`vcpu_kick`: wake or unblock, then the kick),
callers of `domain_pause` and `domain_unpause`, the expired timer's DPC, the device
model, `uxen_vmi_stop_running`. What holds the scheduler lock is one step; what is read
before the lock is taken (`schedule_from_vcpu`'s test, the loop's look at the runstate,
`is_running` in `vcpu_kick`) is a step of its own. DPCs reach the thread only where it
runs below DISPATCH_LEVEL. A guest with a DPC queued leaves; without one it need never
leave.

**DomShutdown** is a domain of several vcpus. A vcpu that sends a request defers a
shutdown: it sets `defer_shutdown` and then looks for the shutdown, without the lock;
`domain_shutdown` sets its flag and then looks at the deferrals, with the lock. Each set
and each look is a step, and so is each vcpu of the loop. `domain_resume` comes after a
completed suspend only, as the device model calls it (`dm/vm-save.c`). A crash
disregards deferrals.

## 3. Runs

| Run | Configuration | Checks | Result |
|---|---|---|---|
| ringbuf | MCRingBuf | TypeOK, NoTornCopy, RingInv, NoOverwrite, IsChannel | hold |
| guest | MCV4VGuest | ContentsKept, MessageAnnounced, SufficientMeansSendable, NoLostWakeup | hold |
| live | MCV4VLive | WaiterListed, WaiterSignalled | hold |
| copy | MCCopy | OwnBytesOnly, PublishedWhole, Gathered, CopiedOut | hold |
| locks | MCLocks | TypeOK, NoStaleRing, NoDeadlock | hold |
| pages | MCPages | RefsBalanced, FullySetUp | hold |
| ring_objects | MCRingObjects | TypeOK, NoFreedRing | hold |
| queue | MCQueue | DestinationsInStep, CompletedOnce, NoForgottenWrite, ContextHeld, NoForgottenMessage | hold |
| vcpu | MCVcpuRun | PausedMeansStopped, SleeperIsWoken, GuestIsInterrupted, OneRequest, InterruptTaken, RequestFinished, PauseReturns, StopReturns | hold |
| shutdown | MCShutdown | NothingInFlight, PausedOnce, Finalised, ShutdownCompletes | hold |
| locks_create | MCLocksCreate | CreatedRingStays (C:95-96) | violated |
| queue_wakeup | MCQueueWakeup | WritesComplete (gh_rw.c:198, 216-217) | violated |

What the passing runs show:

- **ringbuf**: a receiver that takes no lock sees whole messages only, in order and once
  each, while inserts run, fail half way and wrap around (IsChannel is the refinement of
  V4VChannel).
- **guest**: through placeholders, registrations that fail, suspend, resume and
  destruction a ring keeps its messages (ContentsKept) and its interrupts
  (MessageAnnounced); no pass of a notify overlooks a sender there is room for
  (NoLostWakeup); the room a notify reports is the room a send finds
  (SufficientMeansSendable). The guest's driver also registers by force, which does break
  the first and the third. ContentsKept and NoLostWakeup are therefore properties of steps:
  all rings are whole (tended) at the start, and the only steps after which one is not are
  the end of a forced registration of a ring whose tx_ptr moved since its header was read,
  and, for NoLostWakeup, a forced registration that fails and the recovery of a torn ring.
  TLC finds a counterexample if any one of these exceptions is left out.
- **live**: who was turned away, or told PENDING, stays on the pending list
  (WaiterListed) and is woken in the end (WaiterSignalled), also when the owner is
  suspended again and again. Allocations of pending entries do not fail in this run, see
  below, and nobody registers by force (`Forced = {}`): after such a registration a sender
  may wait for ever.
- **copy**: the bytes of any vector arrive at their places, and any part of them can be
  read; a vector that changes between count and copy harms no other message.
- **locks**: no call but create_ring uses a ring_info that was freed, none a freed
  `d->v4v`; a lock is held exactly at the places where the call holds it, so that every
  return path gives back its locks and nobody else's (TypeOK); nobody waits for ever, the
  nested R(L1) included.
- **pages**: one reference per listed page however registrations end; with fail_exist, a
  ring that has a length has its pages.
- **ring_objects**: the driver never frees memory the hypervisor may still write to.
- **queue**: whatever the order in which IRPs are taken off, put back, cancelled and
  their files closed, none is lost or completed twice, and a write succeeds exactly if it
  was sent once (CompletedOnce); the list that notify sends to the hypervisor asks about
  what is really first (DestinationsInStep); a queued write has a thread that will try it
  or an entry with the hypervisor that will become an interrupt, and a message somebody who
  will read it, but in the cases the history variables name, and but for an entry larger
  than the ring (`Outsized`): one noted on a placeholder for the longest of several writes
  is not lowered (C:785) when the ring is registered smaller than that, and then wakes
  nobody.
- **vcpu**: after `domain_pause` has returned the vcpu does not run (PausedMeansStopped);
  a thread does not sleep past a wake-up, nor a guest run past an interrupt, nor a vcpu
  go on without the answer to its request, and all waits end: an interrupt is taken, a
  request finished, a pause and a stop return.
- **shutdown**: a domain counts as shut down only with no request out (NothingInFlight),
  some path always notices that the last vcpu is paused (Finalised, ShutdownCompletes),
  and the paths that meet at a vcpu pause it, and guest time, once (PausedOnce).

The violated ones disagree with a comment of the source:

- **locks_create.** `v4v_ring_create` works on a ring of *another* domain, drops W(L2) and
  keeps only L3 (C:1433), which does not stop that domain's unregister.
- **queue_wakeup.** One thread in `process_destination_writes` has a write in hand, found
  the answer insufficient and is about to put it back. The room the hypervisor noted for
  it becomes free and the interrupt comes; the interrupt thread's pass finds no such
  destination on the queue. The write is put back, and there is neither an interrupt nor
  a pending entry left for it: unlike `process_context_writes`, this path does not set
  `virq_event` (gh_rw.c:200-218). In this run nothing fails.

Disagreements met while modelling that have no violated run of their own:

- A registration with fail_exist = 0 of a ring that is set up stores the tx_ptr it read
  before it took a lock (C:1482, C:1601), so that a send in between loses its message,
  though H:202-204 says "if a ring with the same v4v_ring_id exists, this ring takes its
  place, registration will not change tx_ptr unless it is invalid". It is the exception in
  ContentsKept: without it TLC finds `RegisterRead`, `SendInsert`, `RegisterDone`.
- A write that a thread has in hand in `process_destination_writes` when its file is closed
  is put back after both cancellations of the close, and stays queued for a context that is
  freed; the thread also goes on using that context, on which it has no reference. The
  comments say otherwise: "the tiny window where the file went to CLOSED but we put an IRP
  back is handled by the second IRP cancellation call" (gh_rw.c:47-48), and "if the CSQ
  returned the IRP then the IRP is valid and by extension the file object and all its state
  must still be intact" (gh_rw.c:189-190). `Cleanup`, `EndContext` and `RequeueIrp` have
  these steps; no property says that the case does not occur.

- Removing a ring frees its pending list without a signal (C:1277), though H:217-219 says
  that after -EAGAIN an interrupt will come: with `Reregister = TRUE` in the
  configuration of live, WaiterSignalled fails. A driver that unregisters a ring to
  register it again leaves its senders asleep.
- A registration without fail_exist that stops half way keeps the old length, which later
  counts as "setup fully" (C:1589-1593). FullySetUp leaves out such rings (`forced`).
- A ring whose registration met -ENOSYS is not on the list until the bind ends; the one
  resume that gh_hypercall.c:117-119 relies on may pass in between.
- `V4V_RING_DATA_F_EMPTY` is set when the space is len - 32, but an empty ring has
  len - 16 (C:479, C:954), so it is not set for an empty ring; and lengths in
  (len - 32, len - 16] are called sufficient for an empty ring though a send refuses them
  with -EMSGSIZE. A question about 0 bytes is answered SUFFICIENT by a ring too full for an
  empty message. SufficientMeansSendable leaves out just these lengths.
- One pending entry per domain, with the largest length (C:785): a question about more
  than the ring can hold keeps that domain from being woken for less. WaiterSignalled is
  checked with lengths the ring can hold.
- `v4v_fill_ring_data` ignores that the pending entry could not be allocated (C:947) and
  says PENDING (`FillPending` has this case; guest takes it).
- `gh_v4v_release_ring` unregisters by id after the unlink (gh_ring.c:311-316), and may so
  unregister the ring of another object; NoFreedRing holds all the same.
- Closing a file cancels its queued writes (`peek.ops = XENV4V_PEEK_WRITE; // and any
  ops`, gh_create.c:193) and not its reads. The comment at gh_csq.c:266-271 speaks of the tail of the queue, the code inserts at the
  head.
- `__domain_crash` sets `is_crashing` (domain.c:893-895) and nothing takes it back. A
  crash reported during a suspend leaves the code of the suspend, and after the resume
  later ones are ignored, though sched.h:659-663 says "Mark specified domain as crashed."

### Bounds

- ringbuf: a ring of 64 bytes (four cells), payloads 0, 16 and 17 bytes from two
  sources: a message of one, two and three cells, so all ways to wrap and to be
  one cell short occur. Larger rings are covered by the theorems.
- V4V runs: the host and one guest with one ring of the guest. The ring has 64 bytes and
  takes payloads of 0, 1 and 17 bytes, so that it fills up after one to three messages; 48
  bytes and one length in live. Notify asks about one ring at most. In guest the states are
  told apart without `waiting` (the VIEW `WithoutPromises`): no guard and none of its four
  properties reads it.
  One guest is enough for the races looked for here, each between one sender, one
  receiver and the life of the guest; entries of several domains on one pending list,
  rings of the host and rings with partner V4V_DOMID_ANY are left to later runs.
- copy: one message in a ring of 64 bytes, alone or in vectors of up to three entries
  some of them empty, at every start. The run ends when the message is delivered, so
  deadlock is not checked.
- pages: lists of up to three of three frames, on two pages, so frames share a page.
- locks: the owner of a ring and another domain, two CPUs each, and two structures, so that
  one may be freed and the other be new. All calls are made.
- ring_objects: three objects of one id, two more threads that resume. One id is
  enough: objects of different ids share only the lock and `v4v_running`.
- queue: two writes of different length to one destination, one of them with IGNORE_DLO,
  and one read, of which two are issued (`MaxIssued`); one caller besides the interrupt
  thread, a queue of two places (`MaxCount`), and two of: a message, a failure, a notify
  by the client (`MaxEvents`). Two writes make the chain of a destination and its next
  length change, a read makes the reading path, and the notify that follows it,
  interleave with both. Everybody may stop when nothing is queued, so deadlock is not
  checked. queue_wakeup needs one write and one notify.
- vcpu: one interrupt source, one pauser, and two events in a behaviour (`MaxEvents`), of
  which a timer expiry, a foreign DPC or a stop happen alone (`Solo`); with `Solo = {}`
  (1.2 million states) the same properties hold. A stopped vcpu exits, so deadlock is not
  checked.
- shutdown: three vcpus, one caller, the reasons suspend, poweroff and crash. The state
  space is finite without a bound. A domain that was powered off stays so: no deadlock
  check.

### Fairness

*V4V.* A hypercall under way finishes (WF of `Step`): it runs on a CPU under spin locks
others hold for short. Interrupts are taken, rings emptied and notify called after
reads (SF of `TakeInterrupt`, `Receive`, `DueNotify`): the drivers do this in a
thread that runs on every interrupt (`notify.c`, `gh_rw.c`); it is strong fairness
because the domain_lock may be taken by others of the domain, and a suspend may
come, again and again. Rings taken away by a suspend are registered again
(`DueRegister`, `resume.c`), a retried registration succeeds in the end
(`RegisterDone`: -ERETRY is retried by a continuation, and memory is not short for
ever), and a suspended domain is resumed (`Resume`). The last is an assumption on the
user of the system. Nothing is assumed about senders or about W(L1).

*V4VQueue.* Threads in a call go on, the interrupt thread answers its event, and the peer
reads what it is sent, notifies and registers its ring (WF). With all this queue_wakeup
still finds a write that stays.

*VcpuRun.* Host threads and DPCs run, the device model's handler returns, and a caller
that paused the domain unpauses it (WF). The vcpu's thread is not assumed to leave the
guest unless a DPC is queued on its processor. StopReturns depends on the device model:
`uxen_vmi_stop_running` reads the event a vcpu waits for (uxen_ops.c:1896) before it
clears `vci_runnable` (1901), and does not wake a vcpu that begins to wait in between.

*DomShutdown.* The loop of `domain_shutdown` goes on, and a vcpu finishes the call it is
in (WF); a vcpu whose request was answered is scheduled (WF) and uses the answer (SF,
since it may be descheduled before it does, again and again).

## 4. Proofs

All theorems hold for all values of the constants that satisfy the modules' ASSUMEs.

**V4VRingBufProofs.** `RingInvariant` proves that RingInv is inductive. NoTornCopy and
NoOverwrite alone are not: that a copy is whole depends on the insert staying in
the space it checked, and that depends on the receiver moving rx_ptr only to the
beginning of another message. RingInv therefore says that (a) the unread part is a
chain of whole messages that ends exactly at tx_ptr, (b) an insert has room, between
tx_ptr and rx_ptr, for what it has still to write, whatever the receiver has read since,
and (c) a copy under way is inside the first message of the chain. Lemmas on wrap-around
and distance come first because nonlinear facts about `%` are hard for the solver.
`PointersInRing` (TypeOK), `RingAlwaysReadable` (HeadReadable), `CopiesAreWhole` and
`UnreadIsNeverOverwritten` follow from RingInv.

`RingIsChannel` proves the refinement: every step of the ring, of any length and with any
messages, is a step of the bounded FIFO or a stutter. What the unread bytes spell is a
recursion over the memory, so the argument is that (1) it depends on the unread bytes only
(`UnreadDecides`), which the cell by cell writes of an insert do not touch; (2) the
publication of tx_ptr appends the message just written (`PublishedIsLast`), and moving
rx_ptr takes the first one away; (3) along the chain of RingInv the messages occupy
exactly the bytes between the pointers, so that the insert's check on pointers is the
channel's check on its contents. (1) to (3) are inductions over the number of bytes.

**V4VProofs.** The hypercalls, for any number of domains and rings, all
message lengths and all ring lengths. `V4VInv` is the common invariant: what a hypercall
remembers from one step to the next is still so (the tx_ptr of a registration is the one in
the ring's memory as long as the ring is not set up; a notify goes through rings of its own
domain); a ring that is set up is one its owner has; and the bytes between the pointers of
a ring that is not torn are those of its messages. From it follows `SufficientSends`
(SufficientMeansSendable); MessageAnnounced is inductive together with it
(`MessagesAnnounced`). `RingsKeepContents` (ContentsKept) and `WakeupsKept` (NoLostWakeup)
show for each action and each ring that a ring that is whole (tended) stays so or the step
is one of the exceptions. `UnforcedRings` puts the two together where no driver registers
by force (`Forced = {}`): then no exception is ever met, and every ring is whole and tended
in every state. `WaitersListed` (WaiterListed) assumes what the run live sets: that
allocations of pending entries do not fail (`~ MayRunOut`), and that a ring is not
unregistered to be registered again (`~ Reregister`). Without these it does not hold, see
section 3.

**V4VQueueProofs.** The queue of the Windows driver, for any number of files, destinations,
reads, writes and calling threads, and any lengths. `IrpCompletedOnce` (CompletedOnce),
`DestinationListInStep` (DestinationsInStep) and `ContextsHeld` (ContextHeld) follow from
`QueuesInvariant`. Its invariant `QueuesInv` adds to the three properties:

- `CallsOk`: what a thread has in its hands at each step of its call. A call by file has
  its file, one by destination has taken only writes for the entry it looks at, a thread
  that is not trying writes has none;
- `IrpInv`: no IRP is twice on the queue or twice in a thread's list of writes to put back
  (CompletedOnce counts the queue, which needs this of the lists);
- `DestInv`: the same of the chain of a destination, so that the count is the length of
  the chain, and the next length is that of its first write;
- `CtxInv`: a handle's reference is given back once, on a file that is closed, and a call
  on a file keeps it bound. That a context is not freed under a thread that reads for it,
  or writes for it by file, depends on both.

The proof has two halves. Each action is shown to have one of seven effects on the IRPs
(`Effect`: it takes a write, sets it aside, finishes it, puts it back, ends or issues an
IRP, or leaves them alone), and `EffectKeeps` shows that these keep queue, destinations and
IRPs in step. The contexts need a case for each action that takes or gives back a
reference (`CtxKept`).

**V4VPagesProofs.** `ReferencesBalanced` (RefsBalanced) and `RingsFullySetUp` (FullySetUp),
for all sets of frames and pages and lists of any length. The number of references on a
page is the number of places it has in a list; the lemmas say how that number follows
when the loop of `v4v_find_ring_mfns` keeps a first part of the list and adds to it. That
a ring with a length is complete holds step by step because -EEXIST keeps a registration
with fail_exist from touching such a ring.

**V4VRingObjectsProofs.** `ListInStep` (TypeOK) and `FreedRingsAreUnregistered`
(NoFreedRing), for any number of objects and threads.

**V4VLocksProofs.** `LocksFollowTheCall` (TypeOK: domain_lock, L1, L2 and L3 are held by
the calls whose program counter says so, and by no others) and `RingsStayWhileUsed`
(NoStaleRing), for any number of CPUs, domains and structures. The inductive invariant
`LockInv` adds that a ring_info in use is the one on the
table, and that whoever uses it without R(L2) is registering it, and so has the owner's
domain_lock, or is in create_ring, which is the case locks_create is about.

**VcpuRunProofs.** `PauseStops` (PausedMeansStopped), for any finite number of callers
that pause, any number of interrupt sources and any bound on events. PausedMeansStopped
says nothing of the time before domain_pause returns, on which it depends: the invariant
`PauseInv` adds that the pause count is the number of callers between their increment and
their decrement, so that the vcpu is not runnable while one of them spins in
`vcpu_sleep_sync`, and that the thread is past `schedule_vcpu` only while `is_running` is
set. All steps but those of pausers leave this alone (`Quiet`), which one lemma uses for
all of them.
`RequestsMatch` (OneRequest) needs `RequestInv`: a request the vcpu waits for is in exactly
one of its event, the device model's hands and the completion event, and the vcpu is
blocked on it, from the step that sends it to the one that uses the answer, as long as the
VM is not being stopped. `SleepersWake` (SleeperIsWoken) rests on `SleepInv`, which says for
each moment between the decision to halt and the sleep who has still to wake the thread:
a source or pauser before `vcpu_wake`, one before the clearing of `_VPF_blocked`, or one
that has raised a softirq and not yet looked at `is_running`. `GuestsLeave`
(GuestIsInterrupted) has the same shape (`GuestInv`): from the head of the loop to the
guest, whoever requested an event check still has to queue the DPC, or has done so.

**DomShutdownProofs.** `ShutDownIsQuiet` (NothingInFlight), `PausesOnce` (PausedOnce) and
`ShutdownIsFinalised` (Finalised), for any number of vcpus and callers. The heart of the
invariant `ShutdownInv` is what each side may conclude from its look: a request out is
covered by a deferral, and a vcpu that is paused with a deferral set has not looked for
the shutdown yet, or has seen it. A crash does away with the deferrals, so this is claimed
of other reasons only.

The inductive invariants were model-checked before they were proved: RingInv is an
invariant of the run ringbuf, the others were checked with the configurations of the runs
(V4VInv in 1.3 million states, LockInv in 0.8 million, those of VcpuRun in 0.5 million,
QueuesInv in 3.5 million).

Induction over numbers is done with sets (a non-empty set of naturals has a least
element), because theorems that take a predicate as a parameter cannot be used. It carries
what is proved of `Occupied` and of the messages in a ring.

Only model-checked:

- *liveness* (WaiterSignalled, InterruptTaken, RequestFinished, PauseReturns, StopReturns,
  ShutdownCompletes) and NoDeadlock, which speaks of ENABLED: out of the prover's reach;
- *V4VCopy* (OwnBytesOnly, PublishedWhole, Gathered, CopiedOut): the place of each byte is
  computed by recursion over a vector that may change, with wrap-around at every entry; an
  induction over both has not been found that the provers follow;
- *V4VQueue* (NoForgottenWrite, NoForgottenMessage): the inductive invariants they need
  speak of every step between a look at the ring and the answer of the hypervisor, and of
  the passes of several notifies at once. Their proof, on top of QueuesInv, is open.

## 5. Not modelled in these parts

- *v4v*: V4VOP_poke, V4VOP_test and V4VOP_debug (compiled out), the tables of `V4VTables`
  and XSM hooks (compiled out), the dump functions at the end of `v4v.c`, the mapping cache
  of ring pages. In V4V a ring id always has the same memory and the same length: a forced
  registration that puts other memory in the place of a ring is in V4VRingObjects and, for
  its pages, in V4VPages. What is taken for a header in a torn ring has a length of at
  least a header in `ReceiveTorn`; `v4v_copy_out_offset` does not look for less.
- *uxenv4vlib*: unloading, port allocation, opening of files, the writes of files
  whose ring is mapped into a process, the recovery of a damaged ring (in V4V it is), the
  stopped state of the device, and the asynchronous senders and callbacks of other drivers (`notify.c`,
  `ring.c`).
- *vcpus*: throttling, yield, the tasklet work of an idle vcpu, the page checks between two
  runs, requests for pages, interrupted waits, a second ioreq server, and the moving of a
  thread between processors. The deferral of a shutdown is in DomShutdown only, and the
  two modules share no state.
- *shutdown*: the reporting of a crash (`is_crashing`) and what the device model is told;
  what suspend and resume do to v4v is in V4V.

The rest of the system is listed in section 1 and, file by file with the reason, in
`PROJECT.json`.

## 6. Plan

1. *Asynchronous senders* (`notify.c`) and the read callbacks in V4VQueue; then V4VQueue
   composed with V4V's notify instead of its abstract form `hv`.
2. *Several guests*: pending lists with entries of several domains, rings in both
   directions, partner V4V_DOMID_ANY.
3. *VcpuRun and DomShutdown together*: the pauses of a shutdown are those of VcpuRun.
4. *Event channels* (two event locks, close racing send) and *async-op* of the device
   model, each with an abstract handshake it implements.
5. *Storage*: block-swap's write queue and the dubtree's levels, against a map
   from blocks to contents.
6. *Populate on demand and templates*: clone and decrease of shared pages.
7. *Proofs*: NoForgottenWrite and NoForgottenMessage of V4VQueue; OwnBytesOnly of V4VCopy.
