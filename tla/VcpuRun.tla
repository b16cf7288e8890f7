------------------------------ MODULE VcpuRun ------------------------------
(***************************************************************************)
(* One virtual CPU and everyone who stops, wakes, interrupts or serves it. *)
(* The host thread of the vcpu alternates between uxen_vcpu_thread_fn in   *)
(* the Windows driver, which sleeps, and do_run_vcpu in the hypervisor,    *)
(* which schedules and enters the guest.  Around it: interrupt sources     *)
(* (vcpu_kick), the vcpu timer, callers of domain_pause and                *)
(* domain_unpause, the device model answering I/O requests, and            *)
(* uxen_vmi_stop_running.                                                  *)
(*                                                                         *)
(* Bodies that hold the scheduler lock are one step; what the code does    *)
(* without the lock, or before and after it, is a step of its own.         *)
(***************************************************************************)
EXTENDS Naturals, FiniteSets

CONSTANTS
    Sources,      \* contexts on other processors that call vcpu_kick
    Pausers,      \* callers of domain_pause and domain_unpause
    MaxEvents,    \* bound: how many events (the kinds in Kinds) happen in a behaviour
    Solo          \* bound: the kinds of event that happen alone in a behaviour

Kinds == {"interrupt", "timer", "dpc", "pause", "stop"}

ASSUME ConstantsAssumption == IsFiniteSet(Pausers) /\ MaxEvents \in Nat /\ Solo \subseteq Kinds

VARIABLES
    v,       \* struct vcpu: what the hypervisor keeps
    vci,     \* struct vm_vcpu_info: what the driver shares with it
    pc,      \* where the vcpu thread is
    io,      \* the I/O request slot, its two events, the device model's step
    irq,     \* an interrupt is pending in the virtual interrupt controller
    dpc,     \* DPCs queued on the processor the vcpu thread runs on
    src,     \* the interrupt sources' steps
    pp,      \* the pausers' steps
    timer,   \* the step of the expired vcpu timer's DPC
    stop,    \* the step of uxen_vmi_stop_running
    events   \* events used up

vars == <<v, vci, pc, io, irq, dpc, src, pp, timer, stop, events>>

\* The stages of hvm_do_resume, hvm_execute and the exit handlers: the part of
\* do_run_vcpu after a successful schedule_vcpu, up to the next scheduling.
Loaded == {"resume", "execute", "entry", "guest", "work", "workLock", "hlt", "notify", "renotify"}

Holding == {"sleep", "check", "ipi", "spin", "paused"}

Init ==
    /\ pp \in [Pausers -> {"idle", "paused"}]
    /\ Cardinality({p \in Pausers : pp[p] = "paused"}) <= 1
    /\ LET created == \E p \in Pausers : pp[p] = "paused" IN
       v = [blocked |-> FALSE, inXen |-> FALSE, pauses |-> IF created THEN 1 ELSE 0,
            runstate |-> IF created THEN "offline" ELSE "runnable",
            running |-> FALSE, loaded |-> FALSE, eventCheck |-> FALSE,
            softirq |-> {}, resume |-> FALSE, force |-> FALSE]
    /\ vci = [runnable |-> TRUE, halted |-> FALSE, hasTimer |-> FALSE,
              event |-> FALSE, waitEvent |-> "dummy", mode |-> "SETUP"]
    /\ pc = "thread"
    /\ io = [state |-> "NONE", request |-> FALSE, completed |-> FALSE, dm |-> "idle"]
    /\ irq = FALSE
    /\ dpc = {}
    /\ src = [s \in Sources |-> "idle"]
    /\ timer = "idle"
    /\ stop = "idle"
    /\ events = 0

----------------------------------------------------------------------------
(* Shared pieces *)

Runnable(w) == ~w.blocked /\ ~w.inXen /\ w.pauses = 0

Stopped(w) == w.runstate \in {"blocked", "offline"}

WorkPending == v.softirq # {} \/ vci.hasTimer

\* uxen_op_wake_vm, as hostsched_vcpu_wake calls it.
WakeVm(i) == IF i.halted THEN [i EXCEPT !.halted = FALSE, !.event = TRUE] ELSE i

\* vcpu_wake, under the scheduler lock, of a vcpu whose flags are w's.
VcpuWake(w) ==
    /\ v' = IF Runnable(w) THEN IF Stopped(w) THEN [w EXCEPT !.runstate = "runnable"] ELSE w
            ELSE IF ~w.blocked /\ w.runstate = "blocked" THEN [w EXCEPT !.runstate = "offline"]
            ELSE w
    /\ vci' = IF Runnable(w) THEN WakeVm(vci) ELSE vci

\* vcpu_raise_softirq by the vcpu thread itself: no inter-processor interrupt.
RaiseSelf(w, nr) ==
    /\ v' = [w EXCEPT !.softirq = @ \cup {nr}]
    /\ vci' = IF nr \in w.softirq THEN vci ELSE WakeVm(vci)

\* hostsched_vcpu_softirq from another processor: wake, and note the kick; the
\* caller sends it unless one is already on its way.
EventCheck ==
    /\ vci' = WakeVm(vci)
    /\ v' = [v EXCEPT !.eventCheck = TRUE]

\* uxen_op_vcpu_ipi
Ipi == dpc' = IF vci.runnable THEN dpc \cup {"ipi"} ELSE dpc

\* uxen_op_host_needs_preempt reads the DPC queue of the processor.
NeedsPreempt == dpc # {}

Goto(from, to) == pc = from /\ pc' = to

others == <<src, pp, timer, stop, events>>

----------------------------------------------------------------------------
(* The vcpu thread in the driver: uxen_vcpu_thread_fn.  Outside            *)
(* do_run_vcpu it runs below DISPATCH_LEVEL, so queued DPCs have run.      *)

\* Mutant: the completion event is cleared before the wait for it.
AfterRunClears ==
    /\ Goto("after", CASE ~vci.runnable -> "exited"
                       [] vci.runnable /\ vci.mode = "PROCESS_IOREQ" /\ vci.waitEvent # "dummy" -> "waitio"
                       [] vci.runnable /\ vci.mode \in {"SETUP", "HALT"} -> "halted"
                       [] OTHER -> "thread")
    /\ dpc' = {}
    /\ vci' = IF vci.runnable /\ vci.mode \in {"SETUP", "HALT"}
              THEN [vci EXCEPT !.event = FALSE] ELSE vci
    /\ io' = [io EXCEPT !.completed = FALSE]
    /\ UNCHANGED <<v, irq, others>>

\* What the thread does with the mode do_run_vcpu left behind.
AfterRun ==
    /\ Goto("after", CASE ~vci.runnable -> "exited"
                       [] vci.runnable /\ vci.mode = "PROCESS_IOREQ" /\ vci.waitEvent # "dummy" -> "waitio"
                       [] vci.runnable /\ vci.mode \in {"SETUP", "HALT"} -> "halted"
                       [] OTHER -> "thread")
    /\ dpc' = {}
    /\ vci' = IF vci.runnable /\ vci.mode \in {"SETUP", "HALT"}
              THEN [vci EXCEPT !.event = FALSE] ELSE vci
    /\ UNCHANGED <<v, io, irq, others>>

\* KeClearEvent is done: sleep only if still halted.
CheckHalted ==
    /\ Goto("halted", IF vci.halted THEN "sleep" ELSE "thread")
    /\ UNCHANGED <<v, vci, io, irq, dpc, others>>

Sleep ==
    /\ vci.event
    /\ Goto("sleep", "thread")
    /\ UNCHANGED <<v, vci, io, irq, dpc, others>>

WaitIoreq ==
    /\ io.completed
    /\ Goto("waitio", "thread")
    /\ io' = [io EXCEPT !.completed = FALSE]
    /\ vci' = [vci EXCEPT !.waitEvent = "dummy"]
    /\ UNCHANGED <<v, irq, dpc, others>>

----------------------------------------------------------------------------
(* do_run_vcpu *)

\* The thread's loop, below DISPATCH_LEVEL, calls do_run_vcpu again.  After a wait
\* for the device model the vcpu is no longer blocked in the hypervisor.
Enter ==
    /\ Goto("thread", IF vci.runnable THEN "loop" ELSE "exited")
    /\ dpc' = {}
    /\ IF vci.runnable /\ vci.mode = "PROCESS_IOREQ" /\ v.inXen
       THEN VcpuWake([v EXCEPT !.inXen = FALSE, !.resume = TRUE])
       ELSE v' = [v EXCEPT !.resume = @ \/ vci.runnable] /\ UNCHANGED vci
    /\ UNCHANGED <<io, irq, others>>

\* The head of the loop, and the label again.  An event check was requested:
\* cancel the kick, then forget the request.
CancelKick ==
    /\ pc \in {"loop", "again"}
    /\ pc' = CASE pc = "loop" /\ ~vci.runnable -> "out"
               [] (pc = "again" \/ vci.runnable) /\ v.eventCheck -> "cancelled"
               [] OTHER -> "preempt"
    /\ dpc' = IF v.eventCheck /\ vci.runnable THEN dpc \ {"ipi"} ELSE dpc
    /\ UNCHANGED <<v, vci, io, irq, others>>

\* Mutant: the request for an event check stays noted.
ClearEventCheckNot ==
    /\ Goto("cancelled", "preempt")
    /\ UNCHANGED <<v, vci, io, irq, dpc, others>>

ClearEventCheck ==
    /\ Goto("cancelled", "preempt")
    /\ v' = [v EXCEPT !.eventCheck = FALSE]
    /\ UNCHANGED <<vci, io, irq, dpc, others>>

\* Mutant: force_preempt is never taken back.
PreemptSticky ==
    /\ pc = "preempt"
    /\ IF v.force \/ NeedsPreempt
       THEN /\ pc' = "out"
            /\ vci' = [vci EXCEPT !.mode = "PREEMPT"]
            /\ UNCHANGED v
       ELSE pc' = (IF v.inXen THEN "ioreq" ELSE "sched") /\ UNCHANGED <<v, vci>>
    /\ UNCHANGED <<io, irq, dpc, others>>

Preempt ==
    /\ pc = "preempt"
    /\ IF v.force \/ NeedsPreempt
       THEN /\ pc' = "out"
            /\ v' = [v EXCEPT !.force = FALSE]
            /\ vci' = [vci EXCEPT !.mode = "PREEMPT"]
       ELSE pc' = (IF v.inXen THEN "ioreq" ELSE "sched") /\ UNCHANGED <<v, vci>>
    /\ UNCHANGED <<io, irq, dpc, others>>

\* Mutant: the event is left set when it is found set.
CheckIoreqStale ==
    /\ pc = "ioreq"
    /\ LET none == vci.waitEvent = "dummy" \/ ~vci.runnable IN
       IF none \/ io.completed
       THEN /\ pc' = "woken"
            /\ v' = [v EXCEPT !.inXen = FALSE]
            /\ vci' = IF none THEN vci ELSE [vci EXCEPT !.waitEvent = "dummy"]
            /\ UNCHANGED io
       ELSE /\ pc' = "out"
            /\ vci' = [vci EXCEPT !.mode = "PROCESS_IOREQ"]
            /\ UNCHANGED <<v, io>>
    /\ UNCHANGED <<irq, dpc, others>>

\* uxen_op_check_ioreq: has the request been answered (or nothing to wait for)?
CheckIoreq ==
    /\ pc = "ioreq"
    /\ LET none == vci.waitEvent = "dummy" \/ ~vci.runnable IN
       IF none \/ io.completed
       THEN /\ pc' = "woken"
            /\ v' = [v EXCEPT !.inXen = FALSE]
            /\ vci' = IF none THEN vci ELSE [vci EXCEPT !.waitEvent = "dummy"]
            /\ io' = IF none THEN io ELSE [io EXCEPT !.completed = FALSE]
       ELSE /\ pc' = "out"
            /\ vci' = [vci EXCEPT !.mode = "PROCESS_IOREQ"]
            /\ UNCHANGED <<v, io>>
    /\ UNCHANGED <<irq, dpc, others>>

WakeSelf ==
    /\ Goto("woken", "sched")
    /\ VcpuWake([v EXCEPT !.resume = TRUE])
    /\ UNCHANGED <<io, irq, dpc, others>>

\* Is a context switch needed at all?
Sched ==
    /\ pc = "sched"
    /\ IF Runnable(v) /\ v.runstate = "running" /\ v.loaded
       THEN pc' = "resume" /\ UNCHANGED v
       ELSE pc' = "pick" /\ v' = [v EXCEPT !.loaded = FALSE, !.running = FALSE]
    /\ UNCHANGED <<vci, io, irq, dpc, others>>

\* The body of the scheduling loop, entered with the lock held, up to the unlock:
\* give up, do the pending work, or declare the vcpu halted.
NotScheduled ==
    /\ v' = IF Stopped(v) THEN [v EXCEPT !.resume = TRUE] ELSE v
    /\ pc' = CASE ~vci.runnable -> "out"
               [] vci.runnable /\ WorkPending -> "softirq"
               [] OTHER -> "idle"
    /\ vci' = IF vci.runnable /\ ~WorkPending THEN [vci EXCEPT !.halted = TRUE] ELSE vci

\* The loop's condition.  The state is read before the lock is taken.
Pick ==
    /\ pc = "pick"
    /\ CASE Stopped(v) -> pc' = "locked" /\ UNCHANGED <<v, vci>>
         [] ~Stopped(v) /\ Runnable(v) ->
              /\ pc' = "resume"
              /\ v' = [v EXCEPT !.runstate = "running", !.running = TRUE, !.loaded = TRUE]
              /\ UNCHANGED vci
         [] OTHER -> NotScheduled
    /\ UNCHANGED <<io, irq, dpc, others>>

PickLocked ==
    /\ pc = "locked"
    /\ NotScheduled
    /\ UNCHANGED <<io, irq, dpc, others>>

\* Mutant: the state is not looked at again after the unlock.
IdleNoRecheck ==
    /\ pc = "idle"
    /\ IF ~WorkPending
       THEN pc' = "out" /\ vci' = [vci EXCEPT !.mode = "HALT"]
       ELSE pc' = "pick" /\ vci' = [vci EXCEPT !.halted = FALSE]
    /\ UNCHANGED <<v, io, irq, dpc, others>>

\* After the unlock: really nothing to do?
Idle ==
    /\ pc = "idle"
    /\ IF ~WorkPending /\ Stopped(v)
       THEN pc' = "out" /\ vci' = [vci EXCEPT !.mode = "HALT"]
       ELSE pc' = "pick" /\ vci' = [vci EXCEPT !.halted = FALSE]
    /\ UNCHANGED <<v, io, irq, dpc, others>>

\* check_vcpu_timer_interrupt
TimerSoftirq == v.softirq \cup (IF vci.hasTimer THEN {"timer"} ELSE {})

\* The handler of one softirq, in bit order.  The timer handler runs the expired
\* timers, whose callbacks raise an interrupt and kick this very vcpu; the
\* schedule handler is schedule_from_vcpu, up to its lock; the kick handler is
\* empty.
Handle(w) ==
    CASE "timer" \in w.softirq ->
           /\ irq' = TRUE
           /\ IF w.blocked
              THEN VcpuWake([w EXCEPT !.softirq = @ \ {"timer"}, !.blocked = FALSE])
              ELSE v' = [w EXCEPT !.softirq = @ \ {"timer"}] /\ UNCHANGED vci
      [] "timer" \notin w.softirq /\ "schedule" \in w.softirq ->
           /\ v' = [w EXCEPT !.softirq = @ \ {"schedule"}]
           /\ UNCHANGED <<vci, irq>>
      [] OTHER ->
           /\ v' = [w EXCEPT !.softirq = @ \ {"kick"}]
           /\ UNCHANGED <<vci, irq>>

\* The handler of SCHEDULE_VCPU_SOFTIRQ goes on to take the scheduler lock.
Reschedules == "timer" \notin v.softirq /\ "schedule" \in v.softirq /\ ~Runnable(v)

\* schedule_from_vcpu with the lock: by now the vcpu may be runnable again.
ScheduleFromVcpu ==
    /\ Goto("softirqsLock", "softirqs") \/ Goto("workLock", "work")
    /\ v' = [v EXCEPT !.runstate = IF @ # "running" THEN @
                                   ELSE IF v.blocked THEN "blocked"
                                   ELSE IF Runnable(v) THEN "runnable" ELSE "offline"]
    /\ UNCHANGED <<vci, io, irq, dpc, others>>

\* do_softirq_vcpu: the timer flag first, then one softirq after the other until
\* none is left.
Softirq ==
    /\ pc \in {"softirq", "softirqs"}
    /\ IF pc = "softirq" /\ vci.hasTimer
       THEN /\ v' = [v EXCEPT !.softirq = TimerSoftirq]
            /\ vci' = [vci EXCEPT !.hasTimer = FALSE]
            /\ pc' = "softirqs"
            /\ UNCHANGED irq
       ELSE IF v.softirq # {}
       THEN Handle(v) /\ pc' = IF Reschedules THEN "softirqsLock" ELSE "softirqs"
       ELSE pc' = "again" /\ UNCHANGED <<v, vci, irq>>
    /\ UNCHANGED <<io, dpc, others>>

\* hvm_send_assist_req up to the notification, whose first test is vci_runnable.
SendAssistReq(w, notify, skip) ==
    /\ pc' = IF vci.runnable THEN notify ELSE skip
    /\ RaiseSelf([w EXCEPT !.inXen = TRUE], "schedule")
    /\ io' = [io EXCEPT !.state = "READY"]

\* hvm_do_resume: finish an answered request (hvm_io_assist, which may send the
\* next one of the same instruction), or go on waiting for it.
Resume ==
    /\ pc = "resume"
    /\ CASE ~vci.runnable -> pc' = "out" /\ UNCHANGED <<v, vci, io>>
         [] vci.runnable /\ v.resume /\ io.state \in {"READY", "INPROCESS"} ->
              /\ pc' = "execute"
              /\ RaiseSelf([v EXCEPT !.inXen = TRUE, !.resume = FALSE], "schedule")
              /\ UNCHANGED io
         [] OTHER ->
              \/ /\ pc' = "execute"
                 /\ v' = [v EXCEPT !.resume = FALSE]
                 /\ io' = IF v.resume THEN [io EXCEPT !.state = "NONE"] ELSE io
                 /\ UNCHANGED vci
              \/ /\ v.resume /\ io.state = "RESP"
                 /\ SendAssistReq([v EXCEPT !.resume = FALSE], "renotify", "execute")
    /\ UNCHANGED <<irq, dpc, others>>

\* vmx_intr_assist takes a pending interrupt for injection.
Execute ==
    /\ Goto("execute", IF vci.runnable THEN "entry" ELSE "out")
    /\ irq' = (irq /\ ~vci.runnable)
    /\ UNCHANGED <<v, vci, io, dpc, others>>

\* Interrupts are off: check_work_vcpu decides whether the guest is entered.
CheckWork ==
    /\ pc = "entry"
    /\ IF WorkPending
       THEN pc' = "work" /\ v' = [v EXCEPT !.softirq = TimerSoftirq] /\ vci' = [vci EXCEPT !.hasTimer = FALSE]
       ELSE pc' = (IF NeedsPreempt THEN "loop" ELSE "guest") /\ UNCHANGED <<v, vci>>
    /\ UNCHANGED <<io, irq, dpc, others>>

\* The softirqs found by check_work_vcpu; the guest is not entered this time.
Work ==
    /\ pc = "work"
    /\ IF v.softirq # {}
       THEN Handle(v) /\ pc' = IF Reschedules THEN "workLock" ELSE "work"
       ELSE pc' = "loop" /\ UNCHANGED <<v, vci, irq>>
    /\ UNCHANGED <<io, dpc, others>>

\* The guest leaves: an interrupt of the host, HLT, an I/O access.
Exit ==
    /\ pc = "guest"
    /\ \/ dpc # {} /\ pc' = "loop" /\ v' = [v EXCEPT !.force = TRUE] /\ UNCHANGED <<vci, io>>
       \/ pc' = "hlt" /\ v' = [v EXCEPT !.blocked = TRUE] /\ UNCHANGED <<vci, io>>
       \/ SendAssistReq(v, "notify", "loop")
    /\ UNCHANGED <<irq, dpc, others>>

\* do_block, after _VPF_blocked is set.
Block ==
    /\ Goto("hlt", "loop")
    /\ IF irq THEN v' = [v EXCEPT !.blocked = FALSE] /\ UNCHANGED vci
       ELSE RaiseSelf(v, "schedule")
    /\ UNCHANGED <<io, irq, dpc, others>>

\* uxen_op_signal_event: what to wait for, then the request.
SignalEvent ==
    /\ Goto("notify", "loop") \/ Goto("renotify", "execute")
    /\ vci' = [vci EXCEPT !.waitEvent = "completed"]
    /\ io' = [io EXCEPT !.request = TRUE]
    /\ UNCHANGED <<v, irq, dpc, others>>

Out ==
    /\ Goto("out", "after")
    /\ v' = [v EXCEPT !.loaded = FALSE, !.running = FALSE]
    /\ UNCHANGED <<vci, io, irq, dpc, others>>

VcpuThread ==
    \/ AfterRun \/ CheckHalted \/ Sleep \/ WaitIoreq
    \/ Enter \/ CancelKick \/ ClearEventCheck \/ Preempt
    \/ CheckIoreq \/ WakeSelf \/ Sched \/ Pick \/ PickLocked \/ Idle \/ Softirq
    \/ ScheduleFromVcpu
    \/ Resume \/ Execute \/ CheckWork \/ Work \/ Exit
    \/ Block \/ SignalEvent \/ Out

----------------------------------------------------------------------------
(* An interrupt source on another processor: vcpu_kick after the interrupt *)
(* was made pending.  The running flag is read before the unblock.         *)

Spend(kind) ==
    LET cost == IF kind \in Solo THEN MaxEvents ELSE 1 IN
    /\ events + cost <= MaxEvents
    /\ events' = events + cost

Raise(s) ==
    /\ src[s] = "idle" /\ Spend("interrupt")
    /\ irq' = TRUE
    /\ src' = [src EXCEPT ![s] = "kick"]
    /\ UNCHANGED <<v, vci, pc, io, dpc, pp, timer, stop>>

ReadRunning(s) ==
    /\ src[s] = "kick"
    /\ src' = [src EXCEPT ![s] = IF v.running THEN "unblockRun" ELSE "unblock"]
    /\ UNCHANGED <<v, vci, pc, io, irq, dpc, pp, timer, stop, events>>

\* test_and_clear_bit(_VPF_blocked)
Unblock(s) ==
    /\ src[s] \in {"unblockRun", "unblock"}
    /\ v' = [v EXCEPT !.blocked = FALSE]
    /\ src' = [src EXCEPT ![s] =
                 CASE v.blocked -> IF @ = "unblockRun" THEN "wakeRun" ELSE "wake"
                   [] ~v.blocked -> IF @ = "unblockRun" THEN "raise" ELSE "idle"]
    /\ UNCHANGED <<vci, pc, io, irq, dpc, pp, timer, stop, events>>

Wake(s) ==
    /\ src[s] \in {"wakeRun", "wake"}
    /\ VcpuWake(v)
    /\ src' = [src EXCEPT ![s] = IF @ = "wakeRun" THEN "raise" ELSE "idle"]
    /\ UNCHANGED <<pc, io, irq, dpc, pp, timer, stop, events>>

\* vcpu_raise_softirq(KICK_VCPU_SOFTIRQ): nothing more if the bit is already set.
RaiseKick(s) ==
    /\ src[s] = "raise"
    /\ v' = [v EXCEPT !.softirq = @ \cup {"kick"}]
    /\ src' = [src EXCEPT ![s] = IF "kick" \in v.softirq THEN "idle" ELSE "check"]
    /\ UNCHANGED <<vci, pc, io, irq, dpc, pp, timer, stop, events>>

SourceCheck(s) ==
    /\ src[s] = "check"
    /\ EventCheck
    /\ src' = [src EXCEPT ![s] = IF v.eventCheck THEN "idle" ELSE "ipi"]
    /\ UNCHANGED <<pc, io, irq, dpc, pp, timer, stop, events>>

SourceIpi(s) ==
    /\ src[s] = "ipi"
    /\ Ipi
    /\ src' = [src EXCEPT ![s] = "idle"]
    /\ UNCHANGED <<v, vci, pc, io, irq, pp, timer, stop, events>>

Source(s) ==
    \/ ReadRunning(s) \/ Unblock(s) \/ Wake(s)
    \/ RaiseKick(s) \/ SourceCheck(s) \/ SourceIpi(s)

----------------------------------------------------------------------------
(* The vcpu timer (uxen_vcpu_timer_cb) and other DPCs of the host          *)

TimerExpires ==
    /\ timer = "idle" /\ Spend("timer")
    /\ IF vci.runnable
       THEN timer' = "wake" /\ vci' = [vci EXCEPT !.hasTimer = TRUE]
       ELSE UNCHANGED <<timer, vci>>
    /\ UNCHANGED <<v, pc, io, irq, dpc, src, pp, stop>>

TimerWakes ==
    /\ \/ timer = "wake" /\ timer' = "ipi" /\ vci' = WakeVm(vci) /\ UNCHANGED dpc
       \/ timer = "ipi" /\ timer' = "idle" /\ Ipi /\ UNCHANGED vci
    /\ UNCHANGED <<v, pc, io, irq, src, pp, stop, events>>

HostDpc ==
    /\ Spend("dpc")
    /\ dpc' = dpc \cup {"other"}
    /\ UNCHANGED <<v, vci, pc, io, irq, src, pp, timer, stop>>

----------------------------------------------------------------------------
(* domain_pause and domain_unpause *)

Pause(p) ==
    /\ pp[p] = "idle" /\ Spend("pause")
    /\ v' = [v EXCEPT !.pauses = @ + 1]
    /\ pp' = [pp EXCEPT ![p] = "sleep"]
    /\ UNCHANGED <<vci, pc, io, irq, dpc, src, timer, stop>>

\* Mutant: no softirq is raised for the pause.
SleepNosyncQuiet(p) ==
    /\ pp[p] = "sleep"
    /\ v' = IF Runnable(v) THEN v
            ELSE [v EXCEPT !.runstate = IF @ = "runnable" THEN "offline" ELSE @]
    /\ pp' = [pp EXCEPT ![p] = "spin"]
    /\ UNCHANGED <<vci, pc, io, irq, dpc, src, timer, stop, events>>

\* vcpu_sleep_nosync under the scheduler lock, up to setting the softirq bit.
SleepNosync(p) ==
    /\ pp[p] = "sleep"
    /\ v' = IF Runnable(v) THEN v
            ELSE [v EXCEPT !.runstate = IF @ = "runnable" THEN "offline" ELSE @,
                           !.softirq = @ \cup {"schedule"}]
    /\ pp' = [pp EXCEPT ![p] = IF Runnable(v) \/ "schedule" \in v.softirq THEN "spin" ELSE "check"]
    /\ UNCHANGED <<vci, pc, io, irq, dpc, src, timer, stop, events>>

PauserCheck(p) ==
    /\ pp[p] = "check"
    /\ EventCheck
    /\ pp' = [pp EXCEPT ![p] = IF v.eventCheck THEN "spin" ELSE "ipi"]
    /\ UNCHANGED <<pc, io, irq, dpc, src, timer, stop, events>>

PauserIpi(p) ==
    /\ pp[p] = "ipi"
    /\ Ipi
    /\ pp' = [pp EXCEPT ![p] = "spin"]
    /\ UNCHANGED <<v, vci, pc, io, irq, src, timer, stop, events>>

\* Mutant: vcpu_sleep_sync without the busy-wait.
SleepSyncNoWait(p) ==
    /\ pp[p] = "spin"
    /\ pp' = [pp EXCEPT ![p] = "paused"]
    /\ UNCHANGED <<v, vci, pc, io, irq, dpc, src, timer, stop, events>>

\* The busy-wait of vcpu_sleep_sync.
SleepSync(p) ==
    /\ pp[p] = "spin"
    /\ Runnable(v) \/ ~v.running
    /\ pp' = [pp EXCEPT ![p] = "paused"]
    /\ UNCHANGED <<v, vci, pc, io, irq, dpc, src, timer, stop, events>>

Unpause(p) ==
    /\ pp[p] = "paused"
    /\ v' = [v EXCEPT !.pauses = @ - 1]
    /\ pp' = [pp EXCEPT ![p] = IF v.pauses = 1 THEN "wake" ELSE "idle"]
    /\ UNCHANGED <<vci, pc, io, irq, dpc, src, timer, stop, events>>

UnpauseWake(p) ==
    /\ pp[p] = "wake"
    /\ VcpuWake(v)
    /\ pp' = [pp EXCEPT ![p] = "idle"]
    /\ UNCHANGED <<pc, io, irq, dpc, src, timer, stop, events>>

Pauser(p) ==
    \/ SleepNosync(p) \/ PauserCheck(p) \/ PauserIpi(p) \/ SleepSync(p)
    \/ Unpause(p) \/ UnpauseWake(p)

----------------------------------------------------------------------------
(* The device model: handle_ioreq, once per signalled request event *)

GetIoreq ==
    /\ io.dm = "idle" /\ io.request
    /\ io' = IF io.state = "READY"
             THEN [io EXCEPT !.request = FALSE, !.state = "INPROCESS", !.dm = "busy"]
             ELSE [io EXCEPT !.request = FALSE]
    /\ UNCHANGED <<v, vci, pc, irq, dpc, others>>

\* The answer, then the event.
Respond ==
    /\ \/ io.dm = "busy" /\ io' = [io EXCEPT !.state = "RESP", !.dm = "signal"]
       \/ io.dm = "signal" /\ io' = [io EXCEPT !.completed = TRUE, !.dm = "idle"]
    /\ UNCHANGED <<v, vci, pc, irq, dpc, others>>

DeviceModel == GetIoreq \/ Respond

----------------------------------------------------------------------------
(* uxen_vmi_stop_running *)

\* The wait event is read first, vci_runnable is cleared afterwards.
StopReads ==
    /\ stop = "idle" /\ Spend("stop")
    /\ stop' = IF vci.waitEvent = "dummy" THEN "clear" ELSE "clearEvent"
    /\ UNCHANGED <<v, vci, pc, io, irq, dpc, src, pp, timer>>

StopClears ==
    /\ stop \in {"clear", "clearEvent"}
    /\ stop' = IF stop = "clearEvent" THEN "event" ELSE "wake"
    /\ vci' = [vci EXCEPT !.runnable = FALSE]
    /\ UNCHANGED <<v, pc, io, irq, dpc, src, pp, timer, events>>

StopSignals ==
    /\ stop = "event" /\ stop' = "wake"
    /\ vci' = [vci EXCEPT !.waitEvent = "dummy"]
    /\ io' = [io EXCEPT !.completed = TRUE]
    /\ UNCHANGED <<v, pc, irq, dpc, src, pp, timer, events>>

\* Mutant: a halted vcpu is not woken for the stop.
StopWakesRunning ==
    /\ stop = "wake" /\ stop' = "wait"
    /\ vci' = [vci EXCEPT !.halted = FALSE]
    /\ dpc' = dpc \cup {"other"}
    /\ UNCHANGED <<v, pc, io, irq, src, pp, timer, events>>

\* Wake a halted vcpu and interrupt a running one.
StopWakes ==
    /\ stop = "wake" /\ stop' = "wait"
    /\ vci' = [vci EXCEPT !.halted = FALSE, !.event = TRUE]
    /\ dpc' = dpc \cup {"other"}
    /\ UNCHANGED <<v, pc, io, irq, src, pp, timer, events>>

\* vmi_notexecuting is set by the thread's exit (uxen_op_execute).
StopWaits ==
    /\ stop = "wait" /\ pc = "exited"
    /\ stop' = "done"
    /\ UNCHANGED <<v, vci, pc, io, irq, dpc, src, pp, timer, events>>

StopContinues == StopClears \/ StopSignals \/ StopWakes \/ StopWaits

----------------------------------------------------------------------------

Next ==
    \/ VcpuThread
    \/ \E s \in Sources : Raise(s) \/ Source(s)
    \/ TimerExpires \/ TimerWakes \/ HostDpc
    \/ \E p \in Pausers : Pause(p) \/ Pauser(p)
    \/ DeviceModel
    \/ StopReads \/ StopContinues

Spec == Init /\ [][Next]_vars

\* Host threads and DPCs run; the device model's handler returns; a caller that
\* paused the domain unpauses it.  A guest need not leave by itself.
Fairness ==
    /\ WF_vars((pc # "guest" \/ dpc # {}) /\ VcpuThread)
    /\ \A s \in Sources : WF_vars(Source(s))
    /\ \A p \in Pausers : WF_vars(Pauser(p))
    /\ WF_vars(TimerWakes)
    /\ WF_vars(DeviceModel)
    /\ WF_vars(StopContinues)

FairSpec == Spec /\ Fairness

----------------------------------------------------------------------------
(* Properties *)

\* When domain_pause has returned, and until domain_unpause, the vcpu is not
\* running and its thread is nowhere between schedule_vcpu and the next
\* scheduling decision: neither in the guest nor in a handler of its exits.
PausedMeansStopped ==
    \A p \in Pausers : pp[p] = "paused" => ~v.running /\ pc \notin Loaded

SourceIn(steps) == \E s \in Sources : src[s] \in steps
PauserIn(steps) == \E p \in Pausers : pp[p] \in steps

\* A thread asleep on vci_runnable, whose event is not set, has nothing to do, or
\* whoever gave it something to do has yet to wake it: this holds for a vcpu that
\* could run, for an interrupt that should end a HLT, for an expired timer and
\* for a pending softirq.
SleeperIsWoken ==
    pc = "sleep" /\ ~vci.event /\ vci.runnable =>
        /\ Runnable(v) => SourceIn({"wake", "wakeRun"}) \/ PauserIn({"wake"})
        /\ irq /\ v.blocked => SourceIn({"kick", "unblock", "unblockRun"})
        /\ vci.hasTimer => timer = "wake"
        /\ v.softirq # {} => SourceIn({"check"}) \/ PauserIn({"check"})

\* A guest is not left running past something it has to stop for: an interrupt
\* to inject, work for the vcpu or the end of the VM.  The processor has a DPC
\* queued that takes the guest out, or somebody is about to queue it.
GuestIsInterrupted ==
    pc = "guest" /\ dpc = {} =>
        /\ irq => SourceIn({"kick", "unblock", "unblockRun", "wake", "wakeRun", "raise"})
                    \/ "kick" \in v.softirq
        /\ WorkPending => \/ SourceIn({"check", "ipi"}) \/ PauserIn({"check", "ipi"})
                          \/ timer # "idle" \/ stop \in {"event", "wake"}
        /\ ~vci.runnable => stop \in {"event", "wake"}

\* A completion belongs to the request that is outstanding: a new one starts with
\* no event to wait for, none left over and the device model at rest, which then
\* finds the request ready and in service until it answers.  And the vcpu goes on
\* only with an answer: hvm_do_resume never finds a request that the device model
\* still has, and the guest is never entered with one.
OneRequest ==
    /\ pc \in {"notify", "renotify"} /\ vci.runnable =>
         vci.waitEvent = "dummy" /\ ~io.completed /\ ~io.request /\ io.dm = "idle"
    /\ io.request => io.state = "READY"
    /\ io.dm = "busy" => io.state = "INPROCESS"
    /\ pc = "resume" /\ vci.runnable /\ v.resume => io.state \in {"NONE", "RESP"}
    /\ pc = "guest" => ~v.inXen /\ io.state = "NONE"

\* A pending interrupt is taken by the vcpu, unless the VM is stopped.
InterruptTaken == irq ~> (~irq \/ ~vci.runnable)

\* A vcpu blocked on its request goes on, unless the VM is stopped.
RequestFinished == v.inXen ~> (~v.inXen \/ ~vci.runnable)

\* domain_pause returns.
PauseReturns == \A p \in Pausers : (pp[p] = "sleep") ~> (pp[p] = "paused")

\* uxen_vmi_stop_running returns.
StopReturns == (stop # "idle") ~> (stop = "done")

=============================================================================
