--------------------------- MODULE VcpuRunProofs ---------------------------
(***************************************************************************)
(* That domain_pause keeps its promise, that the vcpu and the device model *)
(* agree on which request is being answered, that a thread which sleeps is *)
(* woken and that a guest which has to leave is interrupted, whatever the  *)
(* number of callers that pause and unpause the domain at the same time,   *)
(* of interrupt sources and of events.                                     *)
(***************************************************************************)
EXTENDS VcpuRun, FiniteSetTheorems, TLAPS

Runstates == {"running", "runnable", "blocked", "offline"}

VcpuType ==
    [blocked : BOOLEAN, inXen : BOOLEAN, pauses : Nat, runstate : Runstates,
     running : BOOLEAN, loaded : BOOLEAN, eventCheck : BOOLEAN,
     softirq : SUBSET {"timer", "schedule", "kick"}, resume : BOOLEAN, force : BOOLEAN]

PauserSteps == Holding \cup {"idle", "wake"}

Holders == {p \in Pausers : pp[p] \in Holding}

\* The state that the argument is about has its type.
Typed == v \in VcpuType /\ pp \in [Pausers -> PauserSteps]

\* The inductive invariant.  The count of pauses is the number of callers that
\* hold one: so the vcpu is not runnable for a caller that waits in
\* vcpu_sleep_sync, and not scheduled while one has returned.  The context is
\* loaded, and the thread past schedule_vcpu, only while is_running is set.
PauseInv ==
    /\ Typed
    /\ v.pauses = Cardinality(Holders)
    /\ v.loaded => v.running
    /\ pc \in Loaded => v.running
    /\ \A p \in Pausers : pp[p] = "paused" => ~v.running

\* What a step of anyone but a pauser may do to the state of the argument.
Quiet ==
    /\ v' \in VcpuType
    /\ v'.pauses = v.pauses
    /\ pp' = pp
    /\ v'.loaded => v'.running
    /\ pc' \in Loaded => v'.running
    /\ v'.running => v.running \/ v.pauses = 0

LEMMA HoldersFinite == IsFiniteSet(Holders)
BY ConstantsAssumption, FS_Subset, Zenon DEF Holders

\* A caller that holds a pause makes the count positive.
LEMMA HeldMeansNotRunnable ==
    ASSUME PauseInv, NEW p \in Pausers, pp[p] \in Holding
    PROVE  v.pauses # 0
<1>1. p \in Holders
  BY Zenon DEF Holders
<1>2. Cardinality(Holders) # 0
  BY <1>1, HoldersFinite, FS_EmptySet, Zenon
<1> QED
  BY <1>2, Zenon DEF PauseInv

LEMMA QuietPreserves ==
    ASSUME PauseInv, Quiet
    PROVE  PauseInv'
<1>1. Holders' = Holders
  BY Zenon DEF Quiet, Holders
<1>2. Typed' /\ v'.pauses = Cardinality(Holders')
  BY <1>1, Zenon DEF Quiet, PauseInv, Typed
<1>3. ASSUME NEW p \in Pausers, pp'[p] = "paused"
      PROVE  ~v'.running
  <2>1. pp[p] = "paused" /\ pp[p] \in Holding
    BY <1>3, Zenon DEF Quiet, Holding
  <2>2. v.pauses # 0 /\ ~v.running
    BY <2>1, HeldMeansNotRunnable, Zenon DEF PauseInv
  <2> QED
    BY <2>2, Zenon DEF Quiet
<1> QED
  BY <1>2, <1>3, Zenon DEF Quiet, PauseInv

\* v' is w up to fields that the argument does not look at.
Same(w) ==
    /\ v' \in VcpuType
    /\ v'.pauses = w.pauses /\ v'.running = w.running /\ v'.loaded = w.loaded

LEMMA WakeFacts ==
    ASSUME NEW w \in VcpuType, VcpuWake(w)
    PROVE  Same(w)
BY DEF VcpuWake, VcpuType, Same, Runstates

LEMMA RaiseFacts ==
    ASSUME NEW w \in VcpuType, RaiseSelf(w, "schedule")
    PROVE  Same(w)
BY Zenon DEF RaiseSelf, VcpuType, Same

LEMMA HandleFacts ==
    ASSUME v \in VcpuType, Handle(v)
    PROVE  Same(v)
<1>1. CASE "timer" \in v.softirq
  <2> DEFINE w == [v EXCEPT !.softirq = @ \ {"timer"}, !.blocked = FALSE]
  <2>1. w \in VcpuType /\ w.pauses = v.pauses /\ w.running = v.running /\ w.loaded = v.loaded
    BY Zenon DEF VcpuType
  <2>2. CASE v.blocked
    <3>1. VcpuWake(w)
      BY <1>1, <2>2, Zenon DEF Handle
    <3> QED
      BY <2>1, <3>1, WakeFacts, Zenon DEF Same
  <2>3. CASE ~v.blocked
    BY <1>1, <2>3, Zenon DEF Handle, VcpuType, Same
  <2> QED
    BY <2>2, <2>3, Zenon
<1>2. CASE "timer" \notin v.softirq /\ "schedule" \in v.softirq
  BY <1>2 DEF Handle, VcpuType, Same
<1>3. CASE "timer" \notin v.softirq /\ "schedule" \notin v.softirq
  BY <1>3 DEF Handle, VcpuType, Same
<1> QED
  BY <1>1, <1>2, <1>3, Zenon

\* A step of the vcpu's thread schedules the vcpu only when nobody holds a pause.
LEMMA ThreadQuiet ==
    ASSUME PauseInv, VcpuThread
    PROVE  Quiet
<1> USE DEF PauseInv, Typed, others, Goto
<1>1. CASE AfterRun \/ CheckHalted \/ Sleep \/ WaitIoreq
  BY <1>1, Zenon DEF AfterRun, CheckHalted, Sleep, WaitIoreq, Quiet, Loaded
<1>2. CASE Enter
  <2> DEFINE w == [v EXCEPT !.inXen = FALSE, !.resume = TRUE]
  <2>1. w \in VcpuType /\ w.pauses = v.pauses /\ w.running = v.running /\ w.loaded = v.loaded
    BY Zenon DEF VcpuType
  <2>2. Same(v)
    <3>1. CASE vci.runnable /\ vci.mode = "PROCESS_IOREQ" /\ v.inXen
      <4>1. VcpuWake(w)
        BY <1>2, <3>1, Zenon DEF Enter
      <4> QED
        BY <2>1, <4>1, WakeFacts, Zenon DEF Same
    <3>2. CASE ~(vci.runnable /\ vci.mode = "PROCESS_IOREQ" /\ v.inXen)
      <4>1. v' = [v EXCEPT !.resume = v.resume \/ vci.runnable]
        BY <1>2, <3>2, Zenon DEF Enter
      <4>2. (v.resume \/ vci.runnable) \in BOOLEAN
        BY Zenon
      <4> HIDE DEF w
      <4> QED
        BY <4>1, <4>2, Zenon DEF VcpuType, Same
    <3> QED
      BY <3>1, <3>2, Zenon
  <2>3. pc' \notin Loaded /\ pp' = pp
    BY <1>2, Zenon DEF Enter, Loaded
  <2> QED
    BY <2>2, <2>3, Zenon DEF Same, Quiet
<1>3. CASE CancelKick \/ ClearEventCheck
  BY <1>3, Zenon DEF CancelKick, ClearEventCheck, Quiet, Loaded, VcpuType
<1>4. CASE Preempt
  BY <1>4, Zenon DEF Preempt, Quiet, Loaded, VcpuType
<1>5. CASE CheckIoreq
  BY <1>5, Zenon DEF CheckIoreq, Quiet, Loaded, VcpuType
<1>6. CASE WakeSelf
  <2> DEFINE w == [v EXCEPT !.resume = TRUE]
  <2>1. w \in VcpuType /\ w.pauses = v.pauses /\ w.running = v.running /\ w.loaded = v.loaded
    BY Zenon DEF VcpuType
  <2>2. VcpuWake(w) /\ pc' \notin Loaded /\ pp' = pp
    BY <1>6, Zenon DEF WakeSelf, Loaded
  <2> QED
    BY <2>1, <2>2, WakeFacts, Zenon DEF Same, Quiet
<1>7. CASE Sched
  BY <1>7, Zenon DEF Sched, Quiet, Loaded, VcpuType
<1>8. CASE Pick \/ PickLocked
  <2>1. CASE NotScheduled /\ UNCHANGED <<io, irq, dpc, others>>
    BY <2>1, Zenon DEF NotScheduled, Quiet, Loaded, VcpuType
  <2>2. CASE Pick /\ Stopped(v)
    BY <2>2, Zenon DEF Pick, Quiet, Loaded
  <2>3. CASE Pick /\ ~Stopped(v) /\ Runnable(v)
    <3>1. /\ v' = [v EXCEPT !.runstate = "running", !.running = TRUE, !.loaded = TRUE]
          /\ v.pauses = 0 /\ pp' = pp
      BY <2>3, Zenon DEF Pick, Runnable
    <3>2. v' \in VcpuType /\ v'.running /\ v'.pauses = v.pauses
      BY <3>1, Zenon DEF VcpuType, Runstates
    <3> QED
      BY <3>1, <3>2, Zenon DEF Quiet
  <2> QED
    BY <1>8, <2>1, <2>2, <2>3, Zenon DEF Pick, PickLocked
<1>9. CASE Idle
  BY <1>9, Zenon DEF Idle, Quiet, Loaded
<1>10. CASE Softirq
  <2>1. CASE v.softirq # {} /\ Handle(v) /\ pc' \in {"softirqs", "softirqsLock"}
    BY <1>10, <2>1, HandleFacts, Zenon DEF Softirq, Same, Quiet, Loaded
  <2>2. CASE v' = [v EXCEPT !.softirq = TimerSoftirq] /\ pc' = "softirqs"
    BY <1>10, <2>2, Zenon DEF Softirq, TimerSoftirq, Quiet, Loaded, VcpuType
  <2>3. CASE pc' = "again" /\ v' = v
    BY <1>10, <2>3, Zenon DEF Softirq, Quiet, Loaded
  <2> QED
    BY <1>10, <2>1, <2>2, <2>3, Zenon DEF Softirq
<1>11. CASE Resume
  <2> DEFINE w == [v EXCEPT !.resume = FALSE]
  <2> DEFINE x == [v EXCEPT !.inXen = TRUE, !.resume = FALSE]
  <2> DEFINE y == [w EXCEPT !.inXen = TRUE]
  <2>1. /\ w \in VcpuType /\ w.pauses = v.pauses /\ w.running = v.running /\ w.loaded = v.loaded
        /\ x \in VcpuType /\ x.pauses = v.pauses /\ x.running = v.running /\ x.loaded = v.loaded
        /\ y \in VcpuType /\ y.pauses = v.pauses /\ y.running = v.running /\ y.loaded = v.loaded
    BY Zenon DEF VcpuType
  <2>2. v.running /\ pp' = pp
    BY <1>11, Zenon DEF Resume, Loaded
  <2>3. v' = v \/ v' = w \/ RaiseSelf(x, "schedule") \/ RaiseSelf(y, "schedule")
    BY <1>11, Zenon DEF Resume, SendAssistReq
  <2>4. Same(v)
    BY <2>1, <2>3, RaiseFacts, Zenon DEF Same
  <2> QED
    BY <2>2, <2>4, Zenon DEF Same, Quiet
<1>12. CASE Execute
  BY <1>12, Zenon DEF Execute, Quiet, Loaded
<1>13. CASE CheckWork
  BY <1>13, ZenonT(60) DEF CheckWork, TimerSoftirq, Quiet, Loaded, VcpuType
<1>14. CASE Work
  <2>1. v.running /\ pp' = pp
    BY <1>14, Zenon DEF Work, Loaded
  <2>2. Same(v)
    BY <1>14, HandleFacts, Zenon DEF Work, Same
  <2> QED
    BY <2>1, <2>2 DEF Same, Quiet
<1>15. CASE Exit
  <2> DEFINE w == [v EXCEPT !.inXen = TRUE]
  <2>1. w \in VcpuType /\ w.pauses = v.pauses /\ w.running = v.running /\ w.loaded = v.loaded
    BY Zenon DEF VcpuType
  <2>2. v.running /\ pp' = pp
    BY <1>15, Zenon DEF Exit, Loaded
  <2>3. CASE RaiseSelf(w, "schedule")
    BY <2>1, <2>2, <2>3, RaiseFacts, Zenon DEF Same, Quiet
  <2>4. CASE v' = [v EXCEPT !.force = TRUE] \/ v' = [v EXCEPT !.blocked = TRUE]
    BY <2>2, <2>4, Zenon DEF Quiet, VcpuType
  <2> QED
    BY <1>15, <2>3, <2>4, Zenon DEF Exit, SendAssistReq
<1>16. CASE Block
  <2>1. CASE irq
    BY <1>16, <2>1, Zenon DEF Block, Quiet, Loaded, VcpuType
  <2>2. CASE ~irq
    BY <1>16, <2>2, RaiseFacts, Zenon DEF Block, Same, Quiet, Loaded
  <2> QED
    BY <2>1, <2>2, Zenon
<1>17. CASE ScheduleFromVcpu
  <2>1. PICK r \in Runstates : v' = [v EXCEPT !.runstate = r]
    <3>1. v.runstate \in Runstates
      BY Zenon DEF VcpuType
    <3> QED
      BY <1>17, <3>1, Zenon DEF ScheduleFromVcpu, Runstates
  <2> QED
    BY <1>17, <2>1, ZenonT(60) DEF ScheduleFromVcpu, Quiet, Loaded, VcpuType
<1>18. CASE SignalEvent
  BY <1>18, Zenon DEF SignalEvent, Quiet, Loaded
<1>19. CASE Out
  BY <1>19, Zenon DEF Out, Quiet, Loaded, VcpuType
<1> QED
  BY <1>1, <1>2, <1>3, <1>4, <1>5, <1>6, <1>7, <1>8, <1>9, <1>10, <1>11, <1>12,
     <1>13, <1>14, <1>15, <1>16, <1>17, <1>18, <1>19, Zenon DEF VcpuThread

\* So is a step of anyone else who is not a pauser.
LEMMA OthersQuiet ==
    ASSUME PauseInv,
           \/ \E s \in Sources : Raise(s) \/ Source(s)
           \/ TimerExpires \/ TimerWakes \/ HostDpc
           \/ DeviceModel \/ StopReads \/ StopContinues
    PROVE  Quiet
<1> USE DEF PauseInv, Typed, others
<1>1. ASSUME NEW s \in Sources, Raise(s) \/ Source(s)
      PROVE  Quiet
  <2>1. CASE Raise(s) \/ ReadRunning(s) \/ SourceIpi(s)
    BY <2>1, Zenon DEF Raise, ReadRunning, SourceIpi, Quiet
  <2>2. CASE Unblock(s)
    BY <2>2, Zenon DEF Unblock, Quiet, VcpuType
  <2>3. CASE Wake(s)
    BY <2>3, WakeFacts, Zenon DEF Wake, Same, Quiet
  <2>4. CASE RaiseKick(s)
    BY <2>4, Zenon DEF RaiseKick, Quiet, VcpuType
  <2>5. CASE SourceCheck(s)
    BY <2>5, Zenon DEF SourceCheck, EventCheck, Quiet, VcpuType
  <2> QED
    BY <1>1, <2>1, <2>2, <2>3, <2>4, <2>5, Zenon DEF Source
<1>2. CASE TimerExpires \/ TimerWakes \/ HostDpc
  BY <1>2, Zenon DEF TimerExpires, TimerWakes, HostDpc, Quiet
<1>3. CASE DeviceModel
  BY <1>3, Zenon DEF DeviceModel, GetIoreq, Respond, Quiet
<1>4. CASE StopReads \/ StopContinues
  BY <1>4, Zenon DEF StopReads, StopContinues, StopClears, StopSignals, StopWakes, StopWaits, Quiet
<1> QED
  BY <1>1, <1>2, <1>3, <1>4, Zenon

\* A pauser counts itself in before it waits and out when it is done; it returns
\* from domain_pause only when the vcpu does not run.
LEMMA PauserPreserves ==
    ASSUME PauseInv, NEW p \in Pausers, Pause(p) \/ Pauser(p)
    PROVE  PauseInv'
<1> USE DEF PauseInv, Typed
<1>1. CASE Pause(p)
  <2>1. p \notin Holders /\ Holders' = Holders \cup {p}
    BY <1>1, Zenon DEF Pause, Holders, Holding, PauserSteps
  <2>2. Cardinality(Holders') = Cardinality(Holders) + 1
    BY <2>1, HoldersFinite, FS_AddElement, Zenon
  <2>3. v' \in VcpuType /\ v'.pauses = v.pauses + 1 /\ v'.running = v.running /\ v'.loaded = v.loaded
    BY <1>1 DEF Pause, VcpuType
  <2>4. pc' = pc /\ pp' = [pp EXCEPT ![p] = "sleep"]
    BY <1>1, Zenon DEF Pause
  <2> QED
    BY <2>2, <2>3, <2>4, Zenon DEF PauserSteps, Holding
<1>2. CASE SleepNosync(p) \/ PauserCheck(p) \/ PauserIpi(p)
  <2>1. PICK step \in {"check", "ipi", "spin"} : pp' = [pp EXCEPT ![p] = step]
    BY <1>2, Zenon DEF SleepNosync, PauserCheck, PauserIpi
  <2>2. pp[p] \in Holding /\ pc' = pc
    BY <1>2, Zenon DEF SleepNosync, PauserCheck, PauserIpi, Holding
  <2>3. Holders' = Holders
    BY <2>1, <2>2, Zenon DEF Holders, Holding
  <2>4. v' \in VcpuType /\ v'.pauses = v.pauses /\ v'.running = v.running /\ v'.loaded = v.loaded
    <3>1. CASE SleepNosync(p)
      BY <3>1, Zenon DEF SleepNosync, VcpuType, Runstates
    <3>2. CASE PauserCheck(p)
      BY <3>2, Zenon DEF PauserCheck, EventCheck, VcpuType
    <3>3. CASE PauserIpi(p)
      BY <3>3, Zenon DEF PauserIpi
    <3> QED
      BY <1>2, <3>1, <3>2, <3>3, Zenon
  <2> QED
    BY <2>1, <2>2, <2>3, <2>4, Zenon DEF PauserSteps, Holding
<1>3. CASE SleepSync(p)
  <2>1. pp[p] \in Holding /\ pc' = pc /\ v' = v /\ pp' = [pp EXCEPT ![p] = "paused"]
    BY <1>3, Zenon DEF SleepSync, Holding
  <2>2. Holders' = Holders
    BY <2>1, Zenon DEF Holders, Holding
  <2>3. v.pauses # 0
    BY <2>1, HeldMeansNotRunnable, Zenon
  <2>4. ~v.running
    BY <1>3, <2>3, Zenon DEF SleepSync, Runnable
  <2> QED
    BY <2>1, <2>2, <2>4, Zenon DEF PauserSteps, Holding
<1>4. CASE Unpause(p)
  <2>1. PICK step \in {"wake", "idle"} : pp' = [pp EXCEPT ![p] = step]
    BY <1>4, Zenon DEF Unpause
  <2>2. pp[p] = "paused" /\ pc' = pc
    BY <1>4, Zenon DEF Unpause
  <2>3. p \in Holders /\ Holders' = Holders \ {p}
    BY <2>1, <2>2, Zenon DEF Holders, Holding
  <2>4. Cardinality(Holders') = Cardinality(Holders) - 1
    BY <2>3, HoldersFinite, FS_RemoveElement, Zenon
  <2>5. v.pauses # 0
    BY <2>2, HeldMeansNotRunnable, Zenon DEF Holding
  <2>6. v' \in VcpuType /\ v'.pauses = v.pauses - 1 /\ v'.running = v.running /\ v'.loaded = v.loaded
    BY <1>4, <2>5 DEF Unpause, VcpuType
  <2> QED
    BY <2>1, <2>2, <2>4, <2>6, Zenon DEF PauserSteps, Holding
<1>5. CASE UnpauseWake(p)
  <2>1. pp[p] = "wake" /\ pp' = [pp EXCEPT ![p] = "idle"] /\ pc' = pc
    BY <1>5, Zenon DEF UnpauseWake
  <2>2. Holders' = Holders
    BY <2>1, Zenon DEF Holders, Holding
  <2>3. Same(v)
    BY <1>5, WakeFacts, Zenon DEF UnpauseWake
  <2> QED
    BY <2>1, <2>2, <2>3, Zenon DEF PauserSteps, Holding, Same
<1> QED
  BY <1>1, <1>2, <1>3, <1>4, <1>5, Zenon DEF Pauser

LEMMA PauseInvInit == Init => PauseInv
<1> SUFFICES ASSUME Init PROVE PauseInv
  BY Zenon
<1> DEFINE created == \E p \in Pausers : pp[p] = "paused"
<1>1. Holders = {p \in Pausers : pp[p] = "paused"}
  BY Zenon DEF Init, Holders, Holding
<1>2. CASE created
  <2>1. Cardinality(Holders) # 0
    BY <1>1, <1>2, HoldersFinite, FS_EmptySet, Zenon
  <2>2. Cardinality(Holders) = 1
    BY <1>1, <2>1, HoldersFinite, FS_CardinalityType DEF Init
  <2> QED
    BY <1>2, <2>2, Zenon DEF Init, PauseInv, Typed, VcpuType, Runstates, PauserSteps, Holding, Loaded
<1>3. CASE ~created
  <2>1. Holders = {}
    BY <1>1, <1>3, Zenon
  <2>2. Cardinality(Holders) = 0
    BY <2>1, FS_EmptySet, Zenon
  <2> QED
    BY <1>3, <2>2, Zenon DEF Init, PauseInv, Typed, VcpuType, Runstates, PauserSteps, Holding, Loaded
<1> QED
  BY <1>2, <1>3, Zenon

LEMMA PauseInvNext == PauseInv /\ [Next]_vars => PauseInv'
<1> SUFFICES ASSUME PauseInv, [Next]_vars PROVE PauseInv'
  BY Zenon
<1>1. CASE VcpuThread
  BY <1>1, ThreadQuiet, QuietPreserves, Zenon
<1>2. ASSUME NEW p \in Pausers, Pause(p) \/ Pauser(p)
      PROVE  PauseInv'
  BY <1>2, PauserPreserves, Zenon
<1>3. CASE UNCHANGED vars
  BY <1>3, Zenon DEF vars, PauseInv, Typed, Holders
<1>4. CASE \/ \E s \in Sources : Raise(s) \/ Source(s)
           \/ TimerExpires \/ TimerWakes \/ HostDpc
           \/ DeviceModel \/ StopReads \/ StopContinues
  BY <1>4, OthersQuiet, QuietPreserves, Zenon
<1> QED
  BY <1>1, <1>2, <1>3, <1>4, Zenon DEF Next

\* Between the return of domain_pause and domain_unpause the vcpu neither runs the
\* guest nor handles an exit of it, for any number of pausers and sources.
THEOREM PauseStops == Spec => []PausedMeansStopped
<1>1. PauseInv => PausedMeansStopped
  BY Zenon DEF PauseInv, PausedMeansStopped
<1> QED
  BY <1>1, PauseInvInit, PauseInvNext, PTL DEF Spec

----------------------------------------------------------------------------
(* The shared structure and the request slot *)

VciType ==
    [runnable : BOOLEAN, halted : BOOLEAN, hasTimer : BOOLEAN, event : BOOLEAN,
     waitEvent : {"dummy", "completed"}, mode : {"SETUP", "HALT", "PREEMPT", "PROCESS_IOREQ"}]

IoType ==
    [state : {"NONE", "READY", "INPROCESS", "RESP"}, request : BOOLEAN,
     completed : BOOLEAN, dm : {"idle", "busy", "signal"}]

Notifying == {"notify", "renotify"}

\* From hvm_do_resume to the entry of the guest, and in it.
Resumed == {"renotify", "execute", "entry", "guest", "hlt", "notify"}

----------------------------------------------------------------------------
(* The request.  While the VM is not stopped, a request the vcpu waits for *)
(* is in exactly one place: its event, the device model, or the completion *)
(* event; and the vcpu is blocked on it in the hypervisor.                 *)

Slot ==
    /\ io.request => io.state = "READY"
    /\ io.dm = "busy" <=> io.state = "INPROCESS"
    /\ io.dm = "signal" => io.state = "RESP"
    /\ pc \in Notifying => io.state = "READY" /\ ~io.request

Token ==
    IF vci.waitEvent = "dummy"
    THEN ~io.request /\ io.dm = "idle" /\ ~io.completed
    ELSE /\ v.inXen
         /\ io.request \/ io.dm # "idle" \/ io.completed
         /\ io.completed => io.state = "RESP" /\ io.dm = "idle"

Handed ==
    /\ Token
    /\ pc \in Notifying => v.inXen /\ vci.waitEvent = "dummy"
    /\ io.state = "READY" => io.request \/ pc \in Notifying
    /\ pc \in {"halted", "sleep"} => vci.mode \in {"SETUP", "HALT"}
    /\ pc = "thread" /\ vci.mode = "PROCESS_IOREQ" => vci.waitEvent = "dummy"

InHypervisor ==
    /\ ~v.resume /\ ~v.inXen /\ pc # "woken" => io.state = "NONE"
    /\ pc \in {"resume", "guest", "hlt"} => ~v.inXen
    /\ pc \in Resumed => ~v.resume
    /\ pc \in {"renotify", "execute", "entry"} /\ v.inXen => "schedule" \in v.softirq

RequestInv ==
    /\ vci \in VciType /\ io \in IoType
    /\ vci.runnable => stop \in {"idle", "clear", "clearEvent"}
    /\ ~vci.runnable => stop \in {"event", "wake", "wait", "done"}
    /\ Slot /\ InHypervisor
    /\ vci.runnable => Handed

----------------------------------------------------------------------------
(* What a step leaves of the state that the arguments are about *)

\* At most a wake-up of the vcpu's thread happens to the shared structure.
Woken ==
    /\ vci' \in VciType
    /\ vci'.runnable = vci.runnable /\ vci'.waitEvent = vci.waitEvent
    /\ vci'.mode = vci.mode /\ vci'.hasTimer = vci.hasTimer
    /\ vci' = vci \/ (vci.halted /\ ~vci'.halted /\ vci'.event)

LEMMA WakeVmFacts ==
    ASSUME vci \in VciType, vci' = vci \/ vci' = WakeVm(vci)
    PROVE  Woken
BY Zenon DEF WakeVm, VciType, Woken

\* The request of the vcpu and what its thread knows of it stay as they are.
SameRequest ==
    /\ v'.inXen = v.inXen /\ v'.resume = v.resume /\ v.softirq \subseteq v'.softirq
    /\ vci' \in VciType
    /\ vci'.runnable = vci.runnable /\ vci'.waitEvent = vci.waitEvent /\ vci'.mode = vci.mode
    /\ UNCHANGED <<pc, io, stop>>

LEMMA SameRequestPreserves ==
    ASSUME RequestInv, SameRequest
    PROVE  RequestInv'
BY DEF RequestInv, SameRequest, Slot, Token, Handed, InHypervisor, Notifying, Resumed

\* The flags of the vcpu after vcpu_wake and after vcpu_raise_softirq.
LEMMA WakeFlags ==
    ASSUME NEW w \in VcpuType, VcpuWake(w), vci \in VciType
    PROVE  /\ Woken
           /\ v'.inXen = w.inXen /\ v'.resume = w.resume /\ v'.softirq = w.softirq
           /\ v'.blocked = w.blocked /\ v'.eventCheck = w.eventCheck
<1>1. vci' = vci \/ vci' = WakeVm(vci)
  BY Zenon DEF VcpuWake
<1>2. /\ v'.inXen = w.inXen /\ v'.resume = w.resume /\ v'.softirq = w.softirq
      /\ v'.blocked = w.blocked /\ v'.eventCheck = w.eventCheck
  BY Zenon DEF VcpuWake, VcpuType
<1> QED
  BY <1>1, <1>2, WakeVmFacts, Zenon

LEMMA RaiseFlags ==
    ASSUME NEW w \in VcpuType, RaiseSelf(w, "schedule"), vci \in VciType
    PROVE  /\ Woken
           /\ v'.inXen = w.inXen /\ v'.resume = w.resume /\ "schedule" \in v'.softirq
           /\ v'.blocked = w.blocked /\ v'.eventCheck = w.eventCheck /\ v'.runstate = w.runstate
<1>1. vci' = vci \/ vci' = WakeVm(vci)
  BY Zenon DEF RaiseSelf
<1>2. /\ v'.inXen = w.inXen /\ v'.resume = w.resume /\ "schedule" \in v'.softirq
      /\ v'.blocked = w.blocked /\ v'.eventCheck = w.eventCheck /\ v'.runstate = w.runstate
  BY Zenon DEF RaiseSelf, VcpuType
<1> QED
  BY <1>1, <1>2, WakeVmFacts, Zenon

LEMMA HandleFlags ==
    ASSUME v \in VcpuType, Handle(v), vci \in VciType
    PROVE  /\ Woken
           /\ v'.inXen = v.inXen /\ v'.resume = v.resume /\ v'.eventCheck = v.eventCheck
           /\ v'.softirq \subseteq v.softirq
<1>1. CASE "timer" \in v.softirq
  <2> DEFINE w == [v EXCEPT !.softirq = @ \ {"timer"}, !.blocked = FALSE]
  <2>1. /\ w \in VcpuType /\ w.inXen = v.inXen /\ w.resume = v.resume
        /\ w.eventCheck = v.eventCheck /\ w.softirq \subseteq v.softirq
    BY Zenon DEF VcpuType
  <2>2. CASE v.blocked
    <3>1. VcpuWake(w)
      BY <1>1, <2>2, Zenon DEF Handle
    <3> HIDE DEF w
    <3> QED
      BY <2>1, <3>1, WakeFlags, Zenon
  <2>3. CASE ~v.blocked
    BY <1>1, <2>3, WakeVmFacts, Zenon DEF Handle, VcpuType
  <2> QED
    BY <2>2, <2>3, Zenon
<1>2. CASE "timer" \notin v.softirq
  BY <1>2, WakeVmFacts DEF Handle, VcpuType
<1> QED
  BY <1>1, <1>2, Zenon

----------------------------------------------------------------------------
(* The request *)

\* Sources, pausers, the timer and the host's DPCs do not touch the request.
LEMMA RequestElsewhere ==
    ASSUME RequestInv, v \in VcpuType, v' \in VcpuType,
           \/ \E s \in Sources : Raise(s) \/ Source(s)
           \/ \E p \in Pausers : Pause(p) \/ Pauser(p)
           \/ TimerExpires \/ TimerWakes \/ HostDpc
    PROVE  RequestInv'
<1> SUFFICES SameRequest
  BY SameRequestPreserves, Zenon
<1> USE DEF RequestInv
<1>1. ASSUME NEW s \in Sources, Raise(s) \/ Source(s)
      PROVE  SameRequest
  <2>1. CASE Raise(s) \/ ReadRunning(s) \/ SourceIpi(s)
    BY <2>1, Zenon DEF Raise, ReadRunning, SourceIpi, SameRequest
  <2>2. CASE Unblock(s) \/ RaiseKick(s)
    BY <2>2 DEF Unblock, RaiseKick, SameRequest, VcpuType
  <2>3. CASE Wake(s)
    BY <2>3, WakeFlags, Zenon DEF Wake, SameRequest, Woken
  <2>4. CASE SourceCheck(s)
    BY <2>4, WakeVmFacts, Zenon DEF SourceCheck, EventCheck, SameRequest, Woken, VcpuType
  <2> QED
    BY <1>1, <2>1, <2>2, <2>3, <2>4, Zenon DEF Source
<1>2. ASSUME NEW p \in Pausers, Pause(p) \/ Pauser(p)
      PROVE  SameRequest
  <2>1. CASE SleepNosync(p)
    BY <2>1, Zenon DEF SleepNosync, SameRequest, VcpuType
  <2>2. CASE PauserCheck(p)
    BY <2>2, WakeVmFacts, Zenon DEF PauserCheck, EventCheck, SameRequest, Woken, VcpuType
  <2>3. CASE PauserIpi(p) \/ SleepSync(p)
    BY <2>3, Zenon DEF PauserIpi, SleepSync, SameRequest
  <2>4. CASE UnpauseWake(p)
    BY <2>4, WakeFlags, Zenon DEF UnpauseWake, SameRequest, Woken
  <2>5. CASE Pause(p) \/ Unpause(p)
    <3>1. PICK n : v' = [v EXCEPT !.pauses = n]
      BY <2>5, Zenon DEF Pause, Unpause
    <3>2. v'.inXen = v.inXen /\ v'.resume = v.resume /\ v'.softirq = v.softirq
      BY <3>1, Zenon DEF VcpuType
    <3> QED
      BY <2>5, <3>2, Zenon DEF Pause, Unpause, SameRequest
  <2> QED
    BY <1>2, <2>1, <2>2, <2>3, <2>4, <2>5, Zenon DEF Pauser
<1>3. CASE TimerExpires
  BY <1>3, Zenon DEF TimerExpires, SameRequest, VciType
<1>4. CASE TimerWakes
  BY <1>4, WakeVmFacts, Zenon DEF TimerWakes, SameRequest, Woken
<1>5. CASE HostDpc
  BY SMTT(30), <1>5 DEF HostDpc, SameRequest
<1> QED
  BY <1>1, <1>2, <1>3, <1>4, <1>5, Zenon

\* The device model takes the request, answers it and signals the answer, in
\* this order; stopping the VM only ends what the thread may rely on.
LEMMA RequestServed ==
    ASSUME RequestInv, v \in VcpuType, DeviceModel \/ StopReads \/ StopContinues
    PROVE  RequestInv'
<1> USE DEF RequestInv, Slot, Token, Handed, InHypervisor, Notifying, others
<1>1. CASE GetIoreq
  <2>1. io' \in IoType
    BY <1>1, Zenon DEF GetIoreq, IoType
  <2> QED
    BY <1>1, <2>1 DEF GetIoreq, IoType
<1>2. CASE Respond
  <2>1. UNCHANGED <<v, vci, pc, stop>>
    BY <1>2, Zenon DEF Respond
  <2>2. CASE io.dm = "busy" /\ io' = [io EXCEPT !.state = "RESP", !.dm = "signal"]
    <3>1. /\ io' \in IoType /\ io'.state = "RESP" /\ io'.dm = "signal"
          /\ io'.request = io.request /\ io'.completed = io.completed
      BY <2>2, Zenon DEF IoType
    <3> QED
      BY <2>1, <2>2, <3>1, Zenon
  <2>3. CASE io.dm = "signal" /\ io' = [io EXCEPT !.completed = TRUE, !.dm = "idle"]
    <3>1. /\ io' \in IoType /\ io'.state = io.state /\ io'.dm = "idle"
          /\ io'.request = io.request /\ io'.completed
      BY <2>3, Zenon DEF IoType
    <3> QED
      BY <2>1, <2>3, <3>1, Zenon
  <2> QED
    BY <1>2, <2>2, <2>3, Zenon DEF Respond
<1>3. CASE StopReads \/ StopWaits
  BY <1>3 DEF StopReads, StopWaits
<1>4. CASE StopClears
  <2>1. vci' \in VciType
    BY <1>4, Zenon DEF StopClears, VciType
  <2> QED
    BY <1>4, <2>1, Zenon DEF StopClears, VciType
<1>5. CASE StopSignals
  <2>1. vci' \in VciType /\ io' \in IoType
    BY <1>5, Zenon DEF StopSignals, VciType, IoType
  <2> QED
    BY <1>5, <2>1 DEF StopSignals, VciType, IoType
<1>6. CASE StopWakes
  <2>1. vci' \in VciType
    BY <1>6, Zenon DEF StopWakes, VciType
  <2> QED
    BY <1>6, <2>1, Zenon DEF StopWakes, VciType
<1> QED
  BY <1>1, <1>2, <1>3, <1>4, <1>5, <1>6, Zenon DEF DeviceModel, StopContinues

\* The vcpu's own thread.
LEMMA RequestThread ==
    ASSUME RequestInv, v \in VcpuType, v' \in VcpuType, VcpuThread
    PROVE  RequestInv'
<1> USE DEF RequestInv, Slot, Token, Handed, InHypervisor, Notifying, Resumed, others, Goto
<1>1. CASE AfterRun
  <2>1. vci' \in VciType
    BY <1>1, Zenon DEF AfterRun, VciType
  <2> QED
    BY <1>1, <2>1 DEF AfterRun, VciType
<1>2. CASE CheckHalted \/ Sleep
  BY <1>2, Zenon DEF CheckHalted, Sleep
<1>3. CASE WaitIoreq
  <2>1. vci' \in VciType /\ io' \in IoType
    BY <1>3, Zenon DEF WaitIoreq, VciType, IoType
  <2> QED
    BY <1>3, <2>1, Zenon DEF WaitIoreq, VciType, IoType
<1>4. CASE Enter
  <2> DEFINE w == [v EXCEPT !.inXen = FALSE, !.resume = TRUE]
  <2>1. w \in VcpuType /\ ~w.inXen /\ w.resume
    BY Zenon DEF VcpuType
  <2>2. UNCHANGED <<io, stop>> /\ pc = "thread" /\ pc' \in {"loop", "exited"}
    BY <1>4, Zenon DEF Enter
  <2>3. CASE vci.runnable /\ vci.mode = "PROCESS_IOREQ" /\ v.inXen
    <3>1. VcpuWake(w)
      BY <1>4, <2>3, Zenon DEF Enter
    <3> HIDE DEF w
    <3>2. Woken /\ ~v'.inXen /\ v'.resume
      BY <2>1, <3>1, WakeFlags, Zenon
    <3> QED
      BY <2>2, <2>3, <3>2, Zenon DEF Woken
  <2>4. CASE ~(vci.runnable /\ vci.mode = "PROCESS_IOREQ" /\ v.inXen)
    <3>1. vci' = vci /\ v' = [v EXCEPT !.resume = v.resume \/ vci.runnable]
      BY <1>4, <2>4, Zenon DEF Enter
    <3> HIDE DEF w
    <3>2. v'.inXen = v.inXen /\ (v.resume => v'.resume)
      BY <3>1, Zenon DEF VcpuType
    <3> QED
      BY <2>2, <3>1, <3>2, Zenon
  <2> QED
    BY <2>3, <2>4, Zenon
<1>5. CASE CancelKick
  BY <1>5, Zenon DEF CancelKick
<1>6. CASE ClearEventCheck
  BY <1>6, Zenon DEF ClearEventCheck, VcpuType
<1>7. CASE Preempt
  <2>1. vci' \in VciType
    BY <1>7, Zenon DEF Preempt, VciType
  <2> QED
    BY <1>7, <2>1 DEF Preempt, VciType, VcpuType
<1>8. CASE CheckIoreq
  <2>1. vci' \in VciType /\ io' \in IoType
    BY <1>8, ZenonT(60) DEF CheckIoreq, VciType, IoType
  <2> QED
    BY <1>8, <2>1 DEF CheckIoreq, VciType, IoType, VcpuType
<1>9. CASE WakeSelf
  <2> DEFINE w == [v EXCEPT !.resume = TRUE]
  <2>1. w \in VcpuType /\ w.inXen = v.inXen /\ w.resume
    BY Zenon DEF VcpuType
  <2>2. VcpuWake(w) /\ UNCHANGED <<io, stop>> /\ pc = "woken" /\ pc' = "sched"
    BY <1>9, Zenon DEF WakeSelf
  <2> HIDE DEF w
  <2>3. Woken /\ v'.inXen = v.inXen /\ v'.resume
    BY <2>1, <2>2, WakeFlags, Zenon
  <2> QED
    BY <2>2, <2>3, Zenon DEF Woken
<1>10. CASE Sched
  <2>1. v'.inXen = v.inXen /\ v'.resume = v.resume
    BY <1>10, Zenon DEF Sched, VcpuType
  <2>2. pc = "sched" /\ pc' \in {"resume", "pick"} /\ (pc' = "resume" => ~v.inXen)
    BY <1>10, Zenon DEF Sched, Runnable
  <2> QED
    BY <1>10, <2>1, <2>2, Zenon DEF Sched
<1>11. CASE Pick \/ PickLocked
  <2>1. v'.inXen = v.inXen /\ (v.resume => v'.resume)
    BY <1>11, ZenonT(60) DEF Pick, PickLocked, NotScheduled, VcpuType
  <2>2. /\ vci' \in VciType /\ vci'.runnable = vci.runnable
        /\ vci'.waitEvent = vci.waitEvent /\ vci'.mode = vci.mode
    BY <1>11, Zenon DEF Pick, PickLocked, NotScheduled, VciType
  <2>3. /\ pc \in {"pick", "locked"} /\ pc' \in {"resume", "locked", "out", "softirq", "idle"}
        /\ pc' = "resume" => ~v.inXen
        /\ UNCHANGED <<io, stop>>
    BY <1>11, Zenon DEF Pick, PickLocked, NotScheduled, Runnable
  <2> QED
    BY <2>1, <2>2, <2>3, Zenon
<1>12. CASE Idle
  <2>1. vci' \in VciType
    BY <1>12, Zenon DEF Idle, VciType
  <2> QED
    BY <1>12, <2>1 DEF Idle, VciType
<1>13. CASE Softirq
  <2>1. /\ v'.inXen = v.inXen /\ v'.resume = v.resume
        /\ vci' \in VciType /\ vci'.runnable = vci.runnable
        /\ vci'.waitEvent = vci.waitEvent /\ vci'.mode = vci.mode
    <3>1. CASE Handle(v)
      BY <3>1, HandleFlags, Zenon DEF Woken
    <3>2. CASE v' = [v EXCEPT !.softirq = TimerSoftirq] /\ vci' = [vci EXCEPT !.hasTimer = FALSE]
      BY <3>2, Zenon DEF VcpuType, VciType
    <3> QED
      BY <1>13, <3>1, <3>2, Zenon DEF Softirq
  <2>2. /\ pc \in {"softirq", "softirqs"} /\ pc' \in {"softirqs", "softirqsLock", "again"}
        /\ UNCHANGED <<io, stop>>
    BY <1>13, Zenon DEF Softirq
  <2> QED
    BY <2>1, <2>2, Zenon
<1>14. CASE ScheduleFromVcpu
  BY <1>14 DEF ScheduleFromVcpu, VcpuType
<1>15. CASE Resume
  <2> DEFINE w == [v EXCEPT !.resume = FALSE]
  <2> DEFINE x == [v EXCEPT !.inXen = TRUE, !.resume = FALSE]
  <2> DEFINE y == [w EXCEPT !.inXen = TRUE]
  <2>1. /\ w \in VcpuType /\ ~w.resume /\ w.inXen = v.inXen
        /\ x \in VcpuType /\ ~x.resume /\ x.inXen
        /\ y \in VcpuType /\ ~y.resume /\ y.inXen
    BY Zenon DEF VcpuType
  <2>2. pc = "resume" /\ ~v.inXen /\ UNCHANGED stop
    BY <1>15, Zenon DEF Resume
  <2>3. CASE pc' = "out" /\ UNCHANGED <<v, vci, io>>
    BY <2>2, <2>3, Zenon
  <2>4. CASE /\ v.resume /\ io.state \in {"READY", "INPROCESS"} /\ vci.runnable
    BY <2>2, <2>4, Zenon DEF IoType
  <2>5. CASE /\ pc' = "execute" /\ v' = w /\ UNCHANGED vci
             /\ io' = IF v.resume THEN [io EXCEPT !.state = "NONE"] ELSE io
             /\ vci.runnable
             /\ ~(v.resume /\ io.state \in {"READY", "INPROCESS"})
    <3> HIDE DEF w, x, y
    <3>1. /\ io' \in IoType /\ io'.request = io.request /\ io'.dm = io.dm
          /\ io'.completed = io.completed
          /\ io'.state = "NONE"
      BY <2>2, <2>5, Zenon DEF IoType
    <3> QED
      BY <2>1, <2>2, <2>5, <3>1, Zenon DEF IoType
  <2>6. CASE v.resume /\ io.state = "RESP" /\ SendAssistReq(w, "renotify", "execute") /\ vci.runnable
    <3>1. RaiseSelf(y, "schedule")
      BY <2>6, Zenon DEF SendAssistReq
    <3>2. io' = [io EXCEPT !.state = "READY"] /\ pc' = "renotify"
      BY <2>6, Zenon DEF SendAssistReq
    <3> HIDE DEF w, x, y
    <3>3. /\ io' \in IoType /\ io'.request = io.request /\ io'.dm = io.dm
          /\ io'.completed = io.completed /\ io'.state = "READY"
      BY <3>2, Zenon DEF IoType
    <3>4. Woken /\ v'.inXen /\ ~v'.resume /\ "schedule" \in v'.softirq
      BY <2>1, <3>1, RaiseFlags, Zenon
    <3> QED
      BY <2>2, <2>6, <3>2, <3>3, <3>4, Zenon DEF Woken
  <2> QED
    BY <1>15, <2>3, <2>4, <2>5, <2>6, Zenon DEF Resume
<1>16. CASE Execute
  BY <1>16, Zenon DEF Execute
<1>17. CASE CheckWork
  <2>1. vci' \in VciType
    BY <1>17, Zenon DEF CheckWork, VciType
  <2> QED
    BY <1>17, <2>1 DEF CheckWork, WorkPending, TimerSoftirq, VciType, VcpuType
<1>18. CASE Work
  <2>1. Woken /\ v'.inXen = v.inXen /\ v'.resume = v.resume
    BY <1>18, HandleFlags, WakeVmFacts, Zenon DEF Work
  <2>2. pc = "work" /\ pc' \in {"work", "workLock", "loop"} /\ UNCHANGED <<io, stop>>
    BY <1>18, Zenon DEF Work
  <2> QED
    BY <2>1, <2>2, Zenon DEF Woken
<1>19. CASE Exit
  <2> DEFINE w == [v EXCEPT !.inXen = TRUE]
  <2>1. w \in VcpuType /\ w.inXen /\ w.resume = v.resume
    BY Zenon DEF VcpuType
  <2>2. pc = "guest" /\ ~v.inXen /\ ~v.resume /\ UNCHANGED stop /\ io.state = "NONE"
    BY <1>19, Zenon DEF Exit
  <2>3. CASE SendAssistReq(v, "notify", "loop")
    <3>1. RaiseSelf(w, "schedule") /\ io' = [io EXCEPT !.state = "READY"]
      BY <2>3, Zenon DEF SendAssistReq
    <3>2. pc' = IF vci.runnable THEN "notify" ELSE "loop"
      BY <2>3, Zenon DEF SendAssistReq
    <3> HIDE DEF w
    <3>3. /\ io' \in IoType /\ io'.request = io.request /\ io'.dm = io.dm
          /\ io'.completed = io.completed /\ io'.state = "READY"
      BY <3>1, Zenon DEF IoType
    <3>4. Woken /\ v'.inXen /\ ~v'.resume
      BY <2>1, <2>2, <3>1, RaiseFlags, Zenon
    <3> QED
      BY <2>2, <3>2, <3>3, <3>4, Zenon DEF Woken
  <2>4. CASE /\ v' = [v EXCEPT !.force = TRUE] \/ v' = [v EXCEPT !.blocked = TRUE]
             /\ pc' \in {"loop", "hlt"} /\ UNCHANGED <<vci, io>>
    BY <2>2, <2>4, Zenon DEF VcpuType
  <2> QED
    BY <1>19, <2>3, <2>4, Zenon DEF Exit
<1>20. CASE Block
  <2>1. Woken /\ v'.inXen = v.inXen /\ v'.resume = v.resume
    <3>1. CASE irq
      BY <1>20, <3>1, WakeVmFacts, Zenon DEF Block, VcpuType
    <3>2. CASE ~irq
      BY <1>20, <3>2, RaiseFlags, Zenon DEF Block
    <3> QED
      BY <3>1, <3>2, Zenon
  <2> QED
    BY <1>20, <2>1, Zenon DEF Block, Woken
<1>21. CASE SignalEvent
  <2>1. vci' \in VciType /\ io' \in IoType
    BY <1>21, Zenon DEF SignalEvent, VciType, IoType
  <2> QED
    BY <1>21, <2>1, Zenon DEF SignalEvent, VciType, IoType
<1>22. CASE Out
  BY <1>22, Zenon DEF Out, VcpuType
<1> QED
  BY <1>1, <1>2, <1>3, <1>4, <1>5, <1>6, <1>7, <1>8, <1>9, <1>10, <1>11, <1>12, <1>13,
     <1>14, <1>15, <1>16, <1>17, <1>18, <1>19, <1>20, <1>21, <1>22, Zenon DEF VcpuThread

LEMMA RequestInvNext == PauseInv /\ PauseInv' /\ RequestInv /\ [Next]_vars => RequestInv'
<1> SUFFICES ASSUME PauseInv, PauseInv', RequestInv, [Next]_vars PROVE RequestInv'
  BY Zenon
<1>1. v \in VcpuType /\ v' \in VcpuType
  BY Zenon DEF PauseInv, Typed
<1>2. CASE UNCHANGED vars
  BY <1>2 DEF vars, RequestInv, Slot, Token, Handed, InHypervisor
<1> QED
  BY <1>1, <1>2, RequestElsewhere, RequestServed, RequestThread, Zenon DEF Next

LEMMA RequestInvInit == Init => RequestInv
BY DEF Init, RequestInv, VciType, IoType, Slot, Token, Handed, InHypervisor, Notifying, Resumed

\* A completion is used for the request it answers, and the vcpu goes on only with
\* an answer, for any number of sources, pausers and events.
THEOREM RequestsMatch == Spec => []OneRequest
<1>1. PauseInv /\ RequestInv => OneRequest
  BY Zenon DEF RequestInv, OneRequest, Slot, Token, Handed, InHypervisor, Notifying, Resumed,
         PauseInv, Typed, VcpuType, IoType
<1> QED
  BY <1>1, PauseInvInit, PauseInvNext, RequestInvInit, RequestInvNext, PTL DEF Spec

----------------------------------------------------------------------------
(* Sleeping.  Whoever makes the vcpu runnable, ends its HLT or gives it    *)
(* work has a step to do that wakes it.                                    *)

SourceSteps == {"idle", "kick", "unblock", "unblockRun", "wake", "wakeRun", "raise", "check", "ipi"}

\* About to call vcpu_wake.
Waker == SourceIn({"wake", "wakeRun"}) \/ PauserIn({"wake"})

\* About to clear _VPF_blocked.
Unblocker == SourceIn({"kick", "unblock", "unblockRun"})

\* About to call uxen_op_wake_vm for the softirq it raised.
Checker == SourceIn({"check"}) \/ PauserIn({"check"})

\* Between the decision to halt and the sleep.
Halting == pc \in {"halted", "sleep"} \/ (pc \in {"out", "after"} /\ vci.mode = "HALT")

SleepInv ==
    /\ src \in [Sources -> SourceSteps]
    /\ Runnable(v) /\ Stopped(v) => Waker \/ pc = "woken"
    /\ irq /\ v.blocked => Unblocker \/ pc = "hlt"
    /\ pc \in Resumed \cup {"resume"} => v.runstate = "running"
    /\ vci.halted => pc \in {"idle", "exited"} \/ Halting
    /\ pc \in {"halted", "sleep"} /\ vci.event => ~vci.halted
    /\ pc = "sleep" => vci.event \/ vci.halted
    /\ Halting /\ vci.halted =>
         /\ Stopped(v)
         /\ vci.hasTimer => timer = "wake"
         /\ v.softirq # {} => Checker

----------------------------------------------------------------------------
(* In the guest.  Whoever has something for the guest to leave for is on   *)
(* its way to queueing a DPC on the guest's processor.                     *)

\* From the head of the loop to the entry of the guest: an event check that is
\* requested here is not cancelled before the guest is entered.
Entering == {"preempt", "ioreq", "woken", "sched", "pick", "locked", "idle",
             "softirq", "softirqs", "softirqsLock",
             "resume", "renotify", "execute", "entry", "guest"}

Sender == SourceIn({"ipi"}) \/ PauserIn({"ipi"})

Interrupter == SourceIn({"check", "ipi"}) \/ PauserIn({"check", "ipi"})

Kicker == SourceIn({"kick", "unblockRun", "wakeRun", "raise"})

GuestInv ==
    /\ v.eventCheck /\ vci.runnable /\ pc \in Entering => "ipi" \in dpc \/ Sender
    /\ pc \in {"entry", "guest"} =>
         /\ irq => Kicker \/ "kick" \in v.softirq
         /\ ~vci.runnable => stop \in {"event", "wake"} \/ dpc # {}
    /\ pc = "guest" /\ dpc = {} /\ WorkPending =>
         Interrupter \/ timer # "idle" \/ stop \in {"event", "wake"}

\* vcpu_wake leaves no vcpu stopped that could run, and never blocks one.
LEMMA WakeSettles ==
    ASSUME NEW w \in VcpuType, VcpuWake(w)
    PROVE  /\ ~(Runnable(v') /\ Stopped(v'))
           /\ w.runstate = "running" => v'.runstate = "running"
           /\ Stopped(w) /\ ~Runnable(w) => Stopped(v')
BY Zenon DEF VcpuWake, Runnable, Stopped, VcpuType

\* So does a softirq handler, which may end a HLT but never starts one.
LEMMA HandleSettles ==
    ASSUME v \in VcpuType, Handle(v), vci \in VciType
    PROVE  /\ Runnable(v') /\ Stopped(v') => Runnable(v) /\ Stopped(v)
           /\ irq' /\ v'.blocked => irq /\ v.blocked
           /\ Woken
<1>1. Woken
  BY HandleFlags, Zenon
<1>2. CASE "timer" \in v.softirq
  <2> DEFINE w == [v EXCEPT !.softirq = @ \ {"timer"}, !.blocked = FALSE]
  <2>1. w \in VcpuType /\ ~w.blocked
    BY Zenon DEF VcpuType
  <2>2. CASE v.blocked
    <3>1. VcpuWake(w)
      BY <1>2, <2>2 DEF Handle
    <3> HIDE DEF w
    <3>2. ~v'.blocked
      BY <2>1, <3>1, WakeFlags, Zenon
    <3>3. ~(Runnable(v') /\ Stopped(v'))
      BY <2>1, <3>1, WakeSettles, Zenon
    <3> QED
      BY <1>1, <3>2, <3>3, Zenon
  <2>3. CASE ~v.blocked
    BY <1>1, <1>2, <2>3, Zenon DEF Handle, VcpuType, Runnable, Stopped
  <2> QED
    BY <2>2, <2>3, Zenon
<1>3. CASE "timer" \notin v.softirq
  BY <1>1, <1>3, Zenon DEF Handle, VcpuType, Runnable, Stopped
<1> QED
  BY <1>2, <1>3, Zenon

----------------------------------------------------------------------------
(* Who has something left to do *)

\* Nobody but the vcpu's thread moves.
LEMMA NobodyMoves ==
    ASSUME UNCHANGED <<src, pp>>
    PROVE  /\ (Waker' <=> Waker) /\ (Unblocker' <=> Unblocker) /\ (Checker' <=> Checker)
           /\ (Sender' <=> Sender) /\ (Interrupter' <=> Interrupter) /\ (Kicker' <=> Kicker)
BY Zenon DEF Waker, Unblocker, Checker, Sender, Interrupter, Kicker, SourceIn, PauserIn

\* One source moves: the others' steps still count, and so does its new one.
LEMMA SourceMoves ==
    ASSUME NEW s \in Sources, pp' = pp,
           \A t \in Sources \ {s} : src'[t] = src[t]
    PROVE  /\ Waker /\ src[s] \notin {"wake", "wakeRun"} => Waker'
           /\ Unblocker /\ src[s] \notin {"kick", "unblock", "unblockRun"} => Unblocker'
           /\ Checker /\ src[s] # "check" => Checker'
           /\ Sender /\ src[s] # "ipi" => Sender'
           /\ Interrupter /\ src[s] \notin {"check", "ipi"} => Interrupter'
           /\ Kicker /\ src[s] \notin {"kick", "unblockRun", "wakeRun", "raise"} => Kicker'
           /\ src'[s] \in {"wake", "wakeRun"} => Waker'
           /\ src'[s] \in {"kick", "unblock", "unblockRun"} => Unblocker'
           /\ src'[s] = "check" => Checker'
           /\ src'[s] = "ipi" => Sender'
           /\ src'[s] \in {"check", "ipi"} => Interrupter'
           /\ src'[s] \in {"kick", "unblockRun", "wakeRun", "raise"} => Kicker'
BY Zenon DEF Waker, Unblocker, Checker, Sender, Interrupter, Kicker, SourceIn, PauserIn

\* One pauser moves.
LEMMA PauserMoves ==
    ASSUME NEW p \in Pausers, src' = src,
           \A q \in Pausers \ {p} : pp'[q] = pp[q]
    PROVE  /\ Waker /\ pp[p] # "wake" => Waker'
           /\ (Unblocker' <=> Unblocker)
           /\ Checker /\ pp[p] # "check" => Checker'
           /\ Sender /\ pp[p] # "ipi" => Sender'
           /\ Interrupter /\ pp[p] \notin {"check", "ipi"} => Interrupter'
           /\ (Kicker' <=> Kicker)
           /\ pp'[p] = "wake" => Waker'
           /\ pp'[p] = "check" => Checker'
           /\ pp'[p] = "ipi" => Sender'
           /\ pp'[p] \in {"check", "ipi"} => Interrupter'
BY Zenon DEF Waker, Unblocker, Checker, Sender, Interrupter, Kicker, SourceIn, PauserIn

----------------------------------------------------------------------------
(* Sleeping *)

LEMMA SleepThread ==
    ASSUME v \in VcpuType, v' \in VcpuType, vci \in VciType, vci' \in VciType,
           SleepInv, VcpuThread
    PROVE  SleepInv'
<1>0. /\ UNCHANGED <<src, timer>>
      /\ (Waker' <=> Waker) /\ (Unblocker' <=> Unblocker) /\ (Checker' <=> Checker)
  <2>1. UNCHANGED <<src, pp, timer>>
    BY Zenon DEF VcpuThread, AfterRun, CheckHalted, Sleep, WaitIoreq, Enter, CancelKick,
           ClearEventCheck, Preempt, CheckIoreq, WakeSelf, Sched, Pick, PickLocked, Idle,
           Softirq, ScheduleFromVcpu, Resume, Execute, CheckWork, Work, Exit, Block,
           SignalEvent, Out, others
  <2> QED
    BY <2>1, NobodyMoves, Zenon
<1> USE <1>0 DEF SleepInv, Runnable, Stopped, Resumed, Halting, Goto
<1>1. CASE AfterRun \/ CheckHalted \/ Sleep \/ WaitIoreq
  <2>1. CASE AfterRun
    BY <2>1 DEF AfterRun, VciType
  <2>2. CASE CheckHalted \/ Sleep
    BY <2>2 DEF CheckHalted, Sleep
  <2>3. CASE WaitIoreq
    BY <2>3, Zenon DEF WaitIoreq, VciType
  <2> QED
    BY <1>1, <2>1, <2>2, <2>3, Zenon
<1>2. CASE Enter
  <2> DEFINE w == [v EXCEPT !.inXen = FALSE, !.resume = TRUE]
  <2>1. irq' = irq /\ pc = "thread" /\ pc' \in {"loop", "exited"}
    BY <1>2, Zenon DEF Enter
  <2>2. CASE vci.runnable /\ vci.mode = "PROCESS_IOREQ" /\ v.inXen
    <3>1. VcpuWake(w)
      BY <1>2, <2>2, Zenon DEF Enter
    <3>2. w \in VcpuType /\ w.blocked = v.blocked
      BY Zenon DEF VcpuType
    <3> HIDE DEF w
    <3>3. v'.blocked = v.blocked /\ Woken
      BY <3>1, <3>2, WakeFlags, Zenon
    <3>4. ~(Runnable(v') /\ Stopped(v'))
      BY <3>1, <3>2, WakeSettles, Zenon
    <3> QED
      BY <2>1, <3>3, <3>4, Zenon DEF Woken
  <2>3. CASE ~(vci.runnable /\ vci.mode = "PROCESS_IOREQ" /\ v.inXen)
    <3>1. vci' = vci /\ v' = [v EXCEPT !.resume = v.resume \/ vci.runnable]
      BY <1>2, <2>3, Zenon DEF Enter
    <3> HIDE DEF w
    <3>2. /\ v'.blocked = v.blocked /\ v'.inXen = v.inXen /\ v'.pauses = v.pauses
          /\ v'.runstate = v.runstate
      BY <3>1, Zenon DEF VcpuType
    <3> QED
      BY <2>1, <3>1, <3>2, Zenon
  <2> QED
    BY <2>2, <2>3, Zenon
<1>3. CASE CancelKick \/ ClearEventCheck
  BY <1>3 DEF CancelKick, ClearEventCheck, VcpuType
<1>4. CASE Preempt
  BY <1>4 DEF Preempt, VcpuType, VciType
<1>5. CASE CheckIoreq
  BY <1>5 DEF CheckIoreq, VcpuType, VciType
<1>6. CASE WakeSelf
  BY <1>6, Zenon DEF WakeSelf, VcpuWake, WakeVm, VcpuType, VciType
<1>7. CASE Sched
  BY <1>7, ZenonT(60) DEF Sched, VcpuType
<1>8. CASE Pick
  <2>1. CASE Stopped(v)
    BY <1>8, <2>1, Zenon DEF Pick
  <2>2. CASE ~Stopped(v) /\ Runnable(v)
    BY <1>8, <2>2, ZenonT(60) DEF Pick, VcpuType
  <2>3. CASE ~Stopped(v) /\ ~Runnable(v)
    BY <1>8, <2>3, Zenon DEF Pick, NotScheduled, VcpuType, VciType
  <2> QED
    BY <2>1, <2>2, <2>3, Zenon
<1>9. CASE PickLocked
  BY <1>9, Zenon DEF PickLocked, NotScheduled, VcpuType, VciType
<1>10. CASE Idle
  BY <1>10 DEF Idle, WorkPending, VciType
<1>11. CASE Softirq
  <2>1. pc \in {"softirq", "softirqs"} /\ pc' \in {"softirqs", "softirqsLock", "again"}
    BY <1>11, Zenon DEF Softirq
  <2>2. CASE Handle(v)
    BY <2>1, <2>2, HandleSettles, Zenon DEF Woken
  <2>3. CASE v' = [v EXCEPT !.softirq = TimerSoftirq] /\ vci' = [vci EXCEPT !.hasTimer = FALSE] /\ irq' = irq
    BY <2>1, <2>3, Zenon DEF VcpuType, VciType
  <2>4. CASE UNCHANGED <<v, vci, irq>>
    BY <2>1, <2>4, Zenon
  <2> QED
    BY <1>11, <2>2, <2>3, <2>4, Zenon DEF Softirq
<1>12. CASE ScheduleFromVcpu
  BY <1>12, Zenon DEF ScheduleFromVcpu, VcpuType
<1>13. CASE Resume
  BY <1>13, ZenonT(60) DEF Resume, SendAssistReq, RaiseSelf, WakeVm, VcpuType, VciType
<1>14. CASE Execute
  BY <1>14, Zenon DEF Execute
<1>15. CASE CheckWork
  BY <1>15 DEF CheckWork, VcpuType, VciType
<1>16. CASE Work
  <2>1. pc = "work" /\ pc' \in {"work", "workLock", "loop"}
    BY <1>16, Zenon DEF Work
  <2>2. CASE Handle(v)
    BY <2>1, <2>2, HandleSettles, Zenon DEF Woken
  <2>3. CASE UNCHANGED <<v, vci, irq>>
    BY <2>1, <2>3, Zenon
  <2> QED
    BY <1>16, <2>2, <2>3, Zenon DEF Work
<1>17. CASE Exit
  BY <1>17, ZenonT(60) DEF Exit, SendAssistReq, RaiseSelf, WakeVm, VcpuType, VciType
<1>18. CASE Block
  BY <1>18, Zenon DEF Block, RaiseSelf, WakeVm, VcpuType, VciType
<1>19. CASE SignalEvent
  BY <1>19, Zenon DEF SignalEvent, VciType
<1>20. CASE Out
  BY <1>20, Zenon DEF Out, VcpuType
<1> QED
  BY <1>1, <1>2, <1>3, <1>4, <1>5, <1>6, <1>7, <1>8, <1>9, <1>10, <1>11, <1>12, <1>13,
     <1>14, <1>15, <1>16, <1>17, <1>18, <1>19, <1>20, Zenon DEF VcpuThread

LEMMA SleepSources ==
    ASSUME v \in VcpuType, v' \in VcpuType, vci \in VciType, vci' \in VciType,
           SleepInv, NEW s \in Sources, Raise(s) \/ Source(s)
    PROVE  SleepInv'
<1> USE DEF SleepInv, Runnable, Stopped, Halting
<1>1. /\ pc' = pc /\ timer' = timer /\ pp' = pp
      /\ src' \in [Sources -> SourceSteps]
      /\ \A t \in Sources \ {s} : src'[t] = src[t]
  BY Zenon DEF Raise, Source, ReadRunning, Unblock, Wake, RaiseKick, SourceCheck, SourceIpi, SourceSteps
<1>2. CASE Raise(s)
  BY Zenon, <1>1, <1>2, SourceMoves DEF Raise
<1>3. CASE ReadRunning(s)
  BY Zenon, <1>1, <1>3, SourceMoves DEF ReadRunning
<1>4. CASE Unblock(s)
  BY <1>1, <1>4, SourceMoves DEF Unblock, VcpuType
<1>5. CASE Wake(s)
  <2>1. VcpuWake(v) /\ irq' = irq /\ src[s] \in {"wake", "wakeRun"}
    BY <1>5, Zenon DEF Wake
  <2>2. v'.blocked = v.blocked /\ v'.softirq = v.softirq /\ Woken
    BY <2>1, WakeFlags, Zenon
  <2>3. Unblocker => Unblocker'
    BY <1>1, <2>1, SourceMoves, Zenon
  <2>4. Checker => Checker'
    BY <1>1, <2>1, SourceMoves, Zenon
  <2>5. /\ ~(Runnable(v') /\ Stopped(v'))
        /\ v.runstate = "running" => v'.runstate = "running"
        /\ Stopped(v) /\ ~Runnable(v) => Stopped(v')
    BY <2>1, WakeSettles, Zenon
  <2>6. Runnable(v) => ~vci'.halted
    BY <2>1, Zenon DEF VcpuWake, WakeVm, VciType
  <2> QED
    BY <1>1, <2>1, <2>2, <2>3, <2>4, <2>5, <2>6, Zenon DEF Woken
<1>6. CASE RaiseKick(s)
  BY <1>1, <1>6, SourceMoves DEF RaiseKick, VcpuType
<1>7. CASE SourceCheck(s)
  BY <1>1, <1>7, SourceMoves DEF SourceCheck, EventCheck, WakeVm, VcpuType, VciType
<1>8. CASE SourceIpi(s)
  BY SMTT(30), <1>1, <1>8, SourceMoves DEF SourceIpi
<1> QED
  BY Zenon, <1>2, <1>3, <1>4, <1>5, <1>6, <1>7, <1>8 DEF Source

LEMMA SleepPausers ==
    ASSUME v \in VcpuType, v' \in VcpuType, vci \in VciType, vci' \in VciType,
           pp \in [Pausers -> PauserSteps],
           SleepInv, NEW p \in Pausers, Pause(p) \/ Pauser(p)
    PROVE  SleepInv'
<1> USE DEF SleepInv, Runnable, Stopped, Halting
<1>1. /\ pc' = pc /\ timer' = timer /\ src' = src /\ irq' = irq
      /\ \A q \in Pausers \ {p} : pp'[q] = pp[q]
  BY Zenon DEF Pause, Pauser, SleepNosync, PauserCheck, PauserIpi, SleepSync, Unpause, UnpauseWake
<1>2. CASE Pause(p)
  BY <1>1, <1>2, PauserMoves DEF Pause, VcpuType
<1>3. CASE SleepNosync(p)
  BY <1>1, <1>3, PauserMoves DEF SleepNosync, VcpuType
<1>4. CASE PauserCheck(p)
  BY SMTT(30), <1>1, <1>4, PauserMoves DEF PauserCheck, EventCheck, WakeVm, VcpuType, VciType
<1>5. CASE PauserIpi(p) \/ SleepSync(p)
  BY <1>1, <1>5, PauserMoves DEF PauserIpi, SleepSync
<1>6. CASE Unpause(p)
  BY <1>1, <1>6, PauserMoves DEF Unpause, VcpuType
<1>7. CASE UnpauseWake(p)
  <2>1. VcpuWake(v) /\ pp[p] = "wake"
    BY <1>7, Zenon DEF UnpauseWake
  <2>2. v'.blocked = v.blocked /\ v'.softirq = v.softirq /\ Woken
    BY <2>1, WakeFlags, Zenon
  <2>3. (Unblocker => Unblocker') /\ (Checker => Checker')
    BY <1>1, <2>1, PauserMoves, Zenon
  <2>4. /\ ~(Runnable(v') /\ Stopped(v'))
        /\ v.runstate = "running" => v'.runstate = "running"
        /\ Stopped(v) /\ ~Runnable(v) => Stopped(v')
    BY <2>1, WakeSettles, Zenon
  <2>5. Runnable(v) => ~vci'.halted
    BY SMTT(30), <2>1 DEF VcpuWake, WakeVm, VciType
  <2> QED
    BY <1>1, <2>1, <2>2, <2>3, <2>4, <2>5, Zenon DEF Woken
<1> QED
  BY <1>2, <1>3, <1>4, <1>5, <1>6, <1>7, Zenon DEF Pauser

\* The timer's DPC sets its flag before it wakes the thread; the device model and
\* the stop of the VM take nothing away.
LEMMA SleepRest ==
    ASSUME vci \in VciType, vci' \in VciType, RequestInv, SleepInv,
           TimerExpires \/ TimerWakes \/ HostDpc \/ DeviceModel \/ StopReads \/ StopContinues
    PROVE  SleepInv'
<1>1. /\ UNCHANGED <<v, pc, irq, src>>
      /\ (Waker' <=> Waker) /\ (Unblocker' <=> Unblocker) /\ (Checker' <=> Checker)
  <2>1. UNCHANGED <<v, pc, irq, src, pp>>
    BY Zenon DEF TimerExpires, TimerWakes, HostDpc, DeviceModel, GetIoreq, Respond, StopReads,
           StopContinues, StopClears, StopSignals, StopWakes, StopWaits, others
  <2> QED
    BY <2>1, NobodyMoves, Zenon
<1> USE <1>1 DEF SleepInv, Runnable, Stopped, Halting
<1>2. CASE TimerExpires
  BY <1>2 DEF TimerExpires, VciType
<1>3. CASE TimerWakes
  <2>1. CASE timer = "wake" /\ vci' = WakeVm(vci)
    <3>1. Woken /\ ~vci'.halted
      BY <2>1, WakeVmFacts, Zenon DEF WakeVm, VciType
    <3> QED
      BY <3>1, Zenon DEF Woken
  <2>2. CASE timer = "ipi" /\ vci' = vci
    BY <2>2, Zenon
  <2> QED
    BY <1>3, <2>1, <2>2, Zenon DEF TimerWakes
<1>4. CASE HostDpc \/ DeviceModel \/ StopReads \/ StopWaits
  BY <1>4 DEF HostDpc, DeviceModel, GetIoreq, Respond, StopReads, StopWaits, others
<1>5. CASE StopClears
  BY <1>5 DEF StopClears, VciType
<1>6. CASE StopSignals
  BY <1>6 DEF StopSignals, VciType
<1>7. CASE StopWakes
  BY <1>7 DEF StopWakes, VciType
<1> QED
  BY <1>2, <1>3, <1>4, <1>5, <1>6, <1>7, Zenon DEF StopContinues

LEMMA SleepInvNext ==
    PauseInv /\ PauseInv' /\ RequestInv /\ RequestInv' /\ SleepInv /\ [Next]_vars => SleepInv'
<1> SUFFICES ASSUME PauseInv, PauseInv', RequestInv, RequestInv', SleepInv, [Next]_vars
             PROVE  SleepInv'
  BY Zenon
<1>1. /\ v \in VcpuType /\ v' \in VcpuType /\ pp \in [Pausers -> PauserSteps]
      /\ vci \in VciType /\ vci' \in VciType
  BY Zenon DEF PauseInv, Typed, RequestInv
<1>2. CASE UNCHANGED vars
  BY <1>2, NobodyMoves DEF vars, SleepInv, Halting, Runnable, Stopped
<1> QED
  BY <1>1, <1>2, SleepThread, SleepSources, SleepPausers, SleepRest, Zenon DEF Next

LEMMA SleepInvInit == Init => SleepInv
<1> SUFFICES ASSUME Init PROVE SleepInv
  OBVIOUS
<1>1. CASE \E p \in Pausers : pp[p] = "paused"
  BY <1>1 DEF Init, SleepInv, SourceSteps, Runnable, Stopped, Halting, Resumed
<1>2. CASE ~ \E p \in Pausers : pp[p] = "paused"
  BY <1>2, Zenon DEF Init, SleepInv, SourceSteps, Runnable, Stopped, Halting, Resumed
<1> QED
  BY <1>1, <1>2, Zenon

\* A vcpu thread that sleeps has nothing to do, or the caller that gave it
\* something to do has yet to wake it, for any number of sources, pausers and
\* events.
THEOREM SleepersWake == Spec => []SleeperIsWoken
<1>1. PauseInv /\ RequestInv /\ SleepInv => SleeperIsWoken
  <2> SUFFICES ASSUME PauseInv, RequestInv, SleepInv, pc = "sleep", ~vci.event, vci.runnable
               PROVE  /\ Runnable(v) => Waker
                      /\ irq /\ v.blocked => Unblocker
                      /\ vci.hasTimer => timer = "wake"
                      /\ v.softirq # {} => Checker
    BY Zenon DEF SleeperIsWoken, Waker, Unblocker, Checker
  <2> QED
    BY Zenon DEF SleepInv, Halting
<1> QED
  BY <1>1, PauseInvInit, PauseInvNext, RequestInvInit, RequestInvNext,
     SleepInvInit, SleepInvNext, PTL DEF Spec

----------------------------------------------------------------------------
(* In the guest *)

LEMMA GuestThread ==
    ASSUME v \in VcpuType, v' \in VcpuType, vci \in VciType, vci' \in VciType,
           GuestInv, VcpuThread
    PROVE  GuestInv'
<1>0. /\ UNCHANGED <<timer, stop>>
      /\ (Sender' <=> Sender) /\ (Interrupter' <=> Interrupter) /\ (Kicker' <=> Kicker)
  <2>1. UNCHANGED <<src, pp, timer, stop>>
    BY Zenon DEF VcpuThread, AfterRun, CheckHalted, Sleep, WaitIoreq, Enter, CancelKick,
           ClearEventCheck, Preempt, CheckIoreq, WakeSelf, Sched, Pick, PickLocked, Idle,
           Softirq, ScheduleFromVcpu, Resume, Execute, CheckWork, Work, Exit, Block,
           SignalEvent, Out, others
  <2> QED
    BY <2>1, NobodyMoves, Zenon
<1> USE <1>0 DEF GuestInv, Entering, WorkPending, Goto
<1>1. CASE AfterRun \/ CheckHalted \/ Sleep \/ WaitIoreq \/ Enter
  BY <1>1, Zenon DEF AfterRun, CheckHalted, Sleep, WaitIoreq, Enter
<1>2. CASE CancelKick
  BY <1>2, Zenon DEF CancelKick
<1>3. CASE ClearEventCheck
  BY <1>3, Zenon DEF ClearEventCheck, VcpuType
<1>4. CASE Preempt
  BY <1>4, Zenon DEF Preempt, VcpuType, VciType
<1>5. CASE CheckIoreq
  BY <1>5 DEF CheckIoreq, VcpuType, VciType
<1>6. CASE WakeSelf
  BY <1>6, Zenon DEF WakeSelf, VcpuWake, WakeVm, VcpuType, VciType
<1>7. CASE Sched
  BY <1>7, Zenon DEF Sched, VcpuType
<1>8. CASE Pick
  BY <1>8, ZenonT(60) DEF Pick, NotScheduled, VcpuType, VciType
<1>9. CASE PickLocked
  BY <1>9, Zenon DEF PickLocked, NotScheduled, VcpuType, VciType
<1>10. CASE Idle
  BY <1>10, Zenon DEF Idle, VciType
<1>11. CASE Softirq
  <2>1. /\ pc \in {"softirq", "softirqs"} /\ pc' \in {"softirqs", "softirqsLock", "again"}
        /\ dpc' = dpc
    BY <1>11, Zenon DEF Softirq
  <2>2. v'.eventCheck = v.eventCheck /\ vci'.runnable = vci.runnable
    <3>1. CASE Handle(v)
      BY <3>1, HandleFlags, Zenon DEF Woken
    <3>2. CASE v' = [v EXCEPT !.softirq = TimerSoftirq] /\ vci' = [vci EXCEPT !.hasTimer = FALSE]
      BY <3>2, Zenon DEF VcpuType, VciType
    <3> QED
      BY <1>11, <3>1, <3>2, Zenon DEF Softirq
  <2> QED
    BY <2>1, <2>2, Zenon
<1>12. CASE ScheduleFromVcpu
  BY <1>12, Zenon DEF ScheduleFromVcpu, VcpuType
<1>13. CASE Resume
  BY <1>13, ZenonT(60) DEF Resume, SendAssistReq, RaiseSelf, WakeVm, VcpuType, VciType
<1>14. CASE Execute
  BY <1>14, Zenon DEF Execute
<1>15. CASE CheckWork
  BY <1>15, Zenon DEF CheckWork, NeedsPreempt, VcpuType, VciType
<1>16. CASE Work \/ Block \/ Out
  BY <1>16, Zenon DEF Work, Block, Out
<1>17. CASE Exit
  BY <1>17, Zenon DEF Exit, SendAssistReq
<1>18. CASE SignalEvent
  BY SMTT(30), <1>18 DEF SignalEvent, VciType
<1> QED
  BY <1>1, <1>2, <1>3, <1>4, <1>5, <1>6, <1>7, <1>8, <1>9, <1>10, <1>11, <1>12, <1>13,
     <1>14, <1>15, <1>16, <1>17, <1>18, Zenon DEF VcpuThread

\* A source that finds an event check requested relies on the one who requested
\* it; and only a source that saw the vcpu not running skips the kick.
LEMMA GuestSources ==
    ASSUME PauseInv, v' \in VcpuType, vci \in VciType, vci' \in VciType,
           SleepInv, GuestInv, NEW s \in Sources, Raise(s) \/ Source(s)
    PROVE  GuestInv'
<1>1. /\ pc' = pc /\ timer' = timer /\ pp' = pp /\ stop' = stop
      /\ \A t \in Sources \ {s} : src'[t] = src[t]
      /\ src \in [Sources -> SourceSteps]
  BY Zenon DEF Raise, Source, ReadRunning, Unblock, Wake, RaiseKick, SourceCheck, SourceIpi, SleepInv
<1>2. v \in VcpuType /\ (pc \in {"entry", "guest"} => v.running)
  BY SMTT(30) DEF PauseInv, Typed, Loaded
<1> USE <1>1, <1>2 DEF GuestInv, WorkPending
<1>3. CASE Raise(s)
  BY <1>3, SourceMoves, Zenon DEF Raise
<1>4. CASE ReadRunning(s)
  BY <1>4, SourceMoves, Zenon DEF ReadRunning
<1>5. CASE Unblock(s)
  BY <1>5, SourceMoves DEF Unblock, VcpuType
<1>6. CASE Wake(s)
  <2>1. VcpuWake(v) /\ irq' = irq /\ dpc' = dpc /\ src[s] \in {"wake", "wakeRun"}
        /\ (src[s] = "wakeRun" => src'[s] = "raise")
    BY <1>6, Zenon DEF Wake
  <2>2. v'.eventCheck = v.eventCheck /\ v'.softirq = v.softirq /\ Woken
    BY <2>1, WakeFlags, Zenon
  <2>3. (Sender => Sender') /\ (Interrupter => Interrupter') /\ (Kicker => Kicker')
    BY <2>1, SourceMoves, Zenon
  <2> QED
    BY <2>1, <2>2, <2>3, Zenon DEF Woken
<1>7. CASE RaiseKick(s)
  BY <1>7, SourceMoves DEF RaiseKick, VcpuType
<1>8. CASE SourceCheck(s)
  <2>1. /\ src[s] = "check" /\ irq' = irq /\ dpc' = dpc
        /\ v'.eventCheck /\ v'.softirq = v.softirq
        /\ src'[s] = IF v.eventCheck THEN "idle" ELSE "ipi"
    BY <1>8, Zenon DEF SourceCheck, EventCheck, VcpuType
  <2>2. Woken
    BY <1>8, WakeVmFacts, Zenon DEF SourceCheck, EventCheck
  <2>3. (Sender => Sender') /\ (Kicker => Kicker') /\ (~v.eventCheck => Sender')
    BY <2>1, SourceMoves, Zenon
  <2>4. Sender' => Interrupter'
    BY SMTT(30) DEF Sender, Interrupter, SourceIn, PauserIn
  <2> QED
    BY <2>1, <2>2, <2>3, <2>4, Zenon DEF Woken, Entering
<1>9. CASE SourceIpi(s)
  <2>1. /\ src[s] = "ipi" /\ UNCHANGED <<v, vci, irq>>
        /\ dpc' = IF vci.runnable THEN dpc \cup {"ipi"} ELSE dpc
    BY <1>9, Zenon DEF SourceIpi, Ipi
  <2>2. Kicker => Kicker'
    BY <2>1, SourceMoves, Zenon
  <2> QED
    BY <2>1, <2>2, Zenon
<1> QED
  BY <1>3, <1>4, <1>5, <1>6, <1>7, <1>8, <1>9, Zenon DEF Source

LEMMA GuestPausers ==
    ASSUME PauseInv, v' \in VcpuType, vci \in VciType, vci' \in VciType,
           GuestInv, NEW p \in Pausers, Pause(p) \/ Pauser(p)
    PROVE  GuestInv'
<1>1. /\ pc' = pc /\ timer' = timer /\ src' = src /\ stop' = stop /\ irq' = irq
      /\ \A q \in Pausers \ {p} : pp'[q] = pp[q]
      /\ v \in VcpuType /\ pp \in [Pausers -> PauserSteps]
  BY Zenon DEF PauseInv, Typed, Pause, Pauser, SleepNosync, PauserCheck, PauserIpi, SleepSync,
         Unpause, UnpauseWake
<1> USE <1>1 DEF GuestInv, WorkPending
<1>2. CASE Pause(p) \/ Unpause(p)
  <2>1. PICK n : v' = [v EXCEPT !.pauses = n]
    BY <1>2, Zenon DEF Pause, Unpause
  <2>2. /\ v'.eventCheck = v.eventCheck /\ v'.softirq = v.softirq
        /\ UNCHANGED <<vci, dpc>> /\ pp[p] \in {"idle", "paused"}
    BY <1>2, <2>1, Zenon DEF Pause, Unpause, VcpuType
  <2> QED
    BY Zenon, <2>2, PauserMoves
<1>3. CASE SleepNosync(p)
  BY <1>3, PauserMoves DEF SleepNosync, VcpuType
<1>4. CASE PauserCheck(p)
  <2>1. /\ pp[p] = "check" /\ dpc' = dpc
        /\ v'.eventCheck /\ v'.softirq = v.softirq
        /\ pp'[p] = IF v.eventCheck THEN "spin" ELSE "ipi"
    BY <1>4, Zenon DEF PauserCheck, EventCheck, VcpuType
  <2>2. Woken
    BY <1>4, WakeVmFacts, Zenon DEF PauserCheck, EventCheck
  <2>3. (Sender => Sender') /\ (Kicker => Kicker') /\ (~v.eventCheck => Sender')
    BY <2>1, PauserMoves, Zenon
  <2>4. Sender' => Interrupter'
    BY SMTT(30) DEF Sender, Interrupter, SourceIn, PauserIn
  <2> QED
    BY <2>1, <2>2, <2>3, <2>4, Zenon DEF Woken, Entering
<1>5. CASE PauserIpi(p)
  BY <1>5, PauserMoves, SMTT(30) DEF PauserIpi, Ipi
<1>6. CASE SleepSync(p)
  BY SMTT(30), <1>6, PauserMoves DEF SleepSync
<1>7. CASE UnpauseWake(p)
  <2>1. VcpuWake(v) /\ dpc' = dpc /\ pp[p] = "wake"
    BY <1>7, Zenon DEF UnpauseWake
  <2>2. v'.eventCheck = v.eventCheck /\ v'.softirq = v.softirq /\ Woken
    BY <2>1, WakeFlags, Zenon
  <2>3. (Sender => Sender') /\ (Interrupter => Interrupter') /\ (Kicker => Kicker')
    BY SMTT(30), <2>1, PauserMoves
  <2> QED
    BY <2>1, <2>2, <2>3, Zenon DEF Woken
<1> QED
  BY Zenon, <1>2, <1>3, <1>4, <1>5, <1>6, <1>7 DEF Pauser

LEMMA GuestRest ==
    ASSUME RequestInv, vci' \in VciType, GuestInv,
           TimerExpires \/ TimerWakes \/ HostDpc \/ DeviceModel \/ StopReads \/ StopContinues
    PROVE  GuestInv'
<1>1. /\ UNCHANGED <<v, pc, irq>> /\ vci \in VciType
      /\ (Sender' <=> Sender) /\ (Interrupter' <=> Interrupter) /\ (Kicker' <=> Kicker)
  <2>1. UNCHANGED <<v, pc, irq, src, pp>> /\ vci \in VciType
    BY Zenon DEF TimerExpires, TimerWakes, HostDpc, DeviceModel, GetIoreq, Respond, StopReads,
           StopContinues, StopClears, StopSignals, StopWakes, StopWaits, others, RequestInv
  <2> QED
    BY <2>1, NobodyMoves, Zenon
<1> USE <1>1 DEF GuestInv, WorkPending
<1>2. CASE TimerExpires
  BY <1>2 DEF TimerExpires, VciType
<1>3. CASE TimerWakes
  <2>1. CASE timer = "wake" /\ timer' = "ipi" /\ vci' = WakeVm(vci) /\ dpc' = dpc
    <3>1. Woken
      BY <2>1, WakeVmFacts, Zenon
    <3> QED
      BY <1>3, <2>1, <3>1 DEF TimerWakes, Woken
  <2>2. CASE timer = "ipi" /\ Ipi /\ vci' = vci
    BY <1>3, <2>2 DEF TimerWakes, Ipi
  <2> QED
    BY SMTT(30), <1>3, <2>1, <2>2 DEF TimerWakes
<1>4. CASE HostDpc \/ DeviceModel
  BY <1>4, Zenon DEF HostDpc, DeviceModel, GetIoreq, Respond, others
<1>5. CASE StopReads \/ StopWaits
  BY <1>5, Zenon DEF StopReads, StopWaits
<1>6. CASE StopClears
  BY <1>6 DEF StopClears, VciType
<1>7. CASE StopSignals
  BY <1>7 DEF StopSignals, VciType
<1>8. CASE StopWakes
  BY <1>8 DEF StopWakes, VciType
<1> QED
  BY <1>2, <1>3, <1>4, <1>5, <1>6, <1>7, <1>8, Zenon DEF StopContinues

LEMMA GuestInvNext ==
    /\ PauseInv /\ PauseInv' /\ RequestInv /\ RequestInv' /\ SleepInv
    /\ GuestInv /\ [Next]_vars
    => GuestInv'
<1> SUFFICES ASSUME PauseInv, PauseInv', RequestInv, RequestInv', SleepInv,
                    GuestInv, [Next]_vars
             PROVE  GuestInv'
  BY Zenon
<1>1. v \in VcpuType /\ v' \in VcpuType /\ vci \in VciType /\ vci' \in VciType
  BY Zenon DEF PauseInv, Typed, RequestInv
<1>2. CASE UNCHANGED vars
  BY <1>2, NobodyMoves, Zenon DEF vars, GuestInv, WorkPending
<1> QED
  BY <1>1, <1>2, GuestThread, GuestSources, GuestPausers, GuestRest, Zenon DEF Next

LEMMA GuestInvInit == Init => GuestInv
BY Zenon DEF Init, GuestInv, Entering

\* A guest that has to stop for an interrupt, for work of the vcpu or for the end of
\* the VM has a DPC queued that takes it out, or somebody is about to queue it, for
\* any number of sources, pausers and events.
THEOREM GuestsLeave == Spec => []GuestIsInterrupted
<1>1. GuestInv => GuestIsInterrupted
  <2> SUFFICES ASSUME GuestInv, pc = "guest", dpc = {}
               PROVE  /\ irq => Kicker \/ "kick" \in v.softirq
                      /\ WorkPending => Interrupter \/ timer # "idle" \/ stop \in {"event", "wake"}
                      /\ ~vci.runnable => stop \in {"event", "wake"}
    BY Zenon DEF GuestIsInterrupted, Kicker, Interrupter, SourceIn, PauserIn
  <2> QED
    BY Zenon DEF GuestInv
<1> QED
  BY <1>1, PauseInvInit, PauseInvNext, RequestInvInit, RequestInvNext,
     SleepInvInit, SleepInvNext, GuestInvInit, GuestInvNext, PTL DEF Spec

=============================================================================
