----------------------------- MODULE DomShutdown -----------------------------
(***************************************************************************)
(* Shutting a domain down while its vcpus do I/O (xen/common/domain.c).  A *)
(* vcpu that has a request with the device model defers the shutdown until *)
(* the answer has been used; the domain is shut down when every vcpu is    *)
(* paused for it.  The flag of the deferral is written by the vcpu without *)
(* the shutdown lock, that of the shutdown by domain_shutdown under it.    *)
(***************************************************************************)
EXTENDS Integers

CONSTANTS
    Vcpus,        \* the vcpus of the domain
    Callers,      \* contexts that call domain_shutdown
    Reasons,      \* shutdown codes that are used; "crash" is the forced one
    None

ASSUME ConstantsAssumption == None \notin Callers /\ "none" \notin Reasons

VARIABLES
    d,          \* shutdown_code, is_shutting_down, is_shut_down, time_pause_count
    vc,         \* per vcpu: defer_shutdown, paused_for_shutdown, pause_count
    pc,         \* per vcpu: not scheduled ("out"), running, or inside a deferral call
    inflight,   \* per vcpu: a request was sent and hvm_io_assist has not ended its use
    lock,       \* holder of shutdown_lock across the loop of domain_shutdown
    todo        \* vcpus the loop has still to visit

vars == <<d, vc, pc, inflight, lock, todo>>

Init ==
    /\ d = [code |-> "none", shuttingDown |-> FALSE, shutDown |-> FALSE, timePauses |-> 0]
    /\ vc = [v \in Vcpus |-> [defer |-> FALSE, paused |-> FALSE, pauses |-> 0]]
    /\ pc = [v \in Vcpus |-> "out"]
    /\ inflight = [v \in Vcpus |-> FALSE]
    /\ lock = None
    /\ todo = {}

----------------------------------------------------------------------------

\* vcpu_pause_nosync and the flag that says what for.
PausedForShutdown(r) == [defer |-> r.defer, paused |-> TRUE, pauses |-> r.pauses + 1]

\* __domain_finalise_shutdown, when the vcpus are as in w.
Finalise(w) ==
    IF ~d.shutDown /\ \A v \in Vcpus : w[v].paused
    THEN [code |-> d.code, shuttingDown |-> d.shuttingDown, shutDown |-> TRUE,
          timePauses |-> d.timePauses + 1]
    ELSE d

\* What domain_shutdown does with one vcpu.
Visit(r) ==
    CASE d.code = "crash" -> PausedForShutdown([r EXCEPT !.defer = FALSE])
      [] d.code # "crash" /\ ~r.defer -> PausedForShutdown(r)
      [] OTHER -> r

----------------------------------------------------------------------------
(* domain_shutdown *)

Shutdown(c) ==
    /\ lock = None
    /\ \E reason \in Reasons :
         IF d.shuttingDown THEN UNCHANGED <<d, lock, todo>>
         ELSE /\ d' = [d EXCEPT !.code = reason, !.shuttingDown = TRUE]
              /\ lock' = c
              /\ todo' = Vcpus
    /\ UNCHANGED <<vc, pc, inflight>>

VisitVcpu(v) ==
    /\ lock # None /\ v \in todo
    /\ vc' = [vc EXCEPT ![v] = Visit(@)]
    /\ todo' = todo \ {v}
    /\ UNCHANGED <<d, pc, inflight, lock>>

\* Mutant: the loop's end leaves the completion to the vcpus.
ShutdownEndsEarly ==
    /\ lock # None /\ todo = {}
    /\ lock' = None
    /\ UNCHANGED <<d, vc, pc, inflight, todo>>

ShutdownEnds ==
    /\ lock # None /\ todo = {}
    /\ d' = Finalise(vc)
    /\ lock' = None
    /\ UNCHANGED <<vc, pc, inflight, todo>>

\* domain_resume.  The device model calls it for a domain that it had suspended;
\* domain_pause has taken every vcpu off the processor.
Resume ==
    /\ d.shutDown /\ d.code = "suspend"
    /\ \A v \in Vcpus : pc[v] = "out"
    /\ lock = None
    /\ d' = [code |-> "none", shuttingDown |-> FALSE, shutDown |-> FALSE,
             timePauses |-> IF d.timePauses = 0 THEN 0 ELSE d.timePauses - 1]
    /\ vc' = [v \in Vcpus |->
               [defer |-> vc[v].defer, paused |-> FALSE,
                pauses |-> IF vc[v].paused THEN vc[v].pauses - 1 ELSE vc[v].pauses]]
    /\ UNCHANGED <<pc, inflight, lock, todo>>

----------------------------------------------------------------------------
(* A vcpu *)

At(v, from, to) == pc[v] = from /\ pc' = [pc EXCEPT ![v] = to]

Schedule(v) ==
    /\ vc[v].pauses = 0
    /\ At(v, "out", "run")
    /\ UNCHANGED <<d, vc, inflight, lock, todo>>

Deschedule(v) ==
    /\ At(v, "run", "out")
    /\ UNCHANGED <<d, vc, inflight, lock, todo>>

\* hvm_send_assist_req calls vcpu_start_shutdown_deferral, which sets the deferral
\* and then looks for a shutdown.  An answer whose use needs a further request
\* finds its deferral set.
StartDeferral(v) ==
    /\ At(v, "run", IF vc[v].defer THEN "send" ELSE "started")
    /\ vc' = [vc EXCEPT ![v].defer = TRUE]
    /\ UNCHANGED <<d, inflight, lock, todo>>

\* Mutant: no look at the shutdown after the deferral is set.
LookAfterStartNot(v) ==
    /\ At(v, "started", "return")
    /\ UNCHANGED <<d, vc, inflight, lock, todo>>

LookAfterStart(v) ==
    /\ At(v, "started", IF d.shuttingDown THEN "startLock" ELSE "return")
    /\ UNCHANGED <<d, vc, inflight, lock, todo>>

\* The flag is read again: hvm_send_assist_req goes on, or drops the access.
Return(v) ==
    /\ At(v, "return", IF vc[v].defer THEN "send" ELSE "run")
    /\ UNCHANGED <<d, vc, inflight, lock, todo>>

Send(v) ==
    /\ At(v, "send", "run")
    /\ inflight' = [inflight EXCEPT ![v] = TRUE]
    /\ UNCHANGED <<d, vc, lock, todo>>

\* hvm_io_assist has used the answer: vcpu_end_shutdown_deferral.
EndDeferral(v) ==
    /\ inflight[v]
    /\ At(v, "run", "ended")
    /\ vc' = [vc EXCEPT ![v].defer = FALSE]
    /\ inflight' = [inflight EXCEPT ![v] = FALSE]
    /\ UNCHANGED <<d, lock, todo>>

\* Mutant: no look at the shutdown after the deferral has ended.
LookAfterEndNot(v) ==
    /\ At(v, "ended", "run")
    /\ UNCHANGED <<d, vc, inflight, lock, todo>>

LookAfterEnd(v) ==
    /\ At(v, "ended", IF d.shuttingDown THEN "endLock" ELSE "run")
    /\ UNCHANGED <<d, vc, inflight, lock, todo>>

\* Mutant: the vcpu pauses itself without asking whether it is paused.
CheckShutdownAgain(v) ==
    /\ lock = None
    /\ At(v, "startLock", "return") \/ At(v, "endLock", "run")
    /\ IF d.shuttingDown
       THEN LET r == [PausedForShutdown(vc[v]) EXCEPT !.defer = FALSE] IN
            /\ vc' = [vc EXCEPT ![v] = r]
            /\ d' = Finalise([vc EXCEPT ![v] = r])
       ELSE UNCHANGED <<d, vc>>
    /\ UNCHANGED <<inflight, lock, todo>>

\* vcpu_check_shutdown, under the lock.
CheckShutdown(v) ==
    /\ lock = None
    /\ At(v, "startLock", "return") \/ At(v, "endLock", "run")
    /\ IF d.shuttingDown
       THEN LET p == IF vc[v].paused THEN vc[v] ELSE PausedForShutdown(vc[v])
                r == [p EXCEPT !.defer = FALSE] IN
            /\ vc' = [vc EXCEPT ![v] = r]
            /\ d' = Finalise([vc EXCEPT ![v] = r])
       ELSE UNCHANGED <<d, vc>>
    /\ UNCHANGED <<inflight, lock, todo>>

Finishes(v) ==
    \/ LookAfterStart(v) \/ Return(v) \/ Send(v) \/ EndDeferral(v)
    \/ LookAfterEnd(v) \/ CheckShutdown(v)

Next ==
    \/ \E c \in Callers : Shutdown(c)
    \/ \E v \in Vcpus : VisitVcpu(v)
    \/ ShutdownEnds
    \/ Resume
    \/ \E v \in Vcpus : Schedule(v) \/ Deschedule(v) \/ StartDeferral(v) \/ Finishes(v)

Spec == Init /\ [][Next]_vars

\* The caller of domain_shutdown goes on; a vcpu finishes a call it is in; a vcpu
\* whose request was answered is scheduled, and uses the answer once.
Fairness ==
    /\ WF_vars((\E v \in Vcpus : VisitVcpu(v)) \/ ShutdownEnds)
    /\ \A v \in Vcpus :
         /\ WF_vars(inflight[v] /\ Schedule(v))
         /\ SF_vars(EndDeferral(v))
         /\ WF_vars(LookAfterStart(v) \/ Return(v) \/ Send(v) \/ LookAfterEnd(v))
         /\ WF_vars(CheckShutdown(v))

FairSpec == Spec /\ Fairness

----------------------------------------------------------------------------
(* Properties *)

\* The values of the state.
TypeOK ==
    /\ d \in [code : Reasons \cup {"none"}, shuttingDown : BOOLEAN, shutDown : BOOLEAN,
              timePauses : Nat]
    /\ vc \in [Vcpus -> [defer : BOOLEAN, paused : BOOLEAN, pauses : Nat]]
    /\ pc \in [Vcpus -> {"out", "run", "started", "return", "send", "ended",
                        "startLock", "endLock"}]
    /\ inflight \in [Vcpus -> BOOLEAN]
    /\ lock \in Callers \cup {None}
    /\ todo \subseteq Vcpus

\* When a domain counts as shut down for another reason than a crash, no vcpu has
\* a request with the device model, and none will have: what a save writes out is
\* complete.
NothingInFlight ==
    d.shutDown /\ d.code # "crash" => \A v \in Vcpus : ~inflight[v]

OnePause == \A v \in Vcpus : vc[v].pauses = IF vc[v].paused THEN 1 ELSE 0
TimeStopped == d.timePauses = IF d.shutDown THEN 1 ELSE 0

\* The shutdown holds one pause of every vcpu it has paused, and one of guest time
\* when all are, however often the paths of domain_shutdown and of the vcpus meet:
\* domain_resume, which takes one of each back, lets the domain run.
PausedOnce == OnePause /\ TimeStopped

\* A shutdown is not left unfinished: once domain_shutdown has returned and every
\* vcpu is paused, the domain is shut down.
Finalised ==
    d.shuttingDown /\ lock = None /\ (\A v \in Vcpus : vc[v].paused) => d.shutDown

\* A shutdown in which the vcpus that defer it get their answers is completed.
ShutdownCompletes == d.shuttingDown ~> d.shutDown

=============================================================================
