-------------------------- MODULE DomShutdownProofs --------------------------
(***************************************************************************)
(* What holds of a domain's shutdown for any number of vcpus.  The vcpu    *)
(* sets its deferral and then looks for a shutdown; domain_shutdown sets   *)
(* its flag and then looks at the deferrals.  The invariant says what each *)
(* side may conclude from what it has seen.                                *)
(***************************************************************************)
EXTENDS DomShutdown, TLAPS

\* The shutdown's own state: the code is set with the flag; the loop runs during a
\* shutdown that is not complete and has not paused the vcpus it has yet to visit.
DomainInv ==
    /\ d.shuttingDown <=> d.code # "none"
    /\ d.shutDown => lock = None /\ d.shuttingDown /\ \A v \in Vcpus : vc[v].paused
    /\ \A v \in Vcpus : vc[v].paused => d.shuttingDown
    /\ lock # None => d.shuttingDown /\ \A v \in todo : ~vc[v].paused

\* A vcpu's request is covered by its deferral, and a vcpu that is paused and has
\* set a deferral has not looked for the shutdown yet, or has seen it.
VcpuInv(v) ==
    /\ inflight[v] => vc[v].defer
    /\ pc[v] = "send" => vc[v].defer
    /\ pc[v] \in {"started", "startLock", "ended", "endLock"} => ~inflight[v]
    /\ vc[v].paused => ~inflight[v] /\ (vc[v].defer => pc[v] \in {"started", "startLock"})

\* The inductive invariant; a crash does away with the deferrals.
ShutdownInv ==
    /\ TypeOK
    /\ DomainInv
    /\ OnePause
    /\ TimeStopped
    /\ Finalised
    /\ d.code # "crash" => \A v \in Vcpus : VcpuInv(v)

VcpuFlags == [defer : BOOLEAN, paused : BOOLEAN, pauses : Nat]

\* What pausing a vcpu for the shutdown, and a visit of the loop, do to its flags.
LEMMA PausedFacts ==
    ASSUME NEW r \in VcpuFlags
    PROVE  /\ PausedForShutdown(r) \in VcpuFlags
           /\ PausedForShutdown(r).paused
           /\ PausedForShutdown(r).pauses = r.pauses + 1
           /\ PausedForShutdown(r).defer = r.defer
BY DEF PausedForShutdown, VcpuFlags

LEMMA ClearFacts ==
    ASSUME NEW r \in VcpuFlags, NEW b \in BOOLEAN
    PROVE  /\ [r EXCEPT !.defer = b] \in VcpuFlags
           /\ [r EXCEPT !.defer = b].paused = r.paused
           /\ [r EXCEPT !.defer = b].pauses = r.pauses
           /\ [r EXCEPT !.defer = b].defer = b
BY DEF VcpuFlags

LEMMA VisitFacts ==
    ASSUME NEW r \in VcpuFlags, ~r.paused, r.pauses = 0
    PROVE  /\ Visit(r) \in VcpuFlags
           /\ Visit(r).pauses = IF Visit(r).paused THEN 1 ELSE 0
           /\ d.code # "crash" => Visit(r).defer = r.defer /\ (Visit(r).paused => ~r.defer)
<1>1. CASE d.code = "crash"
  <2>1. Visit(r) = PausedForShutdown([r EXCEPT !.defer = FALSE])
    BY <1>1 DEF Visit
  <2>2. /\ [r EXCEPT !.defer = FALSE] \in VcpuFlags
        /\ [r EXCEPT !.defer = FALSE].pauses = 0
    BY ClearFacts, Zenon
  <2> DEFINE q == [r EXCEPT !.defer = FALSE]
  <2> HIDE DEF q
  <2>3. Visit(r) = PausedForShutdown(q) /\ q \in VcpuFlags /\ q.pauses = 0
    BY <2>1, <2>2 DEF q
  <2>4. /\ PausedForShutdown(q) \in VcpuFlags
        /\ PausedForShutdown(q).paused /\ PausedForShutdown(q).pauses = 1
    BY <2>3, PausedFacts
  <2> QED BY <1>1, <2>3, <2>4
<1>2. CASE d.code # "crash" /\ ~r.defer
  <2>1. Visit(r) = PausedForShutdown(r)
    BY <1>2 DEF Visit
  <2> QED BY <1>2, <2>1, PausedFacts
<1>3. CASE d.code # "crash" /\ r.defer
  BY <1>3, Zenon DEF Visit
<1> QED BY <1>1, <1>2, <1>3

\* What __domain_finalise_shutdown does to the domain.
LEMMA FinaliseFacts ==
    ASSUME NEW w, d \in [code : Reasons \cup {"none"}, shuttingDown : BOOLEAN,
                         shutDown : BOOLEAN, timePauses : Nat],
           TimeStopped
    PROVE  /\ Finalise(w) \in [code : Reasons \cup {"none"}, shuttingDown : BOOLEAN,
                                shutDown : BOOLEAN, timePauses : Nat]
           /\ Finalise(w).code = d.code
           /\ Finalise(w).shuttingDown = d.shuttingDown
           /\ Finalise(w).timePauses = IF Finalise(w).shutDown THEN 1 ELSE 0
           /\ Finalise(w).shutDown <=> d.shutDown \/ \A v \in Vcpus : w[v].paused
<1>1. CASE ~d.shutDown /\ \A v \in Vcpus : w[v].paused
  <2>1. Finalise(w) = [code |-> d.code, shuttingDown |-> d.shuttingDown, shutDown |-> TRUE,
                       timePauses |-> d.timePauses + 1]
    BY <1>1 DEF Finalise
  <2> QED BY <1>1, <2>1 DEF TimeStopped
<1>2. CASE ~(~d.shutDown /\ \A v \in Vcpus : w[v].paused)
  <2>1. Finalise(w) = d
    BY <1>2 DEF Finalise
  <2> QED BY <1>2, <2>1 DEF TimeStopped
<1> QED BY <1>1, <1>2

LEMMA ShutdownInvInit == Init => ShutdownInv
BY ConstantsAssumption DEF Init, ShutdownInv, TypeOK, DomainInv, OnePause, TimeStopped, Finalised, VcpuInv

\* domain_shutdown begins: nothing is paused yet.
LEMMA ShutdownKeeps ==
    ASSUME ShutdownInv, NEW c \in Callers, Shutdown(c) PROVE ShutdownInv'
<1> USE ConstantsAssumption DEF ShutdownInv, TypeOK, Shutdown
<1>1. CASE d.shuttingDown
  BY <1>1 DEF DomainInv, OnePause, TimeStopped, Finalised, VcpuInv
<1>2. CASE ~d.shuttingDown
  <2>1. PICK reason \in Reasons : d' = [d EXCEPT !.code = reason, !.shuttingDown = TRUE]
    BY <1>2, Zenon
  <2>2. TypeOK' /\ TimeStopped' /\ OnePause' /\ Finalised'
    BY <1>2, <2>1, ZenonT(60) DEF TimeStopped, OnePause, Finalised
  <2>3. DomainInv'
    BY <1>2, <2>1 DEF DomainInv
  <2>4. d.code # "crash"
    BY <1>2 DEF DomainInv
  <2> QED BY <2>2, <2>3, <2>4, <1>2 DEF VcpuInv
<1> QED BY <1>1, <1>2

\* The loop pauses a vcpu that does not defer, so that has no request.
LEMMA VisitKeeps ==
    ASSUME ShutdownInv, NEW v \in Vcpus, VisitVcpu(v) PROVE ShutdownInv'
<1> USE DEF ShutdownInv, TypeOK, VisitVcpu
<1>1. ~vc[v].paused /\ vc[v].pauses = 0 /\ d.shuttingDown /\ ~d.shutDown
  BY DEF DomainInv, OnePause
<1>2. /\ vc' \in [Vcpus -> VcpuFlags]
      /\ vc'[v].pauses = IF vc'[v].paused THEN 1 ELSE 0
      /\ d.code # "crash" => vc'[v].defer = vc[v].defer /\ (vc'[v].paused => ~vc[v].defer)
      /\ \A w \in Vcpus \ {v} : vc'[w] = vc[w]
  <2>1. vc[v] \in VcpuFlags /\ vc'[v] = Visit(vc[v])
    BY DEF VcpuFlags
  <2>2. /\ Visit(vc[v]) \in VcpuFlags
        /\ Visit(vc[v]).pauses = IF Visit(vc[v]).paused THEN 1 ELSE 0
        /\ d.code # "crash" => Visit(vc[v]).defer = vc[v].defer
                               /\ (Visit(vc[v]).paused => ~vc[v].defer)
    BY <1>1, <2>1, VisitFacts
  <2> QED BY <2>1, <2>2 DEF VcpuFlags
<1>3. TypeOK' /\ TimeStopped' /\ Finalised'
  BY <1>2 DEF TimeStopped, Finalised, VcpuFlags
<1>4. OnePause'
  BY <1>1, <1>2 DEF OnePause
<1>5. DomainInv'
  BY <1>1, <1>2 DEF DomainInv
<1>6. ASSUME d.code # "crash", NEW w \in Vcpus PROVE VcpuInv(w)'
  BY <1>2, <1>6 DEF VcpuInv
<1> QED BY <1>3, <1>4, <1>5, <1>6

LEMMA EndsKeeps ==
    ASSUME ShutdownInv, ShutdownEnds PROVE ShutdownInv'
<1> USE ConstantsAssumption DEF ShutdownInv, TypeOK, ShutdownEnds
<1>1. /\ d' \in [code : Reasons \cup {"none"}, shuttingDown : BOOLEAN,
                  shutDown : BOOLEAN, timePauses : Nat]
      /\ d'.code = d.code /\ d'.shuttingDown = d.shuttingDown
      /\ d'.timePauses = IF d'.shutDown THEN 1 ELSE 0
      /\ d'.shutDown <=> d.shutDown \/ \A v \in Vcpus : vc[v].paused
  BY FinaliseFacts
<1> QED BY <1>1 DEF DomainInv, OnePause, TimeStopped, Finalised, VcpuInv

\* domain_resume gives back the one pause of each vcpu.
LEMMA ResumeKeeps ==
    ASSUME ShutdownInv, Resume PROVE ShutdownInv'
<1>1. d.timePauses = 1 /\ \A v \in Vcpus : vc[v].paused /\ vc[v].pauses = 1
  BY DEF ShutdownInv, TypeOK, Resume, DomainInv, TimeStopped, OnePause
<1>2. PICK n : /\ n = IF d.timePauses = 0 THEN 0 ELSE d.timePauses - 1
               /\ d' = [code |-> "none", shuttingDown |-> FALSE, shutDown |-> FALSE,
                        timePauses |-> n]
  BY Zenon DEF Resume
<1>3. n = 0
  BY <1>1, <1>2
<1>4. ASSUME NEW v \in Vcpus
      PROVE  /\ vc'[v] \in VcpuFlags /\ ~vc'[v].paused /\ vc'[v].pauses = 0
             /\ vc'[v].defer = vc[v].defer
  <2>1. PICK k : /\ k = IF vc[v].paused THEN vc[v].pauses - 1 ELSE vc[v].pauses
                 /\ vc'[v] = [defer |-> vc[v].defer, paused |-> FALSE, pauses |-> k]
    BY Zenon DEF Resume
  <2>2. k = 0
    BY <1>1, <2>1
  <2>3. vc[v].defer \in BOOLEAN
    BY DEF ShutdownInv, TypeOK
  <2> QED BY <2>1, <2>2, <2>3 DEF VcpuFlags
<1>5. TypeOK'
  <2>1. vc' \in [Vcpus -> VcpuFlags]
    BY <1>4 DEF Resume
  <2>2. d' \in [code : Reasons \cup {"none"}, shuttingDown : BOOLEAN, shutDown : BOOLEAN,
                timePauses : Nat]
    BY <1>2, <1>3
  <2> QED BY <2>1, <2>2 DEF ShutdownInv, TypeOK, Resume, VcpuFlags
<1>6. TimeStopped' /\ Finalised' /\ OnePause'
  BY <1>2, <1>3, <1>4 DEF TimeStopped, Finalised, OnePause
<1>7. DomainInv'
  BY <1>2, <1>4 DEF DomainInv, Resume
<1>8. ASSUME NEW v \in Vcpus PROVE VcpuInv(v)'
  BY <1>4 DEF ShutdownInv, VcpuInv, Resume
<1> QED BY <1>5, <1>6, <1>7, <1>8 DEF ShutdownInv

\* Steps of a vcpu that change its own deferral or request, and nothing else.
LEMMA OwnStepKeeps ==
    ASSUME ShutdownInv, NEW v \in Vcpus,
           \/ Schedule(v) \/ Deschedule(v) \/ StartDeferral(v) \/ LookAfterStart(v)
           \/ Return(v) \/ Send(v) \/ EndDeferral(v) \/ LookAfterEnd(v)
    PROVE  ShutdownInv'
<1> USE DEF ShutdownInv, TypeOK, At
<1>1. /\ UNCHANGED <<d, lock, todo>>
      /\ \A w \in Vcpus : vc'[w].paused = vc[w].paused /\ vc'[w].pauses = vc[w].pauses
      /\ TypeOK'
  <2>1. CASE UNCHANGED vc
    BY <2>1, Zenon DEF Schedule, Deschedule, StartDeferral, LookAfterStart, Return, Send, EndDeferral,
                LookAfterEnd
  <2>2. CASE StartDeferral(v) \/ EndDeferral(v)
    <3>1. PICK b \in BOOLEAN : vc' = [vc EXCEPT ![v] = [vc[v] EXCEPT !.defer = b]]
      BY <2>2, Zenon DEF StartDeferral, EndDeferral
    <3>2. vc[v] \in VcpuFlags
      BY DEF VcpuFlags
    <3>3. /\ vc' \in [Vcpus -> VcpuFlags]
          /\ \A w \in Vcpus : vc'[w].paused = vc[w].paused /\ vc'[w].pauses = vc[w].pauses
      BY <3>1, <3>2, ClearFacts DEF VcpuFlags
    <3> QED BY <2>2, <3>3, Zenon DEF StartDeferral, EndDeferral, VcpuFlags
  <2> QED BY <2>1, <2>2 DEF Schedule, Deschedule, LookAfterStart, Return, Send, LookAfterEnd
<1>2. DomainInv' /\ OnePause' /\ TimeStopped' /\ Finalised'
  BY <1>1 DEF DomainInv, OnePause, TimeStopped, Finalised
<1>3. ASSUME d.code # "crash", NEW w \in Vcpus PROVE VcpuInv(w)'
  <2>1. VcpuInv(w)
    BY <1>3
  <2>2. vc[w].paused => d.shuttingDown
    BY DEF DomainInv
  <2>3. CASE Schedule(v) \/ Deschedule(v)
    BY <2>1, <2>3, ZenonT(60) DEF VcpuInv, Schedule, Deschedule
  <2>4. CASE StartDeferral(v)
    BY <2>1, <2>4, ZenonT(60) DEF VcpuInv, StartDeferral
  <2>5. CASE LookAfterStart(v)
    BY <2>1, <2>2, <2>5 DEF VcpuInv, LookAfterStart
  <2>6. CASE Return(v) \/ Send(v)
    BY <2>1, <2>6, ZenonT(60) DEF VcpuInv, Return, Send
  <2>7. CASE EndDeferral(v)
    <3>1. vc'[v].defer = FALSE /\ vc'[v].paused = vc[v].paused /\ pc'[v] = "ended" /\ ~inflight'[v]
      BY <1>1, <2>7 DEF EndDeferral
    <3>2. v # w => vc'[w] = vc[w] /\ pc'[w] = pc[w] /\ inflight'[w] = inflight[w]
      BY <2>7, Zenon DEF EndDeferral
    <3> QED BY <2>1, <3>1, <3>2 DEF VcpuInv
  <2>8. CASE LookAfterEnd(v)
    BY <2>1, <2>8 DEF VcpuInv, LookAfterEnd
  <2> QED BY <2>3, <2>4, <2>5, <2>6, <2>7, <2>8
<1> QED BY <1>1, <1>2, <1>3

\* A vcpu that has seen the shutdown pauses itself, and the last one completes it.
LEMMA CheckKeeps ==
    ASSUME ShutdownInv, NEW v \in Vcpus, CheckShutdown(v) PROVE ShutdownInv'
<1> USE DEF ShutdownInv, TypeOK, CheckShutdown
<1>1. /\ lock = None /\ UNCHANGED <<inflight, lock, todo>>
      /\ pc[v] \in {"startLock", "endLock"}
      /\ pc'[v] \in {"return", "run"} /\ \A w \in Vcpus \ {v} : pc'[w] = pc[w]
      /\ pc' \in [Vcpus -> {"out", "run", "started", "return", "send", "ended",
                            "startLock", "endLock"}]
  BY DEF At
<1>2. CASE ~d.shuttingDown
  <2>1. UNCHANGED <<d, vc>> /\ ~vc[v].paused
    BY <1>2 DEF DomainInv
  <2>2. TypeOK' /\ DomainInv' /\ OnePause' /\ TimeStopped' /\ Finalised'
    BY <1>1, <2>1 DEF DomainInv, OnePause, TimeStopped, Finalised
  <2>3. ASSUME d.code # "crash", NEW w \in Vcpus PROVE VcpuInv(w)'
    BY <1>1, <2>1, <2>3 DEF VcpuInv
  <2> QED BY <2>1, <2>2, <2>3
<1>3. CASE d.shuttingDown
  <2>1. /\ vc' \in [Vcpus -> VcpuFlags]
        /\ vc'[v].paused /\ vc'[v].pauses = 1 /\ ~vc'[v].defer
        /\ \A w \in Vcpus \ {v} : vc'[w] = vc[w]
        /\ d' = Finalise(vc')
    <3> DEFINE p == IF vc[v].paused THEN vc[v] ELSE PausedForShutdown(vc[v])
    <3>1. vc[v] \in VcpuFlags /\ vc[v].pauses = IF vc[v].paused THEN 1 ELSE 0
      BY DEF VcpuFlags, OnePause
    <3>2. p \in VcpuFlags /\ p.paused /\ p.pauses = 1
      <4>1. CASE vc[v].paused
        BY <3>1, <4>1
      <4>2. CASE ~vc[v].paused
        <5>1. p = PausedForShutdown(vc[v]) /\ vc[v].pauses = 0
          BY <3>1, <4>2
        <5>2. /\ PausedForShutdown(vc[v]) \in VcpuFlags
              /\ PausedForShutdown(vc[v]).paused
              /\ PausedForShutdown(vc[v]).pauses = vc[v].pauses + 1
          BY <3>1, PausedFacts
        <5> HIDE DEF p, ShutdownInv, TypeOK, CheckShutdown
        <5> QED BY <5>1, <5>2
      <4> QED BY <4>1, <4>2
    <3>3. vc' = [vc EXCEPT ![v] = [p EXCEPT !.defer = FALSE]] /\ d' = Finalise(vc')
      BY <1>3, Zenon
    <3> HIDE DEF p
    <3>4. /\ [p EXCEPT !.defer = FALSE] \in VcpuFlags
          /\ [p EXCEPT !.defer = FALSE].paused /\ [p EXCEPT !.defer = FALSE].pauses = 1
          /\ ~[p EXCEPT !.defer = FALSE].defer
      BY <3>2, ClearFacts, Zenon
    <3> QED BY <3>3, <3>4 DEF VcpuFlags
  <2>2. /\ d' \in [code : Reasons \cup {"none"}, shuttingDown : BOOLEAN,
                    shutDown : BOOLEAN, timePauses : Nat]
        /\ d'.code = d.code /\ d'.shuttingDown = d.shuttingDown
        /\ d'.timePauses = IF d'.shutDown THEN 1 ELSE 0
        /\ d'.shutDown <=> d.shutDown \/ \A w \in Vcpus : vc'[w].paused
    BY <2>1, FinaliseFacts
  <2>3. TypeOK'
    BY <1>1, <2>1, <2>2 DEF VcpuFlags
  <2>4. OnePause'
    BY <2>1 DEF OnePause
  <2>5. TimeStopped' /\ Finalised'
    BY <2>2 DEF TimeStopped, Finalised
  <2>6. DomainInv'
    BY <1>1, <1>3, <2>1, <2>2, <2>3 DEF DomainInv
  <2>7. ASSUME d.code # "crash", NEW w \in Vcpus PROVE VcpuInv(w)'
    BY <1>1, <2>1, <2>7, ZenonT(60) DEF VcpuInv
  <2> QED BY <2>2, <2>3, <2>4, <2>5, <2>6, <2>7
<1> QED BY <1>2, <1>3

LEMMA ShutdownInvNext == ShutdownInv /\ [Next]_vars => ShutdownInv'
<1> SUFFICES ASSUME ShutdownInv, [Next]_vars PROVE ShutdownInv'
  OBVIOUS
<1>1. CASE UNCHANGED vars
  BY <1>1 DEF vars, ShutdownInv, TypeOK, DomainInv, OnePause, TimeStopped, Finalised, VcpuInv
<1>2. CASE Next
  BY <1>2, ShutdownKeeps, VisitKeeps, EndsKeeps, ResumeKeeps, OwnStepKeeps, CheckKeeps
  DEF Next, Finishes
<1> QED BY <1>1, <1>2

LEMMA ShutdownInvAlways == Spec => []ShutdownInv
BY ShutdownInvInit, ShutdownInvNext, PTL DEF Spec

\* However many vcpus start and end requests while domain_shutdown runs, no request
\* is with the device model when the domain counts as shut down (but by a crash).
THEOREM ShutDownIsQuiet == Spec => []NothingInFlight
<1>1. ShutdownInv => NothingInFlight
  BY Zenon DEF ShutdownInv, DomainInv, VcpuInv, NothingInFlight
<1> QED BY <1>1, ShutdownInvAlways, PTL

\* The shutdown pauses a vcpu and guest time once, whichever of the paths of
\* domain_shutdown and vcpu_check_shutdown gets to it.
THEOREM PausesOnce == Spec => []PausedOnce
<1>1. ShutdownInv => PausedOnce
  BY DEF ShutdownInv, PausedOnce
<1> QED BY <1>1, ShutdownInvAlways, PTL

\* Some vcpu or domain_shutdown itself always notices that the last pause is there.
THEOREM ShutdownIsFinalised == Spec => []Finalised
<1>1. ShutdownInv => Finalised
  BY DEF ShutdownInv
<1> QED BY <1>1, ShutdownInvAlways, PTL

=============================================================================
