------------------------ MODULE V4VRingObjectsProofs ------------------------
(* For any number of ring objects, the hypervisor's ring is never freed. *)
EXTENDS V4VRingObjects, TLAPS

ObjectInv == TypeOK /\ NoFreedRing

LEMMA ObjectInit == Init => ObjectInv
BY ValuesAssumption, Zenon DEF Init, ObjectInv, TypeOK, NoFreedRing, Pcs, ResPcs, Threads, RingLockFree

\* One case per action; the list follows pc, and the ring of the hypervisor
\* follows the object that registered last.
LEMMA ObjectStep == ObjectInv /\ [Next]_vars => ObjectInv'
<1> SUFFICES ASSUME ObjectInv, [Next]_vars PROVE ObjectInv'
  OBVIOUS
<1> USE ValuesAssumption DEF ObjectInv, TypeOK, NoFreedRing, Pcs, ResPcs, Threads,
        RingLockFree, CanCall, resume, Goto, GotoRes, Registered
<1>1. ASSUME NEW o \in Objects, Allocate(o) PROVE ObjectInv'
  BY <1>1 DEF Allocate
<1>2. ASSUME NEW o \in Objects, Register(o) PROVE ObjectInv'
  BY <1>2, ZenonT(60) DEF Register
<1>3. ASSUME NEW o \in Objects, LookForId(o) PROVE ObjectInv'
  BY <1>3 DEF LookForId
<1>4. ASSUME NEW o \in Objects, RegisterForce(o) PROVE ObjectInv'
  BY <1>4, ZenonT(60) DEF RegisterForce
<1>5. ASSUME NEW o \in Objects, Link(o) PROVE ObjectInv'
  BY <1>5 DEF Link
<1>6. ASSUME NEW o \in Objects, Unlink(o) PROVE ObjectInv'
  BY <1>6 DEF Unlink
<1>7. ASSUME NEW o \in Objects, Unregister(o) PROVE ObjectInv'
  BY <1>7 DEF Unregister
<1>8. ASSUME NEW o \in Objects, Free(o) PROVE ObjectInv'
  BY <1>8 DEF Free
<1>9. ASSUME NEW t \in Threads, NEW o \in Objects, Reregister(t, o) PROVE ObjectInv'
  BY <1>9, ZenonT(60) DEF Reregister
<1>10. ASSUME NEW t \in Threads, TestRunning(t) \/ SetRunning(t) PROVE ObjectInv'
  <2>1. PICK l \in {"resume", "rest", "lock"} :
          res[t] # "locked" /\ res' = [res EXCEPT ![t] = l]
    BY <1>10 DEF TestRunning, SetRunning
  <2>2. running' \in BOOLEAN /\ UNCHANGED <<hyp, pc, registered, list, todo, device>>
    BY <1>10, Zenon DEF TestRunning, SetRunning
  <2>3. \A u \in Threads : res'[u] = "locked" <=> res[u] = "locked"
    BY <2>1
  <2>4. QED
    BY <2>1, <2>2, <2>3
<1>11. ASSUME NEW t \in Threads, LockRings(t) PROVE ObjectInv'
  BY <1>11 DEF LockRings
<1>12. ASSUME NEW t \in Threads, UnlockRings(t) PROVE ObjectInv'
  BY <1>12 DEF UnlockRings
<1>13. ASSUME NEW w \in Workers, LoadCalls(w) \/ Arrive(w) PROVE ObjectInv'
  <2>1. CASE LoadCalls(w)
    BY <2>1 DEF LoadCalls
  <2>2. CASE Arrive(w)
    BY <2>2 DEF Arrive
  <2>3. QED
    BY <1>13, <2>1, <2>2
<1>14. CASE LoadBar \/ Suspend
  BY <1>14, Zenon DEF LoadBar, Suspend
<1>15. CASE UNCHANGED vars
  BY <1>15 DEF vars
<1>16. QED
  BY <1>1, <1>2, <1>3, <1>4, <1>5, <1>6, <1>7, <1>8, <1>9, <1>10, <1>11, <1>12, <1>13,
     <1>14, <1>15 DEF Next, CheckResume

\* The list of rings is in step with the bound objects (gh_v4v_release_ring and
\* gh_v4v_link_to_ring_list), for any number of objects.
THEOREM ListInStep == Spec => []TypeOK
<1>1. ObjectInv => TypeOK
  BY DEF ObjectInv
<1>2. QED
  BY <1>1, ObjectInit, ObjectStep, PTL DEF Spec

\* gh_v4v_release_ring never frees the memory of a ring the hypervisor still
\* has, for any number of objects and any overlap of binds, releases and
\* resumes.
THEOREM FreedRingsAreUnregistered == Spec => []NoFreedRing
<1>1. ObjectInv => NoFreedRing
  BY DEF ObjectInv
<1>2. QED
  BY <1>1, ObjectInit, ObjectStep, PTL DEF Spec
=============================================================================
