--------------------------- MODULE V4VRingObjects ---------------------------
(***************************************************************************)
(* The ring objects of the Windows driver (windows/uxenv4vlib: gh_ring.c,  *)
(* gh_hypercall.c, the bind in gh_ioctl.c, export.c, ring.c, resume.c):    *)
(* how several files bound to one ring id, or to it one after the other,   *)
(* share the single ring the hypervisor has under that id.                 *)
(*                                                                         *)
(* The driver's list of rings is under ring_lock, but registering happens  *)
(* before a ring is put on the list, and unregistering after it was taken  *)
(* off, without the lock.                                                  *)
(***************************************************************************)
CONSTANTS Objects,   \* the ring objects that ask for the id
          Workers,   \* other threads: interrupts, sends, loading the platform device
          MayFail,   \* the hypervisor may refuse a registration
          None,      \* no ring under the id, or a placeholder
          Broken     \* a ring whose pages a failed registration has dropped

ASSUME ValuesAssumption ==
  /\ None \notin Objects /\ Broken \notin Objects /\ None # Broken
  /\ Objects \cap Workers = {} /\ MayFail \in BOOLEAN

VARIABLES hyp,        \* the object whose memory the hypervisor writes to
          pc,         \* where the thread that made or drops the object is
          registered, \* robj->registered
          list,       \* pde->ring_list
          device,     \* the platform device: "none", with its state bar, with hypercalls
          running,    \* v4v_running of the state bar
          res,        \* where in check_resume each thread is
          todo        \* rings uxen_v4v_reregister_all_rings has yet to do

vars == <<hyp, pc, registered, list, device, running, res, todo>>
resume == <<running, res, todo>>
Threads == Objects \cup Workers

Init ==
  /\ hyp = None
  /\ pc = [o \in Objects |-> "none"]
  /\ registered = [o \in Objects |-> FALSE]
  /\ list = {} /\ todo = {}
  /\ device = "none" /\ running = FALSE
  /\ res = [t \in Threads |-> "rest"]

Goto(o, l) == pc' = [pc EXCEPT ![o] = l]
GotoRes(t, l) == res' = [res EXCEPT ![t] = l]
Registered(o, b) == registered' = [registered EXCEPT ![o] = b]

\* Nobody goes through the list under ring_lock.
RingLockFree == \A t \in Threads : res[t] # "locked"

\* hypercall_func is set
CanCall == device = "calls"
-----------------------------------------------------------------------------
(* gh_v4v_ctrl_bind, uxen_v4v_ring_bind *)

Allocate(o) ==
  /\ pc[o] = "none"
  /\ Goto(o, "register")
  /\ UNCHANGED <<hyp, registered, list, resume, device>>

\* gh_v4v_register_ring, the first try, with fail_exist.  -ENOSYS counts as a
\* success: the resume will register the ring.
Register(o) ==
  /\ pc[o] = "register"
  /\ \/ ~ CanCall /\ Goto(o, "link") /\ UNCHANGED <<hyp, registered>>
     \/ CanCall /\ hyp = None /\ hyp' = o /\ Registered(o, TRUE) /\ Goto(o, "link")
     \/ CanCall /\ hyp = None /\ MayFail /\ Goto(o, "free") /\ UNCHANGED <<hyp, registered>>
     \/ CanCall /\ hyp # None /\ Goto(o, "exists") /\ UNCHANGED <<hyp, registered>>
  /\ UNCHANGED <<list, resume, device>>

\* -EEXIST: the driver looks for the id on its list, here without the lock.
LookForId(o) ==
  /\ pc[o] = "exists"
  /\ Goto(o, IF list = {} THEN "force" ELSE "free")
  /\ UNCHANGED <<hyp, registered, list, resume, device>>

\* Nobody has it: the second try replaces what the hypervisor has.
RegisterForce(o) ==
  /\ pc[o] = "force"
  /\ \/ hyp' = o /\ Registered(o, TRUE) /\ Goto(o, "link")
     \/ /\ MayFail /\ hyp' = IF hyp = None THEN None ELSE Broken
        /\ Goto(o, "free") /\ UNCHANGED registered
  /\ UNCHANGED <<list, resume, device>>

\* Mutant: the object is bound and not put on the list.
LinkNot(o) ==
  /\ pc[o] = "link" /\ RingLockFree
  /\ Goto(o, "bound")
  /\ GotoRes(o, "test")
  /\ UNCHANGED <<hyp, registered, list, running, todo, device>>

\* gh_v4v_link_to_ring_list, under ring_lock; check_resume is next.
Link(o) ==
  /\ pc[o] = "link" /\ RingLockFree
  /\ list' = list \cup {o}
  /\ Goto(o, "bound")
  /\ GotoRes(o, "test")
  /\ UNCHANGED <<hyp, registered, running, todo, device>>
-----------------------------------------------------------------------------
(* gh_v4v_release_ring, once the bind has returned *)

\* Mutant: an object that was unlinked is taken to be unregistered too.
UnlinkOnly(o) ==
  /\ pc[o] = "bound" /\ res[o] = "rest" /\ RingLockFree
  /\ list' = list \ {o}
  /\ Goto(o, "free")
  /\ UNCHANGED <<hyp, registered, resume, device>>

Unlink(o) ==
  /\ pc[o] = "bound" /\ res[o] = "rest" /\ RingLockFree
  /\ list' = list \ {o}
  /\ Goto(o, IF registered[o] THEN "unregister" ELSE "free")
  /\ UNCHANGED <<hyp, registered, resume, device>>

\* The hypervisor finds the ring by its id.
Unregister(o) ==
  /\ pc[o] = "unregister"
  /\ hyp' = None
  /\ Goto(o, "free")
  /\ UNCHANGED <<registered, list, resume, device>>

Free(o) ==
  /\ pc[o] = "free"
  /\ Goto(o, "none") /\ Registered(o, FALSE)
  /\ UNCHANGED <<hyp, list, resume, device>>
-----------------------------------------------------------------------------
(* Loading the platform device, suspend and resume *)

\* uxen_v4vlib_set_state_bar_ptr
LoadBar ==
  /\ device = "none" /\ device' = "bar"
  /\ UNCHANGED <<hyp, pc, registered, list, resume>>

\* uxen_v4vlib_set_hypercall_func, which ends in check_resume.
LoadCalls(w) ==
  /\ device = "bar" /\ device' = "calls"
  /\ res[w] = "rest" /\ GotoRes(w, "test")
  /\ UNCHANGED <<hyp, pc, registered, list, running, todo>>

\* The domain is saved and restored: the hypervisor has no rings, and the
\* device model clears v4v_running.
Suspend ==
  /\ hyp' = None /\ running' = FALSE
  /\ UNCHANGED <<pc, registered, list, res, todo, device>>

\* A thread comes to a check_resume: an interrupt, a send.
Arrive(w) ==
  /\ res[w] = "rest" /\ GotoRes(w, "test")
  /\ UNCHANGED <<hyp, pc, registered, list, running, todo, device>>

\* check_resume reads v4v_running, which several threads may do at once;
TestRunning(t) ==
  /\ res[t] = "test"
  /\ GotoRes(t, IF device # "none" /\ ~ running THEN "resume" ELSE "rest")
  /\ UNCHANGED <<hyp, pc, registered, list, running, todo, device>>

\* uxen_v4v_resume sets it,
SetRunning(t) ==
  /\ res[t] = "resume"
  /\ running' = TRUE /\ GotoRes(t, "lock")
  /\ UNCHANGED <<hyp, pc, registered, list, todo, device>>

\* and takes ring_lock to go through the list.
LockRings(t) ==
  /\ res[t] = "lock" /\ RingLockFree
  /\ todo' = list /\ GotoRes(t, "locked")
  /\ UNCHANGED <<hyp, pc, registered, list, running, device>>

\* gh_v4v_register_ring for one ring of the list.  When the id is taken the
\* object stays as it is: registered, or not, since the list has the id.
Reregister(t, o) ==
  /\ res[t] = "locked" /\ o \in todo
  /\ todo' = todo \ {o}
  /\ \/ CanCall /\ hyp = None /\ hyp' = o /\ Registered(o, TRUE)
     \/ CanCall /\ hyp = None /\ MayFail /\ Registered(o, FALSE) /\ UNCHANGED hyp
     \/ ~ (CanCall /\ hyp = None) /\ UNCHANGED <<hyp, registered>>
  /\ UNCHANGED <<pc, list, running, res, device>>

UnlockRings(t) ==
  /\ res[t] = "locked" /\ todo = {}
  /\ GotoRes(t, "rest")
  /\ UNCHANGED <<hyp, pc, registered, list, running, todo, device>>

CheckResume(t) ==
  \/ TestRunning(t) \/ SetRunning(t) \/ LockRings(t) \/ UnlockRings(t)
  \/ \E o \in Objects : Reregister(t, o)

Next ==
  \/ \E o \in Objects :
       \/ Allocate(o) \/ Register(o) \/ LookForId(o) \/ RegisterForce(o) \/ Link(o)
       \/ Unlink(o) \/ Unregister(o) \/ Free(o)
  \/ \E w \in Workers : LoadCalls(w) \/ Arrive(w)
  \/ \E t \in Threads : CheckResume(t)
  \/ LoadBar \/ Suspend

Spec == Init /\ [][Next]_vars
-----------------------------------------------------------------------------
Pcs == {"none", "register", "exists", "force", "link", "bound", "unregister", "free"}
ResPcs == {"rest", "test", "resume", "lock", "locked"}

\* The list has the bound objects and no others: gh_v4v_link_to_ring_list and
\* the release keep it in step, one thread at a time goes through it, and a
\* resume registers only what is on it.
TypeOK ==
  /\ hyp \in Objects \cup {None, Broken}
  /\ pc \in [Objects -> Pcs] /\ registered \in [Objects -> BOOLEAN]
  /\ res \in [Threads -> ResPcs]
  /\ device \in {"none", "bar", "calls"} /\ running \in BOOLEAN
  /\ list = {o \in Objects : pc[o] = "bound"}
  /\ todo \subseteq list /\ (todo # {} => ~ RingLockFree)
  /\ \A t, u \in Threads : res[t] = "locked" /\ res[u] = "locked" => t = u

\* The hypervisor never has a ring whose memory the driver is freeing or has
\* freed (gh_v4v_release_ring frees what gh_v4v_unregister_ring has taken from
\* the hypervisor), however binds, releases and resumes overlap.
NoFreedRing ==
  hyp \in Objects => /\ registered[hyp]
                     /\ pc[hyp] \in {"link", "bound", "unregister"}

=============================================================================
