------------------------------ MODULE V4VLocks ------------------------------
(***************************************************************************)
(* The locks of v4v (xen/common/v4v.c, "locks"), lock by lock: the global  *)
(* v4v_lock L1, the lock L2 of the domain that owns a ring, the lock L3 of *)
(* the ring, and the domain_lock that do_v4v_op holds throughout a call.   *)
(*                                                                         *)
(* Callers are physical CPUs running hypercalls of their domains.  One     *)
(* domain, Owner, has rings, of which one id is followed: table is the     *)
(* v4v_ring_info that v4v_ring_find_info finds for it.  What is done under *)
(* a write lock is one step, since nobody else holds any part of that lock.*)
(***************************************************************************)
EXTENDS Naturals

CONSTANTS Callers,    \* CPUs
          Domain,     \* the domain each of them runs
          Owner,      \* the domain that owns the ring
          Infos,      \* addresses of v4v_ring_info structures
          None,       \* NULL, or a lock that is free
          Calls       \* the calls that are made

OwnerCalls == {"register", "unregister", "notify"}
OtherCalls == {"send", "ask", "create"}
WriterCalls == {"destroy", "init", "suspend"}

ASSUME LocksAssumption ==
  /\ None \notin Callers /\ None \notin Infos
  /\ Calls \subseteq OwnerCalls \cup OtherCalls \cup WriterCalls

Domains == {Domain[c] : c \in Callers} \cup {Owner}

VARIABLES v4v,      \* Owner's d->v4v is not NULL
          table,    \* what its hash table has for the id
          live,     \* the structures that are allocated
          domLock,  \* holder of each domain's domain_lock
          r1,       \* how often each caller holds R(L1)
          r2,       \* the callers that hold R(L2)
          l3,       \* the holder of each structure's lock
          call,     \* the call each caller is in
          pc,       \* and where in it
          info,     \* and its local ring_info
          lost      \* history: the structures ever freed with their lock held

vars == <<v4v, table, live, domLock, r1, r2, l3, call, pc, info, lost>>
rings == <<v4v, table, live, lost>>
locks == <<domLock, r1, r2, l3>>

Init ==
  /\ v4v = TRUE /\ table = None /\ live = {} /\ lost = {}
  /\ domLock = [d \in Domains |-> None]
  /\ r1 = [c \in Callers |-> 0] /\ r2 = {}
  /\ l3 = [i \in Infos |-> None]
  /\ call = [c \in Callers |-> "none"]
  /\ pc = [c \in Callers |-> "idle"]
  /\ info = [c \in Callers |-> None]

Goto(c, l) == pc' = [pc EXCEPT ![c] = l]

\* Mutant: a reader waits for a writer that waits.
MayReadFair(c) == \A w \in Callers : pc[w] # "writeL1"

\* _read_lock: a writer holds the lock only within one step, and a writer that
\* waits does not keep a reader out.
MayRead(c) == TRUE

\* _write_lock: until nobody has the lock.
MayWrite == \A c \in Callers : r1[c] = 0
-----------------------------------------------------------------------------
(* do_v4v_op *)

\* Mutant: calls of one domain are not serialised.
LockDomainNot(c) ==
  /\ pc[c] = "lockDomain"
  /\ Goto(c, "readL1")
  /\ UNCHANGED <<rings, locks, call, info>>

LockDomain(c) ==
  /\ pc[c] = "lockDomain" /\ domLock[Domain[c]] = None
  /\ domLock' = [domLock EXCEPT ![Domain[c]] = c]
  /\ Goto(c, "readL1")
  /\ UNCHANGED <<rings, r1, r2, l3, call, info>>

UnlockDomain(c) ==
  /\ pc[c] = "unlockDomain"
  /\ domLock' = [domLock EXCEPT ![Domain[c]] = None]
  /\ Goto(c, "idle")
  /\ call' = [call EXCEPT ![c] = "none"]
  /\ UNCHANGED <<rings, r1, r2, l3, info>>

Enter(c) ==
  /\ pc[c] = "idle"
  /\ \E o \in Calls :
       /\ o \in OwnerCalls <=> Domain[c] = Owner
       /\ call' = [call EXCEPT ![c] = o]
       /\ Goto(c, IF o \in WriterCalls THEN "writeL1" ELSE "lockDomain")
  /\ UNCHANGED <<rings, locks, info>>

\* Where a call goes with R(L1), when the owner has a d->v4v.
AfterL1(o) ==
  CASE o \in {"register", "unregister", "create"} -> "writeL2"
    [] o = "ask" -> "readL1Again"
    [] OTHER -> "readL2"

ReadL1(c) ==
  /\ pc[c] = "readL1" /\ MayRead(c)
  /\ r1' = [r1 EXCEPT ![c] = 1]
  /\ Goto(c, IF v4v THEN AfterL1(call[c]) ELSE "unlockL1")
  /\ UNCHANGED <<rings, domLock, r2, l3, call, info>>

\* v4v_fill_ring_datas, called by v4v_notify with R(L1)
ReadL1Again(c) ==
  /\ pc[c] = "readL1Again" /\ MayRead(c)
  /\ r1' = [r1 EXCEPT ![c] = 2]
  /\ Goto(c, "readL2")
  /\ UNCHANGED <<rings, domLock, r2, l3, call, info>>

UnlockL1(c) ==
  /\ pc[c] = "unlockL1"
  /\ r1' = [r1 EXCEPT ![c] = @ - 1]
  /\ Goto(c, IF r1[c] = 1 THEN "unlockDomain" ELSE "unlockL1")
  /\ UNCHANGED <<rings, domLock, r2, l3, call, info>>
-----------------------------------------------------------------------------
(* Under W(L2) *)

MayWriteL2(c) == pc[c] = "writeL2" /\ r2 = {}

\* A new structure on the table, with its lock taken.
NewInfo(c) ==
  /\ table = None
  /\ \E i \in Infos \ live :
       /\ table' = i /\ live' = live \cup {i}
       /\ l3' = [l3 EXCEPT ![i] = c]
       /\ info' = [info EXCEPT ![c] = i]
  /\ UNCHANGED <<v4v, lost>>

\* v4v_ring_add up to write_unlock.  A structure that exists is locked after it.
AddUnderL2(c) ==
  /\ MayWriteL2(c) /\ call[c] = "register"
  /\ \/ NewInfo(c) /\ Goto(c, "useL3")
     \/ /\ table # None /\ info' = [info EXCEPT ![c] = table] /\ Goto(c, "existing")
        /\ UNCHANGED <<rings, l3>>
     \/ table = None /\ Goto(c, "unlockL1") /\ UNCHANGED <<rings, l3, info>>
  /\ UNCHANGED <<domLock, r1, r2, call>>

\* fail_exist and a length: -EEXIST.
AddExisting(c) ==
  /\ pc[c] = "existing"
  /\ \/ Goto(c, "lockL3") /\ UNCHANGED info
     \/ Goto(c, "unlockL1") /\ info' = [info EXCEPT ![c] = None]
  /\ UNCHANGED <<rings, locks, call>>

\* v4v_ring_create: a structure that exists is left alone.
CreateUnderL2(c) ==
  /\ MayWriteL2(c) /\ call[c] = "create"
  /\ \/ NewInfo(c) /\ Goto(c, "useL3")
     \/ Goto(c, "unlockL1") /\ UNCHANGED <<rings, l3, info>>
  /\ UNCHANGED <<domLock, r1, r2, call>>

\* v4v_ring_remove, v4v_ring_remove_info
RemoveUnderL2(c) ==
  /\ MayWriteL2(c) /\ call[c] = "unregister"
  /\ live' = live \ {table} /\ table' = None
  /\ lost' = lost \cup {i \in Infos : i = table /\ l3[i] # None}
  /\ Goto(c, "unlockL1")
  /\ UNCHANGED <<v4v, locks, call, info>>
-----------------------------------------------------------------------------
(* Under R(L2) and L3 *)

\* v4v_ring_find_info_by_addr, or the rings in v4v_notify_check_pending.
ReadL2(c) ==
  /\ pc[c] = "readL2"
  /\ r2' = r2 \cup {c}
  /\ info' = [info EXCEPT ![c] = table]
  /\ Goto(c, IF table = None THEN "unlockL2" ELSE "lockL3")
  /\ UNCHANGED <<rings, domLock, r1, l3, call>>

LockL3(c) ==
  /\ pc[c] = "lockL3" /\ l3[info[c]] = None
  /\ l3' = [l3 EXCEPT ![info[c]] = c]
  /\ Goto(c, "useL3")
  /\ UNCHANGED <<rings, domLock, r1, r2, call, info>>

\* v4v_notify_ring takes the lock again in v4v_pending_find (how often is left
\* open).  v4v_ring_add goes on to v4v_notify_check_pending unless it failed.
UnlockL3(c) ==
  /\ pc[c] = "useL3"
  /\ l3' = [l3 EXCEPT ![info[c]] = None]
  /\ \/ c \in r2 /\ Goto(c, "unlockL2") /\ UNCHANGED info
     \/ c \in r2 /\ call[c] \in OwnerCalls /\ Goto(c, "lockL3") /\ UNCHANGED info
     \/ /\ c \notin r2 /\ info' = [info EXCEPT ![c] = None]
        /\ \/ Goto(c, "unlockL1")
           \/ call[c] = "register" /\ Goto(c, "readL2")
  /\ UNCHANGED <<rings, domLock, r1, r2, call>>

\* Mutant: a return that leaves R(L2) held.
UnlockL2Not(c) ==
  /\ pc[c] = "unlockL2"
  /\ info' = [info EXCEPT ![c] = None]
  /\ Goto(c, "unlockL1")
  /\ UNCHANGED <<rings, locks, call>>

UnlockL2(c) ==
  /\ pc[c] = "unlockL2"
  /\ r2' = r2 \ {c}
  /\ info' = [info EXCEPT ![c] = None]
  /\ Goto(c, "unlockL1")
  /\ UNCHANGED <<rings, domLock, r1, l3, call>>
-----------------------------------------------------------------------------
(* Under W(L1) *)

\* v4v_destroy, v4v_init, v4v_shutdown_for_suspend (which resets the rings and
\* keeps their structures)
WriteL1(c) ==
  /\ pc[c] = "writeL1" /\ MayWrite
  /\ \/ call[c] = "destroy" /\ v4v' = FALSE /\ table' = None /\ live' = live \ {table}
          /\ lost' = lost \cup {i \in Infos : i = table /\ l3[i] # None}
     \/ call[c] = "init" /\ v4v' = TRUE /\ UNCHANGED <<table, live, lost>>
     \/ call[c] = "suspend" /\ UNCHANGED rings
  /\ Goto(c, "idle")
  /\ call' = [call EXCEPT ![c] = "none"]
  /\ UNCHANGED <<locks, info>>

Step(c) ==
  \/ LockDomain(c) \/ UnlockDomain(c) \/ ReadL1(c) \/ ReadL1Again(c) \/ UnlockL1(c)
  \/ AddUnderL2(c) \/ AddExisting(c) \/ CreateUnderL2(c) \/ RemoveUnderL2(c)
  \/ ReadL2(c) \/ LockL3(c) \/ UnlockL3(c) \/ UnlockL2(c) \/ WriteL1(c)

Next == \E c \in Callers : Enter(c) \/ Step(c)

Spec == Init /\ [][Next]_vars
-----------------------------------------------------------------------------
Pcs == {"idle", "lockDomain", "unlockDomain", "readL1", "readL1Again", "unlockL1",
        "writeL2", "existing", "readL2", "lockL3", "useL3", "unlockL2", "writeL1"}

\* The places in a call with R(L1) and a d->v4v that was seen there.
InCall == {"readL1Again", "writeL2", "existing", "readL2", "lockL3", "useL3", "unlockL2"}

\* The places where ring_info is used after the lock it was found under may
\* have been let go.
Using == {"existing", "lockL3", "useL3"}

\* Where a call is that holds its domain's domain_lock.
Serialised == Pcs \ {"idle", "lockDomain", "writeL1"}

\* Who holds a lock is at a place of a call where it is held, and who is at such
\* a place holds it: no return path of do_v4v_op leaves a lock behind, none
\* releases a lock of somebody else, and who takes L3 has R(L2), but for
\* v4v_ring_add and v4v_ring_create.  The one exception is L3 of a structure
\* that was freed with the lock held (CreatedRingStays says when): allocated
\* again, it is unlocked by the v4v_ring_create that still has it.
TypeOK ==
  /\ v4v \in BOOLEAN /\ live \subseteq Infos /\ table \in live \cup {None}
  /\ domLock \in [Domains -> Callers \cup {None}]
  /\ r1 \in [Callers -> 0..2] /\ r2 \subseteq Callers
  /\ l3 \in [Infos -> Callers \cup {None}] /\ lost \subseteq Infos
  /\ call \in [Callers -> Calls \cup {"none"}] /\ pc \in [Callers -> Pcs]
  /\ info \in [Callers -> Infos \cup {None}]
  /\ \A c \in Callers, d \in Domains :
       domLock[d] = c <=> Domain[c] = d /\ pc[c] \in Serialised
  /\ \A c \in Callers : /\ pc[c] \in InCall \cup {"unlockL1"} <=> r1[c] > 0
                        /\ pc[c] = "unlockL2" => c \in r2
                        /\ c \in r2 => pc[c] \in {"lockL3", "useL3", "unlockL2"}
                        /\ pc[c] \in Using => info[c] # None
                        /\ pc[c] \in Using /\ c \notin r2 => call[c] \in {"register", "create"}
  /\ \A c \in Callers, i \in Infos :
       /\ l3[i] = c => pc[c] = "useL3" /\ info[c] = i
       /\ pc[c] = "useL3" /\ info[c] = i /\ i \notin lost => l3[i] = c

\* A caller uses d->v4v and a v4v_ring_info only while they are allocated, also
\* where v4v_ring_add has let L2 go before it takes L3: no unregister of the
\* same domain runs meanwhile, and a destroy waits for L1.
NoStaleRing ==
  \A c \in Callers : /\ pc[c] \in InCall => v4v
                     /\ pc[c] \in Using /\ call[c] # "create" => info[c] \in live

\* The same for v4v_ring_create, which goes on with L3 alone where the rule is
\* "To take L3 you must already have R(L2). W(L2) implies L3".
CreatedRingStays ==
  \A c \in Callers : pc[c] \in Using /\ call[c] = "create" => info[c] \in live

\* Callers that are in a call never all wait for one another, the reader that
\* takes L1 a second time in v4v_fill_ring_datas included.
NoDeadlock ==
  (\E c \in Callers : pc[c] # "idle") => \E c \in Callers : ENABLED Step(c)
=============================================================================
