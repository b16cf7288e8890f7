-------------------------- MODULE V4VLocksProofs ---------------------------
(* For any number of CPUs, domains and ring structures: what a call found   *)
(* under a lock is there for as long as the call uses it.                   *)
EXTENDS V4VLocks, TLAPS

\* Why ring_info is not stale: it is what the table has.  Those who have no
\* R(L2) to keep it there are registering it, and so exclude an unregister of
\* the same domain; only v4v_ring_create has neither.
LockInv ==
  /\ TypeOK /\ NoStaleRing
  /\ live = {table} \ {None}
  /\ \A c \in Callers :
       /\ call[c] \in OwnerCalls => Domain[c] = Owner
       /\ pc[c] \in Using /\ call[c] # "create" => info[c] = table
       /\ call[c] = "create" => /\ c \notin r2
                               /\ pc[c] \notin {"existing", "readL1Again", "readL2", "lockL3"}
       /\ pc[c] = "useL3" /\ info[c] \notin lost => info[c] \in live

LEMMA LockInit == Init => LockInv
BY LocksAssumption, SMTT(30)
   DEF Init, LockInv, TypeOK, NoStaleRing, Pcs, InCall, Using, Serialised, OwnerCalls

LEMMA LockStep == LockInv /\ [Next]_vars => LockInv'
<1> SUFFICES ASSUME LockInv, [Next]_vars PROVE LockInv'
  OBVIOUS
<1> USE LocksAssumption
    DEF LockInv, TypeOK, NoStaleRing, Pcs, InCall, Using, Serialised, OwnerCalls,
        OtherCalls, WriterCalls, rings, locks, Goto, Domains
<1>1. ASSUME NEW c \in Callers, Enter(c) PROVE LockInv'
  BY <1>1 DEF Enter
<1>2. ASSUME NEW c \in Callers, LockDomain(c) PROVE LockInv'
  BY <1>2 DEF LockDomain
<1>3. ASSUME NEW c \in Callers, UnlockDomain(c) PROVE LockInv'
  BY <1>3 DEF UnlockDomain
<1>4. ASSUME NEW c \in Callers, ReadL1(c) PROVE LockInv'
  BY <1>4 DEF ReadL1, AfterL1
<1>5. ASSUME NEW c \in Callers, ReadL1Again(c) PROVE LockInv'
  BY <1>5 DEF ReadL1Again
<1>6. ASSUME NEW c \in Callers, UnlockL1(c) PROVE LockInv'
  BY <1>6 DEF UnlockL1
<1>7. ASSUME NEW c \in Callers, AddUnderL2(c) PROVE LockInv'
  BY <1>7 DEF AddUnderL2, MayWriteL2, NewInfo
<1>8. ASSUME NEW c \in Callers, AddExisting(c) PROVE LockInv'
  BY <1>8 DEF AddExisting
<1>9. ASSUME NEW c \in Callers, CreateUnderL2(c) PROVE LockInv'
  BY <1>9 DEF CreateUnderL2, MayWriteL2, NewInfo
<1>10. ASSUME NEW c \in Callers, RemoveUnderL2(c) PROVE LockInv'
  BY <1>10 DEF RemoveUnderL2, MayWriteL2
<1>11. ASSUME NEW c \in Callers, ReadL2(c) PROVE LockInv'
  BY <1>11 DEF ReadL2
<1>12. ASSUME NEW c \in Callers, LockL3(c) PROVE LockInv'
  BY <1>12 DEF LockL3
<1>13. ASSUME NEW c \in Callers, UnlockL3(c) PROVE LockInv'
  BY <1>13, SMTT(30) DEF UnlockL3
<1>14. ASSUME NEW c \in Callers, UnlockL2(c) PROVE LockInv'
  BY <1>14, SMTT(30) DEF UnlockL2
<1>15. ASSUME NEW c \in Callers, WriteL1(c) PROVE LockInv'
  <2>1. \A k \in Callers : r1[k] = 0 /\ pc[k] \notin InCall
    BY <1>15 DEF WriteL1, MayWrite
  <2>2. \A k \in Callers : pc'[k] \notin InCall /\ pc'[k] \notin Using
    BY <2>1, <1>15 DEF WriteL1
  <2>3. /\ v4v' \in BOOLEAN /\ live' = {table'} \ {None} /\ table' \in {table, None}
        /\ lost' \subseteq Infos
        /\ pc' = [pc EXCEPT ![c] = "idle"] /\ call' = [call EXCEPT ![c] = "none"]
        /\ pc[c] = "writeL1" /\ UNCHANGED <<domLock, r1, r2, l3, info>>
    <3>1. /\ pc' = [pc EXCEPT ![c] = "idle"] /\ call' = [call EXCEPT ![c] = "none"]
          /\ pc[c] = "writeL1" /\ UNCHANGED <<domLock, r1, r2, l3, info>>
      BY <1>15, Zenon DEF WriteL1
    <3>2. \/ v4v' = FALSE /\ table' = None /\ live' = live \ {table}
             /\ lost' = lost \cup {i \in Infos : i = table /\ l3[i] # None}
          \/ v4v' = TRUE /\ UNCHANGED <<table, live, lost>>
          \/ UNCHANGED <<v4v, table, live, lost>>
      BY <1>15, Zenon DEF WriteL1
    <3>3. live' = {table'} \ {None} /\ table' \in {table, None} /\ lost' \subseteq Infos
      BY <3>2
    <3>4. v4v' \in BOOLEAN
      BY <3>2, Zenon
    <3>. QED BY <3>1, <3>3, <3>4
  <2>4. TypeOK'
    <3>1. \A i \in Infos : l3[i] = None
      BY <2>1
    <3>2. \A k \in Callers : /\ pc'[k] \in Serialised <=> pc[k] \in Serialised
                             /\ pc'[k] \in InCall \cup {"unlockL1"} <=> pc[k] \in InCall \cup {"unlockL1"}
                             /\ pc'[k] \in Pcs /\ pc'[k] \notin {"useL3", "unlockL2", "lockL3"}
                             /\ k \notin r2 /\ call'[k] \in Calls \cup {"none"}
      BY <2>1, <2>2, <2>3
    <3>3. /\ v4v' \in BOOLEAN /\ live' \subseteq Infos /\ table' \in live' \cup {None}
          /\ lost' \subseteq Infos /\ pc' \in [Callers -> Pcs]
          /\ call' \in [Callers -> Calls \cup {"none"}]
      BY <2>3
    <3>. QED BY <2>2, <2>3, <3>1, <3>2, <3>3
  <2>5. QED
    BY <2>2, <2>3, <2>4
<1>16. CASE UNCHANGED vars
  BY <1>16 DEF vars
<1>17. QED
  BY <1>1, <1>2, <1>3, <1>4, <1>5, <1>6, <1>7, <1>8, <1>9, <1>10, <1>11, <1>12,
     <1>13, <1>14, <1>15, <1>16 DEF Next, Step

\* No call of v4v but v4v_ring_create uses a v4v_ring_info that was freed, and
\* none a d->v4v.
THEOREM RingsStayWhileUsed == Spec => []NoStaleRing
<1>1. LockInv /\ [Next]_vars => LockInv'
  BY LockStep
<1>2. LockInv => NoStaleRing
  BY DEF LockInv
<1>3. QED
  BY <1>1, <1>2, LockInit, PTL DEF Spec

\* The locks each call holds are those of the place it is at, domain_lock and L3
\* included, so that every return path of do_v4v_op gives back what it took and
\* nothing else; L3 of a structure freed with its lock held is the exception.
THEOREM LocksFollowTheCall == Spec => []TypeOK
<1>1. LockInv /\ [Next]_vars => LockInv'
  BY LockStep
<1>2. LockInv => TypeOK
  BY DEF LockInv
<1>3. QED
  BY <1>1, <1>2, LockInit, PTL DEF Spec
=============================================================================
