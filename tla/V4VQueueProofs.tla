--------------------------- MODULE V4VQueueProofs ---------------------------
(***************************************************************************)
(* The queue of the Windows driver: no IRP is completed twice or in two    *)
(* places, the list of destinations and the references of the contexts    *)
(* stay in step, for any number of files, destinations, IRPs and threads.  *)
(***************************************************************************)
EXTENDS V4VQueue, WellFoundedInduction, TLAPS

USE Zenon DEF Threads, Irps
-----------------------------------------------------------------------------
(* Types *)

\* The entries of a list.
Elements(s) == {s[k] : k \in DOMAIN s}

Asks == [dst : Dests, len : Nat]
Answers == [dst : Dests, exists : BOOLEAN, sufficient : BOOLEAN]

InHand == {"send", "resend", "create"}
Writing == InHand \cup {"lock", "pop", "requeue"}
Reading == {"reads", "take", "clear", "set"}
Pcs == Writing \cup Reading \cup
       {"idle", "copy", "notify", "dests", "getall", "contexts", "release", "end"}

CallType ==
  [pc : Pcs, irp : Writes \cup {None}, file : Files \cup {None},
   ents : SUBSET (Asks \cup Answers), ent : Answers \cup {None},
   first : BOOLEAN, byFile : BOOLEAN, back : Seq(Writes), notify : BOOLEAN,
   sure : BOOLEAN, ctxs : SUBSET Files, todo : SUBSET Files, dying : SUBSET Files]

CtxType == [state : {"bound", "closed"}, refc : Nat, listed : BOOLEAN, freed : BOOLEAN,
            mapped : BOOLEAN]

DestType == [refc : Nat, chain : Seq(Writes), nextLength : Nat]

HvType == [ring : {"none", "placeholder", "up"}, size : Nat, q : Seq(Nat), room : Int,
           pend : Nat \cup {NoEntry}, owed : BOOLEAN]

\* The writes in the hands of a call by destination are for its entry.
Aimed(c) == \A w \in Writes : w = c.irp \/ w \in Elements(c.back) => DestOf[w] = c.ent.dst

\* What the call c of thread t has at each of its steps.
CallOk(t, c) ==
  /\ c.pc \in InHand => c.irp \in Writes /\ c.file = FileOf[c.irp]
  /\ c.pc = "lock" => IF c.byFile THEN c.irp = None
                      ELSE c.irp \in Writes /\ c.file = FileOf[c.irp]
  /\ c.pc \in InHand \cup {"lock", "pop"} /\ ~ c.byFile => c.back = <<>>
  /\ c.pc \notin InHand \cup {"lock"} => c.irp = None
  /\ c.pc \notin Writing => ~ c.byFile /\ c.back = <<>> /\ c.ent = None
  /\ c.byFile => c.file \in Files /\ c.ents = {} /\ c.ent = None
  /\ c.pc \in Writing /\ ~ c.byFile => c.ent \in Answers
  /\ ~ c.byFile => Aimed(c)
  /\ c.pc = "notify" => c.ents \subseteq Asks
  /\ c.pc \in Writing \cup {"dests"} => c.ents \subseteq Answers
  /\ c.pc \notin Writing \cup {"dests", "notify"} => c.ents = {}
  /\ c.pc \in Reading \cup {"release"} => c.file \in Files
  /\ c.pc \in {"getall", "contexts"} => t = Virq
  /\ c.pc = "release" => t # Virq
  /\ c.pc \in Reading /\ t = Virq => c.file \in c.ctxs
  /\ t # Virq \/ c.pc \notin Reading \cup {"contexts"} => c.ctxs = {}
  /\ c.todo \subseteq c.ctxs
  /\ c.pc # "end" => c.dying = {}

TypeInv ==
  /\ queue \in Seq(Irps)
  /\ dest \in [Dests -> DestType]
  /\ ctx \in [Files -> CtxType]
  /\ rlock \in [Files -> Threads \cup {None}]
  /\ inbox \in [Files -> Nat] /\ event \in [Files -> BOOLEAN] /\ virq \in BOOLEAN
  /\ hv \in [Dests -> HvType]
  /\ irp \in [Irps -> {"new", "busy", "ok", "failed", "cancelled"}]
  /\ sent \in [Writes -> Nat]
  /\ th \in [Threads -> CallType]
  /\ skipped \in BOOLEAN
  /\ unwatched \subseteq Writes

CallsOk == \A t \in Threads : CallOk(t, th[t])
-----------------------------------------------------------------------------
(* Where each IRP is *)

Distinct(s) == \A j, k \in 1 .. Len(s) : s[j] = s[k] => j = k

\* An IRP is on the queue, in one thread's hands or finished.
IrpInv ==
  /\ Distinct(queue)
  /\ \A t \in Threads : Distinct(th[t].back) /\ th[t].irp \notin Elements(th[t].back)
  /\ \A i \in Irps : irp[i] = "busy" <=> i \in Queued \/ \E t \in Threads : i \in Held(t)
  /\ \A t, u \in Threads : t # u => Held(t) \cap Held(u) = {}
  /\ \A t \in Threads : Held(t) \cap Queued = {}
  /\ \A w \in Writes : sent[w] = IF irp[w] = "ok" THEN 1 ELSE 0

\* The chain of a destination has its queued writes, each once.
DestInv ==
  \A d \in Dests :
    /\ Distinct(dest[d].chain)
    /\ Elements(dest[d].chain) = Queued \cap WritesTo(d)
    /\ dest[d].refc = Len(dest[d].chain)
    /\ dest[d].chain # <<>> => dest[d].nextLength = LenOf[dest[d].chain[1]]
-----------------------------------------------------------------------------
(* Contexts *)

CtxInv ==
  /\ ContextHeld
  /\ \A f \in Files : ctx[f].listed <=> ctx[f].state = "bound"
  /\ \A t \in Threads :
       /\ th[t].pc = "release" => ctx[th[t].file].state = "closed"
       /\ t # Virq /\ (th[t].byFile \/ th[t].pc \in Reading) => ctx[th[t].file].state = "bound"
       /\ \A f \in th[t].dying : ctx[f].refc = 0
  /\ \A t, u \in Callers : th[t].pc = "release" /\ th[u].pc = "release" /\ th[t].file = th[u].file
                             => t = u
  /\ \A f \in Files : ctx[f].freed => ctx[f].refc = 0
-----------------------------------------------------------------------------
(* Lists *)

\* Every non-empty set of naturals has a least element.
LEMMA LeastElement ==
  ASSUME NEW T, T \subseteq Nat, T # {}
  PROVE  \E x \in T : \A y \in T : x <= y
PROOF
  <1> DEFINE R == {ss \in Nat \X Nat : ss[1] < ss[2]}
  <1>1. \E x \in T : \A y \in T : ~ (<<y, x>> \in R)
    <2>1. IsWellFoundedOn(R, Nat)
      BY NatLessThanWellFounded DEF OpToRel
    <2> HIDE DEF R
    <2> QED
      BY <2>1, WFMin
  <1>2. \A x, y \in Nat : y < x => <<y, x>> \in R
    OBVIOUS
  <1> HIDE DEF R
  <1>3. PICK x \in T : \A y \in T : ~ (<<y, x>> \in R)
    BY <1>1
  <1>4. \A y \in T : ~ (y < x)
    BY <1>2, <1>3
  <1>5. \A y \in T : x <= y
    BY <1>4, SMT
  <1> QED
    BY <1>5

\* A list with an entry added at its end.
LEMMA AppendFacts ==
  ASSUME NEW S, NEW s \in Seq(S), NEW i \in S
  PROVE  /\ Append(s, i) \in Seq(S)
         /\ Elements(Append(s, i)) = Elements(s) \cup {i}
         /\ Distinct(s) /\ i \notin Elements(s) => Distinct(Append(s, i))
PROOF
  <1> DEFINE r == Append(s, i)
  <1>1. r \in Seq(S) /\ Len(r) = Len(s) + 1 /\ r[Len(s) + 1] = i
    BY SMT
  <1>2. \A j \in 1 .. Len(s) : r[j] = s[j]
    BY SMT
  <1> HIDE DEF r
  <1>3. Elements(r) = Elements(s) \cup {i}
    BY <1>1, <1>2, SMT DEF Elements
  <1>4. ASSUME Distinct(s), i \notin Elements(s) PROVE Distinct(r)
    BY <1>1, <1>2, <1>4, SMT DEF Distinct, Elements
  <1> QED
    BY <1>1, <1>3, <1>4 DEF r

\* gh_v4v_csq_peek_next_irp finds an IRP of the set if the queue has one.
LEMMA PeekFacts ==
  ASSUME queue \in Seq(Irps), NEW set
  PROVE  \/ Peek(set) = None /\ Queued \cap set = {}
         \/ Peek(set) \in Queued \cap set
PROOF
  <1> DEFINE hits == {k \in DOMAIN queue : queue[k] \in set}
  <1>1. CASE hits = {}
    BY <1>1 DEF Peek, Queued
  <1>2. CASE hits # {}
    <2>1. hits \subseteq Nat
      BY SMT
    <2>2. \E k \in hits : \A j \in hits : k <= j
      <3> HIDE DEF hits
      <3> QED
        BY <1>2, <2>1, LeastElement
    <2>3. PICK k \in hits : Peek(set) = queue[k]
      BY <1>2, <2>2 DEF Peek
    <2> QED
      BY <2>3 DEF Queued
  <1> QED
    BY <1>1, <1>2

\* The short lists.
LEMMA ElementsFacts ==
  Elements(<<>>) = {} /\ \A w : Elements(<<w>>) = {w}
BY SMT DEF Elements

\* A list without its first entry.
LEMMA TailIn ==
  ASSUME NEW S, NEW s \in Seq(S), s # <<>>
  PROVE  Tail(s) \in Seq(S) /\ Elements(Tail(s)) \subseteq Elements(s)
PROOF
  <1> DEFINE r == Tail(s)
  <1>1. r \in Seq(S) /\ Len(s) # 0 /\ Len(r) = Len(s) - 1
    BY SMT
  <1>2. \A j \in 1 .. (Len(s) - 1) : r[j] = s[j + 1]
    BY SMT
  <1> HIDE DEF r
  <1>3. Elements(r) \subseteq Elements(s)
    BY <1>1, <1>2, SMT DEF Elements
  <1> QED
    BY <1>1, <1>3 DEF r
-----------------------------------------------------------------------------
(* Calls *)

\* What the proofs use of the constants.
LEMMA Constants ==
  /\ None \notin Writes /\ None \notin Reads /\ None \notin Files /\ None \notin Threads
  /\ None \notin Answers
  /\ Virq \notin Callers /\ Writes \cap Reads = {}
  /\ \A w \in Writes : FileOf[w] \in Files /\ DestOf[w] \in Dests /\ LenOf[w] \in Nat \ {0}
  /\ \A r \in Reads : FileOf[r] \in Files
BY ConstantsAssumption DEF Answers

\* A call that has not begun.
LEMMA NoCallOk ==
  ASSUME NEW t \in Threads
  PROVE  NoCall \in CallType /\ CallOk(t, NoCall)
PROOF
  <1>1. NoCall \in CallType
    BY SMT DEF NoCall, CallType, Pcs, Writing, Reading, InHand
  <1>2. Aimed(NoCall)
    BY Constants, ElementsFacts DEF NoCall, Aimed
  <1>3. CallOk(t, NoCall)
    BY <1>2 DEF NoCall, CallOk, Pcs, Writing, Reading, InHand
  <1> QED
    BY <1>1, <1>3

\* What the invariants say of one call.
LEMMA GoesOn ==
  ASSUME TypeInv, CallsOk, NEW t \in Threads
  PROVE  th[t] \in CallType /\ CallOk(t, th[t])
BY DEF TypeInv, CallsOk

\* Of the call of u at most the certainty that its writes are watched changes.
Alike(u) ==
  /\ th'[u].pc = th[u].pc /\ th'[u].irp = th[u].irp /\ th'[u].file = th[u].file
  /\ th'[u].ents = th[u].ents /\ th'[u].ent = th[u].ent /\ th'[u].first = th[u].first
  /\ th'[u].byFile = th[u].byFile /\ th'[u].back = th[u].back /\ th'[u].notify = th[u].notify
  /\ th'[u].ctxs = th[u].ctxs /\ th'[u].todo = th[u].todo /\ th'[u].dying = th[u].dying
  /\ th'[u].sure => th[u].sure

\* Only thread t moves.
Moves(t) ==
  /\ th' \in [Threads -> CallType] /\ CallsOk'
  /\ \A u \in Threads \ {t} : Alike(u)

\* A step that only changes the call of t to the call c.
LEMMA CallMovesOn ==
  ASSUME TypeInv, CallsOk, NEW t \in Threads, NEW c \in CallType, CallOk(t, c),
         th' = [th EXCEPT ![t] = c]
  PROVE  Moves(t) /\ th'[t] = c
PROOF
  <1>1. th \in [Threads -> CallType]
    BY DEF TypeInv
  <1>2. th'[t] = c /\ \A u \in Threads \ {t} : th'[u] = th[u]
    BY <1>1
  <1>3. th' \in [Threads -> CallType]
    BY <1>1
  <1>4. CallsOk'
    BY <1>2 DEF CallsOk
  <1> QED
    BY <1>2, <1>3, <1>4 DEF Moves, Alike

\* The same, when the new call may be a notify: the others lose their certainty.
LEMMA NotifyBegins ==
  ASSUME TypeInv, CallsOk, NEW t \in Threads, NEW c \in CallType, CallOk(t, c),
         th' = BeginNotify(t, c)
  PROVE  Moves(t) /\ th'[t] = c
PROOF
  <1>1. th \in [Threads -> CallType]
    BY DEF TypeInv
  <1>2. th'[t] = c
    BY DEF BeginNotify
  <1>3. ASSUME NEW u \in Threads \ {t}
        PROVE  th'[u] \in CallType /\ CallOk(u, th'[u]) /\ Alike(u)
    <2>1. th'[u] = [th[u] EXCEPT !.sure = th[u].sure /\ ~ Notifying(u)]
      BY DEF BeginNotify
    <2>2. (th[u].sure /\ ~ Notifying(u)) \in BOOLEAN
      OBVIOUS
    <2>3. th'[u] \in CallType /\ Alike(u)
      BY <1>1, <2>1, <2>2 DEF CallType, Alike
    <2>4. CallOk(u, th[u])
      BY DEF CallsOk
    <2>5. CallOk(u, th'[u])
      BY <2>3, <2>4, SMT DEF CallOk, Aimed, Alike
    <2> QED
      BY <2>3, <2>5
  <1>4. th' \in [Threads -> CallType]
    BY <1>2, <1>3 DEF BeginNotify
  <1> QED
    BY <1>2, <1>3, <1>4 DEF Moves, CallsOk

\* A call c that takes the write w off the queue, or finds none.
Popping(c, w) ==
  /\ c \in CallType /\ c.irp = None /\ c.ents \subseteq Answers
  /\ c.ctxs = {} /\ c.todo = {} /\ c.dying = {}
  /\ c.byFile => c.file \in Files /\ c.ents = {} /\ c.ent = None /\ (w # None => FileOf[w] = c.file)
  /\ ~ c.byFile => c.back = <<>> /\ c.ent \in Answers /\ (w # None => DestOf[w] = c.ent.dst)

\* The fields of a call that has not begun.
LEMMA NoCallFields ==
  /\ NoCall.pc = "idle" /\ NoCall.irp = None /\ NoCall.file = None /\ NoCall.ents = {}
  /\ NoCall.ent = None /\ NoCall.first /\ ~ NoCall.byFile /\ NoCall.back = <<>>
  /\ ~ NoCall.notify /\ NoCall.sure /\ NoCall.ctxs = {} /\ NoCall.todo = {} /\ NoCall.dying = {}
  /\ NoCall \in CallType
PROOF
  <1>1. NoCall \in CallType
    BY Constants, NoCallOk DEF Threads
  <1> QED
    BY <1>1 DEF NoCall

\* Thread t returns.
LEMMA CallEnds ==
  ASSUME TypeInv, CallsOk, NEW t \in Threads, th' = [th EXCEPT ![t] = NoCall]
  PROVE  Moves(t) /\ th'[t] = NoCall
BY NoCallOk, CallMovesOn

\* The interrupt thread in its loop over the contexts.
LEMMA ContextsOk ==
  ASSUME NEW t \in Threads, NEW F \in SUBSET Files, NEW T \in SUBSET F, t = Virq
  PROVE  LET c == [NoCall EXCEPT !.pc = "contexts", !.ctxs = F, !.todo = T]
         IN  c \in CallType /\ CallOk(t, c)
PROOF
  <1> USE NoCallFields DEF Pcs, Writing, Reading, InHand
  <1> DEFINE c == [NoCall EXCEPT !.pc = "contexts", !.ctxs = F, !.todo = T]
  <1>1. c \in CallType
    BY DEF CallType
  <1>2. Aimed(c)
    BY Constants, ElementsFacts DEF Aimed, CallType
  <1>3. CallOk(t, c)
    BY <1>2 DEF CallOk, CallType
  <1> QED
    BY <1>1, <1>3

\* A read, or the close of a handle, begins.
LEMMA FileBegins ==
  ASSUME TypeInv, CallsOk, NEW t \in Threads, t # Virq, NEW f \in Files, NEW p \in {"reads", "release"},
         th' = [th EXCEPT ![t] = [NoCall EXCEPT !.pc = p, !.file = f]]
  PROVE  Moves(t) /\ th'[t] = [NoCall EXCEPT !.pc = p, !.file = f]
PROOF
  <1> DEFINE e == [NoCall EXCEPT !.pc = p, !.file = f]
  <1>1. e \in CallType /\ CallOk(t, e)
    <2> USE NoCallFields DEF Pcs, Writing, Reading, InHand
    <2> DEFINE c == [NoCall EXCEPT !.pc = p, !.file = f]
    <2>1. c \in CallType
      BY DEF CallType
    <2>2. Aimed(c)
      BY Constants, ElementsFacts, SMT DEF Aimed, CallType
    <2>3. CallOk(t, c)
      BY <2>2 DEF CallOk, CallType
    <2> QED
      BY <2>1, <2>3
  <1> HIDE DEF e
  <1>2. th' = [th EXCEPT ![t] = e]
    BY DEF e
  <1>3. Moves(t) /\ th'[t] = e
    BY <1>1, <1>2, CallMovesOn
  <1> QED
    BY <1>3 DEF e
-----------------------------------------------------------------------------
(* The queue and the destinations *)

\* The entry of a destination whose chain is as it should be.
GoodEntry(c) ==
  /\ Distinct(c.chain) /\ c.refc = Len(c.chain)
  /\ c.chain # <<>> => c.nextLength = LenOf[c.chain[1]]

Linked(c, w) ==
  IF c.refc = 0 THEN [refc |-> 1, chain |-> <<w>>, nextLength |-> LenOf[w]]
  ELSE [refc |-> c.refc + 1, chain |-> Append(c.chain, w), nextLength |-> c.nextLength]

Unlinked(c, w) ==
  IF c.refc = 1 THEN NoDest
  ELSE [refc |-> c.refc - 1, chain |-> Without(c.chain, w),
        nextLength |-> IF c.chain[1] = w THEN LenOf[Without(c.chain, w)[1]] ELSE c.nextLength]

\* The queue and the list of destinations, and what they say.
QueueInv == queue \in Seq(Irps) /\ Distinct(queue) /\ dest \in [Dests -> DestType] /\ DestInv

\* The IRPs in the queue are the entries of the list.
LEMMA QueueFacts ==
  /\ Queued = Elements(queue) /\ Queued' = Elements(queue')
  /\ queue \in Seq(Irps) => Queued \subseteq Irps
BY SMT DEF Queued, Elements

SameHand(u) == th'[u].irp = th[u].irp /\ th'[u].back = th[u].back

\* What a step does to the IRPs.
Quiet == (\A u \in Threads : SameHand(u)) /\ UNCHANGED <<csq, irp, sent>>

Takes(t, w) ==
  /\ w \in Queued \cap Writes /\ Remove(w) /\ UNCHANGED <<irp, sent>>
  /\ th[t].irp = None /\ th'[t].irp = w /\ th'[t].back = th[t].back
  /\ \A u \in Threads \ {t} : SameHand(u)

SetsAside(t) ==
  /\ th[t].irp \in Writes /\ th'[t].irp = None /\ th'[t].back = Append(th[t].back, th[t].irp)
  /\ UNCHANGED <<csq, irp, sent>>
  /\ \A u \in Threads \ {t} : SameHand(u)

Finishes(t) ==
  /\ th[t].irp \in Writes /\ th'[t].irp = None /\ th'[t].back = th[t].back
  /\ \/ sent' = [sent EXCEPT ![th[t].irp] = @ + 1] /\ irp' = [irp EXCEPT ![th[t].irp] = "ok"]
     \/ sent' = sent /\ irp' = [irp EXCEPT ![th[t].irp] = "failed"]
  /\ UNCHANGED csq
  /\ \A u \in Threads \ {t} : SameHand(u)

PutsBack(t) ==
  /\ th[t].irp = None /\ th'[t].irp = None
  /\ th[t].back # <<>> /\ th'[t].back = Tail(th[t].back)
  /\ Insert(Head(th[t].back)) \/ InsertFails(Head(th[t].back))
  /\ UNCHANGED sent
  /\ \A u \in Threads \ {t} : SameHand(u)

Ends(i) ==
  /\ i \in Queued /\ Remove(i) /\ UNCHANGED sent
  /\ \/ irp' = [irp EXCEPT ![i] = "cancelled"]
     \/ i \in Reads /\ irp' = [irp EXCEPT ![i] = "ok"]
  /\ \A u \in Threads : SameHand(u)

Issues(i) ==
  /\ irp[i] = "new" /\ ctx[FileOf[i]].state = "bound" /\ (Insert(i) \/ InsertFails(i))
  /\ UNCHANGED sent
  /\ \A u \in Threads : SameHand(u)

IrpTypes == irp \in [Irps -> {"new", "busy", "ok", "failed", "cancelled"}] /\ sent \in [Writes -> Nat]

Kept == QueueInv' /\ IrpInv' /\ IrpTypes'

\* What a step of thread t may do to the IRPs.
Effect(t) ==
  \/ Quiet \/ (\E w \in Writes : Takes(t, w)) \/ SetsAside(t) \/ Finishes(t) \/ PutsBack(t)
  \/ \E i \in Irps : Ends(i) \/ Issues(i)

\* Whatever a step does to the IRPs keeps the queue, the destinations and the
\* places of IRPs as they should be: gh_csq.c.
LEMMA EffectKeeps == TypeInv /\ IrpInv /\ DestInv => \A t \in Threads : Effect(t) => Kept
PROOF
  \* Taking an entry out of a list leaves the others in their order.
  <1>WithoutFacts. ASSUME NEW S, NEW s \in Seq(S), Distinct(s), NEW i \in Elements(s)
                   PROVE  /\ Without(s, i) \in Seq(S)
                          /\ Len(Without(s, i)) = Len(s) - 1
                          /\ Elements(Without(s, i)) = Elements(s) \ {i}
                          /\ Distinct(Without(s, i))
                          /\ s[1] # i => Without(s, i)[1] = s[1]
    <2> USE <1>WithoutFacts
    <2> DEFINE k == CHOOSE k \in DOMAIN s : s[k] = i
               a == SubSeq(s, 1, k - 1)
               b == SubSeq(s, k + 1, Len(s))
               r == a \o b
    <2>0. Len(s) \in Nat
      BY SMT
    <2>1. k \in 1 .. Len(s) /\ s[k] = i
      BY SMT DEF Elements
    <2> HIDE DEF k
    <2>2. a \in Seq(S) /\ Len(a) = k - 1 /\ \A j \in 1 .. (k - 1) : a[j] = s[j]
      BY <2>1, SMT
    <2>3. b \in Seq(S) /\ Len(b) = Len(s) - k /\ \A j \in 1 .. (Len(s) - k) : b[j] = s[k + j]
      BY <2>1, SMT
    <2> HIDE DEF a, b
    <2>4. r \in Seq(S) /\ Len(r) = Len(s) - 1
      <3>1. r \in Seq(S) /\ Len(r) = Len(a) + Len(b)
        BY <2>2, <2>3, SMT
      <3> QED
        BY <2>0, <2>1, <2>2, <2>3, <3>1, SMT
    <2>5. \A j \in 1 .. (Len(s) - 1) : r[j] = IF j < k THEN s[j] ELSE s[j + 1]
      <3> TAKE j \in 1 .. (Len(s) - 1)
      <3>1. CASE j < k
        BY <2>1, <2>2, <2>3, <3>1, SMT
      <3>2. CASE j >= k
        <4>1. r[j] = b[j - (k - 1)]
          BY <2>1, <2>2, <2>3, <3>2, SMT
        <4>2. j - (k - 1) \in 1 .. (Len(s) - k)
          BY <2>1, <3>2, SMT
        <4>3. b[j - (k - 1)] = s[k + (j - (k - 1))]
          BY <2>3, <4>2
        <4> QED
          BY <2>1, <3>2, <4>1, <4>3, SMT
      <3>3. j < k \/ j >= k
        BY <2>0, <2>1, SMT
      <3> QED
        BY <3>1, <3>2, <3>3
    <2>6. Without(s, i) = r
      BY DEF Without, r, a, b, k
    <2> HIDE DEF r
    <2>7. Distinct(r)
      BY <2>0, <2>1, <2>4, <2>5, SMT DEF Distinct
    <2>8. Elements(r) = Elements(s) \ {i}
      <3>1. ASSUME NEW x \in Elements(r) PROVE x \in Elements(s) \ {i}
        <4>1. PICK j \in 1 .. (Len(s) - 1) : r[j] = x
          BY <2>4, SMT DEF Elements
        <4>2. PICK m \in 1 .. Len(s) : s[m] = x /\ m # k
          BY <2>1, <2>5, <4>1, SMT
        <4> QED
          BY <2>1, <4>2, SMT DEF Distinct, Elements
      <3>2. ASSUME NEW x \in Elements(s) \ {i} PROVE x \in Elements(r)
        <4>1. PICK m \in 1 .. Len(s) : s[m] = x
          BY SMT DEF Elements
        <4>2. m # k
          BY <2>1, <4>1
        <4>3. CASE m < k
          BY <2>1, <2>4, <2>5, <4>1, <4>3, SMT DEF Elements
        <4>4. CASE m > k
          <5>1. m - 1 \in 1 .. (Len(s) - 1) /\ ~ (m - 1 < k)
            BY <2>1, <4>4, SMT
          <5>2. r[m - 1] = s[m - 1 + 1]
            BY <2>5, <5>1
          <5>3. m - 1 + 1 = m
            BY SMT
          <5> QED
            BY <2>4, <4>1, <5>1, <5>2, <5>3, SMT DEF Elements
        <4> QED
          BY <2>1, <4>2, <4>3, <4>4, SMT
      <3> QED
        BY <3>1, <3>2
    <2>9. s[1] # i => r[1] = s[1]
      BY <2>1, <2>5, SMT
    <2> QED
      BY <2>4, <2>6, <2>7, <2>8, <2>9
  \* A list with an entry put before it.
  <1>PushFacts. ASSUME NEW S, NEW s \in Seq(S), NEW i \in S
                PROVE  /\ <<i>> \o s \in Seq(S)
                       /\ Elements(<<i>> \o s) = Elements(s) \cup {i}
                       /\ Distinct(s) /\ i \notin Elements(s) => Distinct(<<i>> \o s)
    <2> USE <1>PushFacts
    <2> DEFINE r == <<i>> \o s
    <2>1. r \in Seq(S) /\ Len(r) = Len(s) + 1 /\ r[1] = i
      BY SMT
    <2>2. \A j \in 1 .. Len(s) : r[j + 1] = s[j]
      BY SMT
    <2>3. \A j \in 2 .. (Len(s) + 1) : r[j] = s[j - 1]
      BY SMT
    <2> HIDE DEF r
    <2>4. Elements(r) = Elements(s) \cup {i}
      <3>1. ASSUME NEW x \in Elements(r) PROVE x \in Elements(s) \cup {i}
        BY <2>1, <2>3, <3>1, SMT DEF Elements
      <3>2. ASSUME NEW x \in Elements(s) PROVE x \in Elements(r)
        <4>1. PICK j \in 1 .. Len(s) : s[j] = x
          BY <3>2, SMT DEF Elements
        <4>2. j + 1 \in 1 .. Len(r) /\ r[j + 1] = x
          BY <2>1, <2>2, <4>1, SMT
        <4> QED
          BY <2>1, <4>2, SMT DEF Elements
      <3>3. i \in Elements(r)
        BY <2>1, SMT DEF Elements
      <3> QED
        BY <3>1, <3>2, <3>3
    <2>5. ASSUME Distinct(s), i \notin Elements(s) PROVE Distinct(r)
      BY <2>1, <2>3, <2>5, SMTT(30) DEF Distinct, Elements
    <2> QED
      BY <2>1, <2>4, <2>5 DEF r
  \* A list of distinct entries without the first.
  <1>TailFacts. ASSUME NEW S, NEW s \in Seq(S), s # <<>>, Distinct(s)
                PROVE  /\ Head(s) \in Elements(s) /\ Tail(s) \in Seq(S)
                       /\ Elements(Tail(s)) = Elements(s) \ {Head(s)}
                       /\ Distinct(Tail(s))
    <2> USE <1>TailFacts
    <2> DEFINE r == Tail(s)
    <2>1. r \in Seq(S) /\ Len(s) # 0 /\ Len(r) = Len(s) - 1 /\ Head(s) = s[1]
      BY SMT
    <2>2. \A j \in 1 .. (Len(s) - 1) : r[j] = s[j + 1]
      BY SMT
    <2> HIDE DEF r
    <2>3. Elements(r) = Elements(s) \ {Head(s)}
      <3>1. ASSUME NEW x \in Elements(r) PROVE x \in Elements(s) \ {Head(s)}
        <4>1. PICK j \in 1 .. (Len(s) - 1) : r[j] = x
          BY <2>1, SMT DEF Elements
        <4>2. s[j + 1] = x /\ j + 1 \in 1 .. Len(s) /\ j + 1 # 1
          BY <2>2, <4>1, SMT
        <4> QED
          BY <2>1, <4>2, SMT DEF Distinct, Elements
      <3>2. ASSUME NEW x \in Elements(s) \ {Head(s)} PROVE x \in Elements(r)
        <4>1. PICK j \in 1 .. Len(s) : s[j] = x /\ j # 1
          BY <2>1, SMT DEF Elements
        <4>2. j - 1 \in 1 .. (Len(s) - 1) /\ r[j - 1] = s[j - 1 + 1] /\ j - 1 + 1 = j
          BY <2>2, <4>1, SMT
        <4> QED
          BY <2>1, <4>1, <4>2, SMT DEF Elements
      <3> QED
        BY <3>1, <3>2
    <2>4. Distinct(r)
      BY <2>1, <2>2, SMT DEF Distinct
    <2> QED
      BY <2>1, <2>3, <2>4, SMT DEF r, Elements
  \* The first entry.
  <1>ListEnds. ASSUME NEW S, NEW s \in Seq(S)
               PROVE  /\ Len(s) = 0 => s = <<>>
                      /\ Len(s) # 0 => s[1] \in S
    BY <1>ListEnds, SMT
  \* gh_v4v_csq_link_destination keeps an entry good.
  <1>LinkedFacts. ASSUME NEW c \in DestType, GoodEntry(c), NEW w \in Writes, w \notin Elements(c.chain)
                  PROVE  /\ Linked(c, w) \in DestType /\ GoodEntry(Linked(c, w))
                         /\ Elements(Linked(c, w).chain) = Elements(c.chain) \cup {w}
    <2> USE <1>LinkedFacts
    <2>0. c.chain \in Seq(Writes) /\ c.refc \in Nat /\ c.nextLength \in Nat /\ LenOf[w] \in Nat
      BY Constants DEF DestType
    <2>1. CASE c.refc = 0
      <3>1. Elements(c.chain) = {}
        BY <2>0, <2>1, <1>ListEnds, ElementsFacts DEF GoodEntry
      <3>2. Linked(c, w) = [refc |-> 1, chain |-> <<w>>, nextLength |-> LenOf[w]]
        BY <2>1 DEF Linked
      <3>3. <<w>> \in Seq(Writes) /\ Len(<<w>>) = 1 /\ <<w>>[1] = w /\ Elements(<<w>>) = {w}
        BY ElementsFacts, SMT
      <3>4. Distinct(<<w>>)
        BY <3>3, SMT DEF Distinct
      <3> QED
        BY <2>0, <3>1, <3>2, <3>3, <3>4, SMT DEF GoodEntry, DestType
    <2>2. CASE c.refc # 0
      <3> DEFINE b == Append(c.chain, w)
      <3>1. b \in Seq(Writes) /\ Len(b) = Len(c.chain) + 1 /\ b[1] = c.chain[1] /\ c.chain # <<>>
        BY <2>0, <2>2, SMT DEF GoodEntry
      <3>2. Distinct(b) /\ Elements(b) = Elements(c.chain) \cup {w}
        BY <2>0, AppendFacts, SMT DEF GoodEntry
      <3>3. Linked(c, w) = [refc |-> c.refc + 1, chain |-> b, nextLength |-> c.nextLength]
        BY <2>2 DEF Linked
      <3> HIDE DEF b
      <3>4. /\ Linked(c, w).refc = c.refc + 1 /\ Linked(c, w).chain = b
            /\ Linked(c, w).nextLength = c.nextLength
        BY <3>3, SMT DEF DestType
      <3>5. Linked(c, w) \in DestType
        BY <2>0, <3>1, <3>3, SMT DEF DestType
      <3> QED
        <4>1. c.refc = Len(c.chain) /\ c.nextLength = LenOf[c.chain[1]]
          BY <3>1 DEF GoodEntry
        <4> HIDE DEF Linked
        <4>2. Linked(c, w).refc = Len(b) /\ Linked(c, w).nextLength = LenOf[b[1]]
          BY <3>1, <3>4, <4>1
        <4>3. GoodEntry(Linked(c, w))
          BY <3>2, <3>4, <4>2 DEF GoodEntry
        <4> QED
          BY <3>2, <3>4, <3>5, <4>3
    <2> QED
      BY <2>1, <2>2
  \* So does gh_v4v_csq_unlink_destination.
  <1>UnlinkedFacts. ASSUME NEW c \in DestType, GoodEntry(c), NEW w \in Writes, w \in Elements(c.chain)
                    PROVE  /\ Unlinked(c, w) \in DestType /\ GoodEntry(Unlinked(c, w))
                           /\ Elements(Unlinked(c, w).chain) = Elements(c.chain) \ {w}
    <2> USE <1>UnlinkedFacts
    <2>0. c.chain \in Seq(Writes) /\ c.refc \in Nat /\ c.nextLength \in Nat /\ Len(c.chain) \in Nat
      BY SMT DEF DestType
    <2>d. Distinct(c.chain) /\ c.refc = Len(c.chain)
          /\ (c.chain # <<>> => c.nextLength = LenOf[c.chain[1]])
      BY DEF GoodEntry
    <2> DEFINE b == Without(c.chain, w)
    <2>b. /\ b \in Seq(Writes) /\ Len(b) = Len(c.chain) - 1 /\ Distinct(b)
          /\ Elements(b) = Elements(c.chain) \ {w} /\ (c.chain[1] # w => b[1] = c.chain[1])
      BY <2>0, <2>d, <1>WithoutFacts, SMT
    <2>e. Unlinked(c, w) = IF c.refc = 1 THEN NoDest
                           ELSE [refc |-> c.refc - 1, chain |-> b,
                                 nextLength |-> IF c.chain[1] = w THEN LenOf[b[1]] ELSE c.nextLength]
      BY DEF Unlinked
    <2> HIDE DEF b
    <2>1. CASE c.refc = 1
      <3>1. Elements(b) = {}
        BY <2>0, <2>d, <2>b, <2>1, SMT DEF Elements
      <3>2. NoDest.refc = 0 /\ NoDest.chain = <<>> /\ NoDest \in DestType
        BY SMT DEF NoDest, DestType
      <3>3. Elements(NoDest.chain) = {} /\ Distinct(NoDest.chain) /\ Len(NoDest.chain) = 0
        BY <3>2, ElementsFacts, SMT DEF Distinct
      <3> QED
        BY <2>b, <2>e, <2>1, <3>1, <3>2, <3>3 DEF GoodEntry
    <2>2. CASE c.refc # 1
      <3>1. c.chain # <<>>
        BY ElementsFacts
      <3>2. Len(b) # 0 /\ Len(b) \in Nat /\ c.refc - 1 = Len(b)
        BY <2>0, <2>d, <2>b, <2>2, <3>1, SMT
      <3>3. b[1] \in Writes
        BY <2>b, <3>2, <1>ListEnds
      <3>4. LenOf[b[1]] \in Nat
        BY <3>3, Constants
      <3>5. (IF c.chain[1] = w THEN LenOf[b[1]] ELSE c.nextLength) = LenOf[b[1]]
        BY <2>d, <2>b, <3>1
      <3>6. Unlinked(c, w) = [refc |-> Len(b), chain |-> b, nextLength |-> LenOf[b[1]]]
        BY <2>e, <2>2, <3>2, <3>5
      <3> QED
        BY <2>b, <3>2, <3>4, <3>6, SMT DEF GoodEntry, DestType
    <2> QED
      BY <2>1, <2>2
  \* All entries are good.
  <1>DestInvEntries. DestInv <=> \A d \in Dests : GoodEntry(dest[d]) /\ Elements(dest[d].chain) = Queued \cap WritesTo(d)
    BY DEF DestInv, GoodEntry
  \* gh_v4v_csq_insert_irp_ex of an IRP that is not in the queue.
  <1>InsertKeeps. ASSUME QueueInv, NEW i \in Irps, i \notin Queued,
                         queue' = <<i>> \o queue, dest' = IF i \in Writes THEN Link(i) ELSE dest
                  PROVE  QueueInv' /\ Queued' = Queued \cup {i}
    <2> USE <1>InsertKeeps
    <2>0. queue \in Seq(Irps) /\ Distinct(queue) /\ dest \in [Dests -> DestType]
      BY DEF QueueInv
    <2>1. queue' \in Seq(Irps) /\ Distinct(queue') /\ Elements(queue') = Elements(queue) \cup {i}
      BY <2>0, QueueFacts, <1>PushFacts, SMT
    <2>2. Queued' = Queued \cup {i}
      BY <2>1, QueueFacts
    <2>3. \A d \in Dests : GoodEntry(dest[d]) /\ Elements(dest[d].chain) = Queued \cap WritesTo(d)
      BY <1>DestInvEntries DEF QueueInv
    <2>4. /\ dest' \in [Dests -> DestType]
          /\ \A d \in Dests : GoodEntry(dest'[d]) /\ Elements(dest'[d].chain) = Queued' \cap WritesTo(d)
      <3>1. CASE i \in Writes
        <4>1. DestOf[i] \in Dests
          BY <3>1, Constants
        <4>2. dest' = [dest EXCEPT ![DestOf[i]] = Linked(dest[DestOf[i]], i)]
          BY <3>1 DEF Link, Linked
        <4>3. dest[DestOf[i]] \in DestType /\ GoodEntry(dest[DestOf[i]]) /\ i \notin Elements(dest[DestOf[i]].chain)
          BY <2>0, <2>3, <4>1
        <4>4. /\ Linked(dest[DestOf[i]], i) \in DestType /\ GoodEntry(Linked(dest[DestOf[i]], i))
              /\ Elements(Linked(dest[DestOf[i]], i).chain) = Elements(dest[DestOf[i]].chain) \cup {i}
          BY <3>1, <4>3, <1>LinkedFacts
        <4>5. dest'[DestOf[i]] = Linked(dest[DestOf[i]], i) /\ \A d \in Dests \ {DestOf[i]} : dest'[d] = dest[d]
          BY <2>0, <4>1, <4>2
        <4>6. dest' \in [Dests -> DestType]
          BY <2>0, <4>2, <4>4
        <4>7. \A d \in Dests : i \in WritesTo(d) <=> d = DestOf[i]
          BY <3>1 DEF WritesTo
        <4> QED
          BY <2>2, <2>3, <4>1, <4>4, <4>5, <4>6, <4>7, ZenonT(40)
      <3>2. CASE i \notin Writes
        BY <2>0, <2>2, <2>3, <3>2 DEF WritesTo
      <3> QED
        BY <3>1, <3>2
    <2>5. DestInv'
      BY <2>4 DEF DestInv, GoodEntry
    <2> QED
      BY <2>1, <2>2, <2>4, <2>5 DEF QueueInv
  \* gh_v4v_csq_remove_irp of an IRP in the queue.
  <1>RemoveKeeps. ASSUME QueueInv, NEW i \in Queued, Remove(i)
                  PROVE  QueueInv' /\ Queued' = Queued \ {i}
    <2> USE <1>RemoveKeeps
    <2>0. queue \in Seq(Irps) /\ Distinct(queue) /\ dest \in [Dests -> DestType]
      BY DEF QueueInv
    <2>i. i \in Irps /\ i \in Elements(queue)
      BY <2>0, QueueFacts
    <2>1. queue' \in Seq(Irps) /\ Distinct(queue') /\ Elements(queue') = Elements(queue) \ {i}
      BY <2>0, <2>i, <1>WithoutFacts DEF Remove
    <2>2. Queued' = Queued \ {i}
      BY <2>1, QueueFacts
    <2>3. \A d \in Dests : GoodEntry(dest[d]) /\ Elements(dest[d].chain) = Queued \cap WritesTo(d)
      BY <1>DestInvEntries DEF QueueInv
    <2>4. /\ dest' \in [Dests -> DestType]
          /\ \A d \in Dests : GoodEntry(dest'[d]) /\ Elements(dest'[d].chain) = Queued' \cap WritesTo(d)
      <3>1. CASE i \in Writes
        <4>1. DestOf[i] \in Dests
          BY <3>1, Constants
        <4>2. dest' = [dest EXCEPT ![DestOf[i]] = Unlinked(dest[DestOf[i]], i)]
          BY <3>1 DEF Remove, Unlink, Unlinked
        <4>7. \A d \in Dests : i \in WritesTo(d) <=> d = DestOf[i]
          BY <3>1 DEF WritesTo
        <4>3. dest[DestOf[i]] \in DestType /\ GoodEntry(dest[DestOf[i]]) /\ i \in Elements(dest[DestOf[i]].chain)
          BY <2>0, <2>3, <4>1, <4>7
        <4>4. /\ Unlinked(dest[DestOf[i]], i) \in DestType /\ GoodEntry(Unlinked(dest[DestOf[i]], i))
              /\ Elements(Unlinked(dest[DestOf[i]], i).chain) = Elements(dest[DestOf[i]].chain) \ {i}
          BY <3>1, <4>3, <1>UnlinkedFacts
        <4>5. dest'[DestOf[i]] = Unlinked(dest[DestOf[i]], i) /\ \A d \in Dests \ {DestOf[i]} : dest'[d] = dest[d]
          BY <2>0, <4>1, <4>2
        <4>6. dest' \in [Dests -> DestType]
          BY <2>0, <4>2, <4>4
        <4> QED
          BY <2>2, <2>3, <4>1, <4>4, <4>5, <4>6, <4>7, SMT
      <3>2. CASE i \notin Writes
        BY <2>0, <2>2, <2>3, <3>2 DEF WritesTo, Remove
      <3> QED
        BY <3>1, <3>2
    <2>5. DestInv'
      BY <2>4 DEF DestInv, GoodEntry
    <2> QED
      BY <2>1, <2>2, <2>4, <2>5 DEF QueueInv
  \* A thread keeps its IRPs.
  <1>SameHandHolds. ASSUME NEW u, SameHand(u)
                    PROVE  Held(u)' = Held(u)
    BY <1>SameHandHolds DEF SameHand, Held
  \* The IRPs in the hands of a thread.
  <1>HeldFacts. ASSUME TypeInv, NEW t \in Threads
                PROVE  /\ Held(t) \subseteq Writes
                       /\ Held(t) = ({th[t].irp} \cup Elements(th[t].back)) \ {None}
                       /\ Held(t)' = ({th'[t].irp} \cup Elements(th'[t].back)) \ {None}
    <2> USE <1>HeldFacts
    <2>1. th[t].irp \in Writes \cup {None} /\ th[t].back \in Seq(Writes)
      BY DEF TypeInv, CallType
    <2>2. Elements(th[t].back) \subseteq Writes
      BY <2>1, SMT DEF Elements
    <2>3. Held(t) = ({th[t].irp} \cup Elements(th[t].back)) \ {None}
      BY DEF Held, Elements
    <2>4. Held(t)' = ({th'[t].irp} \cup Elements(th'[t].back)) \ {None}
      BY DEF Held, Elements
    <2> QED
      BY <2>1, <2>2, <2>3, <2>4
  \* Thread t takes IRPs from the queue or puts them there; those of Out are
  \* completed and those of In are new.
  <1>IrpMoves. ASSUME TypeInv, IrpInv, NEW t \in Threads, \A u \in Threads \ {t} : SameHand(u),
                      NEW In \in SUBSET Irps, NEW Out \in SUBSET Irps,
                      Distinct(queue'), Distinct(th'[t].back), th'[t].irp \notin Elements(th'[t].back),
                      Held(t)' \cap Queued' = {},
                      Held(t)' \cup Queued' = ((Held(t) \cup Queued) \ Out) \cup In,
                      Out \subseteq Held(t) \cup Queued, \A i \in In : irp[i] # "busy",
                      \A i \in Irps : irp'[i] = "busy" <=> (irp[i] = "busy" /\ i \notin Out) \/ i \in In,
                      \A w \in Writes : sent'[w] = IF irp'[w] = "ok" THEN 1 ELSE 0
               PROVE  IrpInv'
    <2> USE <1>IrpMoves
    <2>1. \A u \in Threads \ {t} : Held(u)' = Held(u)
      BY <1>SameHandHolds
    <2>2. \A u \in Threads : Held(u) \subseteq Irps
      BY <1>HeldFacts
    <2>a. \A i \in Irps : irp[i] = "busy" <=> i \in Queued \/ \E u \in Threads : i \in Held(u)
      BY DEF IrpInv
    <2>b. \A u, v \in Threads : u # v => Held(u) \cap Held(v) = {}
      BY DEF IrpInv
    <2>c. \A u \in Threads : Held(u) \cap Queued = {}
      BY DEF IrpInv
    <2>d. \A u \in Threads : Distinct(th[u].back) /\ th[u].irp \notin Elements(th[u].back)
      BY DEF IrpInv
    <2>3. \A u \in Threads \ {t} : Held(u) \cap (Held(t)' \cup Queued') = {}
      BY <2>1, <2>2, <2>a, <2>b, <2>c
    <2>4. \A u \in Threads : Distinct(th'[u].back) /\ th'[u].irp \notin Elements(th'[u].back)
      BY <2>d DEF SameHand
    <2>5. \A i \in Irps : irp'[i] = "busy" <=> i \in Queued' \/ \E u \in Threads : i \in Held(u)'
      <3> TAKE i \in Irps
      <3>1. (\E u \in Threads : i \in Held(u)') <=> i \in Held(t)' \/ \E u \in Threads \ {t} : i \in Held(u)
        BY <2>1
      <3>2. (\E u \in Threads : i \in Held(u)) <=> i \in Held(t) \/ \E u \in Threads \ {t} : i \in Held(u)
        OBVIOUS
      <3>3. i \in Out => ~ \E u \in Threads \ {t} : i \in Held(u)
        BY <2>b, <2>c
      <3>4. i \in In \/ (i \in Held(t) \cup Queued /\ i \notin Out) <=> i \in Held(t)' \cup Queued'
        OBVIOUS
      <3> QED
        BY <2>a, <3>1, <3>2, <3>3, <3>4
    <2>6. \A u, v \in Threads : u # v => Held(u)' \cap Held(v)' = {}
      BY <2>1, <2>3, <2>b, SMT
    <2>7. \A u \in Threads : Held(u)' \cap Queued' = {}
      BY <2>1, <2>3, SMT
    <2> QED
      BY <2>4, <2>5, <2>6, <2>7 DEF IrpInv
  \* What the invariants say, in the form used below.
  <1>Start. ASSUME TypeInv, IrpInv, DestInv
            PROVE  /\ QueueInv /\ IrpTypes /\ Virq \in Threads /\ queue \in Seq(Irps)
                   /\ \A u \in Threads : Distinct(th[u].back) /\ th[u].irp \notin Elements(th[u].back)
                   /\ \A u \in Threads : th[u].back \in Seq(Writes)
                   /\ Distinct(queue)
                   /\ \A i \in Irps : irp[i] = "busy" <=> i \in Queued \/ \E t \in Threads : i \in Held(t)
                   /\ \A u \in Threads : Held(u) \cap Queued = {}
                   /\ \A w \in Writes : sent[w] = IF irp[w] = "ok" THEN 1 ELSE 0
                   /\ Queued \subseteq Irps
    <2> USE <1>Start
    <2>1. \A u \in Threads : th[u].back \in Seq(Writes)
      BY DEF TypeInv, CallType
    <2>2. queue \in Seq(Irps)
      BY DEF TypeInv
    <2>3. Queued \subseteq Irps
      BY <2>2, QueueFacts
    <2> QED
      BY <2>1, <2>2, <2>3 DEF TypeInv, IrpInv, QueueInv, IrpTypes
  \* One step per kind of effect.
  <1>QuietKeeps. ASSUME TypeInv, IrpInv, DestInv, Quiet
                 PROVE  Kept
    <2> USE <1>QuietKeeps
    <2>0. Virq \in Threads /\ \A u \in Threads : SameHand(u)
      BY DEF Quiet
    <2>1. queue' = queue /\ dest' = dest /\ irp' = irp /\ sent' = sent
      BY DEF Quiet, csq
    <2>2. Queued' = Queued
      BY <2>1 DEF Queued
    <2>3. \A u \in Threads : Held(u)' = Held(u)
      BY <2>0, <1>SameHandHolds
    <2>4. IrpInv'
      BY <2>0, <2>1, <2>2, <2>3, SMT DEF IrpInv, SameHand
    <2>5. QueueInv'
      BY <2>1, <2>2 DEF TypeInv, IrpInv, QueueInv, DestInv
    <2> QED
      BY <2>1, <2>4, <2>5 DEF TypeInv, IrpTypes, Kept
  <1>TakesKeeps. ASSUME TypeInv, IrpInv, DestInv, NEW t \in Threads, NEW w, Takes(t, w)
                 PROVE  Kept
    <2> USE <1>TakesKeeps
    <2>1. QueueInv' /\ Queued' = Queued \ {w}
      BY <1>Start, <1>RemoveKeeps DEF Takes
    <2>2. Held(t) = Elements(th[t].back) \ {None} /\ Held(t)' = Held(t) \cup {w} /\ w \in Writes
      BY <1>HeldFacts, Constants DEF Takes
    <2>3. w \notin Held(t) /\ w \in Queued /\ w # None
      BY <1>Start, Constants DEF Takes
    <2>4. Distinct(queue') /\ Distinct(th'[t].back) /\ th'[t].irp \notin Elements(th'[t].back)
      BY <2>1, <2>2, <2>3, <1>Start DEF QueueInv, Takes
    <2>5. IrpInv'
      <3> DEFINE E == {}
      <3>1. /\ Held(t)' \cap Queued' = {} /\ E \in SUBSET Irps
            /\ Held(t)' \cup Queued' = ((Held(t) \cup Queued) \ E) \cup E
            /\ E \subseteq Held(t) \cup Queued /\ \A i \in E : irp[i] # "busy"
        BY <2>1, <2>2, <2>3, <1>Start, SMT
      <3>2. \A i \in Irps : irp'[i] = "busy" <=> (irp[i] = "busy" /\ i \notin E) \/ i \in E
        BY DEF Takes
      <3>3. \A x \in Writes : sent'[x] = IF irp'[x] = "ok" THEN 1 ELSE 0
        BY <1>Start DEF Takes
      <3> HIDE DEF E
      <3> QED
        BY <2>4, <3>1, <3>2, <3>3, <1>IrpMoves DEF Takes
    <2> QED
      BY <2>1, <2>5, <1>Start DEF Kept, IrpTypes, Takes
  <1>SetsAsideKeeps. ASSUME TypeInv, IrpInv, DestInv, NEW t \in Threads, SetsAside(t)
                     PROVE  Kept
    <2> USE <1>SetsAsideKeeps
    <2>1. queue' = queue /\ dest' = dest /\ irp' = irp /\ sent' = sent
      BY DEF SetsAside, csq
    <2>2. Queued' = Queued
      BY <2>1 DEF Queued
    <2>3. QueueInv'
      BY <2>1, <2>2 DEF TypeInv, IrpInv, QueueInv, DestInv
    <2>4. /\ Elements(th'[t].back) = Elements(th[t].back) \cup {th[t].irp}
          /\ Distinct(th'[t].back)
      <3>1. /\ th[t].back \in Seq(Writes) /\ th[t].irp \in Writes /\ Distinct(th[t].back)
            /\ th[t].irp \notin Elements(th[t].back)
        BY <1>Start DEF SetsAside
      <3> QED
        BY <3>1, AppendFacts, SMT DEF SetsAside
    <2>5. Elements(th[t].back) \subseteq Writes
      BY <1>Start, SMT DEF Elements
    <2>6. Held(t)' = Held(t)
      <3>1. /\ Held(t) = ({th[t].irp} \cup Elements(th[t].back)) \ {None}
            /\ Held(t)' = ({th'[t].irp} \cup Elements(th'[t].back)) \ {None}
        BY <1>HeldFacts
      <3>2. th'[t].irp = None
        BY DEF SetsAside
      <3> QED
        BY <2>4, <3>1, <3>2
    <2>7. th'[t].irp \notin Elements(th'[t].back)
      BY <2>4, <2>5, Constants DEF SetsAside
    <2>8. IrpInv'
      <3> DEFINE E == {}
      <3>1. /\ Held(t)' \cap Queued' = {} /\ E \in SUBSET Irps
            /\ Held(t)' \cup Queued' = ((Held(t) \cup Queued) \ E) \cup E
            /\ E \subseteq Held(t) \cup Queued /\ \A i \in E : irp[i] # "busy"
        BY <2>2, <2>6, <1>Start
      <3>2. \A i \in Irps : irp'[i] = "busy" <=> (irp[i] = "busy" /\ i \notin E) \/ i \in E
        BY <2>1
      <3>3. \A x \in Writes : sent'[x] = IF irp'[x] = "ok" THEN 1 ELSE 0
        BY <2>1, <1>Start
      <3>4. Distinct(queue')
        BY <2>1, <1>Start
      <3> HIDE DEF E
      <3> QED
        BY <2>4, <2>7, <3>1, <3>2, <3>3, <3>4, <1>IrpMoves DEF SetsAside
    <2> QED
      BY <2>1, <2>3, <2>8, <1>Start DEF Kept, IrpTypes
  <1>FinishesKeeps. ASSUME TypeInv, IrpInv, DestInv, NEW t \in Threads, Finishes(t)
                    PROVE  Kept
    <2> USE <1>FinishesKeeps
    <2>1. queue' = queue /\ dest' = dest
      BY DEF Finishes, csq
    <2>2. Queued' = Queued
      BY <2>1 DEF Queued
    <2>3. QueueInv'
      BY <2>1, <2>2 DEF TypeInv, IrpInv, QueueInv, DestInv
    <2> DEFINE w == th[t].irp
               E == {w}
               F == {}
    <2>4. w \in Writes /\ w \notin Elements(th[t].back) /\ w # None
      BY <1>Start, Constants DEF Finishes
    <2>5. Held(t)' = Held(t) \ {w} /\ w \in Held(t)
      BY <2>4, <1>HeldFacts DEF Finishes
    <2>6. Elements(th[t].back) \subseteq Writes
      BY <1>Start, SMT DEF Elements
    <2>7. th'[t].irp \notin Elements(th'[t].back) /\ Distinct(th'[t].back)
      BY <2>6, <1>Start, Constants DEF Finishes
    <2>8. irp[w] = "busy" /\ sent[w] = 0
      BY <2>4, <2>5, <1>Start
    <2>9. irp' \in [Irps -> {"new", "busy", "ok", "failed", "cancelled"}] /\ sent' \in [Writes -> Nat]
      <3>1. irp \in [Irps -> {"new", "busy", "ok", "failed", "cancelled"}] /\ sent \in [Writes -> Nat]
        BY DEF TypeInv
      <3> QED
        BY <2>4, <3>1, SMT DEF Finishes
    <2>10. /\ irp'[w] \in {"ok", "failed"} /\ sent'[w] = IF irp'[w] = "ok" THEN 1 ELSE 0
           /\ \A i \in Irps \ {w} : irp'[i] = irp[i]
           /\ \A x \in Writes \ {w} : sent'[x] = sent[x]
      <3>1. irp \in [Irps -> {"new", "busy", "ok", "failed", "cancelled"}] /\ sent \in [Writes -> Nat]
        BY SMT DEF TypeInv
      <3> QED
        BY <2>4, <2>8, <3>1, SMT DEF Finishes
    <2>11. IrpInv'
      <3>1. /\ Held(t)' \cap Queued' = {} /\ E \in SUBSET Irps /\ F \in SUBSET Irps
            /\ Held(t)' \cup Queued' = ((Held(t) \cup Queued) \ E) \cup F
            /\ E \subseteq Held(t) \cup Queued /\ \A i \in F : irp[i] # "busy"
        BY <2>2, <2>4, <2>5, <1>Start
      <3>2. \A i \in Irps : irp'[i] = "busy" <=> (irp[i] = "busy" /\ i \notin E) \/ i \in F
        BY <2>10
      <3>3. \A x \in Writes : sent'[x] = IF irp'[x] = "ok" THEN 1 ELSE 0
        BY <2>10, <1>Start
      <3>4. Distinct(queue')
        BY <2>1, <1>Start
      <3> HIDE DEF E, F, w
      <3> QED
        BY <2>7, <3>1, <3>2, <3>3, <3>4, <1>IrpMoves DEF Finishes
    <2> QED
      BY <2>3, <2>9, <2>11 DEF Kept, IrpTypes
  <1>PutsBackKeeps. ASSUME TypeInv, IrpInv, DestInv, NEW t \in Threads, PutsBack(t)
                    PROVE  Kept
    <2> USE <1>PutsBackKeeps
    <2> DEFINE w == Head(th[t].back)
    <2>1. /\ th[t].back \in Seq(Writes) /\ Distinct(th[t].back) /\ th[t].back # <<>>
          /\ th[t].irp = None /\ th'[t].irp = None /\ th'[t].back = Tail(th[t].back)
      BY <1>Start DEF PutsBack
    <2>2. /\ w \in Elements(th[t].back) /\ Elements(th'[t].back) = Elements(th[t].back) \ {w}
          /\ Distinct(th'[t].back)
      BY <2>1, <1>TailFacts
    <2>3. Elements(th[t].back) \subseteq Writes
      BY <2>1, SMT DEF Elements
    <2>4. w \in Writes /\ None \notin Writes
      BY <2>2, <2>3, Constants
    <2>5. Held(t)' = Held(t) \ {w} /\ w \in Held(t)
      BY <2>1, <2>2, <2>4, <1>HeldFacts
    <2>6. irp[w] = "busy" /\ sent[w] = 0 /\ w \notin Queued
      BY <2>4, <2>5, <1>Start
    <2>7. th'[t].irp \notin Elements(th'[t].back)
      BY <2>1, <2>2, <2>3, <2>4
    <2>8. irp \in [Irps -> {"new", "busy", "ok", "failed", "cancelled"}] /\ sent \in [Writes -> Nat]
          /\ sent' = sent
      BY DEF TypeInv, PutsBack
    <2> HIDE DEF w
    <2>9. CASE Insert(w)
      <3> DEFINE E == {}
      <3>1. QueueInv' /\ Queued' = Queued \cup {w}
        BY <2>4, <2>6, <2>9, <1>Start, <1>InsertKeeps DEF Insert
      <3>2. irp' = irp
        BY <2>4, <2>6, <2>8, <2>9 DEF Insert
      <3>3. /\ Held(t)' \cap Queued' = {} /\ E \in SUBSET Irps
            /\ Held(t)' \cup Queued' = ((Held(t) \cup Queued) \ E) \cup E
            /\ E \subseteq Held(t) \cup Queued /\ \A i \in E : irp[i] # "busy"
        BY <2>5, <3>1, <1>Start
      <3>4. \A i \in Irps : irp'[i] = "busy" <=> (irp[i] = "busy" /\ i \notin E) \/ i \in E
        BY <3>2
      <3>5. \A x \in Writes : sent'[x] = IF irp'[x] = "ok" THEN 1 ELSE 0
        BY <2>8, <3>2, <1>Start
      <3>6. Distinct(queue')
        BY <3>1 DEF QueueInv
      <3> HIDE DEF E
      <3>7. IrpInv'
        BY <2>2, <2>7, <3>3, <3>4, <3>5, <3>6, <1>IrpMoves DEF PutsBack
      <3> QED
        BY <2>8, <3>1, <3>2, <3>7 DEF Kept, IrpTypes
    <2>10. CASE InsertFails(w)
      <3> DEFINE E == {w}
                 F == {}
      <3>1. queue' = queue /\ dest' = dest
        BY <2>10 DEF InsertFails
      <3>2. Queued' = Queued
        BY <3>1, SMT DEF Queued
      <3>3. QueueInv'
        BY <3>1, <3>2, SMT DEF TypeInv, IrpInv, QueueInv, DestInv
      <3>4. irp' = [irp EXCEPT ![w] = "failed"]
        BY <2>10 DEF InsertFails
      <3>5. /\ Held(t)' \cap Queued' = {} /\ E \in SUBSET Irps /\ F \in SUBSET Irps
            /\ Held(t)' \cup Queued' = ((Held(t) \cup Queued) \ E) \cup F
            /\ E \subseteq Held(t) \cup Queued /\ \A i \in F : irp[i] # "busy"
        BY <2>4, <2>5, <2>6, <3>2, <1>Start
      <3>6. \A i \in Irps : irp'[i] = "busy" <=> (irp[i] = "busy" /\ i \notin E) \/ i \in F
        BY <2>4, <2>8, <3>4
      <3>7. \A x \in Writes : sent'[x] = IF irp'[x] = "ok" THEN 1 ELSE 0
        BY <2>4, <2>6, <2>8, <3>4, <1>Start
      <3>8. Distinct(queue')
        BY <3>1, <1>Start, SMT
      <3> HIDE DEF E, F
      <3>9. IrpInv'
        BY <2>2, <2>7, <3>5, <3>6, <3>7, <3>8, <1>IrpMoves DEF PutsBack
      <3>10. irp' \in [Irps -> {"new", "busy", "ok", "failed", "cancelled"}]
        BY <2>8, <3>4
      <3> QED
        BY <2>8, <3>3, <3>9, <3>10 DEF Kept, IrpTypes
    <2> QED
      BY <2>9, <2>10 DEF PutsBack, w
  <1>EndsKeeps. ASSUME TypeInv, IrpInv, DestInv, NEW i, Ends(i)
                PROVE  Kept
    <2> USE <1>EndsKeeps
    <2> DEFINE t == Virq
               E == {i}
               F == {}
    <2>1. i \in Queued /\ QueueInv' /\ Queued' = Queued \ {i}
      BY <1>Start, <1>RemoveKeeps DEF Ends
    <2>2. i \in Irps /\ irp[i] = "busy" /\ (i \in Writes => sent[i] = 0) /\ t \in Threads
      BY <2>1, <1>Start
    <2>3. \A u \in Threads : SameHand(u) /\ Held(u)' = Held(u)
      BY <1>SameHandHolds DEF Ends
    <2>4. irp \in [Irps -> {"new", "busy", "ok", "failed", "cancelled"}] /\ sent \in [Writes -> Nat]
          /\ sent' = sent
      BY DEF TypeInv, Ends
    <2>5. /\ irp' \in [Irps -> {"new", "busy", "ok", "failed", "cancelled"}]
          /\ irp'[i] \in {"ok", "cancelled"} /\ (i \in Writes => irp'[i] # "ok")
          /\ \A j \in Irps \ {i} : irp'[j] = irp[j]
      BY <2>2, <2>4, Constants DEF Ends
    <2>6. /\ Held(t)' \cap Queued' = {} /\ E \in SUBSET Irps /\ F \in SUBSET Irps
          /\ Held(t)' \cup Queued' = ((Held(t) \cup Queued) \ E) \cup F
          /\ E \subseteq Held(t) \cup Queued /\ \A j \in F : irp[j] # "busy"
      BY <2>1, <2>2, <2>3, <1>Start
    <2>7. \A j \in Irps : irp'[j] = "busy" <=> (irp[j] = "busy" /\ j \notin E) \/ j \in F
      BY <2>2, <2>5
    <2>8. \A x \in Writes : sent'[x] = IF irp'[x] = "ok" THEN 1 ELSE 0
      BY <2>2, <2>4, <2>5, <1>Start
    <2>9. /\ Distinct(queue') /\ Distinct(th'[t].back) /\ th'[t].irp \notin Elements(th'[t].back)
      BY <2>1, <2>2, <2>3, <1>Start DEF QueueInv, SameHand
    <2> HIDE DEF E, F, t
    <2>10. IrpInv'
      BY <2>2, <2>3, <2>6, <2>7, <2>8, <2>9, <1>IrpMoves
    <2> QED
      BY <2>1, <2>4, <2>5, <2>10 DEF Kept, IrpTypes
  <1>IssuesKeeps. ASSUME TypeInv, IrpInv, DestInv, NEW i \in Irps, Issues(i)
                  PROVE  Kept
    <2> USE <1>IssuesKeeps
    <2> DEFINE t == Virq
               E == {i}
               F == {}
    <2>1. i \notin Queued /\ irp[i] = "new" /\ (i \in Writes => sent[i] = 0) /\ t \in Threads
          /\ i \notin Held(t)
      BY <1>Start DEF Issues
    <2>3. \A u \in Threads : SameHand(u) /\ Held(u)' = Held(u)
      BY <1>SameHandHolds DEF Issues
    <2>4. irp \in [Irps -> {"new", "busy", "ok", "failed", "cancelled"}] /\ sent \in [Writes -> Nat]
          /\ sent' = sent
      BY DEF TypeInv, Issues
    <2>9. Distinct(th'[t].back) /\ th'[t].irp \notin Elements(th'[t].back)
      BY <2>1, <2>3, <1>Start DEF SameHand
    <2>5. CASE Insert(i)
      <3>1. QueueInv' /\ Queued' = Queued \cup {i}
        BY <2>1, <2>5, <1>Start, <1>InsertKeeps DEF Insert
      <3>2. /\ irp' \in [Irps -> {"new", "busy", "ok", "failed", "cancelled"}]
            /\ irp'[i] = "busy" /\ \A j \in Irps \ {i} : irp'[j] = irp[j]
        BY <2>4, <2>5 DEF Insert
      <3>3. /\ Held(t)' \cap Queued' = {} /\ E \in SUBSET Irps /\ F \in SUBSET Irps
            /\ Held(t)' \cup Queued' = ((Held(t) \cup Queued) \ F) \cup E
            /\ F \subseteq Held(t) \cup Queued /\ \A j \in E : irp[j] # "busy"
        BY <2>1, <2>3, <3>1, <1>Start
      <3>4. \A j \in Irps : irp'[j] = "busy" <=> (irp[j] = "busy" /\ j \notin F) \/ j \in E
        BY <2>1, <3>2
      <3>5. \A x \in Writes : sent'[x] = IF irp'[x] = "ok" THEN 1 ELSE 0
        BY <2>1, <2>4, <3>2, <1>Start
      <3>6. Distinct(queue')
        BY <3>1 DEF QueueInv
      <3> HIDE DEF E, F, t
      <3>7. IrpInv'
        BY <2>1, <2>3, <2>9, <3>3, <3>4, <3>5, <3>6, <1>IrpMoves
      <3> QED
        BY <2>4, <3>1, <3>2, <3>7 DEF Kept, IrpTypes
    <2>6. CASE InsertFails(i)
      <3>1. queue' = queue /\ dest' = dest
        BY <2>6 DEF InsertFails
      <3>2. Queued' = Queued
        BY <3>1 DEF Queued
      <3>3. QueueInv'
        BY <3>1, <3>2 DEF TypeInv, IrpInv, QueueInv, DestInv
      <3>4. /\ irp' \in [Irps -> {"new", "busy", "ok", "failed", "cancelled"}]
            /\ irp'[i] = "failed" /\ \A j \in Irps \ {i} : irp'[j] = irp[j]
        BY <2>4, <2>6 DEF InsertFails
      <3>5. /\ Held(t)' \cap Queued' = {} /\ F \in SUBSET Irps
            /\ Held(t)' \cup Queued' = ((Held(t) \cup Queued) \ F) \cup F
            /\ F \subseteq Held(t) \cup Queued /\ \A j \in F : irp[j] # "busy"
        BY <2>1, <2>3, <3>2, <1>Start
      <3>6. \A j \in Irps : irp'[j] = "busy" <=> (irp[j] = "busy" /\ j \notin F) \/ j \in F
        BY <2>1, <3>4
      <3>7. \A x \in Writes : sent'[x] = IF irp'[x] = "ok" THEN 1 ELSE 0
        BY <2>1, <2>4, <3>4, <1>Start
      <3>8. Distinct(queue')
        BY <3>1, <1>Start
      <3> HIDE DEF F, t
      <3>9. IrpInv'
        BY <2>1, <2>3, <2>9, <3>5, <3>6, <3>7, <3>8, <1>IrpMoves
      <3> QED
        BY <2>4, <3>3, <3>4, <3>9 DEF Kept, IrpTypes
    <2> QED
      BY <2>5, <2>6 DEF Issues
  <1> QED
    BY <1>QuietKeeps, <1>TakesKeeps, <1>SetsAsideKeeps, <1>FinishesKeeps, <1>PutsBackKeeps, <1>EndsKeeps, <1>IssuesKeeps
       DEF Effect
-----------------------------------------------------------------------------
(* What each step does to the IRPs, and to the file of its thread *)

\* The other threads keep the IRPs they have.
LEMMA OthersHands ==
  ASSUME NEW t \in Threads, Moves(t)
  PROVE  /\ \A u \in Threads \ {t} : SameHand(u)
         /\ SameHand(t) => \A u \in Threads : SameHand(u)
BY DEF Moves, Alike, SameHand

\* A step that leaves the IRPs where they are.
LEMMA QuietMoves ==
  ASSUME NEW t \in Threads, Moves(t), SameHand(t), UNCHANGED <<csq, irp, sent>>
  PROVE  Effect(t)
BY OthersHands DEF Effect, Quiet

\* Thread t stays in its call, with the file, or turns to one without a file.
SameFile(t) ==
  /\ th'[t].file = th[t].file /\ th'[t].byFile = th[t].byFile
  /\ th'[t].dying = th[t].dying /\ th'[t].ctxs = th[t].ctxs /\ th'[t].todo = th[t].todo

NoFile(t) ==
  /\ ~ th'[t].byFile /\ th'[t].dying = {} /\ th'[t].ctxs = {} /\ th'[t].todo = {}
  /\ th'[t].pc \in {"idle", "copy", "notify", "dests"}

\* Only the interrupt thread has contexts, and only while it reads for them.
LEMMA NoContexts ==
  ASSUME TypeInv, CallsOk, NEW t \in Threads, th[t].pc \notin Reading \cup {"contexts"}
  PROVE  th[t].ctxs = {} /\ th[t].todo = {} /\ (th[t].pc # "end" => th[t].dying = {})
BY GoesOn DEF CallOk

\* A call that holds no IRPs is followed by another.
LEMMA EmptyHands ==
  ASSUME TypeInv, CallsOk, NEW t \in Threads, th[t].pc \notin Writing
  PROVE  /\ th[t].irp = None /\ th[t].back = <<>>
         /\ th'[t].irp = None /\ th'[t].back = <<>> => SameHand(t)
BY GoesOn DEF CallOk, SameHand, Writing

\* How a call takes a write off the queue.
PopsFor(t, c, w) ==
  /\ c \in CallType /\ w \in Writes \cup {None} /\ Popping(c, w) /\ Pop(t, w, c)
  /\ th[t].irp = None /\ c.back = th[t].back /\ c.file = th[t].file /\ c.first = th[t].first
  /\ c.byFile = th[t].byFile /\ c.notify = th[t].notify /\ c.sure = th[t].sure
  /\ w # None => w \in Queued
  /\ \/ /\ th[t].pc = "pop" /\ c = th[t]
        /\ w = None => Queued \cap (IF c.byFile THEN WritesOf(c.file) ELSE WritesTo(c.ent.dst)) = {}
     \/ /\ th[t].pc = "dests" /\ c.ent \in th[t].ents /\ c.ents = th[t].ents \ {c.ent}
        /\ ~ c.byFile
        /\ w = None => Queued \cap WritesTo(c.ent.dst) = {}

\* PopWrite takes the first write of the file or of the destination.
LEMMA PopCases ==
  ASSUME TypeInv, CallsOk, NEW t \in Threads, PopWrite(t)
  PROVE  \E c, w : PopsFor(t, c, w)
PROOF
  <1>0. th[t] \in CallType /\ CallOk(t, th[t]) /\ queue \in Seq(Irps)
    BY GoesOn DEF TypeInv
  <1>1. CASE th[t].pc = "pop"
    <2> DEFINE S == IF th[t].byFile THEN WritesOf(th[t].file) ELSE WritesTo(th[t].ent.dst)
               w == Peek(S)
    <2>1. Pop(t, w, th[t])
      BY <1>1 DEF PopWrite
    <2>2. S \subseteq Writes
      BY DEF WritesOf, WritesTo
    <2>3. (w = None /\ Queued \cap S = {}) \/ w \in Queued \cap S
      BY <1>0, PeekFacts
    <2>4. w # None => w \in Queued /\ w \in Writes /\ IF th[t].byFile THEN FileOf[w] = th[t].file
                                                     ELSE DestOf[w] = th[t].ent.dst
      BY <2>3 DEF WritesOf, WritesTo
    <2>5. w = None => Queued \cap S = {}
      BY <2>3, <2>2, Constants
    <2> HIDE DEF w
    <2>6. Popping(th[t], w)
      BY <1>0, <1>1, <2>4 DEF Popping, CallOk, Writing, InHand, Reading
    <2>7. PopsFor(t, th[t], w)
      BY <1>0, <1>1, <2>1, <2>4, <2>5, <2>6 DEF PopsFor, Popping
    <2> QED
      BY <2>7
  <1>2. CASE th[t].pc = "dests"
    <2>1. PICK e \in th[t].ents : Pop(t, Peek(WritesTo(e.dst)), [th[t] EXCEPT !.ents = @ \ {e}, !.ent = e])
      BY <1>2 DEF PopWrite
    <2> DEFINE w == Peek(WritesTo(e.dst))
               c == [th[t] EXCEPT !.ents = @ \ {e}, !.ent = e]
    <2>2. (w = None /\ Queued \cap WritesTo(e.dst) = {}) \/ w \in Queued \cap WritesTo(e.dst)
      BY <1>0, PeekFacts
    <2>3. w # None => w \in Queued /\ w \in Writes /\ DestOf[w] = e.dst
      BY <2>2 DEF WritesTo
    <2>4. w = None => Queued \cap WritesTo(e.dst) = {}
      BY <2>2, Constants DEF WritesTo
    <2>5. e \in Answers /\ ~ th[t].byFile /\ th[t].back = <<>> /\ th[t].irp = None
      BY <1>0, <1>2 DEF CallOk, Writing, InHand
    <2>6. c \in CallType
      BY <1>0, <2>5 DEF CallType
    <2>7. /\ c.irp = th[t].irp /\ c.back = th[t].back /\ c.file = th[t].file /\ c.first = th[t].first
          /\ c.byFile = th[t].byFile /\ c.notify = th[t].notify /\ c.sure = th[t].sure
          /\ c.ctxs = th[t].ctxs /\ c.todo = th[t].todo /\ c.dying = th[t].dying
          /\ c.ent = e /\ c.ents = th[t].ents \ {e}
      BY <1>0 DEF CallType
    <2> HIDE DEF c, w
    <2>8. Popping(c, w)
      BY <1>0, <1>2, <2>3, <2>5, <2>6, <2>7 DEF Popping, CallOk, Writing, InHand, Reading
    <2>9. Pop(t, w, c)
      BY <2>1 DEF w, c
    <2>10. PopsFor(t, c, w)
      BY <1>2, <2>3, <2>4, <2>5, <2>6, <2>7, <2>8, <2>9 DEF PopsFor
    <2> QED
      BY <2>10
  <1> QED
    BY <1>1, <1>2 DEF PopWrite

\* A write comes off the queue: IoCsqRemoveNextIrp in gh_rw.c.
LEMMA PopEffect ==
  ASSUME TypeInv, CallsOk, NEW t \in Threads, NEW c, NEW w, PopsFor(t, c, w)
  PROVE  /\ Moves(t) /\ Effect(t)
         /\ w = None => th'[t] = [c EXCEPT !.pc = "requeue"]
         /\ w # None => th'[t] = [c EXCEPT !.irp = w, !.file = FileOf[w],
                                           !.pc = IF c.byFile THEN "send" ELSE "lock"]
PROOF
  <1>0. c \in CallType /\ w \in Writes \cup {None} /\ Popping(c, w) /\ Pop(t, w, c)
        /\ th[t].irp = None /\ c.back = th[t].back /\ c.irp = None
    BY DEF PopsFor, Popping
  <1>1. /\ Moves(t)
        /\ w = None => th'[t] = [c EXCEPT !.pc = "requeue"]
        /\ w # None => th'[t] = [c EXCEPT !.irp = w, !.file = FileOf[w],
                                          !.pc = IF c.byFile THEN "send" ELSE "lock"]
    <2> USE <1>0
    <2> USE DEF Pcs, Writing, Reading, InHand
    <2>0. None \notin Writes /\ (w # None => w \in Writes /\ FileOf[w] \in Files)
      BY Constants
    <2>1. CASE w = None
      <3> DEFINE e == [c EXCEPT !.pc = "requeue"]
      <3>1. e \in CallType
        BY SMT DEF CallType, Popping
      <3>a. ~ c.byFile => Aimed(e)
        BY <2>0, ElementsFacts DEF CallType, Popping, Aimed
      <3>2. CallOk(t, e)
        BY <3>a DEF CallType, CallOk, Popping
      <3>3. th' = [th EXCEPT ![t] = e]
        BY <2>1 DEF Pop
      <3> HIDE DEF e
      <3>4. Moves(t) /\ th'[t] = e
        BY <3>1, <3>2, <3>3, CallMovesOn
      <3> QED
        BY <2>1, <3>4 DEF e
    <2>2. CASE w # None
      <3> DEFINE e == [c EXCEPT !.irp = w, !.file = FileOf[w],
                                !.pc = IF c.byFile THEN "send" ELSE "lock"]
      <3>0. c \in CallType /\ w \in Writes /\ FileOf[w] \in Files
        BY <2>0, <2>2 DEF Popping
      <3>1. e \in CallType
        BY <3>0, ZenonT(40) DEF CallType
      <3>a. ~ c.byFile => Aimed(e)
        BY <2>2, ElementsFacts DEF CallType, Popping, Aimed
      <3>2. CallOk(t, e)
        BY <2>0, <2>2, <3>a, SMT DEF CallType, CallOk, Popping
      <3>3. th' = [th EXCEPT ![t] = e]
        BY <2>2 DEF Pop
      <3> HIDE DEF e
      <3>4. Moves(t) /\ th'[t] = e
        BY <3>1, <3>2, <3>3, CallMovesOn
      <3> QED
        BY <2>2, <3>4 DEF e
    <2> QED
      BY <2>1, <2>2
  <1>2. CASE w = None
    <2>1. SameHand(t)
      BY <1>0, <1>1, <1>2 DEF CallType, SameHand
    <2>2. UNCHANGED <<csq, irp, sent>>
      BY <1>0, <1>2 DEF Pop
    <2> QED
      BY <1>1, <2>1, <2>2, QuietMoves
  <1>3. CASE w # None
    <2>1. th'[t].irp = w /\ th'[t].back = th[t].back
      BY <1>0, <1>1, <1>3 DEF CallType
    <2>2. Remove(w) /\ UNCHANGED <<irp, sent>>
      BY <1>0, <1>3 DEF Pop
    <2>3. w \in Queued \cap Writes
      BY <1>3 DEF PopsFor
    <2>4. Takes(t, w)
      BY <1>0, <1>1, <2>1, <2>2, <2>3, OthersHands DEF Takes
    <2> QED
      BY <1>1, <2>3, <2>4 DEF Effect
  <1> QED
    BY <1>1, <1>2, <1>3

\* process_destination_writes puts the write back, or goes on to send it.
LEMMA LockEffect ==
  ASSUME TypeInv, CallsOk, NEW t \in Threads, LockRing(t)
  PROVE  Moves(t) /\ Effect(t) /\ SameFile(t) /\ th'[t].pc \in Writing
PROOF
  <1>0. th[t] \in CallType /\ CallOk(t, th[t]) /\ th[t].pc = "lock" /\ UNCHANGED <<csq, irp, sent>>
    BY GoesOn DEF LockRing
  <1> DEFINE try == th[t].byFile \/ ~ th[t].first \/ ~ th[t].ent.exists \/ th[t].ent.sufficient
  <1>1. CASE try
    <2>1. Moves(t) /\ th'[t] = [th[t] EXCEPT !.pc = IF th[t].byFile THEN "pop" ELSE "send"]
      <3> USE <1>1
      <3> USE DEF Pcs, Writing, Reading, InHand
      <3>0. th[t] \in CallType /\ CallOk(t, th[t])
        BY GoesOn
      <3>c. th[t].pc = "lock"
        BY <3>0 DEF CallOk, LockRing, Goto
      <3> DEFINE e == [th[t] EXCEPT !.pc = IF th[t].byFile THEN "pop" ELSE "send"]
      <3>1. e \in CallType
        BY <3>0, <3>c DEF CallType
      <3>2. ~ e.byFile => Aimed(e)
        BY <3>0, <3>c, Constants DEF CallType, CallOk, Aimed
      <3>3. CallOk(t, e)
        BY <3>0, <3>c, <3>2 DEF CallType, CallOk
      <3>4. th' = [th EXCEPT ![t] = e]
        BY <3>c DEF LockRing, Goto
      <3> HIDE DEF e
      <3>5. Moves(t) /\ th'[t] = e
        BY <3>1, <3>3, <3>4, CallMovesOn
      <3> QED
        BY <3>5 DEF e
    <2>2. SameHand(t)
      BY <1>0, <2>1 DEF SameHand, CallType
    <2>s. SameFile(t) /\ th'[t].pc \in Writing
      BY <1>0, <2>1 DEF SameFile, CallType, Writing, InHand
    <2> QED
      BY <1>0, <2>1, <2>2, <2>s, QuietMoves
  <1>2. CASE ~ try
    <2>1. Moves(t) /\ th'[t] = [th[t] EXCEPT !.pc = "requeue", !.irp = None, !.back = <<th[t].irp>>]
      <3> USE <1>2
      <3> USE DEF Pcs, Writing, Reading, InHand
      <3>0. th[t] \in CallType /\ CallOk(t, th[t])
        BY GoesOn
      <3>c. th[t].irp \in Writes /\ th[t].pc = "lock" /\ ~ th[t].byFile
        BY <3>0 DEF CallOk, LockRing
      <3> DEFINE b == <<th[t].irp>>
      <3>b. b \in Seq(Writes) /\ Elements(b) = {th[t].irp}
        BY <3>c, ElementsFacts, SMT
      <3> HIDE DEF b
      <3> DEFINE e == [th[t] EXCEPT !.pc = "requeue", !.irp = None, !.back = b]
      <3>1. e \in CallType
        BY <3>0, <3>c, <3>b DEF CallType
      <3>2. ~ e.byFile => Aimed(e)
        BY <3>0, <3>c, <3>b, Constants DEF CallType, CallOk, Aimed
      <3>3. CallOk(t, e)
        BY <3>0, <3>c, <3>2 DEF CallType, CallOk
      <3>4. th' = [th EXCEPT ![t] = e]
        BY <3>c DEF LockRing, b
      <3> HIDE DEF e
      <3>5. Moves(t) /\ th'[t] = e
        BY <3>1, <3>3, <3>4, CallMovesOn
      <3> QED
        BY <3>5 DEF e, b
    <2>2. th[t].irp \in Writes /\ th[t].back = <<>>
      BY <1>0, <1>2 DEF CallOk, InHand
    <2>3. th'[t].irp = None /\ th'[t].back = <<th[t].irp>>
      BY <1>0, <2>1 DEF CallType
    <2>4. th'[t].back = Append(th[t].back, th[t].irp)
      BY <2>2, <2>3, SMT
    <2>s. SameFile(t) /\ th'[t].pc \in Writing
      BY <1>0, <2>1 DEF SameFile, CallType, Writing, InHand
    <2> QED
      BY <1>0, <2>1, <2>2, <2>3, <2>4, <2>s, OthersHands DEF Effect, SetsAside
  <1> QED
    BY <1>1, <1>2

\* The write in the call's hands.
LEMMA InHandFacts ==
  ASSUME TypeInv, CallsOk, NEW t \in Threads, th[t].pc \in InHand
  PROVE  /\ th[t].irp \in Writes /\ th[t].file = FileOf[th[t].irp]
         /\ th[t].file \in Files /\ DestOf[th[t].irp] \in Dests
PROOF
  <1>1. th[t].irp \in Writes /\ th[t].file = FileOf[th[t].irp]
    BY GoesOn DEF CallOk
  <1> QED
    BY <1>1, Constants

\* The send is to be tried again: STATUS_RETRY in gh_rw.c.
LEMMA RetryEffect ==
  ASSUME TypeInv, CallsOk, NEW t \in Threads, th[t].pc \in InHand, Retry(t), UNCHANGED csq
  PROVE  Moves(t) /\ Effect(t) /\ SameFile(t) /\ th'[t].pc \in Writing
PROOF
  <1>0. th[t] \in CallType /\ th[t].irp \in Writes /\ UNCHANGED <<irp, sent>>
    BY GoesOn, InHandFacts DEF Retry
  <1>1. /\ Moves(t)
        /\ th'[t] = [th[t] EXCEPT !.irp = None, !.back = Append(@, th[t].irp),
                                  !.notify = @ \/ th[t].byFile,
                                  !.pc = IF th[t].byFile THEN "pop" ELSE "requeue"]
    <2> USE DEF Pcs, Writing, Reading, InHand
    <2>0. th[t] \in CallType /\ CallOk(t, th[t])
      BY GoesOn
    <2>c. th[t].irp \in Writes /\ th[t].pc \in InHand
      BY <2>0 DEF CallOk, Retry
    <2> DEFINE b == Append(th[t].back, th[t].irp)
    <2>b. b \in Seq(Writes) /\ Elements(b) = Elements(th[t].back) \cup {th[t].irp}
      BY <2>0, <2>c, AppendFacts, SMT DEF CallType
    <2> HIDE DEF b
    <2> DEFINE e == [th[t] EXCEPT !.irp = None, !.back = b,
                                  !.notify = @ \/ th[t].byFile,
                                  !.pc = IF th[t].byFile THEN "pop" ELSE "requeue"]
    <2>1. e \in CallType
      BY <2>0, <2>c, <2>b DEF CallType
    <2>2. ~ e.byFile => Aimed(e)
      BY <2>0, <2>c, <2>b, Constants DEF CallType, CallOk, Aimed
    <2>3. CallOk(t, e)
      BY <2>0, <2>c, <2>2 DEF CallType, CallOk
    <2>4. th' = [th EXCEPT ![t] = e]
      BY <2>c DEF Retry, b
    <2> HIDE DEF e
    <2>5. Moves(t) /\ th'[t] = e
      BY <2>1, <2>3, <2>4, CallMovesOn
    <2> QED
      BY <2>5 DEF e, b
  <1>2. th'[t].irp = None /\ th'[t].back = Append(th[t].back, th[t].irp)
    BY <1>0, <1>1 DEF CallType
  <1>3. SameFile(t) /\ th'[t].pc \in Writing
    BY <1>0, <1>1 DEF SameFile, CallType, Writing
  <1> QED
    BY <1>0, <1>1, <1>2, <1>3, OthersHands DEF Effect, SetsAside

\* STATUS_NO_MEMORY: the loop ends.
LEMMA NoMemoryEffect ==
  ASSUME TypeInv, CallsOk, NEW t \in Threads, th[t].pc \in InHand, NoMemory(t), UNCHANGED csq
  PROVE  Moves(t) /\ Effect(t) /\ SameFile(t) /\ th'[t].pc \in Writing
PROOF
  <1>0. th[t] \in CallType /\ th[t].irp \in Writes /\ UNCHANGED <<irp, sent>>
    BY GoesOn, InHandFacts DEF NoMemory
  <1>1. /\ Moves(t)
        /\ th'[t] = [th[t] EXCEPT !.irp = None, !.back = Append(@, th[t].irp),
                                  !.notify = TRUE, !.pc = "requeue"]
    <2> USE DEF Pcs, Writing, Reading, InHand
    <2>0. th[t] \in CallType /\ CallOk(t, th[t])
      BY GoesOn, SMT
    <2>c. th[t].irp \in Writes /\ th[t].pc \in InHand
      BY <2>0 DEF CallOk, NoMemory
    <2> DEFINE b == Append(th[t].back, th[t].irp)
    <2>b. b \in Seq(Writes) /\ Elements(b) = Elements(th[t].back) \cup {th[t].irp}
      BY <2>0, <2>c, AppendFacts, SMT DEF CallType
    <2> HIDE DEF b
    <2> DEFINE e == [th[t] EXCEPT !.irp = None, !.back = b,
                                  !.notify = TRUE, !.pc = "requeue"]
    <2>1. e \in CallType
      BY <2>0, <2>c, <2>b DEF CallType
    <2>2. ~ e.byFile => Aimed(e)
      BY <2>0, <2>c, <2>b, Constants DEF CallType, CallOk, Aimed
    <2>3. CallOk(t, e)
      BY <2>0, <2>c, <2>2 DEF CallType, CallOk
    <2>4. th' = [th EXCEPT ![t] = e]
      BY <2>c DEF NoMemory, b
    <2> HIDE DEF e
    <2>5. Moves(t) /\ th'[t] = e
      BY <2>1, <2>3, <2>4, CallMovesOn
    <2> QED
      BY <2>5 DEF e, b
  <1>2. th'[t].irp = None /\ th'[t].back = Append(th[t].back, th[t].irp)
    BY <1>0, <1>1 DEF CallType
  <1>3. SameFile(t) /\ th'[t].pc \in Writing
    BY <1>0, <1>1 DEF SameFile, CallType, Writing
  <1> QED
    BY <1>0, <1>1, <1>2, <1>3, OthersHands DEF Effect, SetsAside

\* gh_v4v_do_write sent the message, or failed: the write is completed.
LEMMA CompleteEffect ==
  ASSUME TypeInv, CallsOk, NEW t \in Threads, th[t].pc \in InHand, NEW status, Complete(t, status),
         \/ status = "ok" /\ sent' = [sent EXCEPT ![th[t].irp] = @ + 1]
         \/ status = "failed" /\ UNCHANGED sent,
         UNCHANGED csq
  PROVE  Moves(t) /\ Effect(t) /\ SameFile(t) /\ th'[t].pc \in Writing
PROOF
  <1>0. th[t] \in CallType /\ th[t].irp \in Writes /\ irp' = [irp EXCEPT ![th[t].irp] = status]
    BY GoesOn, InHandFacts DEF Complete
  <1>1. /\ Moves(t)
        /\ th'[t] = [th[t] EXCEPT !.irp = None, !.pc = "pop", !.first = @ /\ status # "ok"]
    <2> USE DEF Pcs, Writing, Reading, InHand
    <2>0. th[t] \in CallType /\ CallOk(t, th[t])
      BY GoesOn
    <2>c. th[t].irp \in Writes /\ th[t].pc \in InHand
      BY <2>0 DEF CallOk, Complete
    <2> DEFINE b == (th[t].first /\ status # "ok")
    <2>b. b \in BOOLEAN
      BY SMT
    <2> HIDE DEF b
    <2> DEFINE e == [th[t] EXCEPT !.irp = None, !.pc = "pop", !.first = b]
    <2>1. e \in CallType
      BY <2>0, <2>c, <2>b DEF CallType
    <2>2. ~ e.byFile => Aimed(e)
      BY <2>0, <2>c, <2>b, Constants DEF CallType, CallOk, Aimed
    <2>3. CallOk(t, e)
      BY <2>0, <2>c, <2>2 DEF CallType, CallOk
    <2>4. th' = [th EXCEPT ![t] = e]
      BY <2>c DEF Complete, b
    <2> HIDE DEF e
    <2>5. Moves(t) /\ th'[t] = e
      BY <2>1, <2>3, <2>4, CallMovesOn
    <2> QED
      BY <2>5 DEF e, b
  <1>2. th'[t].irp = None /\ th'[t].back = th[t].back
    BY <1>0, <1>1 DEF CallType
  <1>3. SameFile(t) /\ th'[t].pc \in Writing
    BY <1>0, <1>1 DEF SameFile, CallType, Writing
  <1> QED
    BY <1>0, <1>1, <1>2, <1>3, OthersHands DEF Effect, Finishes

\* The write stays in the hands of the call.
LEMMA HandEffect ==
  ASSUME TypeInv, CallsOk, NEW t \in Threads, NEW p \in InHand, th[t].pc \in InHand, th' = Goto(t, p),
         UNCHANGED <<csq, irp, sent>>
  PROVE  Moves(t) /\ Effect(t) /\ SameFile(t) /\ th'[t].pc \in Writing
PROOF
  <1>1. Moves(t) /\ th'[t] = [th[t] EXCEPT !.pc = p]
    <2> USE DEF Pcs, Writing, Reading, InHand
    <2>0. th[t] \in CallType /\ CallOk(t, th[t])
      BY GoesOn
    <2>c. th[t].irp \in Writes /\ th[t].pc \in InHand
      BY <2>0 DEF CallOk, Goto
    <2> DEFINE e == [th[t] EXCEPT !.pc = p]
    <2>1. e \in CallType
      BY <2>0, <2>c DEF CallType
    <2>2. ~ e.byFile => Aimed(e)
      BY <2>0, <2>c, Constants DEF CallType, CallOk, Aimed
    <2>3. CallOk(t, e)
      BY <2>0, <2>c, <2>2 DEF CallType, CallOk
    <2>4. th' = [th EXCEPT ![t] = e]
      BY <2>c DEF Goto
    <2> HIDE DEF e
    <2>5. Moves(t) /\ th'[t] = e
      BY <2>1, <2>3, <2>4, CallMovesOn
    <2> QED
      BY <2>5 DEF e
  <1>2. SameHand(t)
    BY <1>1, GoesOn DEF SameHand, CallType
  <1>3. SameFile(t) /\ th'[t].pc \in Writing
    BY <1>1, GoesOn DEF SameFile, CallType, Writing
  <1> QED
    BY <1>1, <1>2, <1>3, QuietMoves

\* gh_v4v_do_write and gh_v4v_create_ring.
LEMMA WriteEffect ==
  ASSUME TypeInv, CallsOk, NEW t \in Threads, DoWrite(t) \/ CreateRing(t)
  PROVE  Moves(t) /\ Effect(t) /\ SameFile(t) /\ th'[t].pc \in Writing
PROOF
  <1>1. th[t].pc \in InHand /\ UNCHANGED csq
    BY DEF DoWrite, CreateRing, InHand
  <1>2. \/ Retry(t) \/ NoMemory(t)
        \/ Complete(t, "ok") /\ sent' = [sent EXCEPT ![th[t].irp] = @ + 1]
        \/ Complete(t, "failed") /\ UNCHANGED sent
        \/ \E p \in InHand : th' = Goto(t, p) /\ UNCHANGED <<irp, sent>>
    BY DEF DoWrite, CreateRing, InHand
  <1> QED
    BY <1>1, <1>2, RetryEffect, NoMemoryEffect, CompleteEffect, HandEffect

\* gh_v4v_requeue_irps puts the first write back.
LEMMA RequeueEffect ==
  ASSUME TypeInv, CallsOk, NEW t \in Threads, RequeueIrp(t)
  PROVE  Moves(t) /\ Effect(t) /\ SameFile(t) /\ th'[t].pc \in Writing
PROOF
  <1>0. th[t] \in CallType /\ CallOk(t, th[t]) /\ th[t].pc = "requeue" /\ th[t].back # <<>>
    BY GoesOn DEF RequeueIrp
  <1>1. Moves(t) /\ th'[t] = [th[t] EXCEPT !.back = Tail(@)]
    <2> USE DEF Pcs, Writing, Reading, InHand
    <2>0. th[t] \in CallType /\ CallOk(t, th[t])
      BY GoesOn
    <2>c. th[t].pc = "requeue" /\ th[t].back # <<>>
      BY <2>0 DEF CallOk, RequeueIrp
    <2> DEFINE b == Tail(th[t].back)
    <2>b. b \in Seq(Writes) /\ Elements(b) \subseteq Elements(th[t].back)
      BY <2>0, <2>c, TailIn DEF CallType
    <2> HIDE DEF b
    <2> DEFINE e == [th[t] EXCEPT !.back = b]
    <2>1. e \in CallType
      BY <2>0, <2>c, <2>b DEF CallType
    <2>2. ~ e.byFile => Aimed(e)
      BY <2>0, <2>c, <2>b, Constants DEF CallType, CallOk, Aimed
    <2>3. CallOk(t, e)
      BY <2>0, <2>c, <2>2 DEF CallType, CallOk
    <2>4. th' = [th EXCEPT ![t] = e]
      BY <2>c DEF RequeueIrp, b
    <2> HIDE DEF e
    <2>5. Moves(t) /\ th'[t] = e
      BY <2>1, <2>3, <2>4, CallMovesOn
    <2> QED
      BY <2>5 DEF e, b
  <1>2. th[t].irp = None
    BY <1>0 DEF CallOk, InHand
  <1>3. th'[t].irp = None /\ th'[t].back = Tail(th[t].back)
    BY <1>0, <1>1, <1>2 DEF CallType
  <1>4. (Insert(Head(th[t].back)) \/ InsertFails(Head(th[t].back))) /\ UNCHANGED sent
    BY DEF RequeueIrp
  <1>5. SameFile(t) /\ th'[t].pc \in Writing
    BY <1>0, <1>1 DEF SameFile, CallType, Writing
  <1> QED
    BY <1>0, <1>1, <1>2, <1>3, <1>4, <1>5, OthersHands DEF Effect, PutsBack

\* The call of t, which has no IRPs in its hands, goes on to one that has none.
LEMMA FreshEffect ==
  ASSUME TypeInv, CallsOk, NEW t \in Threads, Moves(t), th[t].irp = None, th[t].back = <<>>,
         th'[t].irp = None, th'[t].back = <<>>
  PROVE  /\ \A u \in Threads : SameHand(u)
         /\ UNCHANGED <<csq, irp, sent>> => Effect(t)
PROOF
  <1>1. SameHand(t)
    BY ZenonT(30) DEF SameHand
  <1> QED
    BY <1>1, OthersHands, QuietMoves

\* A step of no thread.
LEMMA StillMoves ==
  ASSUME TypeInv, CallsOk, NEW t \in Threads, th' = th
  PROVE  Moves(t) /\ \A u \in Threads : SameHand(u)
BY SMT DEF Moves, Alike, SameHand, TypeInv, CallsOk, CallOk, Aimed

\* The loop over the writes of a file or a destination is over.
LEMMA RequeueDoneEffect ==
  ASSUME TypeInv, CallsOk, NEW t \in Threads, RequeueDone(t)
  PROVE  Moves(t) /\ Effect(t) /\ NoFile(t)
PROOF
  <1>1. /\ Moves(t)
        /\ th'[t] = IF th[t].byFile \/ th[t].ents = {} THEN NoCall
                    ELSE [NoCall EXCEPT !.pc = "dests", !.ents = th[t].ents, !.sure = th[t].sure]
    <2>0. th[t] \in CallType /\ CallOk(t, th[t])
      BY GoesOn, SMT
    <2>1. CASE th[t].byFile \/ th[t].ents = {}
      <3>1. th' = [th EXCEPT ![t] = NoCall]
        BY <2>1 DEF RequeueDone
      <3> QED
        BY <2>1, <3>1, CallEnds
    <2>2. CASE ~ (th[t].byFile \/ th[t].ents = {})
      <3> DEFINE e == [NoCall EXCEPT !.pc = "dests", !.ents = th[t].ents, !.sure = th[t].sure]
      <3>1. th[t].ents \subseteq Answers /\ th[t].sure \in BOOLEAN
        BY <2>0 DEF CallType, CallOk, RequeueDone, Writing
      <3>2. e \in CallType /\ CallOk(t, e)
        <4> USE <3>1
        <4> USE NoCallFields DEF Pcs, Writing, Reading, InHand
        <4> DEFINE c == [NoCall EXCEPT !.pc = "dests", !.ents = th[t].ents, !.sure = th[t].sure]
        <4>1. c \in CallType
          BY DEF CallType
        <4>2. Aimed(c)
          BY Constants, ElementsFacts DEF Aimed, CallType
        <4>3. CallOk(t, c)
          BY <4>2 DEF CallOk, CallType
        <4> QED
          BY <4>1, <4>3
      <3>3. th' = [th EXCEPT ![t] = e]
        BY <2>2 DEF RequeueDone
      <3> HIDE DEF e
      <3>4. Moves(t) /\ th'[t] = e
        BY <3>2, <3>3, CallMovesOn
      <3> QED
        BY <2>2, <3>4 DEF e
    <2> QED
      BY <2>1, <2>2
  <1>2. /\ th'[t].irp = None /\ th'[t].back = <<>> /\ th'[t].pc \in {"idle", "dests"}
        /\ ~ th'[t].byFile /\ th'[t].dying = {} /\ th'[t].ctxs = {} /\ th'[t].todo = {}
    <2>1. CASE th'[t] = NoCall
      BY <2>1, NoCallFields
    <2>2. CASE th'[t] = [NoCall EXCEPT !.pc = "dests", !.ents = th[t].ents, !.sure = th[t].sure]
      BY <2>2, NoCallFields, SMT DEF CallType
    <2> QED
      BY <1>1, <2>1, <2>2
  <1>3. th[t].irp = None /\ th[t].back = <<>> /\ UNCHANGED <<csq, irp, sent>>
    BY GoesOn DEF CallOk, RequeueDone, InHand
  <1>4. NoFile(t)
    BY <1>2 DEF NoFile
  <1> QED
    BY <1>1, <1>2, <1>3, <1>4, FreshEffect

\* gh_v4v_copy_destination_ring_data
LEMMA CopyEffect ==
  ASSUME TypeInv, CallsOk, NEW t \in Threads, CopyDestinations(t)
  PROVE  Moves(t) /\ Effect(t) /\ NoFile(t)
PROOF
  <1>1. PICK x, A : Moves(t) /\ th'[t] = [NoCall EXCEPT !.pc = "notify", !.sure = x, !.ents = A]
    <2> DEFINE s == \A u \in Threads \ {t} : ~ Notifying(u)
               E == {[dst |-> d, len |-> dest[d].nextLength] : d \in {x \in Dests : dest[x].refc > 0}}
               e == [NoCall EXCEPT !.pc = "notify", !.sure = s, !.ents = E]
    <2>1. s \in BOOLEAN
      OBVIOUS
    <2>2. E \subseteq Asks
      BY SMT DEF TypeInv, DestType, Asks
    <2>3. th' = BeginNotify(t, e)
      BY DEF CopyDestinations
    <2> HIDE DEF s, E
    <2>4. e \in CallType /\ CallOk(t, e)
      <3> USE <2>1, <2>2
      <3> USE NoCallFields DEF Pcs, Writing, Reading, InHand
      <3> DEFINE c == [NoCall EXCEPT !.pc = "notify", !.sure = s, !.ents = E]
      <3>1. c \in CallType
        BY DEF CallType
      <3>2. Aimed(c)
        BY Constants, ElementsFacts, SMT DEF Aimed, CallType
      <3>3. CallOk(t, c)
        BY <3>2 DEF CallOk, CallType
      <3> QED
        BY <3>1, <3>3
    <2> HIDE DEF e
    <2>5. Moves(t) /\ th'[t] = e
      BY <2>3, <2>4, NotifyBegins
    <2> QED
      BY <2>5 DEF e, s, E
  <1>2. /\ th'[t].irp = None /\ th'[t].back = <<>> /\ th'[t].pc = "notify"
        /\ ~ th'[t].byFile /\ th'[t].dying = {} /\ th'[t].ctxs = {} /\ th'[t].todo = {}
    BY <1>1, NoCallFields, SMT DEF CallType
  <1>3. th[t].irp = None /\ th[t].back = <<>> /\ UNCHANGED <<csq, irp, sent>>
    BY EmptyHands DEF CopyDestinations, Writing, InHand
  <1>4. NoFile(t)
    BY <1>2 DEF NoFile
  <1> QED
    BY <1>1, <1>2, <1>3, <1>4, FreshEffect

\* A notify gives up.
LEMMA FailEffect ==
  ASSUME TypeInv, CallsOk, NEW t \in Threads, NotifyFails(t)
  PROVE  Moves(t) /\ Effect(t) /\ NoFile(t)
PROOF
  <1>1. Moves(t) /\ th'[t] = NoCall
    BY NoCallOk, NotifyBegins DEF NotifyFails
  <1>2. th'[t].irp = None /\ th'[t].back = <<>>
    BY <1>1, NoCallFields
  <1>3. th[t].irp = None /\ th[t].back = <<>> /\ UNCHANGED <<csq, irp, sent>>
    BY EmptyHands DEF NotifyFails, Writing, InHand
  <1>4. NoFile(t)
    BY <1>1, NoCallFields DEF NoFile
  <1> QED
    BY <1>1, <1>2, <1>3, <1>4, FreshEffect

\* What is known of the destinations asked about.
Asked(t) == {e.dst : e \in th[t].ents}
LenAsked(t) == [d \in Asked(t) |-> (CHOOSE e \in th[t].ents : e.dst = d).len]

\* The notify asks about destinations, and gets an answer for each.
LEMMA AskedFacts ==
  ASSUME TypeInv, CallsOk, NEW t \in Threads, th[t].pc = "notify"
  PROVE  /\ Asked(t) \subseteq Dests /\ th[t].ents \subseteq Asks
         /\ \A d \in Asked(t) : LenAsked(t)[d] \in Nat /\ Answer(d, LenAsked(t)[d]) \in Answers
         /\ \A d \in Asked(t) : [dst |-> d, len |-> LenAsked(t)[d]] \in th[t].ents
PROOF
  <1>0. th[t].ents \subseteq Asks
    BY GoesOn DEF CallOk
  <1>1. Asked(t) \subseteq Dests
    BY <1>0 DEF Asked, Asks
  <1>2. ASSUME NEW d \in Asked(t)
        PROVE  LenAsked(t)[d] \in Nat /\ [dst |-> d, len |-> LenAsked(t)[d]] \in th[t].ents
    <2>1. \E e \in th[t].ents : e.dst = d
      BY <1>2 DEF Asked
    <2> DEFINE e == CHOOSE e \in th[t].ents : e.dst = d
    <2>2. e \in th[t].ents /\ e.dst = d
      BY <2>1
    <2>3. LenAsked(t)[d] = e.len
      BY <1>2 DEF LenAsked
    <2> HIDE DEF e
    <2> QED
      BY <1>0, <2>2, <2>3 DEF Asks
  <1>3. ASSUME NEW d \in Dests, NEW n \in Nat PROVE Answer(d, n) \in Answers
    <2>1. Fits(d, n) \in BOOLEAN /\ (hv[d].ring # "none") \in BOOLEAN
      BY DEF Fits
    <2> QED
      BY <2>1 DEF Answer, Answers
  <1> QED
    BY <1>0, <1>1, <1>2, <1>3

\* V4VOP_notify, with the destinations nomem for which there is no memory.
LEMMA HypercallCases ==
  ASSUME TypeInv, CallsOk, NEW t \in Threads, NotifyHypercall(t)
  PROVE  \E nomem \in SUBSET Asked(t) :
           /\ nomem # {} => MayFail
           /\ events' = events + Cardinality(nomem) /\ Cardinality(nomem) <= MaxEvents - events
           /\ hv' = [d \in Dests |->
                       IF d \in Asked(t)
                       THEN [hv[d] EXCEPT !.pend = EntryAfter(d, LenAsked(t)[d], d \in nomem)]
                       ELSE hv[d]]
           /\ unwatched' = unwatched \cup {w \in Queued \cap Writes : DestOf[w] \in nomem}
           /\ Moves(t)
           /\ th'[t] = IF Asked(t) = {} THEN NoCall
                       ELSE [th[t] EXCEPT !.pc = "dests", !.sure = th[t].sure /\ nomem = {},
                                          !.ents = {Answer(d, LenAsked(t)[d]) : d \in Asked(t)}]
PROOF
  <1>1. PICK nomem \in SUBSET Asked(t) :
           /\ nomem # {} => MayFail
           /\ events' = events + Cardinality(nomem) /\ Cardinality(nomem) <= MaxEvents - events
           /\ hv' = [d \in Dests |->
                       IF d \in Asked(t)
                       THEN [hv[d] EXCEPT !.pend = EntryAfter(d, LenAsked(t)[d], d \in nomem)]
                       ELSE hv[d]]
           /\ unwatched' = unwatched \cup {w \in Queued \cap Writes : DestOf[w] \in nomem}
           /\ th' = [th EXCEPT ![t] =
                       IF Asked(t) = {} THEN NoCall
                       ELSE [th[t] EXCEPT !.pc = "dests", !.sure = th[t].sure /\ nomem = {},
                                          !.ents = {Answer(d, LenAsked(t)[d]) : d \in Asked(t)}]]
    BY DEF NotifyHypercall, Asked, LenAsked
  <1> DEFINE A == {Answer(d, LenAsked(t)[d]) : d \in Asked(t)}
             b == th[t].sure /\ nomem = {}
  <1>2. th[t].pc = "notify"
    BY DEF NotifyHypercall
  <1>3. A \subseteq Answers
    BY <1>2, AskedFacts
  <1>4. b \in BOOLEAN
    BY GoesOn DEF CallType
  <1>5. CASE Asked(t) = {}
    <2>1. th' = [th EXCEPT ![t] = NoCall]
      BY <1>1, <1>5
    <2>2. Moves(t) /\ th'[t] = NoCall
      BY <2>1, CallEnds
    <2> QED
      BY <1>1, <1>5, <2>2
  <1>6. CASE Asked(t) # {}
    <2>1. th' = [th EXCEPT ![t] = [th[t] EXCEPT !.pc = "dests", !.sure = b, !.ents = A]]
      BY <1>1, <1>6
    <2> HIDE DEF A, b
    <2>2. Moves(t) /\ th'[t] = [th[t] EXCEPT !.pc = "dests", !.sure = b, !.ents = A]
      <3> USE <1>2, <1>3, <1>4, <2>1
      <3> USE DEF Pcs, Writing, Reading, InHand
      <3>0. th[t] \in CallType /\ CallOk(t, th[t])
        BY GoesOn
      <3> DEFINE e == [th[t] EXCEPT !.pc = "dests", !.sure = b, !.ents = A]
      <3>1. e \in CallType
        BY <3>0 DEF CallType
      <3>2. ~ e.byFile => Aimed(e)
        BY <3>0 DEF CallType, CallOk, Aimed
      <3>3. CallOk(t, e)
        BY <3>0, <3>2 DEF CallType, CallOk
      <3>4. th' = [th EXCEPT ![t] = e]
        OBVIOUS
      <3> HIDE DEF e
      <3>5. Moves(t) /\ th'[t] = e
        BY <3>1, <3>3, <3>4, CallMovesOn
      <3> QED
        BY <3>5 DEF e
    <2> QED
      BY <1>1, <1>6, <2>2 DEF A, b
  <1> QED
    BY <1>5, <1>6

\* V4VOP_notify leaves the IRPs where they are.
LEMMA HypercallEffect ==
  ASSUME TypeInv, CallsOk, NEW t \in Threads, NotifyHypercall(t)
  PROVE  Moves(t) /\ Effect(t) /\ NoFile(t)
PROOF
  <1>1. PICK b, A : /\ Moves(t)
                    /\ \/ th'[t] = NoCall
                       \/ th'[t] = [th[t] EXCEPT !.pc = "dests", !.sure = b, !.ents = A]
    BY HypercallCases
  <1>2. th[t].irp = None /\ th[t].back = <<>> /\ UNCHANGED <<csq, irp, sent>>
    BY EmptyHands DEF NotifyHypercall, Writing, InHand
  <1>3. th'[t].irp = None /\ th'[t].back = <<>>
    BY <1>1, <1>2, GoesOn, NoCallFields, ZenonT(40) DEF CallType
  <1>4. th[t].ctxs = {} /\ th[t].todo = {} /\ th[t].dying = {} /\ ~ th[t].byFile
    BY NoContexts, GoesOn DEF NotifyHypercall, Reading, CallOk, Writing, InHand
  <1>5. NoFile(t)
    <2>1. CASE th'[t] = NoCall
      BY <2>1, NoCallFields DEF NoFile
    <2>2. CASE th'[t] = [th[t] EXCEPT !.pc = "dests", !.sure = b, !.ents = A]
      BY <1>4, <2>2, GoesOn DEF NoFile, CallType
    <2> QED
      BY <1>1, <2>1, <2>2
  <1> QED
    BY <1>1, <1>2, <1>3, <1>5, FreshEffect

\* The two outcomes of a look at the ring.
Stops(t) ==
  LET f == th[t].file IN
  /\ inbox[f] = 0 \/ ctx[f].mapped \/ Queued \cap ReadsOf(f) = {}
  /\ th'[t] = [th[t] EXCEPT !.pc = IF inbox[f] = 0 THEN "clear" ELSE "set"]
  /\ UNCHANGED <<csq, inbox, irp>>

TakesRead(t) ==
  LET f == th[t].file IN
  /\ inbox[f] # 0 /\ ~ ctx[f].mapped
  /\ \E r \in Queued \cap ReadsOf(f) : Remove(r) /\ irp' = [irp EXCEPT ![r] = "ok"]
  /\ inbox' = [inbox EXCEPT ![f] = @ - 1]
  /\ th'[t] = [th[t] EXCEPT !.pc = "take", !.notify = TRUE]

\* gh_v4v_process_datagram_reads completes a read, or stops.
LEMMA ReadCases ==
  ASSUME TypeInv, CallsOk, NEW t \in Threads, ReadTake(t)
  PROVE  /\ Moves(t) /\ (Stops(t) \/ TakesRead(t)) /\ th[t].file \in Files
         /\ th[t].pc \in {"reads", "take"}
         /\ \A u \in Threads : SameHand(u)
PROOF
  <1> DEFINE f == th[t].file
             r == Peek(ReadsOf(f))
             p == IF inbox[f] = 0 THEN "clear" ELSE "set"
  <1>0. th[t] \in CallType /\ CallOk(t, th[t]) /\ queue \in Seq(Irps) /\ th[t].pc \in {"reads", "take"}
    BY GoesOn DEF TypeInv, ReadTake
  <1>1. f \in Files
    BY <1>0 DEF CallOk, Reading
  <1>2. (r = None /\ Queued \cap ReadsOf(f) = {}) \/ r \in Queued \cap ReadsOf(f)
    BY <1>0, PeekFacts
  <1>3. r \in ReadsOf(f) => r # None
    BY Constants DEF ReadsOf
  <1>4. CASE inbox[f] = 0 \/ ctx[f].mapped \/ r = None
    <2>1. th' = Goto(t, p) /\ UNCHANGED <<csq, inbox, irp>>
      BY <1>4 DEF ReadTake
    <2>2. p \in {"clear", "set"}
      OBVIOUS
    <2>3. inbox[f] = 0 \/ ctx[f].mapped \/ Queued \cap ReadsOf(f) = {}
      BY <1>2, <1>3, <1>4
    <2> HIDE DEF p, r
    <2>4. Moves(t) /\ th'[t] = [th[t] EXCEPT !.pc = p]
      <3> USE <1>0, <2>1, <2>2
      <3> USE DEF Pcs, Writing, Reading, InHand
      <3>0. th[t] \in CallType /\ CallOk(t, th[t])
        BY GoesOn
      <3>c. th[t].pc \in {"reads", "take"} /\ th[t].file \in Files
        BY <3>0 DEF CallOk, Goto
      <3> DEFINE e == [th[t] EXCEPT !.pc = p]
      <3>1. e \in CallType
        BY <3>0, <3>c DEF CallType
      <3>2. ~ e.byFile => Aimed(e)
        BY <3>0, <3>c, Constants DEF CallType, CallOk, Aimed
      <3>3. CallOk(t, e)
        BY <3>0, <3>c, <3>2 DEF CallType, CallOk
      <3>4. th' = [th EXCEPT ![t] = e]
        BY <3>c DEF Goto
      <3> HIDE DEF e
      <3>5. Moves(t) /\ th'[t] = e
        BY <3>1, <3>3, <3>4, CallMovesOn
      <3> QED
        BY <3>5 DEF e
    <2>5. Stops(t)
      BY <2>1, <2>3, <2>4 DEF Stops, p
    <2>6. SameHand(t)
      BY <1>0, <2>4 DEF SameHand, CallType
    <2> QED
      BY <1>0, <1>1, <2>4, <2>5, <2>6, OthersHands
  <1>5. CASE ~ (inbox[f] = 0 \/ ctx[f].mapped \/ r = None)
    <2>1. /\ Remove(r) /\ inbox' = [inbox EXCEPT ![f] = @ - 1] /\ irp' = [irp EXCEPT ![r] = "ok"]
          /\ th' = [th EXCEPT ![t].pc = "take", ![t].notify = TRUE]
      BY <1>5 DEF ReadTake
    <2>2. r \in Queued \cap ReadsOf(f)
      BY <1>2, <1>5
    <2> HIDE DEF r
    <2>3. Moves(t) /\ th'[t] = [th[t] EXCEPT !.pc = "take", !.notify = TRUE]
      <3> USE <1>0, <2>1
      <3> USE DEF Pcs, Writing, Reading, InHand
      <3>0. th[t] \in CallType /\ CallOk(t, th[t])
        BY GoesOn
      <3>c. th[t].pc \in {"reads", "take"} /\ th[t].file \in Files
        BY <3>0 DEF CallOk, Goto
      <3> DEFINE e == [th[t] EXCEPT !.pc = "take", !.notify = TRUE]
      <3>1. e \in CallType
        BY <3>0, <3>c DEF CallType
      <3>2. ~ e.byFile => Aimed(e)
        BY <3>0, <3>c, Constants DEF CallType, CallOk, Aimed
      <3>3. CallOk(t, e)
        BY <3>0, <3>c, <3>2 DEF CallType, CallOk
      <3>4. th' = [th EXCEPT ![t] = e]
        BY <3>c DEF Goto
      <3> HIDE DEF e
      <3>5. Moves(t) /\ th'[t] = e
        BY <3>1, <3>3, <3>4, CallMovesOn
      <3> QED
        BY <3>5 DEF e
    <2>4. TakesRead(t)
      BY <1>5, <2>1, <2>2, <2>3 DEF TakesRead
    <2>5. SameHand(t)
      BY <1>0, <2>3 DEF SameHand, CallType
    <2> QED
      BY <1>0, <1>1, <2>3, <2>4, <2>5, OthersHands
  <1> QED
    BY <1>4, <1>5

\* A read is completed with a message.
LEMMA ReadEffect ==
  ASSUME TypeInv, CallsOk, NEW t \in Threads, ReadTake(t)
  PROVE  Moves(t) /\ Effect(t)
PROOF
  <1>1. /\ Moves(t) /\ (Stops(t) \/ TakesRead(t))
        /\ \A u \in Threads : SameHand(u)
    BY ReadCases
  <1>2. UNCHANGED sent
    BY DEF ReadTake
  <1>3. CASE Stops(t)
    BY <1>1, <1>2, <1>3, QuietMoves DEF Stops
  <1>4. CASE TakesRead(t)
    <2>1. PICK r \in Queued \cap ReadsOf(th[t].file) : Remove(r) /\ irp' = [irp EXCEPT ![r] = "ok"]
      BY <1>4 DEF TakesRead
    <2>2. r \in Reads
      BY DEF ReadsOf
    <2> QED
      BY <1>1, <1>2, <2>1, <2>2 DEF Effect, Ends
  <1> QED
    BY <1>1, <1>3, <1>4

\* The reads of a file are over.
LEMMA ReadEndEffect ==
  ASSUME TypeInv, CallsOk, NEW t \in Threads, ReadEnd(t)
  PROVE  /\ Moves(t) /\ Effect(t)
         /\ th'[t] = IF t = Virq
                     THEN [NoCall EXCEPT !.pc = "contexts", !.ctxs = th[t].ctxs, !.todo = th[t].todo]
                     ELSE [NoCall EXCEPT !.pc = IF th[t].notify THEN "copy" ELSE "idle"]
PROOF
  <1>1. /\ Moves(t)
        /\ th'[t] = IF t = Virq
                    THEN [NoCall EXCEPT !.pc = "contexts", !.ctxs = th[t].ctxs, !.todo = th[t].todo]
                    ELSE [NoCall EXCEPT !.pc = IF th[t].notify THEN "copy" ELSE "idle"]
    <2>0. th[t] \in CallType /\ CallOk(t, th[t])
      BY GoesOn, SMT
    <2>1. CASE t = Virq
      <3> DEFINE e == [NoCall EXCEPT !.pc = "contexts", !.ctxs = th[t].ctxs, !.todo = th[t].todo]
      <3>1. th[t].ctxs \in SUBSET Files /\ th[t].todo \in SUBSET th[t].ctxs
        BY <2>0 DEF CallType, CallOk
      <3>2. e \in CallType /\ CallOk(t, e)
        BY <2>1, <3>1, ContextsOk
      <3>3. th' = [th EXCEPT ![t] = e]
        BY <2>1 DEF ReadEnd
      <3> HIDE DEF e
      <3>4. Moves(t) /\ th'[t] = e
        BY <3>2, <3>3, CallMovesOn
      <3> QED
        BY <2>1, <3>4 DEF e
    <2>2. CASE t # Virq
      <3> DEFINE p == IF th[t].notify THEN "copy" ELSE "idle"
                 e == [NoCall EXCEPT !.pc = p]
      <3>1. p \in {"idle", "copy"}
        OBVIOUS
      <3>2. th' = [th EXCEPT ![t] = e]
        BY <2>2 DEF ReadEnd
      <3> HIDE DEF p
      <3>3. e \in CallType /\ CallOk(t, e)
        <4> USE <3>1
        <4> USE NoCallFields DEF Pcs, Writing, Reading, InHand
        <4> DEFINE c == [NoCall EXCEPT !.pc = p]
        <4>1. c \in CallType
          BY DEF CallType
        <4>2. Aimed(c)
          BY Constants, ElementsFacts, SMT DEF Aimed, CallType
        <4>3. CallOk(t, c)
          BY <4>2 DEF CallOk, CallType
        <4> QED
          BY <4>1, <4>3
      <3> HIDE DEF e
      <3>4. Moves(t) /\ th'[t] = e
        BY <3>2, <3>3, CallMovesOn
      <3> QED
        BY <2>2, <3>4 DEF e, p
    <2> QED
      BY <2>1, <2>2
  <1>2. th'[t].irp = None /\ th'[t].back = <<>>
    BY <1>1, NoCallFields DEF CallType
  <1>3. th[t].irp = None /\ th[t].back = <<>> /\ UNCHANGED <<csq, irp, sent>>
    BY EmptyHands DEF ReadEnd, Writing, InHand
  <1> QED
    BY <1>1, <1>2, <1>3, FreshEffect

\* A notify, and the interrupt thread, begin.
LEMMA GotoEffect ==
  ASSUME TypeInv, CallsOk, NEW t \in Threads, NEW p,
         (Notify(t) /\ p = "copy") \/ (t = Virq /\ VirqWake /\ p = "getall")
  PROVE  Moves(t) /\ Effect(t) /\ th'[t] = [th[t] EXCEPT !.pc = p]
PROOF
  <1>1. Moves(t) /\ th'[t] = [th[t] EXCEPT !.pc = p]
    <2> USE DEF Pcs, Writing, Reading, InHand
    <2>0. th[t] \in CallType /\ CallOk(t, th[t])
      BY GoesOn
    <2>c. th[t].pc = "idle" /\ p \in {"copy", "getall"} /\ (p = "getall" => t = Virq)
      BY <2>0 DEF Notify, VirqWake
    <2> DEFINE e == [th[t] EXCEPT !.pc = p]
    <2>1. e \in CallType
      BY <2>0, <2>c DEF CallType
    <2>2. ~ e.byFile => Aimed(e)
      BY <2>0, <2>c, Constants DEF CallType, CallOk, Aimed
    <2>3. CallOk(t, e)
      BY <2>0, <2>c, <2>2 DEF CallType, CallOk
    <2>4. th' = [th EXCEPT ![t] = e]
      BY DEF Notify, VirqWake, Goto
    <2> HIDE DEF e
    <2>5. Moves(t) /\ th'[t] = e
      BY <2>1, <2>3, <2>4, CallMovesOn
    <2> QED
      BY <2>5 DEF e
  <1>2. SameHand(t)
    BY <1>1, GoesOn DEF CallType, SameHand
  <1>3. UNCHANGED <<csq, irp, sent>>
    BY DEF Notify, VirqWake
  <1> QED
    BY <1>1, <1>2, <1>3, QuietMoves

Listed == {f \in Files : ctx[f].listed}

\* gh_v4v_get_all_contexts has the listed contexts, or no memory.
LEMMA GetAllCases ==
  ASSUME TypeInv, CallsOk, GetAllContexts
  PROVE  /\ Moves(Virq)
         /\ \/ /\ th'[Virq] = [NoCall EXCEPT !.pc = "contexts", !.ctxs = Listed, !.todo = Listed]
               /\ ctx' = [f \in Files |-> IF f \in Listed THEN [ctx[f] EXCEPT !.refc = @ + 1] ELSE ctx[f]]
               /\ skipped' = FALSE
            \/ th'[Virq] = [th[Virq] EXCEPT !.pc = "copy"] /\ ctx' = ctx /\ skipped' = TRUE
PROOF
  <1>0. Virq \in Threads /\ th[Virq].pc = "getall"
    BY DEF GetAllContexts
  <1>1. \/ /\ th' = [th EXCEPT ![Virq] = [NoCall EXCEPT !.pc = "contexts", !.ctxs = Listed, !.todo = Listed]]
           /\ ctx' = [f \in Files |-> IF f \in Listed THEN [ctx[f] EXCEPT !.refc = @ + 1] ELSE ctx[f]]
           /\ skipped' = FALSE
        \/ th' = Goto(Virq, "copy") /\ ctx' = ctx /\ skipped' = TRUE
    BY DEF GetAllContexts, Listed
  <1>2. Listed \in SUBSET Files
    BY DEF Listed
  <1>3. ASSUME th' = Goto(Virq, "copy")
        PROVE  Moves(Virq) /\ th'[Virq] = [th[Virq] EXCEPT !.pc = "copy"]
    <2> USE <1>0, <1>3
    <2> USE DEF Pcs, Writing, Reading, InHand
    <2>0. th[Virq] \in CallType /\ CallOk(Virq, th[Virq])
      BY GoesOn
    <2>c. th[Virq].pc = "getall"
      BY <2>0 DEF CallOk, Goto
    <2> DEFINE e == [th[Virq] EXCEPT !.pc = "copy"]
    <2>1. e \in CallType
      BY <2>0, <2>c DEF CallType
    <2>2. ~ e.byFile => Aimed(e)
      BY <2>0, <2>c, Constants DEF CallType, CallOk, Aimed
    <2>3. CallOk(Virq, e)
      BY <2>0, <2>c, <2>2 DEF CallType, CallOk
    <2>4. th' = [th EXCEPT ![Virq] = e]
      BY <2>c DEF Goto
    <2> HIDE DEF e
    <2>5. Moves(Virq) /\ th'[Virq] = e
      BY <2>1, <2>3, <2>4, CallMovesOn
    <2> QED
      BY <2>5 DEF e
  <1>4. ASSUME th' = [th EXCEPT ![Virq] = [NoCall EXCEPT !.pc = "contexts", !.ctxs = Listed, !.todo = Listed]]
        PROVE  Moves(Virq) /\ th'[Virq] = [NoCall EXCEPT !.pc = "contexts", !.ctxs = Listed, !.todo = Listed]
    <2> USE <1>0, <1>2, <1>4
    <2> DEFINE e == [NoCall EXCEPT !.pc = "contexts", !.ctxs = Listed, !.todo = Listed]
    <2>1. e \in CallType /\ CallOk(Virq, e)
      BY ContextsOk
    <2> HIDE DEF e
    <2>2. th' = [th EXCEPT ![Virq] = e]
      BY DEF e
    <2>3. Moves(Virq) /\ th'[Virq] = e
      BY <2>1, <2>2, CallMovesOn
    <2> QED
      BY <2>3 DEF e
  <1> QED
    BY <1>1, <1>3, <1>4

\* gh_v4v_get_all_contexts leaves the IRPs where they are.
LEMMA GetAllEffect ==
  ASSUME TypeInv, CallsOk, GetAllContexts
  PROVE  Moves(Virq) /\ Effect(Virq)
PROOF
  <1>0. Virq \in Threads /\ th[Virq].pc = "getall" /\ UNCHANGED <<csq, irp, sent>>
    BY DEF GetAllContexts
  <1>1. /\ Moves(Virq)
        /\ \/ th'[Virq] = [NoCall EXCEPT !.pc = "contexts", !.ctxs = Listed, !.todo = Listed]
           \/ th'[Virq] = [th[Virq] EXCEPT !.pc = "copy"]
    BY GetAllCases
  <1>2. th[Virq].irp = None /\ th[Virq].back = <<>>
    BY <1>0, EmptyHands DEF Writing, InHand
  <1>3. th'[Virq].irp = None /\ th'[Virq].back = <<>>
    BY <1>0, <1>1, <1>2, GoesOn, NoCallFields DEF CallType
  <1> QED
    BY <1>0, <1>1, <1>2, <1>3, FreshEffect

\* gh_v4v_process_context_reads turns to the next context.
LEMMA ContextEffect ==
  ASSUME TypeInv, CallsOk, NEW f \in Files, ContextReads(f)
  PROVE  /\ Moves(Virq) /\ Effect(Virq)
         /\ th'[Virq] = [th[Virq] EXCEPT !.todo = @ \ {f}, !.file = f,
                                         !.pc = IF ctx[f].state = "bound" THEN "reads" ELSE @]
PROOF
  <1>1. /\ Moves(Virq)
        /\ th'[Virq] = [th[Virq] EXCEPT !.todo = @ \ {f}, !.file = f,
                                        !.pc = IF ctx[f].state = "bound" THEN "reads" ELSE @]
    <2> USE DEF Pcs, Writing, Reading, InHand
    <2>0. th[Virq] \in CallType /\ CallOk(Virq, th[Virq])
      BY GoesOn
    <2>c. th[Virq].pc = "contexts" /\ f \in th[Virq].todo
      BY <2>0 DEF CallOk, ContextReads
    <2> DEFINE e == [th[Virq] EXCEPT !.todo = @ \ {f}, !.file = f,
                                  !.pc = IF ctx[f].state = "bound" THEN "reads" ELSE @]
    <2>1. e \in CallType
      BY <2>0, <2>c DEF CallType
    <2>2. ~ e.byFile => Aimed(e)
      BY <2>0, <2>c, Constants DEF CallType, CallOk, Aimed
    <2>3. CallOk(Virq, e)
      BY <2>0, <2>c, <2>2 DEF CallType, CallOk
    <2>4. th' = [th EXCEPT ![Virq] = e]
      BY <2>c DEF ContextReads
    <2> HIDE DEF e
    <2>5. Moves(Virq) /\ th'[Virq] = e
      BY <2>1, <2>3, <2>4, CallMovesOn
    <2> QED
      BY <2>5 DEF e
  <1>2. SameHand(Virq)
    BY <1>1, GoesOn DEF CallType, SameHand
  <1>3. UNCHANGED <<csq, irp, sent>>
    BY DEF ContextReads
  <1> QED
    BY <1>1, <1>2, <1>3, QuietMoves

\* The fields of a call that has contexts to end.
LEMMA EndingFields ==
  ASSUME NEW t, NEW F
  PROVE  LET c == Ending(t, F) IN
         /\ c.pc = (IF F # {} THEN "end" ELSE IF t = Virq THEN "copy" ELSE "idle")
         /\ c.irp = None /\ c.file = None /\ c.ents = {} /\ c.ent = None
         /\ c.first /\ ~ c.byFile /\ c.back = <<>>
         /\ ~ c.notify /\ c.sure /\ c.ctxs = {} /\ c.todo = {} /\ c.dying = F
BY NoCallFields DEF Ending, CallType

\* A call that has given back references goes on to end contexts.
LEMMA EndingEffect ==
  ASSUME TypeInv, CallsOk, NEW t \in Threads, NEW F \in SUBSET Files,
         th' = [th EXCEPT ![t] = Ending(t, F)], th[t].pc \notin Writing, UNCHANGED <<csq, irp, sent>>
  PROVE  Moves(t) /\ Effect(t) /\ th'[t] = Ending(t, F)
PROOF
  <1>1. Moves(t) /\ th'[t] = Ending(t, F)
    <2>1. Ending(t, F) \in CallType /\ CallOk(t, Ending(t, F))
      <3> USE NoCallFields DEF Pcs, Writing, Reading, InHand
      <3> DEFINE c == [NoCall EXCEPT !.dying = F, !.pc = IF F # {} THEN "end" ELSE IF t = Virq THEN "copy" ELSE "idle"]
      <3>1. c \in CallType
        BY ZenonT(40) DEF CallType
      <3>2. Aimed(c)
        BY Constants, ElementsFacts, SMT DEF Aimed, CallType
      <3>3. CallOk(t, c)
        BY <3>2 DEF CallOk, CallType
      <3> QED
        BY <3>1, <3>3 DEF Ending
    <2> QED
      BY <2>1, CallMovesOn
  <1>2. th[t].irp = None /\ th[t].back = <<>>
    BY EmptyHands
  <1>3. th'[t].irp = None /\ th'[t].back = <<>>
    BY <1>1, EndingFields, SMT
  <1> QED
    BY <1>1, <1>2, <1>3, FreshEffect

\* gh_v4v_put_all_contexts
LEMMA PutAllEffect ==
  ASSUME TypeInv, CallsOk, PutAllContexts
  PROVE  /\ Moves(Virq) /\ Effect(Virq)
         /\ th'[Virq] = Ending(Virq, {f \in th[Virq].ctxs : ctx'[f].refc = 0})
PROOF
  <1> DEFINE F == {f \in th[Virq].ctxs : ctx'[f].refc = 0}
  <1>1. F \in SUBSET Files
    BY GoesOn DEF CallType
  <1>2. /\ th' = [th EXCEPT ![Virq] = Ending(Virq, F)] /\ th[Virq].pc \notin Writing
        /\ UNCHANGED <<csq, irp, sent>>
    BY DEF PutAllContexts, Writing, InHand
  <1> HIDE DEF F
  <1>3. Moves(Virq) /\ Effect(Virq) /\ th'[Virq] = Ending(Virq, F)
    BY <1>1, <1>2, EndingEffect
  <1> QED
    BY <1>3 DEF F

\* gh_v4v_dispatch_cleanup gives back the reference of the handle.
LEMMA ReleaseEffect ==
  ASSUME TypeInv, CallsOk, NEW t \in Threads, Release(t)
  PROVE  /\ Moves(t) /\ Effect(t)
         /\ th'[t] = Ending(t, IF ctx'[th[t].file].refc = 0 THEN {th[t].file} ELSE {})
PROOF
  <1> DEFINE F == IF ctx'[th[t].file].refc = 0 THEN {th[t].file} ELSE {}
  <1>1. F \in SUBSET Files
    BY GoesOn DEF CallOk, Release
  <1>2. /\ th' = [th EXCEPT ![t] = Ending(t, F)] /\ th[t].pc \notin Writing
        /\ UNCHANGED <<csq, irp, sent>>
    BY DEF Release, Writing, InHand
  <1> HIDE DEF F
  <1>3. Moves(t) /\ Effect(t) /\ th'[t] = Ending(t, F)
    BY <1>1, <1>2, EndingEffect
  <1> QED
    BY <1>3 DEF F

\* gh_v4v_dispatch_cleanup takes the context off the list.
LEMMA CleanupEffect ==
  ASSUME TypeInv, CallsOk, NEW t \in Threads, NEW f \in Files, Cleanup(t, f)
  PROVE  /\ Moves(t) /\ Effect(t) /\ t # Virq
         /\ th'[t] = [NoCall EXCEPT !.pc = "release", !.file = f]
PROOF
  <1>0. t # Virq
    BY Constants DEF Cleanup
  <1>1. Moves(t) /\ th'[t] = [NoCall EXCEPT !.pc = "release", !.file = f]
    BY <1>0, FileBegins DEF Cleanup
  <1>2. th'[t].irp = None /\ th'[t].back = <<>>
    BY <1>1, NoCallFields, SMT DEF CallType
  <1>3. th[t].irp = None /\ th[t].back = <<>> /\ UNCHANGED <<csq, irp, sent>>
    BY EmptyHands DEF Cleanup, Writing, InHand
  <1> QED
    BY <1>0, <1>1, <1>2, <1>3, FreshEffect

\* The two steps of gh_v4v_cancel_all_file_irps.
Cancels(f) ==
  /\ \E w \in Queued \cap WritesOf(f) : Remove(w) /\ irp' = [irp EXCEPT ![w] = "cancelled"]
  /\ UNCHANGED <<ctx, th>>

Frees(t, f) ==
  /\ Queued \cap WritesOf(f) = {}
  /\ ctx' = [ctx EXCEPT ![f].freed = TRUE]
  /\ th'[t] = Ending(t, th[t].dying \ {f})
  /\ UNCHANGED <<csq, irp>>

\* gh_v4v_cancel_all_file_irps cancels a write, or has cancelled all.
LEMMA EndEffect ==
  ASSUME TypeInv, CallsOk, NEW t \in Threads, NEW f \in Files, EndContext(t, f)
  PROVE  Moves(t) /\ Effect(t) /\ (Cancels(f) \/ Frees(t, f))
PROOF
  <1> DEFINE w == Peek(WritesOf(f))
  <1>0. queue \in Seq(Irps) /\ th[t].pc = "end" /\ f \in th[t].dying /\ UNCHANGED sent
    BY DEF TypeInv, EndContext
  <1>1. (w = None /\ Queued \cap WritesOf(f) = {}) \/ w \in Queued \cap WritesOf(f)
    BY <1>0, PeekFacts
  <1>2. CASE w # None
    <2>1. Remove(w) /\ irp' = [irp EXCEPT ![w] = "cancelled"] /\ UNCHANGED <<ctx, th>>
      BY <1>2 DEF EndContext
    <2>2. w \in Queued \cap WritesOf(f) /\ w \in Irps
      BY <1>1, <1>2 DEF WritesOf
    <2> HIDE DEF w
    <2>3. Moves(t) /\ \A u \in Threads : SameHand(u)
      BY <2>1, StillMoves
    <2> QED
      BY <1>0, <2>1, <2>2, <2>3 DEF Effect, Ends, Cancels
  <1>3. CASE w = None
    <2>1. /\ ctx' = [ctx EXCEPT ![f].freed = TRUE]
          /\ th' = [th EXCEPT ![t] = Ending(t, th[t].dying \ {f})]
          /\ UNCHANGED <<csq, irp>>
      BY <1>3 DEF EndContext
    <2>2. Queued \cap WritesOf(f) = {}
      BY <1>1, <1>3, Constants DEF WritesOf
    <2>3. th[t].dying \ {f} \in SUBSET Files /\ th[t].pc \notin Writing
      BY <1>0, GoesOn DEF CallType, Writing, InHand
    <2>4. Moves(t) /\ Effect(t) /\ th'[t] = Ending(t, th[t].dying \ {f})
      BY <1>0, <2>1, <2>3, EndingEffect
    <2> QED
      BY <2>1, <2>2, <2>4 DEF Frees
  <1> QED
    BY <1>2, <1>3

\* gh_v4v_dispatch_write and gh_v4v_dispatch_read queue the IRP, or refuse it.
LEMMA DispatchEffect ==
  ASSUME TypeInv, CallsOk, NEW t \in Threads, NEW i \in Irps,
         (i \in Writes /\ DispatchWrite(t, i)) \/ (i \in Reads /\ DispatchRead(t, i))
  PROVE  /\ Moves(t) /\ Effect(t) /\ t # Virq /\ Issuable(i) /\ th[t].pc = "idle"
         /\ \/ /\ Insert(i)
               /\ th'[t] = IF i \in Writes
                           THEN [NoCall EXCEPT !.pc = "lock", !.file = FileOf[i], !.byFile = TRUE]
                           ELSE [NoCall EXCEPT !.pc = "reads", !.file = FileOf[i]]
            \/ InsertFails(i) /\ th' = th
PROOF
  <1>0. t # Virq /\ th[t].pc = "idle" /\ UNCHANGED sent /\ Issuable(i) /\ irp[i] = "new"
        /\ ctx[FileOf[i]].state = "bound"
    BY Constants DEF DispatchWrite, DispatchRead, Issuable
  <1>1. th[t].irp = None /\ th[t].back = <<>>
    BY <1>0, EmptyHands DEF Writing, InHand
  <1>2. FileOf[i] \in Files /\ ~ (i \in Reads /\ i \in Writes)
    BY Constants
  <1>3. CASE InsertFails(i) /\ th' = th
    <2>1. Moves(t) /\ \A u \in Threads : SameHand(u)
      BY <1>3, StillMoves
    <2> QED
      BY <1>0, <1>3, <2>1 DEF Effect, Issues
  <1>4. CASE i \in Writes /\ Insert(i)
             /\ th' = [th EXCEPT ![t] = [NoCall EXCEPT !.pc = "lock", !.file = FileOf[i], !.byFile = TRUE]]
    <2>1. Moves(t) /\ th'[t] = [NoCall EXCEPT !.pc = "lock", !.file = FileOf[i], !.byFile = TRUE]
      <3> USE <1>2, <1>4
      <3> DEFINE e == [NoCall EXCEPT !.pc = "lock", !.file = FileOf[i], !.byFile = TRUE]
      <3>1. e \in CallType /\ CallOk(t, e)
        <4> USE NoCallFields DEF Pcs, Writing, Reading, InHand
        <4> DEFINE c == [NoCall EXCEPT !.pc = "lock", !.file = FileOf[i], !.byFile = TRUE]
        <4>1. c \in CallType
          BY DEF CallType
        <4>2. Aimed(c)
          BY Constants, ElementsFacts, SMT DEF Aimed, CallType
        <4>3. CallOk(t, c)
          BY <4>2 DEF CallOk, CallType
        <4> QED
          BY <4>1, <4>3
      <3> HIDE DEF e
      <3>2. th' = [th EXCEPT ![t] = e]
        BY DEF e
      <3>3. Moves(t) /\ th'[t] = e
        BY <3>1, <3>2, CallMovesOn
      <3> QED
        BY <3>3 DEF e
    <2>2. th'[t].irp = None /\ th'[t].back = <<>>
      BY <2>1, NoCallFields, SMT DEF CallType
    <2>3. \A u \in Threads : SameHand(u)
      BY <1>1, <2>1, <2>2, FreshEffect
    <2>4. Effect(t)
      BY <1>0, <1>4, <2>3 DEF Effect, Issues
    <2> QED
      BY <1>0, <1>4, <2>1, <2>4
  <1>5. CASE i \in Reads /\ Insert(i)
             /\ th' = [th EXCEPT ![t] = [NoCall EXCEPT !.pc = "reads", !.file = FileOf[i]]]
    <2>1. Moves(t) /\ th'[t] = [NoCall EXCEPT !.pc = "reads", !.file = FileOf[i]]
      BY <1>0, <1>2, <1>5, FileBegins
    <2>2. th'[t].irp = None /\ th'[t].back = <<>>
      BY <2>1, NoCallFields, SMT DEF CallType
    <2>3. \A u \in Threads : SameHand(u)
      BY <1>1, <2>1, <2>2, FreshEffect
    <2>4. Effect(t)
      BY <1>0, <1>5, <2>3 DEF Effect, Issues
    <2> QED
      BY <1>0, <1>2, <1>5, <2>1, <2>4
  <1> QED
    BY <1>3, <1>4, <1>5 DEF DispatchWrite, DispatchRead

\* The kinds of step.
LEMMA NextCases ==
  ASSUME Next
  PROVE  \/ \E t \in Threads : Step(t)
         \/ \E t \in Callers : Call(t)
         \/ VirqWake \/ GetAllContexts \/ PutAllContexts \/ \E f \in Files : ContextReads(f)
         \/ \E d \in Dests : Peer(d)
         \/ \E f \in Files : MessageArrives(f) \/ ClientReads(f)
         \/ \E i \in Irps : CancelIrp(i)
BY DEF Next, VirqStep

\* What the provers need of each step, for every invariant.
LEMMA NextEffect ==
  ASSUME TypeInv, CallsOk, [Next]_vars
  PROVE  \E t \in Threads : Moves(t) /\ Effect(t)
PROOF
  <1>v. Virq \in Threads
    OBVIOUS
  <1>1. ASSUME NEW t \in Threads, Step(t) PROVE Moves(t) /\ Effect(t)
    <2>1. CASE PopWrite(t)
      BY <2>1, PopCases, PopEffect
    <2>2. ASSUME NEW f \in Files, EndContext(t, f) PROVE Moves(t) /\ Effect(t)
      BY <2>2, EndEffect
    <2> QED
      BY <1>1, <2>1, <2>2, LockEffect, WriteEffect, RequeueEffect, RequeueDoneEffect, CopyEffect,
         HypercallEffect, FailEffect, ReadEffect, ReadEndEffect, ReleaseEffect DEF Step
  <1>2. ASSUME NEW t \in Callers, Call(t) PROVE Moves(t) /\ Effect(t)
    <2>1. t \in Threads
      OBVIOUS
    <2>2. ASSUME NEW w \in Writes, DispatchWrite(t, w) PROVE Moves(t) /\ Effect(t)
      BY <2>1, <2>2, DispatchEffect
    <2>3. ASSUME NEW r \in Reads, DispatchRead(t, r) PROVE Moves(t) /\ Effect(t)
      BY <2>1, <2>3, DispatchEffect
    <2>4. ASSUME NEW f \in Files, Cleanup(t, f) PROVE Moves(t) /\ Effect(t)
      BY <2>1, <2>4, CleanupEffect
    <2> QED
      BY <1>2, <2>1, <2>2, <2>3, <2>4, GotoEffect DEF Call
  <1>3. ASSUME th' = th, UNCHANGED <<csq, irp, sent>> PROVE Moves(Virq) /\ Effect(Virq)
    BY <1>v, <1>3, StillMoves, QuietMoves
  <1>4. ASSUME NEW d \in Dests, Peer(d) PROVE th' = th /\ UNCHANGED <<csq, irp, sent>>
    BY <1>4 DEF Peer, PeerReads, PeerNotifies, PeerRegisters
  <1>5. ASSUME NEW f \in Files, MessageArrives(f) \/ ClientReads(f)
        PROVE  th' = th /\ UNCHANGED <<csq, irp, sent>>
    BY <1>5 DEF MessageArrives, ClientReads
  <1>6. ASSUME NEW i \in Irps, CancelIrp(i) PROVE Moves(Virq) /\ Effect(Virq)
    <2>1. th' = th /\ Ends(i)
      BY <1>v, <1>6, StillMoves DEF CancelIrp, Ends
    <2> QED
      BY <1>v, <2>1, StillMoves DEF Effect
  <1>7. CASE UNCHANGED vars
    <2>1. th' = th /\ UNCHANGED <<csq, irp, sent>>
      BY <1>7 DEF vars, csq
    <2> QED
      BY <1>v, <1>3, <2>1
  <1>8. CASE Next
    <2>1. ASSUME NEW t \in Threads, Step(t) PROVE \E u \in Threads : Moves(u) /\ Effect(u)
      BY <1>1, <2>1
    <2>2. ASSUME NEW t \in Callers, Call(t) PROVE \E u \in Threads : Moves(u) /\ Effect(u)
      BY <1>2, <2>2
    <2>3. CASE VirqWake
      BY <1>v, <2>3, GotoEffect
    <2>4. CASE GetAllContexts
      BY <1>v, <2>4, GetAllEffect
    <2>5. CASE PutAllContexts
      BY <1>v, <2>5, PutAllEffect
    <2>6. ASSUME NEW f \in Files, ContextReads(f) PROVE \E u \in Threads : Moves(u) /\ Effect(u)
      BY <1>v, <2>6, ContextEffect
    <2>7. ASSUME NEW d \in Dests, Peer(d) PROVE \E u \in Threads : Moves(u) /\ Effect(u)
      BY <1>v, <1>3, <1>4, <2>7
    <2>8. ASSUME NEW f \in Files, MessageArrives(f) \/ ClientReads(f)
          PROVE  \E u \in Threads : Moves(u) /\ Effect(u)
      BY <1>v, <1>3, <1>5, <2>8
    <2>9. ASSUME NEW i \in Irps, CancelIrp(i) PROVE \E u \in Threads : Moves(u) /\ Effect(u)
      BY <1>v, <1>6, <2>9
    <2> QED
      BY <1>8, <2>1, <2>2, <2>3, <2>4, <2>5, <2>6, <2>7, <2>8, <2>9, NextCases
  <1> QED
    BY <1>7, <1>8
-----------------------------------------------------------------------------
HvTypes == hv \in [Dests -> HvType] /\ virq \in BOOLEAN

\* The types of what the hypervisor answers and keeps.
LEMMA PendFacts ==
  ASSUME TypeInv, NEW d \in Dests, NEW n \in Nat, NEW b
  PROVE  /\ Requeue(hv[d].pend, n) \in Nat
         /\ EntryAfter(d, n, b) \in Nat \cup {NoEntry}
PROOF
  <1>1. hv[d].pend \in Nat \cup {NoEntry}
    BY DEF TypeInv, HvType
  <1>2. Requeue(hv[d].pend, n) \in Nat
    BY <1>1, SMT DEF Requeue, NoEntry
  <1> QED
    BY <1>1, <1>2 DEF EntryAfter

\* The state of the other ends keeps its type.
LEMMA HvKept ==
  ASSUME TypeInv, CallsOk, [Next]_vars
  PROVE  HvTypes'
PROOF
  <1>0. hv \in [Dests -> HvType] /\ virq \in BOOLEAN
    BY DEF TypeInv
  <1>1. CASE UNCHANGED hv /\ (UNCHANGED virq \/ virq' \in BOOLEAN)
    BY <1>0, <1>1 DEF HvTypes
  <1>2. ASSUME NEW d \in Dests, NEW x \in HvType, hv' = [hv EXCEPT ![d] = x], virq' \in BOOLEAN
        PROVE  HvTypes'
    BY <1>0, <1>2 DEF HvTypes
  <1>3. ASSUME NEW t \in Threads, DoWrite(t) PROVE HvTypes'
    <2> DEFINE d == DestOf[th[t].irp]
               n == LenOf[th[t].irp]
    <2>1. th[t].irp \in Writes /\ d \in Dests /\ n \in Nat
      BY <1>3, InHandFacts, Constants DEF DoWrite, InHand
    <2>2. virq' = virq
      BY <1>3 DEF DoWrite
    <2>3. \/ hv' = hv
          \/ hv' = [hv EXCEPT ![d].room = @ - n, ![d].q = Append(@, n)]
          \/ hv' = [hv EXCEPT ![d].pend = Requeue(@, IF hv[d].ring = "up" THEN n ELSE 0)]
      BY <1>3 DEF DoWrite
    <2> HIDE DEF d, n
    <2>4. CASE hv' = [hv EXCEPT ![d].room = @ - n, ![d].q = Append(@, n)]
      <3> DEFINE r == hv[d].room - n
                 q == Append(hv[d].q, n)
      <3>1. hv' = [hv EXCEPT ![d] = [hv[d] EXCEPT !.room = r, !.q = q]]
        BY <2>4
      <3>2. hv[d] \in HvType
        BY <1>0, <2>1
      <3>4. hv[d].room \in Int /\ hv[d].q \in Seq(Nat)
        BY <3>2 DEF HvType
      <3>5. r \in Int /\ q \in Seq(Nat)
        BY <2>1, <3>4, SMT
      <3> HIDE DEF r, q
      <3>3. [hv[d] EXCEPT !.room = r, !.q = q] \in HvType
        BY <3>2, <3>5 DEF HvType
      <3> QED
        BY <1>0, <1>2, <2>1, <2>2, <3>1, <3>3
    <2>5. CASE hv' = [hv EXCEPT ![d].pend = Requeue(@, IF hv[d].ring = "up" THEN n ELSE 0)]
      <3> DEFINE p == Requeue(hv[d].pend, IF hv[d].ring = "up" THEN n ELSE 0)
      <3>1. hv' = [hv EXCEPT ![d] = [hv[d] EXCEPT !.pend = p]]
        BY <2>5
      <3>2. hv[d] \in HvType
        BY <1>0, <2>1, SMT
      <3>3. p \in Nat
        BY <2>1, PendFacts
      <3> HIDE DEF p
      <3>4. [hv[d] EXCEPT !.pend = p] \in HvType
        BY <3>2, <3>3 DEF HvType
      <3> QED
        BY <1>0, <1>2, <2>1, <2>2, <3>1, <3>4
    <2> QED
      BY <1>1, <2>2, <2>3, <2>4, <2>5
  <1>4. ASSUME NEW t \in Threads, CreateRing(t) PROVE HvTypes'
    <2> DEFINE d == DestOf[th[t].irp]
    <2>1. d \in Dests
      BY <1>4, InHandFacts DEF CreateRing, InHand
    <2>2. virq' = virq /\ (hv' = hv \/ hv' = [hv EXCEPT ![d].ring = IF @ = "none" THEN "placeholder" ELSE @])
      BY <1>4 DEF CreateRing
    <2> HIDE DEF d
    <2>3. CASE hv' = [hv EXCEPT ![d].ring = IF @ = "none" THEN "placeholder" ELSE @]
      <3>1. hv \in [Dests -> HvType] /\ virq \in BOOLEAN /\ hv[d] \in HvType
        BY <1>0, <2>1
      <3>2. [hv[d] EXCEPT !.ring = IF @ = "none" THEN "placeholder" ELSE @] \in HvType
        BY <3>1 DEF HvType
      <3>3. hv' = [hv EXCEPT ![d] = [hv[d] EXCEPT !.ring = IF @ = "none" THEN "placeholder" ELSE @]]
        BY <2>3
      <3> QED
        BY <2>1, <2>2, <3>1, <3>2, <3>3 DEF HvTypes
    <2> QED
      BY <1>1, <2>2, <2>3
  <1>5. ASSUME NEW t \in Threads, NotifyHypercall(t) PROVE HvTypes'
    <2>1. PICK nomem \in SUBSET Asked(t) :
             hv' = [d \in Dests |->
                     IF d \in Asked(t)
                     THEN [hv[d] EXCEPT !.pend = EntryAfter(d, LenAsked(t)[d], d \in nomem)]
                     ELSE hv[d]]
      BY <1>5, HypercallCases
    <2>2. \A d \in Asked(t) : LenAsked(t)[d] \in Nat /\ d \in Dests
      BY <1>5, AskedFacts DEF NotifyHypercall
    <2>3. ASSUME NEW d \in Dests PROVE hv'[d] \in HvType
      <3>1. hv[d] \in HvType
        BY <1>0
      <3>2. CASE d \in Asked(t)
        <4> DEFINE e == EntryAfter(d, LenAsked(t)[d], d \in nomem)
        <4>1. e \in Nat \cup {NoEntry}
          BY <2>2, <3>2, PendFacts
        <4>2. hv'[d] = [hv[d] EXCEPT !.pend = e]
          BY <2>1, <3>2
        <4> HIDE DEF e
        <4> QED
          BY <3>1, <4>1, <4>2 DEF HvType
      <3>3. CASE d \notin Asked(t)
        BY <2>1, <3>1, <3>3
      <3> QED
        BY <3>2, <3>3
    <2>4. virq' = virq
      BY <1>5 DEF NotifyHypercall
    <2> QED
      BY <1>0, <2>1, <2>3, <2>4 DEF HvTypes
  <1>6. ASSUME NEW d \in Dests, Peer(d) PROVE HvTypes'
    <2>0. hv[d] \in HvType
      BY <1>0
    <2>1. CASE PeerReads(d)
      <3> DEFINE q == hv[d].q
                 r == hv[d].room + Head(q)
                 s == Tail(q)
      <3>1. q \in Seq(Nat) /\ q # <<>> /\ hv[d].room \in Int
        BY <2>0, <2>1 DEF HvType, PeerReads
      <3>2. r \in Int /\ s \in Seq(Nat)
        <4> HIDE DEF q
        <4>1. Head(q) \in Nat /\ Tail(q) \in Seq(Nat)
          BY <3>1, SMT
        <4> QED
          BY <3>1, <4>1, SMT
      <3>3. hv' = [hv EXCEPT ![d] = [hv[d] EXCEPT !.room = r, !.q = s, !.owed = TRUE]]
        BY <2>1 DEF PeerReads
      <3> HIDE DEF r, s
      <3>4. [hv[d] EXCEPT !.room = r, !.q = s, !.owed = TRUE] \in HvType
        BY <2>0, <3>2 DEF HvType
      <3> QED
        BY <1>0, <1>2, <2>1, <3>3, <3>4 DEF PeerReads
    <2>2. CASE PeerNotifies(d)
      <3> DEFINE wake == hv[d].pend # NoEntry /\ hv[d].pend <= hv[d].room
                 x == [hv[d] EXCEPT !.owed = FALSE, !.pend = IF wake THEN NoEntry ELSE hv[d].pend]
      <3>1. hv' = [hv EXCEPT ![d] = x] /\ virq' = (virq \/ wake)
        BY <2>2 DEF PeerNotifies
      <3>2. x \in HvType /\ (virq \/ wake) \in BOOLEAN
        BY <2>0 DEF HvType
      <3> QED
        BY <1>2, <3>1, <3>2
    <2>3. CASE PeerRegisters(d)
      <3>1. PICK n \in 1 .. Capacity :
              LET wake == hv[d].pend # NoEntry /\ hv[d].pend <= n
              IN  /\ virq' = (virq \/ wake)
                  /\ hv' = [hv EXCEPT ![d].ring = "up", ![d].size = n, ![d].room = n,
                                      ![d].pend = IF wake THEN NoEntry ELSE @]
        BY <2>3 DEF PeerRegisters
      <3> DEFINE wake == hv[d].pend # NoEntry /\ hv[d].pend <= n
                 p == IF wake THEN NoEntry ELSE hv[d].pend
                 x == [hv[d] EXCEPT !.ring = "up", !.size = n, !.room = n, !.pend = p]
      <3>2. hv' = [hv EXCEPT ![d] = x] /\ virq' = (virq \/ wake)
        BY <3>1
      <3>4. p \in Nat \cup {NoEntry} /\ n \in Nat /\ n \in Int /\ (virq \/ wake) \in BOOLEAN
        BY <2>0, ConstantsAssumption, SMT DEF HvType
      <3> HIDE DEF p, wake
      <3>3. x \in HvType
        BY <2>0, <3>4 DEF HvType
      <3> QED
        BY <1>2, <3>2, <3>3, <3>4
    <2> QED
      BY <1>6, <2>1, <2>2, <2>3 DEF Peer
  <1>7. ASSUME NEW t \in Threads, Step(t) PROVE HvTypes'
    <2>1. CASE DoWrite(t) \/ CreateRing(t) \/ NotifyHypercall(t)
      BY <1>3, <1>4, <1>5, <2>1
    <2>2. ASSUME PopWrite(t) \/ LockRing(t) \/ RequeueIrp(t) \/ RequeueDone(t) \/ CopyDestinations(t)
                 \/ NotifyFails(t) \/ ReadTake(t) \/ ReadEnd(t) \/ Release(t)
          PROVE  UNCHANGED hv /\ (UNCHANGED virq \/ virq' \in BOOLEAN)
      <3>1. virq' = (virq \/ th[t].notify) => virq' \in BOOLEAN
        BY <1>0, GoesOn DEF CallType
      <3> QED
        BY <2>2, <3>1 DEF PopWrite, Pop, LockRing, RequeueIrp, RequeueDone, CopyDestinations, NotifyFails,
                          ReadTake, ReadEnd, Release
    <2>3. ASSUME NEW f \in Files, EndContext(t, f)
          PROVE  UNCHANGED hv /\ UNCHANGED virq
      BY <2>3 DEF EndContext
    <2> QED
      BY <1>1, <1>7, <2>1, <2>2, <2>3 DEF Step
  <1>8. ASSUME NEW t \in Callers, Call(t) PROVE UNCHANGED hv /\ UNCHANGED virq
    BY <1>8 DEF Call, DispatchWrite, DispatchRead, Cleanup, Notify
  <1>9. ASSUME VirqWake \/ GetAllContexts \/ PutAllContexts \/ (\E f \in Files : ContextReads(f))
               \/ (\E f \in Files : MessageArrives(f) \/ ClientReads(f)) \/ \E i \in Irps : CancelIrp(i)
        PROVE  UNCHANGED hv /\ (UNCHANGED virq \/ virq' \in BOOLEAN)
    BY <1>9 DEF VirqWake, GetAllContexts, PutAllContexts, ContextReads, MessageArrives, ClientReads, CancelIrp
  <1>10. CASE UNCHANGED vars
    BY <1>1, <1>10 DEF vars
  <1> QED
    BY <1>1, <1>6, <1>7, <1>8, <1>9, <1>10, NextCases

RestTypes ==
  /\ rlock \in [Files -> Threads \cup {None}]
  /\ inbox \in [Files -> Nat] /\ event \in [Files -> BOOLEAN]
  /\ skipped \in BOOLEAN /\ unwatched \subseteq Writes

\* A ring lock given back.
LEMMA FreeType ==
  ASSUME rlock \in [Files -> Threads \cup {None}], NEW f, NEW t \in Threads
  PROVE  Free(f, t) \in [Files -> Threads \cup {None}]
BY DEF Free

\* So do the locks, the inboxes, the events and the sets of writes.
LEMMA RestKept ==
  ASSUME TypeInv, CallsOk, [Next]_vars
  PROVE  RestTypes'
PROOF
  <1>0. RestTypes /\ virq \in BOOLEAN
    BY DEF TypeInv, RestTypes
  <1>f. \A t \in Threads, f \in Files \cup {None} : Free(f, t) \in [Files -> Threads \cup {None}]
    BY <1>0, FreeType DEF RestTypes
  <1>1. ASSUME NEW t \in Threads, Step(t) PROVE RestTypes'
    <2>c. th[t] \in CallType /\ CallOk(t, th[t]) /\ th[t].file \in Files \cup {None}
      BY GoesOn DEF CallType
    <2>1. CASE PopWrite(t)
      <3>1. PICK c, w : PopsFor(t, c, w)
        BY <2>1, PopCases
      <3>2. c.file \in Files \cup {None} /\ Pop(t, w, c)
        BY <3>1 DEF PopsFor, CallType
      <3>3. rlock' = Free(c.file, t) \/ rlock' = rlock
        BY <3>2 DEF Pop
      <3>4. UNCHANGED <<inbox, event, skipped, unwatched>>
        BY <3>2 DEF Pop, calls
      <3> QED
        BY <1>0, <1>f, <3>2, <3>3, <3>4 DEF RestTypes
    <2>2. CASE LockRing(t)
      <3>1. th[t].file \in Files
        BY <2>2, <2>c, Constants DEF LockRing, CallOk
      <3>2. rlock' = rlock \/ rlock' = [rlock EXCEPT ![th[t].file] = t]
        BY <2>2 DEF LockRing
      <3>3. UNCHANGED <<inbox, event, skipped, unwatched>>
        BY <2>2 DEF LockRing, calls
      <3> QED
        BY <1>0, <3>1, <3>2, <3>3 DEF RestTypes
    <2>3. CASE DoWrite(t) \/ CreateRing(t)
      <3>1. rlock' = rlock \/ rlock' = Free(th[t].file, t)
        BY <2>3 DEF DoWrite, CreateRing, Retry, NoMemory, Complete
      <3>2. UNCHANGED <<inbox, event, skipped, unwatched>>
        BY <2>3 DEF DoWrite, CreateRing
      <3> QED
        BY <1>0, <1>f, <2>c, <3>1, <3>2 DEF RestTypes
    <2>4. CASE RequeueIrp(t)
      <3>1. th[t].back \in Seq(Writes) /\ th[t].back # <<>>
        BY <2>4, <2>c DEF CallType, RequeueIrp
      <3>2. Head(th[t].back) \in Writes
        BY <3>1, SMT
      <3>3. unwatched' = unwatched \/ unwatched' = unwatched \cup {Head(th[t].back)}
        BY <2>4 DEF RequeueIrp
      <3>4. UNCHANGED <<rlock, inbox, event, skipped>>
        BY <2>4 DEF RequeueIrp
      <3> QED
        BY <1>0, <3>2, <3>3, <3>4 DEF RestTypes
    <2>5. CASE RequeueDone(t) \/ CopyDestinations(t) \/ NotifyFails(t) \/ NotifyHypercall(t) \/ Release(t)
      <3>1. UNCHANGED <<rlock, inbox, event, skipped>>
        BY <2>5 DEF RequeueDone, CopyDestinations, NotifyFails, NotifyHypercall, Release, calls
      <3>2. unwatched' \subseteq unwatched \cup Writes
        BY <2>5 DEF RequeueDone, CopyDestinations, NotifyFails, NotifyHypercall, Release, calls
      <3> QED
        BY <1>0, <3>1, <3>2 DEF RestTypes
    <2>6. CASE ReadTake(t)
      <3>1. th[t].file \in Files /\ (Stops(t) \/ TakesRead(t))
        BY <2>6, ReadCases
      <3>2. rlock' = rlock \/ rlock' = [rlock EXCEPT ![th[t].file] = t]
        BY <2>6 DEF ReadTake
      <3>3. \/ inbox' = inbox
            \/ inbox[th[t].file] # 0 /\ inbox' = [inbox EXCEPT ![th[t].file] = @ - 1]
        BY <3>1 DEF Stops, TakesRead
      <3>4. UNCHANGED <<event, skipped, unwatched>>
        BY <2>6 DEF ReadTake, calls
      <3>5. inbox' \in [Files -> Nat]
        BY <1>0, <3>1, <3>3, SMT DEF RestTypes
      <3> QED
        BY <1>0, <3>1, <3>2, <3>4, <3>5 DEF RestTypes
    <2>7. CASE ReadEnd(t)
      <3>1. rlock' = Free(th[t].file, t) /\ event' = [event EXCEPT ![th[t].file] = (th[t].pc = "set")]
        BY <2>7 DEF ReadEnd
      <3>2. UNCHANGED <<inbox, skipped, unwatched>>
        BY <2>7 DEF ReadEnd, calls
      <3> QED
        BY <1>0, <1>f, <2>c, <3>1, <3>2 DEF RestTypes
    <2>8. ASSUME NEW f \in Files, EndContext(t, f) PROVE RestTypes'
      <3>1. UNCHANGED <<rlock, inbox, event, skipped, unwatched>>
        BY <2>8 DEF EndContext, calls
      <3> QED
        BY <1>0, <3>1 DEF RestTypes
    <2> QED
      BY <1>1, <2>1, <2>2, <2>3, <2>4, <2>5, <2>6, <2>7, <2>8 DEF Step
  <1>2. ASSUME NEW f \in Files, MessageArrives(f) \/ ClientReads(f) PROVE RestTypes'
    <2>1. UNCHANGED <<rlock, event, skipped, unwatched>>
      BY <1>2 DEF MessageArrives, ClientReads, calls
    <2>2. inbox' = [inbox EXCEPT ![f] = @ + 1] \/ (inbox[f] > 0 /\ inbox' = [inbox EXCEPT ![f] = @ - 1])
      BY <1>2 DEF MessageArrives, ClientReads
    <2>3. inbox' \in [Files -> Nat]
      BY <1>0, <2>2, SMT DEF RestTypes
    <2> QED
      BY <1>0, <2>1, <2>3 DEF RestTypes
  <1>3. ASSUME \/ \E t \in Callers : Call(t)
               \/ VirqWake \/ PutAllContexts \/ \E f \in Files : ContextReads(f)
               \/ \E d \in Dests : Peer(d)
               \/ \E i \in Irps : CancelIrp(i)
        PROVE  UNCHANGED <<rlock, inbox, event, skipped, unwatched>>
    BY <1>3 DEF Call, DispatchWrite, DispatchRead, Cleanup, Notify, VirqWake, PutAllContexts, ContextReads,
                Peer, PeerReads, PeerNotifies, PeerRegisters, CancelIrp, calls
  <1>4. ASSUME GetAllContexts
        PROVE  UNCHANGED <<rlock, inbox, event, unwatched>> /\ skipped' \in BOOLEAN
    BY <1>4 DEF GetAllContexts
  <1>5. CASE UNCHANGED vars
    BY <1>0, <1>5 DEF RestTypes, vars
  <1> QED
    BY <1>0, <1>1, <1>2, <1>3, <1>4, <1>5, NextCases DEF RestTypes
-----------------------------------------------------------------------------
(* The references of the contexts *)

\* A thread has yet to give back the handle's reference.
HandleHeld(f) == \E t \in Callers : th[t].pc = "release" /\ th[t].file = f

RefsOf(f) == (IF ctx[f].listed THEN 1 ELSE 0)
             + (IF ctx[f].state = "bound" \/ HandleHeld(f) THEN 1 ELSE 0)
             + (IF f \in th[Virq].ctxs THEN 1 ELSE 0)

\* What the threads and the contexts say of one another.
ThreadCtx(t) ==
  /\ th[t].pc = "release" => ctx[th[t].file].state = "closed"
  /\ t # Virq /\ (th[t].byFile \/ th[t].pc \in Reading) => ctx[th[t].file].state = "bound"
  /\ \A f \in th[t].dying : ctx[f].refc = 0

OneHandle == \A t, u \in Callers : th[t].pc = "release" /\ th[u].pc = "release"
                                   /\ th[t].file = th[u].file => t = u

CtxCore ==
  /\ \A f \in Files : ctx[f].refc = RefsOf(f)
  /\ \A f \in Files : ctx[f].listed <=> ctx[f].state = "bound"
  /\ \A t \in Threads : ThreadCtx(t)
  /\ OneHandle
  /\ \A f \in Files : ctx[f].freed => ctx[f].refc = 0

\* CtxInv has what the steps need ...
LEMMA CoreOf ==
  ASSUME CtxInv
  PROVE  CtxCore
BY DEF CtxInv, CtxCore, ContextHeld, RefsOf, ThreadCtx, OneHandle, HandleHeld

\* ... and nothing more: a context that a thread reads for has a reference.
LEMMA CtxOf ==
  ASSUME TypeInv, CallsOk, CtxCore
  PROVE  CtxInv
PROOF
  <1>1. ASSUME NEW f \in Files, ctx[f].freed, NEW t \in Threads, th[t].file = f
        PROVE  /\ th[t].pc \notin {"reads", "take", "clear", "set"}
               /\ t \in Callers => ~ th[t].byFile
    <2> SUFFICES ASSUME th[t].pc \in Reading \/ (t \in Callers /\ th[t].byFile) PROVE FALSE
      BY DEF Reading
    <2>1. ctx[f].refc = RefsOf(f) /\ ctx[f].refc = 0
      BY <1>1 DEF CtxCore
    <2>2. f \notin th[Virq].ctxs /\ ctx[f].state # "bound"
      BY <2>1, SMT DEF RefsOf
    <2>3. CASE t = Virq
      BY <1>1, <2>2, <2>3, GoesOn, Constants DEF CallOk
    <2>4. CASE t # Virq
      BY <1>1, <2>2, <2>4 DEF CtxCore, ThreadCtx
    <2> QED
      BY <2>3, <2>4
  <1>2. ContextHeld
    BY <1>1, Constants DEF CtxCore, RefsOf, HandleHeld, ContextHeld
  <1> QED
    BY <1>2 DEF CtxCore, CtxInv, ThreadCtx, OneHandle

CtxTypes == ctx \in [Files -> CtxType]

\* A step that leaves the contexts and the references of the threads alone.
LEMMA CtxFrame ==
  ASSUME CtxCore, CtxTypes, NEW t \in Threads, Moves(t), ctx' = ctx,
         th[t].pc # "release", th'[t].pc # "release",
         t # Virq /\ (th'[t].byFile \/ th'[t].pc \in Reading) => ctx[th'[t].file].state = "bound",
         th'[t].dying \subseteq th[t].dying, th'[t].ctxs = th[t].ctxs
  PROVE  CtxCore' /\ CtxTypes'
PROOF
  <1>0. \A u \in Threads \ {t} : Alike(u)
    BY DEF Moves
  <1>1. \A u \in Threads : /\ th'[u].pc = "release" <=> th[u].pc = "release"
                           /\ th[u].pc = "release" => th'[u].file = th[u].file
    BY <1>0 DEF Alike
  <1>2. th'[Virq].ctxs = th[Virq].ctxs
    BY <1>0 DEF Alike
  <1>3. \A f \in Files : HandleHeld(f)' <=> HandleHeld(f)
    BY <1>1 DEF HandleHeld
  <1>4. \A f \in Files : RefsOf(f)' = RefsOf(f)
    BY <1>2, <1>3 DEF RefsOf
  <1>5. ASSUME NEW u \in Threads PROVE ThreadCtx(u)'
    <2>1. CASE u = t
      BY <2>1 DEF CtxCore, ThreadCtx
    <2>2. CASE u # t
      BY <1>0, <2>2, SMT DEF CtxCore, ThreadCtx, Alike
    <2> QED
      BY <2>1, <2>2
  <1>6. OneHandle'
    BY <1>1, ZenonT(40) DEF CtxCore, OneHandle
  <1>7. /\ \A f \in Files : ctx'[f].refc = RefsOf(f)'
        /\ \A f \in Files : ctx'[f].listed <=> ctx'[f].state = "bound"
        /\ \A f \in Files : ctx'[f].freed => ctx'[f].refc = 0
    BY <1>4 DEF CtxCore
  <1> QED
    BY <1>5, <1>6, <1>7 DEF CtxCore, CtxTypes

\* gh_v4v_get_all_contexts counts a reference for each context it copies.
LEMMA GetAllCtx ==
  ASSUME TypeInv, CallsOk, CtxCore, GetAllContexts
  PROVE  CtxCore' /\ CtxTypes'
PROOF
  <1>0. /\ Moves(Virq) /\ Virq \in Threads /\ th[Virq].pc = "getall" /\ th[Virq].ctxs = {}
        /\ ctx \in [Files -> CtxType]
    BY GetAllCases, GoesOn DEF GetAllContexts, CallOk, Reading, TypeInv
  <1>1. CASE th'[Virq] = [th[Virq] EXCEPT !.pc = "copy"] /\ ctx' = ctx
    <2>1. /\ th'[Virq].pc = "copy" /\ th'[Virq].dying = th[Virq].dying
          /\ th'[Virq].ctxs = th[Virq].ctxs
      BY <1>0, <1>1, GoesOn DEF CallType
    <2> QED
      BY <1>0, <1>1, <2>1, CtxFrame DEF CtxTypes
  <1>2. CASE /\ th'[Virq] = [NoCall EXCEPT !.pc = "contexts", !.ctxs = Listed, !.todo = Listed]
             /\ ctx' = [f \in Files |-> IF f \in Listed THEN [ctx[f] EXCEPT !.refc = @ + 1] ELSE ctx[f]]
    <2>1. th'[Virq].pc = "contexts" /\ th'[Virq].ctxs = Listed /\ th'[Virq].dying = {}
      BY <1>2, NoCallFields, SMT DEF CallType
    <2>2. \A f \in Files : /\ ctx'[f] \in CtxType
                           /\ ctx'[f].refc = IF ctx[f].listed THEN ctx[f].refc + 1 ELSE ctx[f].refc
                           /\ ctx'[f].listed = ctx[f].listed /\ ctx'[f].state = ctx[f].state
                           /\ ctx'[f].freed = ctx[f].freed
      BY <1>0, <1>2, SMT DEF CtxType, Listed
    <2>3. ctx' \in [Files -> CtxType]
      BY <1>2, <2>2
    <2>o. \A u \in Threads \ {Virq} : Alike(u)
      BY <1>0 DEF Moves
    <2>4. \A f \in Files : HandleHeld(f)' <=> HandleHeld(f)
      BY <2>o, Constants, ZenonT(30) DEF HandleHeld, Alike
    <2>5. \A f \in Files : f \in th'[Virq].ctxs <=> ctx[f].listed
      BY <2>1 DEF Listed
    <2>6. \A f \in Files : ctx'[f].refc = RefsOf(f)'
      <3>1. \A f \in Files : ctx[f].refc = RefsOf(f) /\ f \notin th[Virq].ctxs
        BY <1>0 DEF CtxCore
      <3> QED
        BY <2>2, <2>4, <2>5, <3>1, SMT DEF RefsOf
    <2>7. \A f \in Files : ctx[f].refc = 0 => ~ ctx[f].listed
      BY <1>0, SMT DEF CtxCore, RefsOf
    <2>8. ASSUME NEW u \in Threads PROVE ThreadCtx(u)'
      <3>1. CASE u = Virq
        BY <2>1, <3>1 DEF ThreadCtx
      <3>2. CASE u # Virq
        <4>1. th[u].file \in Files \cup {None} /\ th[u].dying \subseteq Files /\ CallOk(u, th[u])
          BY GoesOn DEF CallType
        <4>2. (th[u].pc \in Reading \cup {"release"} \/ th[u].byFile) => th[u].file \in Files
          BY <4>1 DEF CallOk
        <4>3. ThreadCtx(u) /\ Alike(u)
          BY <2>o, <3>2 DEF CtxCore
        <4> QED
          BY <2>2, <2>7, <4>1, <4>2, <4>3, SMT DEF ThreadCtx, Alike
      <3> QED
        BY <3>1, <3>2
    <2>9. OneHandle'
      BY <2>o, Constants, SMT DEF CtxCore, OneHandle, Alike
    <2>10. /\ \A f \in Files : ctx'[f].listed <=> ctx'[f].state = "bound"
           /\ \A f \in Files : ctx'[f].freed => ctx'[f].refc = 0
      BY <2>2, <2>7 DEF CtxCore
    <2> QED
      BY <2>3, <2>6, <2>8, <2>9, <2>10 DEF CtxCore, CtxTypes
  <1> QED
    BY <1>1, <1>2, GetAllCases

\* What a thread relies on is not changed by the end of other references.
LEMMA OtherThread ==
  ASSUME TypeInv, CallsOk, CtxCore, NEW t \in Threads, Moves(t), NEW u \in Threads \ {t},
         \A f \in Files : ctx[f].refc = 0 => ctx'[f].refc = 0,
         th[u].pc = "release" \/ (u # Virq /\ (th[u].byFile \/ th[u].pc \in Reading)) =>
           ctx'[th[u].file].state = ctx[th[u].file].state
  PROVE  ThreadCtx(u)'
PROOF
  <1>1. ThreadCtx(u) /\ Alike(u)
    BY DEF CtxCore, Moves
  <1>2. th[u].dying \subseteq Files
    BY GoesOn DEF CallType
  <1> QED
    BY <1>1, <1>2 DEF ThreadCtx, Alike

\* The contexts after references to those in F are given back.
LEMMA ReleasedFacts ==
  ASSUME TypeInv, NEW F \in SUBSET Files, ctx' = Released(F)
  PROVE  \A f \in Files : /\ ctx'[f].refc = IF f \in F THEN ctx[f].refc - 1 ELSE ctx[f].refc
                          /\ ctx'[f].listed = ctx[f].listed /\ ctx'[f].state = ctx[f].state
                          /\ ctx'[f].freed = ctx[f].freed
                          /\ ctx[f].refc > 0 \/ f \notin F => ctx'[f] \in CtxType
PROOF
  <1>1. ctx \in [Files -> CtxType]
    BY DEF TypeInv
  <1> QED
    BY <1>1, SMT DEF Released, CtxType

\* gh_v4v_put_all_contexts gives back what gh_v4v_get_all_contexts took.
LEMMA PutAllCtx ==
  ASSUME TypeInv, CallsOk, CtxCore, PutAllContexts, NEW F, F = th[Virq].ctxs
  PROVE  CtxCore' /\ CtxTypes'
PROOF
  <1> DEFINE D == {f \in F : ctx'[f].refc = 0}
  <1>0. /\ Moves(Virq) /\ Virq \in Threads /\ ctx' = Released(F) /\ F \in SUBSET Files
    BY PutAllEffect, GoesOn DEF PutAllContexts, CallType
  <1>1. th'[Virq] = Ending(Virq, D)
    BY PutAllEffect, ZenonT(40)
  <1>2. th'[Virq].ctxs = {} /\ th'[Virq].dying = D /\ th'[Virq].pc \in {"end", "copy"}
    BY <1>1, EndingFields, SMT
  <1>o. \A u \in Threads \ {Virq} : Alike(u)
    BY <1>0 DEF Moves
  <1>3. \A f \in Files : /\ ctx'[f].refc = IF f \in F THEN ctx[f].refc - 1 ELSE ctx[f].refc
                         /\ ctx'[f].listed = ctx[f].listed /\ ctx'[f].state = ctx[f].state
                         /\ ctx'[f].freed = ctx[f].freed
                         /\ ctx[f].refc > 0 \/ f \notin F => ctx'[f] \in CtxType
    <2>1. F \in SUBSET Files /\ ctx' = Released(F)
      BY <1>0
    <2> QED
      BY <2>1, ReleasedFacts, ZenonT(40)
  <1>4. \A f \in F : ctx[f].refc > 0
    BY <1>0, SMT DEF CtxCore, RefsOf
  <1>5. ctx' \in [Files -> CtxType]
    BY <1>0, <1>3, <1>4 DEF Released
  <1>6. \A f \in Files : HandleHeld(f)' <=> HandleHeld(f)
    BY <1>o, Constants, ZenonT(40) DEF HandleHeld, Alike
  <1>7. \A f \in Files : ctx'[f].refc = RefsOf(f)'
    BY <1>2, <1>3, <1>6, SMT DEF CtxCore, RefsOf
  <1>8. ThreadCtx(Virq)'
    BY <1>2 DEF ThreadCtx
  <1>9. \A f \in Files : ctx[f].refc = 0 => ctx'[f].refc = 0
    BY <1>3, <1>4, SMT
  <1>10. ASSUME NEW u \in Threads \ {Virq} PROVE ThreadCtx(u)'
    <2>1. (th[u].pc \in Reading \cup {"release"} \/ th[u].byFile) => th[u].file \in Files
      BY GoesOn DEF CallOk
    <2> QED
      BY <1>0, <1>3, <1>9, <2>1, OtherThread
  <1>11. OneHandle'
    BY <1>o, Constants, SMT DEF CtxCore, OneHandle, Alike
  <1>12. /\ \A f \in Files : ctx'[f].listed <=> ctx'[f].state = "bound"
         /\ \A f \in Files : ctx'[f].freed => ctx'[f].refc = 0
    BY <1>3, <1>9 DEF CtxCore
  <1> QED
    BY <1>5, <1>7, <1>8, <1>10, <1>11, <1>12 DEF CtxCore, CtxTypes

\* gh_v4v_dispatch_cleanup gives back the reference of the list, and still has
\* that of the handle.
LEMMA CleanupCtx ==
  ASSUME TypeInv, CallsOk, CtxCore, NEW t \in Threads, NEW f \in Files, Cleanup(t, f)
  PROVE  CtxCore' /\ CtxTypes'
PROOF
  <1>0. /\ Moves(t) /\ t # Virq /\ t \in Callers /\ ctx[f].state = "bound"
        /\ th'[t] = [NoCall EXCEPT !.pc = "release", !.file = f]
        /\ th[t].pc = "idle" /\ ctx \in [Files -> CtxType]
    BY CleanupEffect DEF Cleanup, TypeInv
  <1>1. /\ th'[t].pc = "release" /\ th'[t].file = f /\ th'[t].dying = {} /\ ~ th'[t].byFile
    BY <1>0, NoCallFields DEF CallType
  <1>o. \A u \in Threads \ {t} : Alike(u)
    BY <1>0 DEF Moves
  <1>2. ctx[f].listed /\ ctx[f].refc >= 2
    BY <1>0, SMT DEF CtxCore, RefsOf
  <1>3. /\ \A g \in Files \ {f} : ctx'[g] = ctx[g]
        /\ ctx'[f] = [ctx[f] EXCEPT !.refc = @ - 1, !.state = "closed", !.listed = FALSE]
        /\ ctx' \in [Files -> CtxType]
    <2>1. ctx' = [Released({f}) EXCEPT ![f].state = "closed", ![f].listed = FALSE]
      BY DEF Cleanup
    <2> DEFINE R == Released({f})
    <2>2. /\ \A g \in Files \ {f} : R[g] = ctx[g]
          /\ R[f] = [ctx[f] EXCEPT !.refc = @ - 1] /\ R[f] \in CtxType
          /\ R \in [Files -> CtxType]
      BY <1>0, <1>2, SMT DEF Released, CtxType
    <2>3. ctx' = [R EXCEPT ![f] = [R[f] EXCEPT !.state = "closed", !.listed = FALSE]]
      BY <2>1
    <2> HIDE DEF R
    <2>4. [R[f] EXCEPT !.state = "closed", !.listed = FALSE] \in CtxType
      BY <2>2 DEF CtxType
    <2>5. /\ \A g \in Files \ {f} : ctx'[g] = ctx[g]
          /\ ctx'[f] = [R[f] EXCEPT !.state = "closed", !.listed = FALSE]
          /\ ctx' \in [Files -> CtxType]
      BY <2>2, <2>3, <2>4
    <2>6. ctx[f] \in CtxType
      BY <1>0
    <2>7. [R[f] EXCEPT !.state = "closed", !.listed = FALSE]
            = [ctx[f] EXCEPT !.refc = @ - 1, !.state = "closed", !.listed = FALSE]
      BY <2>2, <2>6 DEF CtxType
    <2> QED
      BY <2>5, <2>7
  <1>4. /\ ctx'[f].refc = ctx[f].refc - 1 /\ ctx'[f].state = "closed" /\ ~ ctx'[f].listed
        /\ ctx'[f].freed = ctx[f].freed
    BY <1>0, <1>3 DEF CtxType
  <1>5. ~ HandleHeld(f) /\ HandleHeld(f)' /\ \A g \in Files \ {f} : HandleHeld(g)' <=> HandleHeld(g)
    <2>1. ~ HandleHeld(f)
      BY <1>0 DEF CtxCore, ThreadCtx, HandleHeld
    <2>2. HandleHeld(f)'
      BY <1>0, <1>1 DEF HandleHeld
    <2>3. \A g \in Files \ {f} : HandleHeld(g)' <=> HandleHeld(g)
      <3>1. \A u \in Callers \ {t} : th'[u].pc = th[u].pc /\ th'[u].file = th[u].file
        BY <1>o DEF Alike
      <3> QED
        BY <1>0, <1>1, <3>1 DEF HandleHeld
    <2> QED
      BY <2>1, <2>2, <2>3
  <1>6. th'[Virq].ctxs = th[Virq].ctxs
    BY <1>0, <1>o DEF Alike
  <1>7. \A g \in Files : ctx'[g].refc = RefsOf(g)'
    <2>1. ctx'[f].refc = RefsOf(f)'
      <3>1. ctx[f].refc = RefsOf(f) /\ (ctx[f].listed <=> ctx[f].state = "bound")
        BY DEF CtxCore
      <3> QED
        BY <1>0, <1>2, <1>4, <1>5, <1>6, <3>1, SMT DEF RefsOf
    <2>2. \A g \in Files \ {f} : ctx'[g].refc = RefsOf(g)'
      BY <1>3, <1>5, <1>6, SMT DEF CtxCore, RefsOf
    <2> QED
      BY <2>1, <2>2
  <1>8. ThreadCtx(t)'
    BY <1>1, <1>4 DEF ThreadCtx, Reading
  <1>9. \A g \in Files : ctx[g].refc = 0 => ctx'[g].refc = 0
    BY <1>2, <1>3, SMT
  <1>10. ASSUME NEW u \in Threads \ {t} PROVE ThreadCtx(u)'
    <2>1. (th[u].pc \in Reading \cup {"release"} \/ th[u].byFile) => th[u].file \in Files
      BY GoesOn DEF CallOk
    <2>2. th[u].pc = "release" => th[u].file # f
      BY <1>0, <2>1 DEF CtxCore, ThreadCtx
    <2>3. u # Virq /\ (th[u].byFile \/ th[u].pc \in Reading) => th[u].file # f
      BY DEF Cleanup, Reading
    <2> QED
      BY <1>0, <1>3, <1>9, <2>1, <2>2, <2>3, OtherThread
  <1>11. OneHandle'
    <2>1. \A u \in Callers \ {t} : th[u].pc = "release" => th[u].file # f
      BY <1>5 DEF HandleHeld
    <2> QED
      BY <1>1, <1>o, <2>1, SMT DEF CtxCore, OneHandle, Alike
  <1>12. /\ \A g \in Files : ctx'[g].listed <=> ctx'[g].state = "bound"
         /\ \A g \in Files : ctx'[g].freed => ctx'[g].refc = 0
    <2>1. ~ ctx'[f].freed /\ ~ ctx'[f].listed /\ ctx'[f].state # "bound"
      BY <1>2, <1>4, SMT DEF CtxCore
    <2>2. \A g \in Files \ {f} : /\ ctx'[g] = ctx[g] /\ (ctx[g].listed <=> ctx[g].state = "bound")
                                 /\ (ctx[g].freed => ctx[g].refc = 0)
      BY <1>3 DEF CtxCore
    <2> QED
      BY <2>1, <2>2
  <1> QED
    BY <1>3, <1>7, <1>8, <1>10, <1>11, <1>12 DEF CtxCore, CtxTypes

\* gh_v4v_dispatch_cleanup gives back the reference of the handle.
LEMMA ReleaseCtx ==
  ASSUME TypeInv, CallsOk, CtxCore, NEW t \in Threads, Release(t), NEW f, f = th[t].file
  PROVE  CtxCore' /\ CtxTypes'
PROOF
  <1> DEFINE D == IF ctx'[f].refc = 0 THEN {f} ELSE {}
  <1>0. /\ Moves(t) /\ th'[t] = Ending(t, D) /\ th[t].pc = "release" /\ ctx' = Released({f})
    BY ReleaseEffect DEF Release
  <1>1. t # Virq /\ f \in Files
    BY <1>0, GoesOn, ZenonT(40) DEF CallOk
  <1>2. /\ th'[t].dying = D /\ th'[t].pc \in {"end", "idle"} /\ ~ th'[t].byFile
    BY <1>0, <1>1, EndingFields, SMT
  <1>o. \A u \in Threads \ {t} : Alike(u)
    BY <1>0 DEF Moves
  <1>3. ctx[f].state = "closed" /\ HandleHeld(f) /\ ~ ctx[f].listed
    BY <1>0, <1>1 DEF CtxCore, ThreadCtx, HandleHeld
  <1>4. ctx[f].refc > 0
    BY <1>1, <1>3, SMT DEF CtxCore, RefsOf
  <1>5. \A g \in Files : /\ ctx'[g].refc = IF g = f THEN ctx[g].refc - 1 ELSE ctx[g].refc
                         /\ ctx'[g].listed = ctx[g].listed /\ ctx'[g].state = ctx[g].state
                         /\ ctx'[g].freed = ctx[g].freed /\ ctx'[g] \in CtxType
    <2> DEFINE F == {f}
    <2>1. F \in SUBSET Files /\ ctx' = Released(F) /\ \A g \in Files : g \in F <=> g = f
      BY <1>0, <1>1
    <2> HIDE DEF F
    <2>2. \A g \in Files : /\ ctx'[g].refc = IF g \in F THEN ctx[g].refc - 1 ELSE ctx[g].refc
                           /\ ctx'[g].listed = ctx[g].listed /\ ctx'[g].state = ctx[g].state
                           /\ ctx'[g].freed = ctx[g].freed
                           /\ ctx[g].refc > 0 \/ g \notin F => ctx'[g] \in CtxType
      BY <2>1, ReleasedFacts
    <2> QED
      BY <1>4, <2>1, <2>2
  <1>6. ctx' \in [Files -> CtxType]
    BY <1>0, <1>5 DEF Released
  <1>7. ~ HandleHeld(f)' /\ \A g \in Files \ {f} : HandleHeld(g)' <=> HandleHeld(g)
    <2>1. t \in Callers /\ \A u \in Callers \ {t} : ~ (th[u].pc = "release" /\ th[u].file = f)
      BY <1>0, <1>1 DEF CtxCore, OneHandle
    <2>2. \A u \in Callers \ {t} : th'[u].pc = th[u].pc /\ th'[u].file = th[u].file
      BY <1>o DEF Alike
    <2> QED
      BY <1>0, <1>2, <2>1, <2>2 DEF HandleHeld
  <1>8. th'[Virq].ctxs = th[Virq].ctxs
    BY <1>1, <1>o DEF Alike
  <1>9. \A g \in Files : ctx'[g].refc = RefsOf(g)'
    <2>1. ctx'[f].refc = RefsOf(f)'
      <3>1. ctx[f].refc = RefsOf(f)
        BY <1>1 DEF CtxCore
      <3> QED
        BY <1>1, <1>3, <1>5, <1>7, <1>8, <3>1, SMTT(30) DEF RefsOf
    <2>2. \A g \in Files \ {f} : ctx'[g].refc = RefsOf(g)'
      BY <1>5, <1>7, <1>8, SMT DEF CtxCore, RefsOf
    <2> QED
      BY <2>1, <2>2
  <1>10. ThreadCtx(t)'
    BY <1>1, <1>2 DEF ThreadCtx, Reading
  <1>11. \A g \in Files : ctx[g].refc = 0 => ctx'[g].refc = 0
    BY <1>4, <1>5, SMT
  <1>12. ASSUME NEW u \in Threads \ {t} PROVE ThreadCtx(u)'
    <2>1. (th[u].pc \in Reading \cup {"release"} \/ th[u].byFile) => th[u].file \in Files
      BY GoesOn DEF CallOk
    <2> QED
      BY <1>0, <1>5, <1>11, <2>1, OtherThread
  <1>13. OneHandle'
    BY <1>2, <1>o, SMT DEF CtxCore, OneHandle, Alike
  <1>14. /\ \A g \in Files : ctx'[g].listed <=> ctx'[g].state = "bound"
         /\ \A g \in Files : ctx'[g].freed => ctx'[g].refc = 0
    BY <1>5, <1>11 DEF CtxCore
  <1> QED
    BY <1>6, <1>9, <1>10, <1>12, <1>13, <1>14 DEF CtxCore, CtxTypes

\* A context is freed when it has no reference.
LEMMA FreesCtx ==
  ASSUME TypeInv, CallsOk, CtxCore, NEW t \in Threads, NEW f \in Files, f \in th[t].dying,
         th[t].pc = "end", Moves(t), Frees(t, f)
  PROVE  CtxCore' /\ CtxTypes'
PROOF
  <1>0. ctx' = [ctx EXCEPT ![f].freed = TRUE] /\ th'[t] = Ending(t, th[t].dying \ {f})
        /\ ctx \in [Files -> CtxType]
    BY DEF Frees, TypeInv
  <1>1. /\ th'[t].dying = th[t].dying \ {f} /\ th'[t].pc \in {"end", "copy", "idle"}
        /\ ~ th'[t].byFile /\ th'[t].ctxs = {}
    BY <1>0, EndingFields, SMT
  <1>o. \A u \in Threads \ {t} : Alike(u)
    BY DEF Moves
  <1>2. ctx[f].refc = 0
    BY DEF CtxCore, ThreadCtx
  <1>3. /\ \A g \in Files : /\ ctx'[g].refc = ctx[g].refc /\ ctx'[g].listed = ctx[g].listed
                            /\ ctx'[g].state = ctx[g].state
        /\ \A g \in Files \ {f} : ctx'[g].freed = ctx[g].freed
        /\ ctx' \in [Files -> CtxType]
    BY <1>0 DEF CtxType
  <1>4. th[t].ctxs = {}
    BY GoesOn DEF CallOk, Reading
  <1>5. th'[Virq].ctxs = th[Virq].ctxs
    BY <1>1, <1>4, <1>o DEF Alike
  <1>6. \A g \in Files : HandleHeld(g)' <=> HandleHeld(g)
    BY <1>1, <1>o, ZenonT(30) DEF HandleHeld, Alike
  <1>7. \A g \in Files : ctx'[g].refc = RefsOf(g)'
    BY <1>3, <1>5, <1>6, SMT DEF CtxCore, RefsOf
  <1>8. ThreadCtx(t)'
    <2>1. th[t].dying \subseteq Files /\ \A g \in th[t].dying : ctx[g].refc = 0
      BY GoesOn DEF CallType, CtxCore, ThreadCtx
    <2> QED
      BY <1>1, <1>3, <2>1 DEF ThreadCtx, Reading
  <1>9. ASSUME NEW u \in Threads \ {t} PROVE ThreadCtx(u)'
    <2>1. (th[u].pc \in Reading \cup {"release"} \/ th[u].byFile) => th[u].file \in Files
      BY GoesOn DEF CallOk
    <2> QED
      BY <1>3, <2>1, OtherThread
  <1>10. OneHandle'
    BY <1>1, <1>o, SMT DEF CtxCore, OneHandle, Alike
  <1>11. /\ \A g \in Files : ctx'[g].listed <=> ctx'[g].state = "bound"
         /\ \A g \in Files : ctx'[g].freed => ctx'[g].refc = 0
    BY <1>2, <1>3 DEF CtxCore
  <1> QED
    BY <1>3, <1>7, <1>8, <1>9, <1>10, <1>11 DEF CtxCore, CtxTypes

\* A call that goes on with its file.
LEMMA SameFileCtx ==
  ASSUME CtxCore, CtxTypes, NEW t \in Threads, Moves(t), ctx' = ctx, SameFile(t),
         th[t].pc # "release", th'[t].pc # "release", th'[t].pc \in Reading => th[t].pc \in Reading
  PROVE  CtxCore' /\ CtxTypes'
PROOF
  <1>1. ThreadCtx(t)
    BY DEF CtxCore
  <1> QED
    BY <1>1, CtxFrame DEF SameFile, ThreadCtx

\* A call that is done with its file.
LEMMA NoFileCtx ==
  ASSUME CtxCore, CtxTypes, NEW t \in Threads, Moves(t), ctx' = ctx, NoFile(t),
         th[t].pc # "release", th[t].ctxs = {}
  PROVE  CtxCore' /\ CtxTypes'
BY CtxFrame DEF NoFile, Reading

\* The steps of a call that tries writes.
LEMMA PopFile ==
  ASSUME TypeInv, CallsOk, NEW t \in Threads, PopWrite(t)
  PROVE  /\ th'[t].byFile = th[t].byFile /\ (th[t].byFile => th'[t].file = th[t].file)
         /\ th'[t].dying = {} /\ th'[t].ctxs = {} /\ th'[t].todo = {}
         /\ th[t].pc \in {"pop", "dests"} /\ th'[t].pc \in {"requeue", "send", "lock"}
         /\ th[t].dying = {} /\ th[t].ctxs = {} /\ th[t].todo = {}
PROOF
  <1>1. PICK c, w : PopsFor(t, c, w)
    BY PopCases
  <1>2. /\ c \in CallType /\ Popping(c, w) /\ c.file = th[t].file /\ c.byFile = th[t].byFile
        /\ th[t].pc \in {"pop", "dests"}
    BY <1>1 DEF PopsFor
  <1>3. c.ctxs = {} /\ c.todo = {} /\ c.dying = {} /\ (c.byFile /\ w # None => FileOf[w] = c.file)
    BY <1>2 DEF Popping
  <1>4. /\ w = None => th'[t] = [c EXCEPT !.pc = "requeue"]
        /\ w # None => th'[t] = [c EXCEPT !.irp = w, !.file = FileOf[w],
                                          !.pc = IF c.byFile THEN "send" ELSE "lock"]
    BY <1>1, PopEffect
  <1>5. /\ th'[t].byFile = th[t].byFile /\ (th[t].byFile => th'[t].file = th[t].file)
        /\ th'[t].dying = {} /\ th'[t].ctxs = {} /\ th'[t].todo = {}
        /\ th'[t].pc \in {"requeue", "send", "lock"}
    BY <1>2, <1>3, <1>4 DEF CallType
  <1> QED
    BY <1>2, <1>5, NoContexts DEF Reading

\* Nor do reads.
LEMMA ReadFile ==
  ASSUME TypeInv, CallsOk, NEW t \in Threads, ReadTake(t)
  PROVE  SameFile(t) /\ th[t].pc \in Reading /\ th'[t].pc \in Reading
PROOF
  <1>1. th[t].pc \in {"reads", "take"} /\ (Stops(t) \/ TakesRead(t)) /\ th[t] \in CallType
    BY ReadCases, GoesOn
  <1>2. \/ \E p \in {"clear", "set"} : th'[t] = [th[t] EXCEPT !.pc = p]
        \/ th'[t] = [th[t] EXCEPT !.pc = "take", !.notify = TRUE]
    BY <1>1 DEF Stops, TakesRead
  <1> QED
    BY <1>1, <1>2 DEF SameFile, CallType, Reading

\* Every step keeps the references counted.
LEMMA CtxKept ==
  ASSUME TypeInv, CallsOk, CtxInv, [Next]_vars
  PROVE  CtxCore' /\ CtxTypes'
PROOF
  <1>0. CtxCore /\ CtxTypes
    BY CoreOf DEF TypeInv, CtxTypes
  <1>1. ASSUME NEW t \in Threads, Step(t) PROVE CtxCore' /\ CtxTypes'
    <2>1. CASE PopWrite(t)
      <3>1. Moves(t) /\ ctx' = ctx
        BY <2>1, PopCases, PopEffect DEF PopWrite, Pop
      <3>2. ThreadCtx(t)
        BY <1>0 DEF CtxCore
      <3> QED
        BY <1>0, <2>1, <3>1, <3>2, PopFile, CtxFrame DEF ThreadCtx, Reading
    <2>2. CASE LockRing(t) \/ DoWrite(t) \/ CreateRing(t) \/ RequeueIrp(t)
      <3>1. Moves(t) /\ ctx' = ctx /\ SameFile(t) /\ th'[t].pc \in Writing
        BY <2>2, LockEffect, WriteEffect, RequeueEffect DEF LockRing, DoWrite, CreateRing, RequeueIrp
      <3> QED
        BY <1>0, <2>2, <3>1, SameFileCtx DEF LockRing, DoWrite, CreateRing, RequeueIrp, Writing, InHand, Reading
    <2>3. CASE RequeueDone(t) \/ CopyDestinations(t) \/ NotifyHypercall(t) \/ NotifyFails(t)
      <3>1. Moves(t) /\ ctx' = ctx
        BY <2>3, RequeueDoneEffect, CopyEffect, HypercallEffect, FailEffect
           DEF RequeueDone, CopyDestinations, NotifyHypercall, NotifyFails
      <3>2. NoFile(t) /\ th[t].pc # "release" /\ th[t].ctxs = {}
        BY <2>3, RequeueDoneEffect, CopyEffect, HypercallEffect, FailEffect, NoContexts
           DEF RequeueDone, CopyDestinations, NotifyHypercall, NotifyFails, Reading
      <3> QED
        BY <1>0, <3>1, <3>2, NoFileCtx
    <2>4. CASE ReadTake(t)
      <3>1. Moves(t) /\ ctx' = ctx
        BY <2>4, ReadCases DEF ReadTake
      <3> QED
        BY <1>0, <2>4, <3>1, ReadFile, SameFileCtx DEF Reading
    <2>5. CASE ReadEnd(t)
      <3>1. Moves(t) /\ ctx' = ctx /\ th[t].pc \in {"clear", "set"}
        BY <2>5, ReadEndEffect DEF ReadEnd
      <3>2. CASE t = Virq
        <4>1. th'[t] = [NoCall EXCEPT !.pc = "contexts", !.ctxs = th[t].ctxs, !.todo = th[t].todo]
          BY <2>5, <3>2, ReadEndEffect
        <4>2. th'[t].pc = "contexts" /\ th'[t].ctxs = th[t].ctxs /\ th'[t].dying = {}
          BY <4>1, NoCallFields, SMT DEF CallType
        <4> QED
          BY <1>0, <3>1, <3>2, <4>2, CtxFrame
      <3>3. CASE t # Virq
        <4>1. th'[t] = [NoCall EXCEPT !.pc = IF th[t].notify THEN "copy" ELSE "idle"]
          BY <2>5, <3>3, ReadEndEffect
        <4>2. NoFile(t)
          BY <4>1, NoCallFields DEF CallType, NoFile
        <4>3. th[t].ctxs = {}
          BY <3>3, GoesOn DEF CallOk
        <4> QED
          BY <1>0, <3>1, <4>2, <4>3, NoFileCtx
      <3> QED
        BY <3>2, <3>3
    <2>6. CASE Release(t)
      BY <1>0, <2>6, ReleaseCtx
    <2>7. ASSUME NEW f \in Files, EndContext(t, f) PROVE CtxCore' /\ CtxTypes'
      <3>1. Moves(t) /\ (Cancels(f) \/ Frees(t, f)) /\ f \in th[t].dying /\ th[t].pc = "end"
        BY <2>7, EndEffect DEF EndContext
      <3>2. CASE Cancels(f)
        <4>1. ctx' = ctx /\ th' = th
          BY <3>2 DEF Cancels
        <4> QED
          BY <1>0, <3>1, <4>1, SameFileCtx DEF SameFile
      <3> QED
        BY <1>0, <3>1, <3>2, FreesCtx
    <2> QED
      BY <1>1, <2>1, <2>2, <2>3, <2>4, <2>5, <2>6, <2>7 DEF Step
  <1>2. ASSUME NEW t \in Callers, Call(t) PROVE CtxCore' /\ CtxTypes'
    <2>0. t \in Threads
      OBVIOUS
    <2>1. ASSUME NEW i \in Irps, (i \in Writes /\ DispatchWrite(t, i)) \/ (i \in Reads /\ DispatchRead(t, i))
          PROVE  CtxCore' /\ CtxTypes'
      <3>1. /\ Moves(t) /\ t # Virq /\ Issuable(i) /\ th[t].pc = "idle"
            /\ \/ th'[t] = [NoCall EXCEPT !.pc = "lock", !.file = FileOf[i], !.byFile = TRUE]
               \/ th'[t] = [NoCall EXCEPT !.pc = "reads", !.file = FileOf[i]]
               \/ th' = th
        BY <2>0, <2>1, DispatchEffect
      <3>2. ctx' = ctx /\ ctx[FileOf[i]].state = "bound" /\ th[t].ctxs = {}
        BY <2>0, <2>1, <3>1, NoContexts DEF DispatchWrite, DispatchRead, Issuable, Reading
      <3>3. CASE th' = th
        BY <1>0, <2>0, <3>1, <3>2, <3>3, SameFileCtx DEF SameFile
      <3>4. CASE \/ th'[t] = [NoCall EXCEPT !.pc = "lock", !.file = FileOf[i], !.byFile = TRUE]
                 \/ th'[t] = [NoCall EXCEPT !.pc = "reads", !.file = FileOf[i]]
        <4>1. /\ th'[t].file = FileOf[i] /\ th'[t].pc # "release" /\ th'[t].dying = {}
              /\ th'[t].ctxs = {}
          BY <3>4, NoCallFields DEF CallType
        <4> QED
          BY <1>0, <2>0, <3>1, <3>2, <4>1, CtxFrame
      <3> QED
        BY <3>1, <3>3, <3>4
    <2>2. ASSUME NEW f \in Files, Cleanup(t, f) PROVE CtxCore' /\ CtxTypes'
      BY <1>0, <2>0, <2>2, CleanupCtx
    <2>3. CASE Notify(t)
      <3>1. Moves(t) /\ th'[t] = [th[t] EXCEPT !.pc = "copy"] /\ th[t] \in CallType
        BY <2>0, <2>3, GotoEffect, GoesOn
      <3>2. SameFile(t) /\ th'[t].pc = "copy"
        BY <3>1 DEF SameFile, CallType
      <3> QED
        BY <1>0, <2>0, <2>3, <3>1, <3>2, SameFileCtx DEF Notify, Reading
    <2> QED
      BY <1>2, <2>1, <2>2, <2>3 DEF Call
  <1>3. CASE VirqWake
    <2>1. Moves(Virq) /\ th'[Virq] = [th[Virq] EXCEPT !.pc = "getall"] /\ th[Virq] \in CallType
      BY <1>3, GotoEffect, GoesOn
    <2>2. SameFile(Virq) /\ th'[Virq].pc = "getall"
      BY <2>1 DEF SameFile, CallType
    <2> QED
      BY <1>0, <1>3, <2>1, <2>2, SameFileCtx DEF VirqWake, Reading
  <1>4. CASE GetAllContexts
    BY <1>0, <1>4, GetAllCtx
  <1>5. CASE PutAllContexts
    BY <1>0, <1>5, PutAllCtx
  <1>6. ASSUME NEW f \in Files, ContextReads(f) PROVE CtxCore' /\ CtxTypes'
    <2>1. /\ Moves(Virq)
          /\ th'[Virq] = [th[Virq] EXCEPT !.todo = @ \ {f}, !.file = f,
                                          !.pc = IF ctx[f].state = "bound" THEN "reads" ELSE @]
      BY <1>6, ContextEffect
    <2>2. /\ th'[Virq].pc \in {"reads", "contexts"} /\ th'[Virq].dying = th[Virq].dying
          /\ th'[Virq].ctxs = th[Virq].ctxs /\ ctx' = ctx /\ th[Virq].pc = "contexts"
      <3>1. th[Virq] \in CallType
        BY GoesOn
      <3>2. ctx' = ctx /\ th[Virq].pc = "contexts"
        BY <1>6 DEF ContextReads
      <3> QED
        BY <2>1, <3>1, <3>2 DEF CallType
    <2> QED
      BY <1>0, <2>1, <2>2, CtxFrame
  <1>7. ASSUME th' = th, ctx' = ctx PROVE CtxCore' /\ CtxTypes'
    BY <1>0, <1>7, ZenonT(40) DEF CtxCore, CtxTypes, RefsOf, HandleHeld, ThreadCtx, OneHandle
  <1>8. ASSUME \/ \E d \in Dests : Peer(d)
               \/ \E f \in Files : MessageArrives(f) \/ ClientReads(f)
               \/ \E i \in Irps : CancelIrp(i)
        PROVE  th' = th /\ ctx' = ctx
    BY <1>8 DEF Peer, PeerReads, PeerNotifies, PeerRegisters, MessageArrives, ClientReads, CancelIrp
  <1>9. CASE UNCHANGED vars
    BY <1>7, <1>9 DEF vars
  <1> QED
    BY <1>1, <1>2, <1>3, <1>4, <1>5, <1>6, <1>7, <1>8, <1>9, NextCases
-----------------------------------------------------------------------------
(* The invariant *)

QueuesInv == TypeInv /\ CallsOk /\ IrpInv /\ DestInv /\ CtxInv

\* The invariant holds when the driver is loaded and the files are open ...
LEMMA QueuesInvInit == Init => QueuesInv
PROOF
  <1> SUFFICES ASSUME Init PROVE QueuesInv
    OBVIOUS
  <1>t. \A t \in Threads : th[t] = NoCall
    BY DEF Init
  <1>q. Queued = {} /\ \A t \in Threads : Held(t) = {}
    <2>1. Queued = {}
      BY SMT DEF Init, Queued
    <2>2. \A t \in Threads : Held(t) = {}
      BY <1>t, NoCallFields, SMT DEF Held
    <2> QED
      BY <2>1, <2>2
  <1>1. TypeInv
    <2>1. th \in [Threads -> CallType]
      BY NoCallFields DEF Init
    <2>2. dest \in [Dests -> DestType] /\ queue \in Seq(Irps)
      BY SMT DEF Init, NoDest, DestType
    <2>3. hv \in [Dests -> HvType]
      <3>1. Capacity \in Nat
        BY ConstantsAssumption
      <3>2. /\ [ring |-> "none", size |-> 0, q |-> <<>>, room |-> 0, pend |-> NoEntry, owed |-> FALSE] \in HvType
            /\ [ring |-> "up", size |-> Capacity, q |-> <<Capacity>>, room |-> 0, pend |-> NoEntry, owed |-> FALSE] \in HvType
        BY <3>1, SMT DEF HvType, NoEntry
      <3> QED
        BY <3>2 DEF Init
    <2>4. ctx \in [Files -> CtxType]
      <3>1. \A m \in BOOLEAN : [state |-> "bound", refc |-> 2, listed |-> TRUE, freed |-> FALSE,
                               mapped |-> m] \in CtxType
        BY DEF CtxType
      <3> QED
        BY <3>1 DEF Init
    <2>5. /\ rlock \in [Files -> Threads \cup {None}] /\ inbox \in [Files -> Nat]
          /\ event \in [Files -> BOOLEAN] /\ virq \in BOOLEAN
          /\ irp \in [Irps -> {"new", "busy", "ok", "failed", "cancelled"}]
          /\ sent \in [Writes -> Nat] /\ skipped \in BOOLEAN
          /\ unwatched \subseteq Writes
      BY DEF Init
    <2> QED
      BY <2>1, <2>2, <2>3, <2>4, <2>5 DEF TypeInv
  <1>2. CallsOk
    BY <1>t, NoCallOk DEF CallsOk
  <1>3. IrpInv
    <2>1. Distinct(queue) /\ \A t \in Threads : Distinct(th[t].back) /\ th[t].irp \notin Elements(th[t].back)
      BY <1>t, NoCallFields, SMT DEF Init, Distinct, Elements
    <2>2. \A i \in Irps : irp[i] # "busy"
      BY DEF Init
    <2>3. \A w \in Writes : sent[w] = IF irp[w] = "ok" THEN 1 ELSE 0
      BY DEF Init
    <2> QED
      BY <1>q, <2>1, <2>2, <2>3, ZenonT(40) DEF IrpInv
  <1>4. DestInv
    BY <1>q, SMT DEF Init, DestInv, NoDest, Distinct, Elements
  <1>5. CtxInv
    <2>1. \A f \in Files : ctx[f].state = "bound" /\ ctx[f].refc = 2 /\ ctx[f].listed /\ ~ ctx[f].freed
      BY SMT DEF Init
    <2>2. \A t \in Threads : th[t].pc = "idle" /\ th[t].ctxs = {} /\ th[t].dying = {} /\ ~ th[t].byFile
      BY <1>t, NoCallFields
    <2>3. CtxCore
      BY <2>1, <2>2, SMT DEF CtxCore, RefsOf, HandleHeld, ThreadCtx, OneHandle, Reading
    <2> QED
      BY <1>1, <1>2, <2>3, CtxOf
  <1> QED
    BY <1>1, <1>2, <1>3, <1>4, <1>5 DEF QueuesInv

\* ... and every step keeps it.
LEMMA QueuesInvKept ==
  ASSUME QueuesInv, [Next]_vars
  PROVE  QueuesInv'
PROOF
  <1>0. TypeInv /\ CallsOk /\ IrpInv /\ DestInv /\ CtxInv
    BY DEF QueuesInv
  <1>1. PICK t \in Threads : Moves(t) /\ Effect(t)
    BY <1>0, NextEffect
  <1>2. Kept
    BY <1>0, <1>1, EffectKeeps
  <1>3. HvTypes' /\ RestTypes' /\ CtxCore' /\ CtxTypes'
    BY <1>0, HvKept, RestKept, CtxKept
  <1>4. TypeInv' /\ CallsOk'
    BY <1>1, <1>2, <1>3 DEF Kept, Moves, QueueInv, IrpTypes, HvTypes, RestTypes, CtxTypes, TypeInv
  <1>5. CtxInv'
    BY <1>3, <1>4, CtxOf, PTL
  <1> QED
    BY <1>2, <1>4, <1>5 DEF Kept, QueueInv, QueuesInv

INSTANCE FiniteSetTheorems

\* A list of distinct entries is as long as its set of entries is large.
LEMMA DistinctCardinality ==
  ASSUME NEW S, NEW s \in Seq(S), Distinct(s)
  PROVE  Cardinality(Elements(s)) = Len(s)
PROOF
  <1>1. s \in [1 .. Len(s) -> Elements(s)]
    BY SMT DEF Elements
  <1>2. \A y \in Elements(s) : \E x \in 1 .. Len(s) : s[x] = y
    BY SMT DEF Elements
  <1>3. s \in Bijection(1 .. Len(s), Elements(s))
    BY <1>1, <1>2 DEF Bijection, Injection, Surjection, IsInjective, Distinct
  <1>4. ExistsBijection(1 .. Len(s), Elements(s))
    BY <1>3 DEF ExistsBijection
  <1>5. IsFiniteSet(1 .. Len(s)) /\ Cardinality(1 .. Len(s)) = Len(s)
    <2>1. Len(s) \in Nat
      BY SMT
    <2> QED
      BY <2>1, FS_Interval, SMT
  <1> QED
    BY <1>4, <1>5, FS_Bijection

\* The queue, the list of destinations, the IRPs in the hands of threads and the
\* references of the contexts stay in step through every interleaving of callers,
\* notifies, the interrupt thread, cancellation and the close of handles (gh_rw.c,
\* gh_csq.c, gh_create.c).
THEOREM QueuesInvariant == Spec => []QueuesInv
BY QueuesInvInit, QueuesInvKept, PTL DEF Spec

\* An IRP that threads take off the queue and put back is in one place, is
\* completed once, and a write succeeds exactly if it was sent, once (gh_rw.c).
THEOREM IrpCompletedOnce == Spec => []CompletedOnce
PROOF
  <1>1. QueuesInv => CompletedOnce
    <2> SUFFICES ASSUME QueuesInv PROVE CompletedOnce
      OBVIOUS
    <2>1. IrpInv /\ queue \in Seq(Irps)
      BY DEF QueuesInv, TypeInv
    <2>2. Len(queue) = Cardinality(Queued)
      BY <2>1, DistinctCardinality, QueueFacts DEF IrpInv
    <2> QED
      BY <2>1, <2>2 DEF IrpInv, CompletedOnce
  <1> QED
    BY <1>1, QueuesInvariant, PTL

\* The count, the chain and the next length of each destination are those of its
\* queued writes (gh_v4v_csq_link_destination, gh_v4v_csq_unlink_destination).
THEOREM DestinationListInStep == Spec => []DestinationsInStep
PROOF
  <1>1. QueuesInv => DestinationsInStep
    <2> SUFFICES ASSUME QueuesInv, NEW d \in Dests
                 PROVE  /\ dest[d].refc = Cardinality(Queued \cap WritesTo(d))
                        /\ Len(dest[d].chain) = Cardinality(Queued \cap WritesTo(d))
                        /\ Elements(dest[d].chain) = Queued \cap WritesTo(d)
                        /\ Queued \cap WritesTo(d) # {} => dest[d].nextLength = LenOf[dest[d].chain[1]]
      BY DEF DestinationsInStep, Elements
    <2>1. DestInv /\ dest[d].chain \in Seq(Writes)
      BY DEF QueuesInv, TypeInv, DestType
    <2>2. Len(dest[d].chain) = Cardinality(Elements(dest[d].chain))
      BY <2>1, DistinctCardinality DEF DestInv
    <2>3. dest[d].chain = <<>> => Elements(dest[d].chain) = {}
      BY SMTT(30) DEF Elements
    <2> QED
      BY <2>1, <2>2, <2>3 DEF DestInv
  <1> QED
    BY <1>1, QueuesInvariant, PTL

\* The count of a context (gh_v4v_release_context_internal) is the number of its
\* references, and no thread reads, or writes in process_context_writes, for a
\* context that has been freed.
THEOREM ContextsHeld == Spec => []ContextHeld
PROOF
  <1>1. QueuesInv => ContextHeld
    BY DEF QueuesInv, CtxInv
  <1> QED
    BY <1>1, QueuesInvariant, PTL
=============================================================================
