--------------------------- MODULE V4VPagesProofs ---------------------------
(***************************************************************************)
(* That v4v holds one reference for each entry of a ring's list of pages,  *)
(* and that a ring which v4v_ring_add takes for one that is set up has all *)
(* its pages, for every list of frames and every behaviour of the p2m.     *)
(***************************************************************************)
EXTENDS V4VPages, FiniteSetTheorems, TLAPS

\* The state that the argument is about has its type.
Typed ==
  /\ p2m \in [Gfns -> Pages \cup {Paged, Invalid}]
  /\ mfns \in Seq(Pages)
  /\ npage \in Nat /\ len \in Nat
  /\ refs \in [Pages -> Nat]
  /\ forced \in BOOLEAN

\* The inductive invariant: a registration that gets past -EEXIST either may
\* have been forced, or starts with len = 0, so what it leaves when it stops
\* half way is no ring that counts as set up.
PagesInv == Typed /\ RefsBalanced /\ FullySetUp

Places(s, p) == {i \in 1..Len(s) : s[i] = p}
-----------------------------------------------------------------------------
\* The entries of a list are finitely many.
LEMMA PlacesFinite ==
  ASSUME NEW s, Len(s) \in Nat, NEW p
  PROVE  IsFiniteSet(Places(s, p)) /\ Cardinality(Places(s, p)) \in Nat
PROOF
  <1>1. IsFiniteSet(1..Len(s))
    BY FS_Interval
  <1>2. Places(s, p) \in SUBSET (1..Len(s))
    BY DEF Places
  <1>3. IsFiniteSet(Places(s, p))
    BY <1>1, <1>2, FS_Subset
  <1> QED
    BY <1>3, FS_CardinalityType

\* How often a page is in a list is a natural number.
LEMMA OccurrencesType ==
  ASSUME NEW s, Len(s) \in Nat, NEW p
  PROVE  Occurrences(s, p) \in Nat
BY PlacesFinite DEF Occurrences, Places

\* No page is in the empty list.
LEMMA OccurrencesEmpty ==
  ASSUME NEW p
  PROVE  Occurrences(<<>>, p) = 0
PROOF
  <1>1. {i \in 1..Len(<<>>) : <<>>[i] = p} = {}
    OBVIOUS
  <1> QED
    BY <1>1, FS_EmptySet DEF Occurrences

\* The pages that the loop of v4v_find_ring_mfns adds are counted on top of
\* those that it keeps.
LEMMA OccurrencesSplit ==
  ASSUME NEW S, NEW s \in Seq(S), NEW k \in 0..Len(s), NEW p
  PROVE  Occurrences(s, p) =
           Occurrences(SubSeq(s, 1, k), p) + Occurrences(SubSeq(s, k + 1, Len(s)), p)
PROOF
  <1> DEFINE a == SubSeq(s, 1, k)
             b == SubSeq(s, k + 1, Len(s))
             B == {i \in (k + 1)..Len(s) : s[i] = p}
  <1>0. Len(s) \in Nat /\ k \in Nat
    OBVIOUS
  <1>1. Len(a) = k /\ \A i \in 1..k : a[i] = s[i]
    BY <1>0
  <1>2. Len(b) = Len(s) - k /\ \A i \in 1..(Len(s) - k) : b[i] = s[i + k]
    BY <1>0
  <1>3. Places(s, p) = Places(a, p) \cup B /\ Places(a, p) \cap B = {}
    <2> HIDE DEF a, b
    <2> QED
      BY <1>0, <1>1 DEF Places
  <1> HIDE DEF a, b
  <1>4. IsFiniteSet(Places(a, p)) /\ IsFiniteSet(Places(b, p))
    BY <1>0, <1>1, <1>2, PlacesFinite
  <1>5. ExistsBijection(Places(b, p), B)
    <2> DEFINE f == [i \in Places(b, p) |-> i + k]
    <2>1. f \in [Places(b, p) -> B]
      BY <1>0, <1>2 DEF Places
    <2>2. \A x, y \in Places(b, p) : f[x] = f[y] => x = y
      BY <1>0, <1>2 DEF Places
    <2>3. ASSUME NEW y \in B
          PROVE  \E x \in Places(b, p) : f[x] = y
      <3>1. y - k \in Places(b, p)
        BY <1>0, <1>2 DEF Places
      <3>2. f[y - k] = y
        BY <1>0, <3>1
      <3> QED
        BY <3>1, <3>2
    <2>4. f \in Bijection(Places(b, p), B)
      <3> HIDE DEF f, B
      <3> QED
        BY <2>1, <2>2, <2>3 DEF Bijection, Injection, Surjection, IsInjective
    <2> QED
      BY <2>4 DEF ExistsBijection
  <1>6. IsFiniteSet(B) /\ Cardinality(B) = Cardinality(Places(b, p))
    <2> HIDE DEF B
    <2> QED
      BY <1>4, <1>5, FS_Bijection
  <1>7. Cardinality(Places(s, p)) = Cardinality(Places(a, p)) + Cardinality(B)
    <2> HIDE DEF B
    <2>1. Cardinality(Places(a, p) \cup B) =
            Cardinality(Places(a, p)) + Cardinality(B) - Cardinality(Places(a, p) \cap B)
      BY <1>4, <1>6, FS_Union
    <2>2. Cardinality(Places(a, p) \cap B) = 0
      BY <1>3, FS_EmptySet
    <2>3. Cardinality(Places(a, p)) \in Nat /\ Cardinality(B) \in Nat
      BY <1>4, <1>6, FS_CardinalityType
    <2> QED
      BY <1>3, <2>1, <2>2, <2>3
  <1>8. Occurrences(s, p) = Occurrences(a, p) + Occurrences(b, p)
    BY <1>6, <1>7 DEF Occurrences, Places
  <1> QED
    BY <1>8 DEF a, b
-----------------------------------------------------------------------------
\* v4v_ring_remove_mfns gives every reference back.
LEMMA RemoveBalanced ==
  ASSUME Typed, RefsBalanced, RemoveMfns
  PROVE  mfns' \in Seq(Pages) /\ npage' \in Nat /\ refs' \in [Pages -> Nat] /\ RefsBalanced'
PROOF
  <1>1. mfns' = <<>> /\ npage' = 0
    BY DEF RemoveMfns
  <1>2. ASSUME NEW p \in Pages
        PROVE  refs'[p] = 0 /\ Occurrences(mfns', p) = 0
    <2>1. refs'[p] = refs[p] - Occurrences(mfns, p)
      BY DEF RemoveMfns, PutPages
    <2>2. refs[p] = Occurrences(mfns, p) /\ refs[p] \in Nat
      BY DEF RefsBalanced, Typed
    <2> QED
      BY <1>1, <2>1, <2>2, OccurrencesEmpty
  <1>3. refs' \in [Pages -> Nat]
    BY <1>2 DEF RemoveMfns, PutPages
  <1> QED
    BY <1>1, <1>2, <1>3 DEF RefsBalanced

\* What v4v_find_ring_mfns keeps is a first part of what it has found.
LEMMA FoundStartsKept ==
  ASSUME Typed, NEW list, NEW n \in Nat, Reached(list, n)
  PROVE  /\ Kept(list) \in Seq(Pages) /\ Len(Kept(list)) \in 0..n
         /\ Found(list, n) \in Seq(Pages) /\ Len(Found(list, n)) = n
         /\ SubSeq(Found(list, n), 1, Len(Kept(list))) = Kept(list)
PROOF
  <1> DEFINE K == Kept(list)
             F == Found(list, n)
  <1>1. K \in Seq(Pages)
    BY DEF Kept, Typed
  <1>2. Len(K) \in 0..n
    <2>1. Len(K) \in Nat
      BY <1>1
    <2>2. n \in Len(K)..Len(list)
      BY DEF Reached
    <2> QED
      BY <2>1, <2>2
  <1>3. F = [i \in 1..n |-> F[i]] /\ \A i \in 1..n : F[i] \in Pages
    BY DEF Found, Reached
  <1>4. F \in Seq(Pages) /\ Len(F) = n
    <2> HIDE DEF F
    <2> QED
      BY <1>3
  <1>5. \A i \in 1..Len(K) : F[i] = K[i]
    BY <1>2 DEF Found
  <1>6. SubSeq(F, 1, Len(K)) = K
    <2> HIDE DEF F, K
    <2> QED
      BY <1>1, <1>2, <1>4, <1>5
  <1> QED
    BY <1>1, <1>2, <1>4, <1>6

\* Wherever the loop of v4v_find_ring_mfns stops, the references are those of
\* the list it leaves.
LEMMA TakeBalanced ==
  ASSUME Typed, RefsBalanced, NEW list, Len(list) \in Nat, NEW n \in Nat,
         Reached(list, n), Take(list, n)
  PROVE  /\ mfns' \in Seq(Pages) /\ Len(mfns') = n /\ npage' = Len(list)
         /\ refs' \in [Pages -> Nat] /\ RefsBalanced'
PROOF
  <1> DEFINE K == Kept(list)
             F == Found(list, n)
             r == IF SameRing(list) THEN refs ELSE PutPages(refs, mfns)
             N == SubSeq(F, Len(K) + 1, n)
  <1>1. mfns' = F /\ npage' = Len(list) /\ refs' = GetPages(r, N)
    BY DEF Take
  <1>2. /\ K \in Seq(Pages) /\ Len(K) \in 0..n
        /\ F \in Seq(Pages) /\ Len(F) = n
        /\ SubSeq(F, 1, Len(K)) = K
    BY FoundStartsKept
  <1>3. ASSUME NEW p \in Pages
        PROVE  r[p] = Occurrences(K, p)
    <2>1. refs[p] = Occurrences(mfns, p) /\ refs[p] \in Nat
      BY DEF RefsBalanced, Typed
    <2>2. CASE SameRing(list)
      BY <2>1, <2>2 DEF Kept
    <2>3. CASE ~SameRing(list)
      <3>1. r[p] = refs[p] - Occurrences(mfns, p)
        BY <2>3 DEF PutPages
      <3>2. K = <<>>
        BY <2>3 DEF Kept
      <3>3. Occurrences(K, p) = 0
        BY <3>2, OccurrencesEmpty
      <3> QED
        BY <2>1, <3>1, <3>3
    <2> QED
      BY <2>2, <2>3
  <1> HIDE DEF K, F, r
  <1>4. ASSUME NEW p \in Pages
        PROVE  refs'[p] = Occurrences(F, p) /\ refs'[p] \in Nat
    <2>1. refs'[p] = r[p] + Occurrences(N, p)
      BY <1>1 DEF GetPages
    <2>2. Occurrences(F, p) = Occurrences(K, p) + Occurrences(N, p)
      <3>1. Len(K) \in 0..Len(F)
        BY <1>2
      <3>2. Occurrences(F, p) =
              Occurrences(SubSeq(F, 1, Len(K)), p) + Occurrences(SubSeq(F, Len(K) + 1, Len(F)), p)
        BY <1>2, <3>1, OccurrencesSplit
      <3> QED
        BY <1>2, <3>2
    <2>3. Occurrences(F, p) \in Nat
      BY <1>2, OccurrencesType
    <2> QED
      BY <1>3, <2>1, <2>2, <2>3
  <1>5. refs' \in [Pages -> Nat]
    BY <1>1, <1>4 DEF GetPages
  <1> QED
    BY <1>1, <1>2, <1>4, <1>5 DEF RefsBalanced
-----------------------------------------------------------------------------
LEMMA InitPages == Init => PagesInv
PROOF
  <1> SUFFICES ASSUME Init PROVE PagesInv
    OBVIOUS
  <1>0. mfns \in Seq(Pages) /\ npage \in Nat /\ len \in Nat /\ refs \in [Pages -> Nat]
    BY DEF Init
  <1>1. Typed
    BY <1>0 DEF Init, Typed
  <1>2. RefsBalanced
    BY OccurrencesEmpty DEF Init, RefsBalanced
  <1> QED
    BY <1>1, <1>2 DEF PagesInv, FullySetUp, Init

LEMMA StepPages == PagesInv /\ [Next]_vars => PagesInv'
PROOF
  <1> SUFFICES ASSUME PagesInv, [Next]_vars PROVE PagesInv'
    OBVIOUS
  <1>0. Typed /\ RefsBalanced /\ FullySetUp
    BY DEF PagesInv
  <1> USE PagesAssumption
  <1>1. ASSUME NEW list \in PfnLists, NEW fail_exist \in BOOLEAN, NEW pages \in 1..MaxPages,
               Register(list, pages, fail_exist)
        PROVE  PagesInv'
    <2>1. Len(list) \in Nat
      BY DEF PfnLists
    <2>2. /\ mfns' \in Seq(Pages) /\ Len(mfns') = Len(list) /\ npage' = Len(list)
          /\ refs' \in [Pages -> Nat] /\ RefsBalanced'
      BY <1>0, <1>1, <2>1, TakeBalanced DEF Register
    <2>3. Typed'
      BY <1>0, <1>1, <2>1, <2>2 DEF Typed, Register, MayRegister
    <2>4. AllPages'
      BY <1>1, <2>1, <2>2 DEF AllPages, Register
    <2> QED
      BY <2>2, <2>3, <2>4 DEF PagesInv, FullySetUp
  <1>2. ASSUME NEW list \in PfnLists, NEW fail_exist \in BOOLEAN,
               RegisterRetry(list, fail_exist)
        PROVE  PagesInv'
    <2>1. Len(list) \in Nat
      BY DEF PfnLists
    <2>2. PICK n \in 0..Len(list) : Reached(list, n) /\ Take(list, n)
      BY <1>2 DEF RegisterRetry
    <2>3. /\ mfns' \in Seq(Pages) /\ npage' = Len(list)
          /\ refs' \in [Pages -> Nat] /\ RefsBalanced'
      BY <1>0, <2>1, <2>2, TakeBalanced
    <2>4. Typed'
      BY <1>0, <1>2, <2>1, <2>3 DEF Typed, RegisterRetry, MayRegister
    <2>5. len' = 0 \/ forced'
      BY <1>0, <1>2 DEF Typed, RegisterRetry, MayRegister
    <2> QED
      BY <2>3, <2>4, <2>5 DEF PagesInv, FullySetUp
  <1>3. ASSUME NEW list \in PfnLists, NEW fail_exist \in BOOLEAN,
               RegisterError(list, fail_exist)
        PROVE  PagesInv'
    <2>1. mfns' \in Seq(Pages) /\ npage' \in Nat /\ refs' \in [Pages -> Nat] /\ RefsBalanced'
      BY <1>0, <1>3, RemoveBalanced DEF RegisterError
    <2>2. Typed'
      BY <1>0, <1>3, <2>1 DEF Typed, RegisterError, MayRegister
    <2>3. len' = 0 \/ forced'
      BY <1>0, <1>3 DEF Typed, RegisterError, MayRegister
    <2> QED
      BY <2>1, <2>2, <2>3 DEF PagesInv, FullySetUp
  <1>4. CASE Reset
    <2>1. mfns' \in Seq(Pages) /\ npage' \in Nat /\ refs' \in [Pages -> Nat] /\ RefsBalanced'
      BY <1>0, <1>4, RemoveBalanced DEF Reset
    <2>2. Typed' /\ len' = 0
      BY <1>0, <1>4, <2>1 DEF Typed, Reset
    <2> QED
      BY <2>1, <2>2 DEF PagesInv, FullySetUp
  <1>5. ASSUME NEW g \in Gfns, ChangeP2m(g)
        PROVE  PagesInv'
    <2>1. UNCHANGED <<mfns, npage, len, refs, forced>>
      BY <1>5 DEF ChangeP2m
    <2>2. p2m' \in [Gfns -> Pages \cup {Paged, Invalid}]
      BY <1>0, <1>5 DEF ChangeP2m, Typed
    <2> QED
      BY <1>0, <2>1, <2>2 DEF PagesInv, Typed, RefsBalanced, Occurrences, FullySetUp, AllPages
  <1>6. CASE UNCHANGED vars
    BY <1>0, <1>6 DEF vars, PagesInv, Typed, RefsBalanced, Occurrences, FullySetUp, AllPages
  <1> QED
    BY <1>1, <1>2, <1>3, <1>4, <1>5, <1>6 DEF Next

\* v4v holds exactly one reference per entry of the page list: no registration
\* that is stopped, retried, refused or made again, no reset and no change of
\* the p2m makes it leak one or put one twice.
THEOREM ReferencesBalanced == Spec => []RefsBalanced
PROOF
  <1>1. PagesInv => RefsBalanced
    BY DEF PagesInv
  <1> QED
    BY InitPages, StepPages, <1>1, PTL DEF Spec

\* A ring that was only registered with fail_exist and has a length has all
\* its pages: -EEXIST is only ever answered for a ring that is complete.
THEOREM RingsFullySetUp == Spec => []FullySetUp
PROOF
  <1>1. PagesInv => FullySetUp
    BY DEF PagesInv
  <1> QED
    BY InitPages, StepPages, <1>1, PTL DEF Spec

=============================================================================
