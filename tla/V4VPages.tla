------------------------------ MODULE V4VPages ------------------------------
(***************************************************************************)
(* The pages behind one ring of a guest (xen/common/v4v.c:                 *)
(* v4v_find_ring_mfns, v4v_ring_remove_mfns and their callers).  The       *)
(* hypervisor holds a reference on every page it has found for the ring,   *)
(* through registrations that stop half way to be retried, that fail, or   *)
(* that replace the pages of a ring, while the guest's own mapping of      *)
(* frames to pages (the p2m) goes on changing.                             *)
(***************************************************************************)
EXTENDS Naturals, Sequences, FiniteSets

CONSTANTS Gfns,      \* guest frame numbers
          Pages,     \* machine pages
          MaxPages,  \* the longest list of frames
          Paged,     \* a frame that is not there yet: -ECONTINUATION
          Invalid    \* a frame no page can be had for: -EINVAL

ASSUME PagesAssumption == /\ Paged \notin Pages /\ Invalid \notin Pages
                          /\ MaxPages \in Nat \ {0}

VARIABLES p2m,    \* what get_gfn_unshare answers for each frame
          mfns,   \* ring_info->mfns[0 .. nmfns - 1]
          npage,  \* ring_info->npage, 0 while there is no mfns array
          len,    \* ring_info->len, in pages
          refs,   \* references v4v holds on each page
          forced  \* since it was made the ring was registered without fail_exist

vars == <<p2m, mfns, npage, len, refs, forced>>

Init ==
  /\ p2m \in [Gfns -> Pages \cup {Paged, Invalid}]
  /\ mfns = <<>> /\ npage = 0 /\ len = 0
  /\ refs = [p \in Pages |-> 0] /\ forced = FALSE

Occurrences(s, p) == Cardinality({i \in 1..Len(s) : s[i] = p})

\* get_page in v4v_find_ring_mfn, put_page in v4v_ring_remove_mfns
GetPages(r, s) == [p \in Pages |-> r[p] + Occurrences(s, p)]
PutPages(r, s) == [p \in Pages |-> r[p] - Occurrences(s, p)]

\* v4v_ring_remove_mfns
RemoveMfns == mfns' = <<>> /\ npage' = 0 /\ refs' = PutPages(refs, mfns)

PfnLists == UNION {[1..n -> Gfns] : n \in 1..MaxPages}

\* What the ring already has is kept when the list is as long as before and
\* its frames still are the pages found for them.
SameRing(list) ==
  /\ npage = Len(list)
  /\ \A i \in 1..Len(mfns) : p2m[list[i]] = mfns[i]

Kept(list) == IF SameRing(list) THEN mfns ELSE <<>>

\* The pages of the list up to n, those kept first.
Found(list, n) ==
  [i \in 1..n |-> IF i <= Len(Kept(list)) THEN Kept(list)[i] ELSE p2m[list[i]]]

\* The loop over the list has passed n entries.
Reached(list, n) ==
  /\ n \in Len(Kept(list))..Len(list)
  /\ \A i \in 1..n : Found(list, n)[i] \in Pages

\* Mutant: the pages of the ring that is replaced are not put.
TakeNoPut(list, n) ==
  /\ mfns' = Found(list, n) /\ npage' = Len(list)
  /\ refs' = GetPages(refs, SubSeq(Found(list, n), Len(Kept(list)) + 1, n))

Take(list, n) ==
  /\ mfns' = Found(list, n) /\ npage' = Len(list)
  /\ refs' = LET r == IF SameRing(list) THEN refs ELSE PutPages(refs, mfns)
             IN  GetPages(r, SubSeq(Found(list, n), Len(Kept(list)) + 1, n))

\* Mutant: a ring that is set up is registered over.
MayRegisterAlways(fail_exist) == forced' = (forced \/ ~ fail_exist)

\* -EEXIST for a ring that is set up, if the caller asks for it.
MayRegister(fail_exist) ==
  /\ ~ (fail_exist /\ len # 0)
  /\ forced' = (forced \/ ~ fail_exist)

Register(list, pages, fail_exist) ==
  /\ MayRegister(fail_exist) /\ pages <= Len(list)
  /\ Reached(list, Len(list))
  /\ Take(list, Len(list))
  /\ len' = pages
  /\ UNCHANGED p2m

\* check_free_pages_needed, a frame that is not there yet, or no mapping for
\* the first page: what was found stays for the next try, and len as it was.
RegisterRetry(list, fail_exist) ==
  /\ MayRegister(fail_exist)
  /\ \E n \in 0..Len(list) : Reached(list, n) /\ Take(list, n)
  /\ UNCHANGED <<p2m, len>>

\* A frame is invalid or the list cannot be read, or (for a ring that has no
\* array of pages left) there is no memory for one: all pages go.
RegisterError(list, fail_exist) ==
  /\ MayRegister(fail_exist)
  /\ \/ \E n \in 0..Len(list) : Reached(list, n) /\ n < Len(list)
     \/ npage = 0 \/ ~ SameRing(list)
  /\ RemoveMfns
  /\ UNCHANGED <<p2m, len>>

\* v4v_ring_reset, for a suspend, and v4v_ring_remove_info, after which the
\* id has no ring: the next one starts from here.
Reset ==
  /\ RemoveMfns
  /\ len' = 0 /\ forced' = FALSE
  /\ UNCHANGED p2m

\* The guest's frames come and go (external: the p2m).
ChangeP2m(g) ==
  /\ \E x \in Pages \cup {Paged, Invalid} : p2m' = [p2m EXCEPT ![g] = x]
  /\ UNCHANGED <<mfns, npage, len, refs, forced>>

Next ==
  \/ \E list \in PfnLists, fail_exist \in BOOLEAN :
       \/ \E pages \in 1..MaxPages : Register(list, pages, fail_exist)
       \/ RegisterRetry(list, fail_exist) \/ RegisterError(list, fail_exist)
  \/ Reset
  \/ \E g \in Gfns : ChangeP2m(g)

Spec == Init /\ [][Next]_vars
-----------------------------------------------------------------------------
\* v4v holds exactly one reference per entry of the page list: whatever way
\* registrations end, none is leaked and none is put twice.
RefsBalanced == \A p \in Pages : refs[p] = Occurrences(mfns, p)

AllPages == npage # 0 /\ Len(mfns) = npage /\ len <= npage

\* As long as it is only registered with fail_exist, a ring with a length has
\* all the pages of that length: what v4v_ring_add takes for a ring that is set
\* up is one, however often its registration was stopped and retried.
FullySetUp == len # 0 /\ ~ forced => AllPages

=============================================================================
