-------------------------- MODULE KernelCoreProofs --------------------------
(***************************************************************************)
(* The two structures the rest of the kernel stands on.  First the page    *)
(* allocator: the bitmap and the free count of Pmm.tla, for any memory     *)
(* maps, number of pages and size of requests.  Then the threads' links:   *)
(* those of RunQueue.tla make one ring and lists that end, and what the    *)
(* scheduler does to them is what RunQueueSpec.tla promises of a queue     *)
(* and a stack, for any threads.                                           *)
(***************************************************************************)
EXTENDS Pmm, RunQueue, SequenceTheorems, FiniteSetTheorems, WellFoundedInduction, TLAPS

\* A nonempty set of naturals has a least element.
LEMMA LeastExists ==
    ASSUME NEW S \in SUBSET Nat, S # {}
    PROVE  \E m \in S : \A k \in S : m <= k
<1> DEFINE Less == {ss \in Nat \X Nat : ss[1] < ss[2]}
<1>1. \A i, j \in Nat : i < j => <<i, j>> \in Less
  OBVIOUS
<1>2. IsWellFoundedOn(Less, Nat)
  BY NatLessThanWellFounded DEF OpToRel
<1> HIDE DEF Less
<1>3. \E m \in S : \A k \in S : ~ (<<k, m>> \in Less)
  BY <1>2, WFMin
<1>4. PICK m \in S : \A k \in S : ~ (<<k, m>> \in Less)
  BY <1>3
<1>5. \A k \in S : m <= k
  <2> TAKE k \in S
  <2>1. k \in Nat /\ m \in Nat /\ ~ (k < m)
    BY <1>1, <1>4
  <2>2. QED
    BY <2>1
<1>6. QED
  BY <1>5

\* BitmapExact alone ties the bitmap to the owners; the count needs it to know
\* that a freed page was counted as used, and the types to count at all.
IInv == TypeOK /\ BitmapExact /\ FreeCountExact

\* A range of n pages is a finite set of n numbers.
LEMMA RangeSize ==
    ASSUME NEW first \in Nat, NEW n \in Nat
    PROVE  /\ IsFiniteSet(PageRange(first, first + n))
           /\ Cardinality(PageRange(first, first + n)) = n
<1>1. PageRange(first, first + n) = first..(first + n - 1)
  BY DEF PageRange
<1>2. QED
  BY <1>1, FS_Interval

\* The pages are finitely many.
LEMMA PagesFinite == IsFiniteSet(Page) /\ \A S \in SUBSET Page : IsFiniteSet(S)
<1>1. IsFiniteSet(Page)
  BY BoundsAssumption, FS_Interval DEF Page
<1>2. QED
  BY <1>1, FS_Subset

\* Setting n clear bits takes n pages from the clear ones.
LEMMA SetBits ==
    ASSUME NEW U \in SUBSET Page, NEW first \in Nat, NEW n \in Nat,
           PageRange(first, first + n) \subseteq Page \ U
    PROVE  Cardinality(Page \ (U \cup PageRange(first, first + n))) = Cardinality(Page \ U) - n
<1> DEFINE R == PageRange(first, first + n)
<1>1. IsFiniteSet(Page \ U) /\ IsFiniteSet(R) /\ Cardinality(R) = n
  BY PagesFinite, RangeSize
<1>2. Page \ (U \cup R) = (Page \ U) \ R
  OBVIOUS
<1>3. (Page \ U) \cap R = R
  OBVIOUS
<1> HIDE DEF R
<1>4. Cardinality((Page \ U) \ R) = Cardinality(Page \ U) - Cardinality((Page \ U) \cap R)
  BY <1>1, FS_Difference
<1>5. QED
  BY <1>1, <1>2, <1>3, <1>4 DEF R

\* Clearing n set bits adds n pages to the clear ones.
LEMMA ClearBits ==
    ASSUME NEW U \in SUBSET Page, NEW first \in Nat, NEW n \in Nat,
           PageRange(first, first + n) \subseteq U
    PROVE  Cardinality(Page \ (U \ PageRange(first, first + n))) = Cardinality(Page \ U) + n
<1> DEFINE R == PageRange(first, first + n)
           V == U \ R
<1>1. V \in SUBSET Page /\ R \subseteq Page \ V /\ V \cup R = U
  OBVIOUS
<1>2. Cardinality(Page \ (V \cup R)) = Cardinality(Page \ V) - n
  BY <1>1, SetBits
<1>3. Cardinality(Page \ V) \in Nat
  BY PagesFinite, FS_CardinalityType
<1>4. Page \ (V \cup R) = Page \ U
  BY <1>1
<1> HIDE DEF V
<1>5. Cardinality(Page \ U) = Cardinality(Page \ V) - n
  BY <1>2, <1>4
<1>6. Cardinality(Page \ V) = Cardinality(Page \ U) + n
  BY <1>3, <1>5
<1>7. QED
  BY <1>6 DEF V

-----------------------------------------------------------------------------
\* The runs a pass finds are made of pages with clear bits.
LEMMA RunsAreFree ==
    ASSUME NEW n \in 1..MaxRequest, next_search_page \in Nat \ {0},
           next_search_page < PageCount \/ next_search_page = 1,
           NEW first \in Found(n)
    PROVE  /\ first \in Nat \ {0}
           /\ first + n <= PageCount
           /\ PageRange(first, first + n) \subseteq Page \ used
<1>1. CASE first \in Runs(n, next_search_page, PageCount)
  BY <1>1, BoundsAssumption DEF Runs, PageRange, Page
<1>2. CASE first \in Runs(n, 1, next_search_page)
  <2>1. first \in 1..(next_search_page - n) /\ PageRange(first, first + n) \cap used = {}
    BY <1>2 DEF Runs
  <2>2. first \in Nat \ {0} /\ first + n <= next_search_page /\ n >= 1
    BY <2>1, BoundsAssumption
  <2>3. next_search_page < PageCount
    BY <2>2
  <2>4. QED
    BY <2>1, <2>2, <2>3, BoundsAssumption DEF PageRange, Page
<1>3. QED
  BY <1>1, <1>2 DEF Found

\* The bitmap storage lies in a usable range.
LEMMA BitmapPlaced ==
    ASSUME NEW map \in MemoryMaps
    PROVE  /\ Usable(map) \subseteq Page
           /\ LET r == BitmapRange(map) IN
                /\ r \in map
                /\ PageRange(r.first, r.first + BitmapPages) \subseteq Usable(map)
<1> DEFINE fits == {r \in map : r.end - r.first >= BitmapPages}
<1>1. Usable(map) \subseteq Page
  BY MapsAssumption, BoundsAssumption DEF Usable, PageRange, Page
<1>2. \E r \in fits : \A s \in fits : r.first <= s.first
  <2> DEFINE firsts == {r.first : r \in fits}
  <2>1. firsts # {} /\ firsts \subseteq Nat
    BY MapsAssumption
  <2>2. \E m \in firsts : \A k \in firsts : m <= k
    BY <2>1, LeastExists
  <2>3. QED
    BY <2>2
<1>3. BitmapRange(map) \in fits
  BY <1>2 DEF BitmapRange
<1>4. QED
  BY <1>1, <1>3, MapsAssumption, BoundsAssumption DEF Usable, PageRange

-----------------------------------------------------------------------------
(***************************************************************************)
(* The initial state.                                                      *)
(***************************************************************************)

\* Page zero and the storage are counted out once each: the count pmm_init
\* arrives at is the number of pages whose bit it leaves clear.
LEMMA BootCount ==
    ASSUME NEW U \in SUBSET Page, NEW B \in SUBSET U
    PROVE  Cardinality(U) - Cardinality({0} \cap U) - Cardinality(B \ {0})
             = Cardinality(Page \ ((Page \ U) \cup {0} \cup B))
<1> DEFINE V == U \ {0}
           C == B \ {0}
<1>1. IsFiniteSet(U) /\ IsFiniteSet(V) /\ IsFiniteSet(C)
  BY PagesFinite
<1>2. Cardinality(V) = Cardinality(U) - Cardinality(U \cap {0})
  BY <1>1, FS_Difference
<1>3. Cardinality(V \ C) = Cardinality(V) - Cardinality(V \cap C)
  BY <1>1, FS_Difference
<1>4. V \cap C = C /\ U \cap {0} = {0} \cap U
  OBVIOUS
<1>5. Page \ ((Page \ U) \cup {0} \cup B) = V \ C
  OBVIOUS
<1> HIDE DEF V
<1>6. Cardinality(V \ C) = Cardinality(U) - Cardinality({0} \cap U) - Cardinality(C)
  BY <1>2, <1>3, <1>4
<1>7. QED
  BY <1>5, <1>6

LEMMA InitInvariant == Init => IInv
<1> SUFFICES ASSUME NEW map \in MemoryMaps,
                    LET r == BitmapRange(map) IN
                    /\ managed = Usable(map)
                    /\ bitmap_storage = PageRange(r.first, r.first + BitmapPages)
                    /\ used = (Page \ managed) \cup {0} \cup bitmap_storage
                    /\ free_page_count = FreeAtBoot(map, bitmap_storage)
                    /\ next_search_page = 1
                    /\ owned = {}
                    /\ failed = 0
             PROVE  IInv
  BY DEF Init
<1>1. managed \subseteq Page /\ bitmap_storage \subseteq managed
  BY BitmapPlaced
<1>2. 0 \in Page
  <2>1. PICK r \in map : r.end = PageCount
    BY MapsAssumption
  <2>2. r.first \in Nat /\ r.first < r.end
    BY <2>1, MapsAssumption
  <2>3. QED
    BY <2>1, <2>2, BoundsAssumption DEF Page
<1>3. used \subseteq Page
  BY <1>1, <1>2
<1>4. FreeCountExact
  <2>1. free_page_count = Cardinality(managed) - Cardinality({0} \cap managed)
                                               - Cardinality(bitmap_storage \ {0})
    BY DEF FreeAtBoot
  <2>2. used = (Page \ managed) \cup {0} \cup bitmap_storage
    OBVIOUS
  <2>3. bitmap_storage \in SUBSET managed /\ managed \in SUBSET Page
    BY <1>1
  <2>4. QED
    BY <2>1, <2>2, <2>3, BootCount DEF FreeCountExact
<1>5. free_page_count \in Int
  BY <1>4, PagesFinite, FS_CardinalityType DEF FreeCountExact
<1>6. TypeOK
  BY <1>1, <1>3, <1>5, BoundsAssumption DEF TypeOK
<1>7. BitmapExact
  BY <1>1 DEF BitmapExact
<1>8. QED
  BY <1>4, <1>6, <1>7 DEF IInv

-----------------------------------------------------------------------------
(***************************************************************************)
(* The steps.                                                              *)
(***************************************************************************)

LEMMA TakeInvariant ==
    ASSUME IInv, NEW n \in 1..MaxRequest, NEW first \in Found(n), Take(first, n),
           UNCHANGED <<managed, bitmap_storage>>
    PROVE  IInv'
<1> DEFINE R == PageRange(first, first + n)
<1> USE DEF IInv
<1>1. first \in Nat \ {0} /\ n \in Nat /\ first + n <= PageCount /\ R \subseteq Page \ used
  BY RunsAreFree, BoundsAssumption DEF TypeOK
<1> HIDE DEF R
<1>2. /\ used' = used \cup R
      /\ owned' = owned \cup R
      /\ free_page_count' = free_page_count - n
      /\ failed' = 0
      /\ managed' = managed
      /\ bitmap_storage' = bitmap_storage
  BY DEF Take, R
<1>3. next_search_page' = IF first + n >= PageCount THEN 1 ELSE first + n
  BY DEF Take
<1>4. BitmapExact'
  BY <1>1, <1>2 DEF BitmapExact
<1>5. FreeCountExact'
  <2>1. Cardinality(Page \ (used \cup R)) = Cardinality(Page \ used) - n
    BY <1>1, SetBits DEF TypeOK, R
  <2>2. QED
    BY <1>2, <2>1 DEF FreeCountExact
<1>6. TypeOK'
  <2>1. used' \subseteq Page /\ owned' \subseteq Page /\ failed' \in 0..MaxRequest
    BY <1>1, <1>2, BoundsAssumption DEF TypeOK
  <2>2. free_page_count' \in Int
    BY <1>1, <1>2 DEF TypeOK
  <2>3. next_search_page' \in Nat \ {0} /\ (next_search_page' < PageCount \/ next_search_page' = 1)
    BY <1>1, <1>3, BoundsAssumption
  <2>4. QED
    BY <1>2, <2>1, <2>2, <2>3 DEF TypeOK
<1>7. QED
  BY <1>4, <1>5, <1>6

LEMMA ReturnInvariant ==
    ASSUME IInv, NEW n \in 1..MaxRequest, NEW first \in Page,
           first + n <= PageCount,
           Plausible(PageRange(first, first + n)),
           Freeable(PageRange(first, first + n)),
           used' = used \ PageRange(first, first + n),
           owned' = owned \ PageRange(first, first + n),
           free_page_count' = free_page_count + n,
           next_search_page' = Rewind(first),
           failed' = 0,
           UNCHANGED <<managed, bitmap_storage>>
    PROVE  IInv'
<1> DEFINE R == PageRange(first, first + n)
<1> USE DEF IInv
<1>1. first \in Nat /\ n \in Nat /\ 0 < n
  BY BoundsAssumption DEF Page
<1>2. R \subseteq used /\ R \subseteq managed \ bitmap_storage
  BY DEF Freeable
<1>3. R \subseteq owned
  BY <1>2 DEF Plausible
<1>4. first \in R
  BY <1>1 DEF PageRange
<1> HIDE DEF R
<1>5. used' = used \ R /\ owned' = owned \ R
  BY DEF R
<1>6. BitmapExact'
  BY <1>2, <1>3, <1>5 DEF BitmapExact, TypeOK
<1>7. FreeCountExact'
  <2>1. Cardinality(Page \ (used \ R)) = Cardinality(Page \ used) + n
    BY <1>1, <1>2, ClearBits DEF TypeOK, R
  <2>2. QED
    BY <1>5, <2>1 DEF FreeCountExact
<1>8. first # 0
  BY <1>3, <1>4 DEF BitmapExact
<1>9. next_search_page' \in Nat \ {0} /\ (next_search_page' < PageCount \/ next_search_page' = 1)
  BY <1>1, <1>8, BoundsAssumption DEF TypeOK, Rewind, Page
<1>10. TypeOK'
  <2>1. used' \subseteq Page /\ owned' \subseteq Page /\ failed' \in 0..MaxRequest
    BY <1>5, BoundsAssumption DEF TypeOK
  <2>2. free_page_count' \in Int
    BY <1>1 DEF TypeOK
  <2>3. QED
    BY <1>9, <2>1, <2>2 DEF TypeOK
<1>11. QED
  BY <1>6, <1>7, <1>10

\* A step that leaves the bitmap, its owners and the count alone.
LEMMA RefusalInvariant ==
    ASSUME IInv, failed' \in 0..MaxRequest,
           UNCHANGED <<managed, bitmap_storage, used, free_page_count, next_search_page, owned>>
    PROVE  IInv'
BY DEF IInv, TypeOK, BitmapExact, FreeCountExact

LEMMA StepInvariant == IInv /\ [Next]_vars => IInv'
<1> SUFFICES ASSUME IInv, [Next]_vars PROVE IInv'
  OBVIOUS
<1>1. ASSUME NEW n \in 1..MaxRequest, AllocatePages(n) PROVE IInv'
  <2>1. CASE n > free_page_count \/ Found(n) = {}
    <3>1. failed' = n /\ n \in 0..MaxRequest
      BY <1>1, <2>1, BoundsAssumption DEF AllocatePages, Refuse
    <3>2. QED
      BY <1>1, <2>1, <3>1, RefusalInvariant DEF AllocatePages, Refuse
  <2>2. CASE ~ (n > free_page_count \/ Found(n) = {})
    <3>1. PICK first \in Found(n) : Take(first, n)
      BY <1>1, <2>2 DEF AllocatePages
    <3>2. QED
      BY <1>1, <3>1, TakeInvariant DEF AllocatePages
  <2>3. QED
    BY <2>1, <2>2
<1>2. ASSUME NEW n \in 1..MaxRequest, NEW first \in Page, FreePages(first, n) PROVE IInv'
  <2>1. CASE Freeable(PageRange(first, first + n))
    BY <1>2, <2>1, ReturnInvariant DEF FreePages
  <2>2. CASE ~ Freeable(PageRange(first, first + n))
    <3>1. failed' \in 0..MaxRequest
      BY <1>2, BoundsAssumption DEF FreePages
    <3>2. QED
      BY <1>2, <2>2, <3>1, RefusalInvariant DEF FreePages
  <2>3. QED
    BY <2>1, <2>2
<1>3. CASE UNCHANGED vars
  <2>1. failed' \in 0..MaxRequest
    BY <1>3 DEF vars, IInv, TypeOK
  <2>2. QED
    BY <1>3, <2>1, RefusalInvariant DEF vars
<1>4. QED
  BY <1>1, <1>2, <1>3 DEF Next

-----------------------------------------------------------------------------
\* The inductive invariant holds throughout.
THEOREM Invariance == Spec => []IInv
BY InitInvariant, StepInvariant, PTL DEF Spec

\* Every bitmap, count and cursor is in range: the cursor never reaches the end
\* of the bitmap and never returns to page zero.
THEOREM TypeCorrect == Spec => []TypeOK
<1>1. IInv => TypeOK
  BY DEF IInv
<1>2. QED
  BY <1>1, Invariance, PTL

\* No frame is ever handed out twice, and none that is not the allocator's to
\* give: the set bits are the unusable pages, page zero, the bitmap's own pages
\* and the callers' pages, whatever is requested and freed.
THEOREM BitmapCorrect == Spec => []BitmapExact
<1>1. IInv => BitmapExact
  BY DEF IInv
<1>2. QED
  BY <1>1, Invariance, PTL

\* free_page_count is the number of clear bits, from pmm_init's counting on.
THEOREM CountCorrect == Spec => []FreeCountExact
<1>1. IInv => FreeCountExact
  BY DEF IInv
<1>2. QED
  BY <1>1, Invariance, PTL

-----------------------------------------------------------------------------
(* Walks.                                                                   *)

\* The least of a set of positive places is one of them and the first.
LEMMA MinIs ==
    ASSUME NEW S \in SUBSET Nat, NEW m \in S, \A k \in S : m <= k
    PROVE  Min(S) = m
<1>1. \A x \in S : (\A y \in S : x <= y) => x = m
  OBVIOUS
<1>2. QED
  BY <1>1 DEF Min

\* f says where a walk from p along nx is after each number of steps up to n.
Visits(f, n, nx, p) ==
    f = [i \in 0..n |-> IF i = 0 THEN p ELSE IF f[i - 1] = NULL THEN NULL ELSE nx[f[i - 1]]]

LEMMA WalkLongEnough ==
    ASSUME NEW nx, NEW p, NEW n \in Nat
    PROVE  \E f : Visits(f, n, nx, p)
<1> DEFINE Short == {m \in Nat : ~ \E f : Visits(f, m, nx, p)}
<1> SUFFICES ASSUME Short # {} PROVE FALSE
  OBVIOUS
<1>1. PICK m \in Short : \A k \in Short : m <= k
  BY LeastExists
<1>2. CASE m = 0
  <2>1. PICK f : f = [i \in 0..0 |-> p]
    OBVIOUS
  <2>2. f = [i \in 0..0 |-> IF i = 0 THEN p ELSE IF f[i - 1] = NULL THEN NULL ELSE nx[f[i - 1]]]
    BY <2>1
  <2>3. QED
    BY <1>2, <2>2 DEF Visits
<1>3. CASE m # 0
  <2>1. m - 1 \in Nat /\ m - 1 \notin Short
    BY <1>1, <1>3
  <2>2. PICK g : Visits(g, m - 1, nx, p)
    BY <2>1
  <2>3. PICK f : f = [i \in 0..m |-> IF i < m THEN g[i] ELSE IF g[m - 1] = NULL THEN NULL ELSE nx[g[m - 1]]]
    OBVIOUS
  <2>4. \A i \in 0..(m - 1) : g[i] = IF i = 0 THEN p ELSE IF g[i - 1] = NULL THEN NULL ELSE nx[g[i - 1]]
    BY <2>2 DEF Visits
  <2>5. \A i \in 0..m : i < m => f[i] = g[i]
    BY <2>3
  <2>6. ASSUME NEW i \in 0..m
        PROVE  f[i] = IF i = 0 THEN p ELSE IF f[i - 1] = NULL THEN NULL ELSE nx[f[i - 1]]
    <3>1. CASE i < m
      <4>1. f[i] = g[i] /\ (i # 0 => f[i - 1] = g[i - 1])
        BY <2>5, <3>1
      <4>2. QED
        BY <2>4, <3>1, <4>1
    <3>2. CASE i = m
      <4>1. f[m] = (IF g[m - 1] = NULL THEN NULL ELSE nx[g[m - 1]]) /\ f[m - 1] = g[m - 1]
        BY <1>1, <1>3, <2>3, <2>5
      <4>2. QED
        BY <1>3, <3>2, <4>1
    <3>3. QED
      BY <3>1, <3>2
  <2>7. f = [i \in 0..m |-> IF i = 0 THEN p ELSE IF f[i - 1] = NULL THEN NULL ELSE nx[f[i - 1]]]
    BY <2>3, <2>6
  <2>8. QED
    BY <2>7 DEF Visits
<1>4. QED
  BY <1>2, <1>3

\* A walk is where it began and goes on along the links.
LEMMA WalkAlong ==
    ASSUME NEW nx, NEW p
    PROVE  \E n \in Nat :
             /\ n = Cardinality(AnyThread)
             /\ Len(Walk(nx, p)) = n + 1
             /\ Walk(nx, p) = [i \in 1..(n + 1) |-> Walk(nx, p)[i]]
             /\ Walk(nx, p)[1] = p
             /\ \A i \in 1..n : Walk(nx, p)[i + 1] = IF Walk(nx, p)[i] = NULL THEN NULL ELSE nx[Walk(nx, p)[i]]
<1>1. IsFiniteSet(AnyThread)
  BY NamesAssumption, FS_AddElement DEF AnyThread, NamesAssumption
<1>2. PICK n \in Nat : n = Cardinality(AnyThread)
  BY <1>1, FS_CardinalityType
<1> DEFINE at == CHOOSE f : Visits(f, n, nx, p)
<1>3. Visits(at, n, nx, p)
  BY WalkLongEnough
<1>4. Walk(nx, p) = [i \in 1..(n + 1) |-> at[i - 1]]
  BY <1>2 DEF Walk, Visits
<1> HIDE DEF at
<1>5. PICK w : w = Walk(nx, p)
  OBVIOUS
<1>6. \A i \in 0..n : at[i] = IF i = 0 THEN p ELSE IF at[i - 1] = NULL THEN NULL ELSE nx[at[i - 1]]
  BY <1>3 DEF Visits
<1>7. \A i \in 1..(n + 1) : w[i] = at[i - 1]
  BY <1>4, <1>5
<1>8. Len(w) = n + 1 /\ w = [i \in 1..(n + 1) |-> w[i]]
  BY <1>4, <1>5
<1>9. w[1] = p
  BY <1>6, <1>7
<1>10. ASSUME NEW i \in 1..n
       PROVE  w[i + 1] = IF w[i] = NULL THEN NULL ELSE nx[w[i]]
  <2>1. i + 1 \in 1..(n + 1) /\ i \in 1..(n + 1) /\ i + 1 - 1 = i /\ i \in 0..n /\ i # 0
    OBVIOUS
  <2>2. w[i + 1] = at[i] /\ w[i] = at[i - 1]
    BY <1>7, <2>1
  <2>3. QED
    BY <1>6, <2>1, <2>2
<1>11. QED
  BY <1>2, <1>5, <1>8, <1>9, <1>10

-----------------------------------------------------------------------------
(* Rings and lists.                                                         *)

OneEach(s) == \A i, j \in 1..Len(s) : s[i] = s[j] => i = j

\* The links nx go round q.
Ring(nx, q) ==
    /\ q \in Seq(AnyThread) /\ Len(q) # 0 /\ OneEach(q)
    /\ \A i \in 1..(Len(q) - 1) : nx[q[i]] = q[i + 1]
    /\ nx[q[Len(q)]] = q[1]

\* The links nx go from p along s to their end.
Leads(nx, p, s) ==
    /\ s \in Seq(AnyThread) /\ OneEach(s)
    /\ p = IF Len(s) = 0 THEN NULL ELSE s[1]
    /\ \A i \in 1..(Len(s) - 1) : nx[s[i]] = s[i + 1]
    /\ Len(s) # 0 => nx[s[Len(s)]] = NULL

LEMMA NoMoreThanThreads ==
    ASSUME NEW s \in Seq(AnyThread), OneEach(s)
    PROVE  Len(s) <= Cardinality(AnyThread)
<1>1. IsFiniteSet(AnyThread)
  BY NamesAssumption, FS_AddElement DEF AnyThread, NamesAssumption
<1>2. PICK n \in Nat : n = Len(s)
  OBVIOUS
<1>3. s \in Injection(1..n, AnyThread)
  BY <1>2 DEF Injection, IsInjective, OneEach
<1>4. Cardinality(1..n) <= Cardinality(AnyThread)
  BY <1>1, <1>3, FS_Injection
<1>5. Cardinality(1..n) = n
  <2>1. n \in Int /\ 1 \in Int
    OBVIOUS
  <2>2. Cardinality(1..n) = IF 1 > n THEN 0 ELSE n - 1 + 1
    BY <2>1, FS_Interval
  <2>3. QED
    BY <2>2
<1>6. QED
  BY <1>2, <1>4, <1>5

LEMMA ThreadsNotNull == NULL \notin AnyThread
  BY NamesAssumption DEF NamesAssumption, AnyThread

\* A walk visits what the links lead to.
LEMMA WalkFollows ==
    ASSUME NEW nx, NEW s \in Seq(AnyThread), Len(s) # 0,
           \A i \in 1..(Len(s) - 1) : nx[s[i]] = s[i + 1],
           NEW k \in 1..Len(s), k <= Cardinality(AnyThread) + 1
    PROVE  Walk(nx, s[1])[k] = s[k]
<1>1. PICK w : w = Walk(nx, s[1])
  OBVIOUS
<1>2. PICK n \in Nat :
        /\ n = Cardinality(AnyThread)
        /\ Len(w) = n + 1
        /\ w[1] = s[1]
        /\ \A i \in 1..n : w[i + 1] = IF w[i] = NULL THEN NULL ELSE nx[w[i]]
  <2>1. PICK p : p = s[1]
    OBVIOUS
  <2>2. w = Walk(nx, p)
    BY <1>1, <2>1
  <2>3. PICK n \in Nat :
          /\ n = Cardinality(AnyThread)
          /\ Len(w) = n + 1
          /\ w[1] = p
          /\ \A i \in 1..n : w[i + 1] = IF w[i] = NULL THEN NULL ELSE nx[w[i]]
    BY <2>2, WalkAlong
  <2>4. QED
    BY <2>1, <2>3
<1> DEFINE Off == {i \in Nat : i \in 1..Len(s) /\ i <= n + 1 /\ w[i] # s[i]}
<1>3. Off = {}
  <2> SUFFICES ASSUME Off # {} PROVE FALSE
    OBVIOUS
  <2>1. PICK i \in Off : \A j \in Off : i <= j
    BY LeastExists
  <2>2. i # 1
    BY <1>2, <2>1
  <2>3. PICK j \in Nat : i = j + 1 /\ j \in 1..(Len(s) - 1) /\ j \in 1..n
    <3>1. i - 1 \in Nat /\ i = (i - 1) + 1 /\ i - 1 \in 1..(Len(s) - 1) /\ i - 1 \in 1..n
      BY <1>2, <2>1, <2>2
    <3>2. QED
      BY <3>1
  <2>4. j \notin Off
    BY <2>1, <2>3
  <2>5. w[j] = s[j] /\ s[j] \in AnyThread
    BY <2>3, <2>4
  <2>6. w[j + 1] = nx[s[j]] /\ nx[s[j]] = s[j + 1]
    BY <1>2, <2>3, <2>5, ThreadsNotNull
  <2>7. QED
    BY <2>1, <2>3, <2>6
<1>4. k \in Nat /\ k <= n + 1
  BY <1>2
<1>5. QED
  BY <1>1, <1>3, <1>4

\* What comes back or ends after s is the chain s.
LEMMA ChainIs ==
    ASSUME NEW nx, NEW s \in Seq(AnyThread), Len(s) # 0, OneEach(s),
           \A i \in 1..(Len(s) - 1) : nx[s[i]] = s[i + 1],
           nx[s[Len(s)]] \in {s[1], NULL}
    PROVE  Chain(nx, s[1]) = s
<1>1. PICK w : w = Walk(nx, s[1])
  OBVIOUS
<1>2. PICK n \in Nat :
        /\ n = Cardinality(AnyThread)
        /\ Len(w) = n + 1
        /\ w = [i \in 1..(n + 1) |-> w[i]]
        /\ \A i \in 1..n : w[i + 1] = IF w[i] = NULL THEN NULL ELSE nx[w[i]]
  <2>1. PICK p : p = s[1]
    OBVIOUS
  <2>2. w = Walk(nx, p)
    BY <1>1, <2>1
  <2>3. QED
    BY <2>2, WalkAlong
<1>3. PICK l \in Nat : l = Len(s) /\ l # 0
  OBVIOUS
<1>4. l <= n
  BY <1>2, <1>3, NoMoreThanThreads
<1>5. \A k \in 1..l : w[k] = s[k]
  <2> TAKE k \in 1..l
  <2>1. k \in 1..Len(s) /\ k <= Cardinality(AnyThread) + 1
    BY <1>2, <1>3, <1>4
  <2>2. QED
    BY <1>1, <2>1, WalkFollows
<1>6. s[1] \in AnyThread /\ \A k \in 1..l : s[k] \in AnyThread
  BY <1>3
<1>7. w[l + 1] \in {s[1], NULL}
  <2>1. l \in 1..n /\ l \in 1..l
    BY <1>3, <1>4
  <2>2. w[l] = s[l] /\ s[l] # NULL
    BY <1>5, <1>6, <2>1, ThreadsNotNull
  <2>3. QED
    BY <1>2, <1>3, <2>1, <2>2
<1> DEFINE back == {i \in 2..Len(w) : w[i] = s[1] \/ w[i] = NULL}
<1>8. l + 1 \in back
  <2>1. l + 1 \in 2..Len(w)
    BY <1>2, <1>3, <1>4
  <2>2. QED
    BY <1>7, <2>1
<1>9. ASSUME NEW k \in back PROVE l + 1 <= k
  <2> SUFFICES ASSUME k < l + 1 PROVE FALSE
    BY <1>2
  <2>1. k \in 2..l
    BY <1>2
  <2>2. w[k] = s[k] /\ s[k] # NULL
    BY <1>5, <1>6, <2>1, ThreadsNotNull
  <2>3. s[k] = s[1]
    BY <2>2
  <2>4. k = 1
    <3>1. k \in 1..Len(s) /\ 1 \in 1..Len(s)
      BY <1>3, <2>1
    <3>2. QED
      BY <2>3, <3>1 DEF OneEach
  <2>5. QED
    BY <2>1, <2>4
<1>10. Min(back) = l + 1
  <2>1. back \in SUBSET Nat
    BY <1>2
  <2>2. QED
    BY <1>8, <1>9, <2>1, MinIs
<1>11. Chain(nx, s[1]) = SubSeq(w, 1, l)
  <2>1. s[1] # NULL
    BY <1>6, ThreadsNotNull
  <2>2. Chain(nx, s[1]) = SubSeq(w, 1, IF back = {} THEN Len(w) ELSE Min(back) - 1)
    BY <1>1, <2>1, Zenon DEF Chain
  <2>3. back # {} /\ Min(back) - 1 = l
    BY <1>8, <1>10
  <2>4. QED
    BY <2>2, <2>3
<1>12. SubSeq(w, 1, l) = [k \in 1..l |-> w[k]]
  <2>1. PICK V : V = {w[i] : i \in 1..(n + 1)}
    OBVIOUS
  <2>2. \A i \in 1..(n + 1) : w[i] \in V
    BY <2>1
  <2>3. w \in Seq(V)
    <3>1. PICK m \in Nat : m = n + 1
      BY <1>2
    <3>2. w = [i \in 1..m |-> w[i]] /\ \A i \in 1..m : w[i] \in V
      BY <1>2, <2>2, <3>1
    <3>3. w \in [1..m -> V]
      BY <3>2
    <3>4. QED
      BY <3>1, <3>3
  <2>4. 1 \in 1..(Len(w) + 1) /\ l \in 0..Len(w) /\ l - 1 + 1 = l
    BY <1>2, <1>3, <1>4
  <2>5. \A k \in 1..l : k \in 1..Len(w)
    BY <1>2, <1>4
  <2>6. PICK u : u = SubSeq(w, 1, l)
    OBVIOUS
  <2>7. u \in Seq(V) /\ Len(u) = l /\ \A k \in 1..l : u[k] = w[k]
    BY <1>3, <2>3, <2>4, <2>5, <2>6, SubSeqProperties
  <2>8. u = [k \in 1..l |-> w[k]]
    BY <2>7
  <2>9. QED
    BY <2>6, <2>8
<1>13. s = [k \in 1..l |-> s[k]]
  BY <1>3
<1>14. QED
  BY <1>5, <1>11, <1>12, <1>13

LEMMA ChainOfRing ==
    ASSUME NEW nx, NEW q, Ring(nx, q)
    PROVE  Chain(nx, q[1]) = q
  BY ChainIs DEF Ring

LEMMA ChainOfList ==
    ASSUME NEW nx, NEW p, NEW s, Leads(nx, p, s)
    PROVE  Chain(nx, p) = s
<1>1. s \in Seq(AnyThread)
  BY DEF Leads
<1>2. CASE Len(s) = 0
  <2>1. p = NULL
    BY <1>2 DEF Leads
  <2>2. s = <<>>
    BY <1>1, <1>2, EmptySeq
  <2>3. QED
    BY <2>1, <2>2 DEF Chain
<1>3. CASE Len(s) # 0
  BY <1>1, <1>3, ChainIs DEF Leads
<1>4. QED
  BY <1>2, <1>3

LEMMA OnSequence ==
    ASSUME NEW s \in Seq(AnyThread), NEW t
    PROVE  t \in ToSet(s) <=> \E k \in 1..Len(s) : s[k] = t
<1>1. DOMAIN s = 1..Len(s)
  OBVIOUS
<1>2. QED
  BY <1>1 DEF ToSet

\* Links that agree on a ring or a list leave it as it is.
LEMMA RingSame ==
    ASSUME NEW nx, NEW mx, NEW q, Ring(nx, q), \A t \in ToSet(q) : mx[t] = nx[t]
    PROVE  Ring(mx, q)
<1>1. q \in Seq(AnyThread) /\ Len(q) \in 1..Len(q)
  BY DEF Ring
<1>2. \A k \in 1..Len(q) : mx[q[k]] = nx[q[k]]
  BY <1>1, OnSequence
<1>3. \A k \in 1..(Len(q) - 1) : k \in 1..Len(q)
  BY <1>1
<1>4. QED
  BY <1>1, <1>2, <1>3 DEF Ring

LEMMA LeadsSame ==
    ASSUME NEW nx, NEW mx, NEW p, NEW s, Leads(nx, p, s), \A t \in ToSet(s) : mx[t] = nx[t]
    PROVE  Leads(mx, p, s)
<1>1. s \in Seq(AnyThread) /\ (Len(s) # 0 => Len(s) \in 1..Len(s))
  BY DEF Leads
<1>2. \A k \in 1..Len(s) : mx[s[k]] = nx[s[k]]
  BY <1>1, OnSequence
<1>3. \A k \in 1..(Len(s) - 1) : k \in 1..Len(s)
  BY <1>1
<1>4. QED
  BY <1>1, <1>2, <1>3 DEF Leads

\* Once round the ring from the place after i.
Round(q, i) == SubSeq(q, i + 1, Len(q)) \o SubSeq(q, 1, i)

LEMMA RoundIs ==
    ASSUME NEW q \in Seq(AnyThread), NEW i \in 0..Len(q)
    PROVE  /\ Round(q, i) \in Seq(AnyThread)
           /\ Len(Round(q, i)) = Len(q)
           /\ \A k \in 1..(Len(q) - i) : Round(q, i)[k] = q[i + k]
           /\ \A k \in (Len(q) - i + 1)..Len(q) : Round(q, i)[k] = q[k - (Len(q) - i)]
<1>1. PICK l \in Nat : l = Len(q)
  OBVIOUS
<1>2. PICK a, b : a = SubSeq(q, i + 1, l) /\ b = SubSeq(q, 1, i)
  OBVIOUS
<1>3. /\ a \in Seq(AnyThread) /\ Len(a) = l - i
      /\ \A k \in 1..(l - i) : a[k] = q[i + k]
  <2>1. CASE i = l
    <3>1. a = <<>>
      BY <1>1, <1>2, <2>1, SubSeqEmpty
    <3>2. QED
      BY <1>1, <2>1, <3>1
  <2>2. CASE i < l
    <3>1. i + 1 \in 1..(l + 1) /\ l \in i..Len(q) /\ \A k \in (i + 1)..l : k \in 1..Len(q)
      BY <1>1, <2>2
    <3>2. /\ a \in Seq(AnyThread) /\ Len(a) = l - (i + 1) + 1
          /\ \A k \in 1..(l - (i + 1) + 1) : a[k] = q[i + 1 + k - 1]
      BY <1>1, <1>2, <2>2, <3>1, SubSeqProperties
    <3>3. l - (i + 1) + 1 = l - i /\ \A k \in 1..(l - i) : i + 1 + k - 1 = i + k
      BY <1>1
    <3>4. QED
      BY <3>2, <3>3
  <2>3. QED
    BY <1>1, <2>1, <2>2
<1>4. /\ b \in Seq(AnyThread) /\ Len(b) = i
      /\ \A k \in 1..i : b[k] = q[k]
  <2>1. CASE i = 0
    <3>1. b = <<>>
      BY <1>1, <1>2, <2>1, SubSeqEmpty
    <3>2. QED
      BY <2>1, <3>1
  <2>2. CASE i # 0
    <3>1. 1 \in 1..(Len(q) + 1) /\ i \in 0..Len(q) /\ \A k \in 1..i : k \in 1..Len(q)
      BY <1>1, <2>2
    <3>2. /\ b \in Seq(AnyThread) /\ Len(b) = i - 1 + 1
          /\ \A k \in 1..(i - 1 + 1) : b[k] = q[1 + k - 1]
      BY <1>2, <2>2, <3>1, SubSeqProperties
    <3>3. i - 1 + 1 = i /\ \A k \in 1..i : 1 + k - 1 = k
      OBVIOUS
    <3>4. QED
      BY <3>2, <3>3
  <2>3. QED
    BY <2>1, <2>2
<1>5. PICK r : r = Round(q, i)
  OBVIOUS
<1>6. /\ r \in Seq(AnyThread) /\ Len(r) = (l - i) + i
      /\ \A k \in 1..((l - i) + i) : r[k] = IF k <= l - i THEN a[k] ELSE b[k - (l - i)]
  <2>1. r = a \o b
    BY <1>1, <1>2, <1>5 DEF Round
  <2>2. /\ r \in Seq(AnyThread) /\ Len(r) = Len(a) + Len(b)
        /\ \A k \in 1..(Len(a) + Len(b)) : r[k] = IF k <= Len(a) THEN a[k] ELSE b[k - Len(a)]
    BY <1>3, <1>4, <2>1, ConcatProperties
  <2>3. Len(a) = l - i /\ Len(b) = i
    BY <1>3, <1>4
  <2>4. QED
    BY <2>2, <2>3
<1>7. ASSUME NEW k \in 1..(l - i) PROVE r[k] = q[i + k]
  <2>1. k \in 1..((l - i) + i) /\ k <= l - i
    BY <1>1
  <2>2. QED
    BY <1>3, <1>6, <2>1
<1>8. ASSUME NEW k \in (l - i + 1)..l PROVE r[k] = q[k - (l - i)]
  <2>1. k \in 1..((l - i) + i) /\ ~ (k <= l - i) /\ k - (l - i) \in 1..i
    BY <1>1
  <2>2. QED
    BY <1>4, <1>6, <2>1
<1>9. (l - i) + i = l
  BY <1>1
<1>10. QED
  BY <1>1, <1>5, <1>6, <1>7, <1>8, <1>9


\* A ring may be followed from any of its threads.
LEMMA RingRound ==
    ASSUME NEW nx, NEW q, Ring(nx, q), NEW i \in 0..Len(q)
    PROVE  /\ Ring(nx, Round(q, i))
           /\ i # 0 => Round(q, i)[1] = nx[q[i]]
           /\ i # Len(q) => Round(q, i)[1] = q[i + 1]
<1>1. PICK l \in Nat : l = Len(q) /\ l # 0
  BY DEF Ring
<1>2. /\ q \in Seq(AnyThread)
      /\ \A j, k \in 1..l : q[j] = q[k] => j = k
      /\ \A k \in 1..(l - 1) : nx[q[k]] = q[k + 1]
      /\ nx[q[l]] = q[1]
  BY <1>1 DEF Ring, OneEach
<1>3. PICK r : r = Round(q, i)
  OBVIOUS
<1>4. /\ r \in Seq(AnyThread) /\ Len(r) = l
      /\ \A k \in 1..(l - i) : r[k] = q[i + k]
      /\ \A k \in (l - i + 1)..l : r[k] = q[k - (l - i)]
  BY <1>1, <1>2, <1>3, RoundIs
<1>5. PICK at : at = [k \in 1..l |-> IF k <= l - i THEN i + k ELSE k - (l - i)]
  OBVIOUS
<1>6. \A k \in 1..l : at[k] \in 1..l /\ r[k] = q[at[k]]
  <2> TAKE k \in 1..l
  <2>1. CASE k <= l - i
    <3>1. k \in 1..(l - i) /\ at[k] = i + k /\ i + k \in 1..l
      BY <1>1, <1>5, <2>1
    <3>2. QED
      BY <1>4, <3>1
  <2>2. CASE ~ (k <= l - i)
    <3>1. k \in (l - i + 1)..l /\ at[k] = k - (l - i) /\ k - (l - i) \in 1..l
      BY <1>1, <1>5, <2>2
    <3>2. QED
      BY <1>4, <3>1
  <2>3. QED
    BY <2>1, <2>2
<1>7. OneEach(r)
  <2> SUFFICES ASSUME NEW j \in 1..l, NEW k \in 1..l, r[j] = r[k] PROVE j = k
    BY <1>4 DEF OneEach
  <2>1. PICK a, b : a = at[j] /\ b = at[k]
    OBVIOUS
  <2>2. a \in 1..l /\ b \in 1..l /\ q[a] = q[b]
    BY <1>6, <2>1
  <2>3. at[j] = at[k]
    BY <1>2, <2>1, <2>2
  <2>4. QED
    BY <1>1, <1>5, <2>3
<1>8. r[1] = nx[r[l]] /\ (i # 0 => r[1] = nx[q[i]]) /\ (i # l => r[1] = q[i + 1])
  <2>1. CASE i = 0
    <3>1. at[1] = 1 /\ at[l] = l /\ 1 \in 1..l /\ l \in 1..l
      BY <1>1, <1>5, <2>1
    <3>2. i + 1 = 1
      BY <2>1
    <3>3. QED
      BY <1>2, <1>6, <2>1, <3>1, <3>2
  <2>2. CASE i # 0 /\ i # l
    <3>1. at[1] = i + 1 /\ at[l] = i /\ 1 \in 1..l /\ l \in 1..l /\ i \in 1..(l - 1)
      BY <1>1, <1>5, <2>2
    <3>2. QED
      BY <1>2, <1>6, <3>1
  <2>3. CASE i = l
    <3>1. at[1] = 1 /\ at[l] = l /\ 1 \in 1..l /\ l \in 1..l
      BY <1>1, <1>5, <2>3
    <3>2. QED
      BY <1>2, <1>6, <2>3, <3>1
  <2>4. QED
    BY <2>1, <2>2, <2>3
<1>9. ASSUME NEW k \in 1..(l - 1) PROVE nx[r[k]] = r[k + 1]
  <2>1. k \in 1..l /\ k + 1 \in 1..l
    BY <1>1
  <2>2. CASE k = l - i
    <3>1. at[k] = l /\ at[k + 1] = 1
      BY <1>1, <1>5, <2>1, <2>2
    <3>2. QED
      BY <1>2, <1>6, <2>1, <3>1
  <2>3. CASE k # l - i
    <3>1. at[k + 1] = at[k] + 1 /\ at[k] \in 1..(l - 1)
      BY <1>1, <1>5, <2>1, <2>3
    <3>2. PICK a \in 1..(l - 1) : a = at[k]
      BY <3>1
    <3>3. r[k] = q[a] /\ r[k + 1] = q[a + 1]
      BY <1>6, <2>1, <3>1, <3>2
    <3>4. nx[q[a]] = q[a + 1]
      BY <1>2
    <3>5. QED
      BY <3>3, <3>4
  <2>4. QED
    BY <2>2, <2>3
<1>10. QED
  BY <1>1, <1>3, <1>4, <1>7, <1>8, <1>9 DEF Ring

LEMMA RoundSame ==
    ASSUME NEW q \in Seq(AnyThread), NEW i \in 0..Len(q)
    PROVE  ToSet(Round(q, i)) = ToSet(q)
<1>1. PICK l \in Nat : l = Len(q)
  OBVIOUS
<1>2. PICK r : r = Round(q, i)
  OBVIOUS
<1>3. /\ r \in Seq(AnyThread) /\ Len(r) = l
      /\ \A k \in 1..(l - i) : r[k] = q[i + k]
      /\ \A k \in (l - i + 1)..l : r[k] = q[k - (l - i)]
  BY <1>1, <1>2, RoundIs
<1>4. ASSUME NEW k \in 1..l PROVE \E j \in 1..l : r[k] = q[j]
  <2>1. CASE k <= l - i
    <3>1. k \in 1..(l - i) /\ i + k \in 1..l
      BY <1>1, <2>1
    <3>2. QED
      BY <1>3, <3>1
  <2>2. CASE ~ (k <= l - i)
    <3>1. k \in (l - i + 1)..l /\ k - (l - i) \in 1..l
      BY <1>1, <2>2
    <3>2. QED
      BY <1>3, <3>1
  <2>3. QED
    BY <2>1, <2>2
<1>5. ASSUME NEW j \in 1..l PROVE \E k \in 1..l : r[k] = q[j]
  <2>1. CASE j > i
    <3>1. PICK k \in 1..(l - i) : i + k = j
      <4>1. j - i \in 1..(l - i) /\ i + (j - i) = j
        BY <1>1, <2>1
      <4>2. QED
        BY <4>1
    <3>2. k \in 1..l
      BY <1>1
    <3>3. QED
      BY <1>3, <3>1, <3>2
  <2>2. CASE ~ (j > i)
    <3>1. PICK k \in (l - i + 1)..l : k - (l - i) = j
      <4>1. j + (l - i) \in (l - i + 1)..l /\ j + (l - i) - (l - i) = j
        BY <1>1, <2>2
      <4>2. QED
        BY <4>1
    <3>2. k \in 1..l
      BY <1>1
    <3>3. QED
      BY <1>3, <3>1, <3>2
  <2>3. QED
    BY <2>1, <2>2
<1>6. DOMAIN r = 1..l /\ DOMAIN q = 1..l
  BY <1>1, <1>3
<1>7. ToSet(r) = ToSet(q)
  <2>1. ToSet(r) = {r[k] : k \in 1..l} /\ ToSet(q) = {q[k] : k \in 1..l}
    BY <1>6 DEF ToSet
  <2>2. \A t : t \in ToSet(r) <=> t \in ToSet(q)
    BY <1>4, <1>5, <2>1
  <2>3. QED
    BY <2>2
<1>8. QED
  BY <1>2, <1>7

\* A thread linked in after the tail.
LEMMA RingAppend ==
    ASSUME NEW nx \in [AnyThread -> Pointer], NEW q, Ring(nx, q),
           NEW u \in AnyThread, u \notin ToSet(q),
           NEW mx, mx = [[nx EXCEPT ![u] = q[1]] EXCEPT ![q[Len(q)]] = u]
    PROVE  Ring(mx, Append(q, u))
<1>1. PICK l \in Nat : l = Len(q) /\ l # 0
  BY DEF Ring
<1>2. /\ q \in Seq(AnyThread)
      /\ \A j, k \in 1..l : q[j] = q[k] => j = k
      /\ \A k \in 1..(l - 1) : nx[q[k]] = q[k + 1]
  BY <1>1 DEF Ring, OneEach
<1>3. \A k \in 1..l : q[k] \in AnyThread /\ q[k] # u
  BY <1>1, <1>2, OnSequence
<1>4. /\ mx[q[l]] = u
      /\ mx[u] = q[1]
      /\ \A t \in AnyThread : t # u /\ t # q[l] => mx[t] = nx[t]
  BY <1>1, <1>3
<1>5. PICK r : r = Append(q, u)
  OBVIOUS
<1>6. /\ r \in Seq(AnyThread) /\ Len(r) = l + 1
      /\ r[l + 1] = u
      /\ \A k \in 1..l : r[k] = q[k]
  BY <1>1, <1>2, <1>5, AppendProperties
<1>7. OneEach(r)
  <2> SUFFICES ASSUME NEW j \in 1..(l + 1), NEW k \in 1..(l + 1), r[j] = r[k] PROVE j = k
    BY <1>6 DEF OneEach
  <2>1. CASE j = l + 1 \/ k = l + 1
    <3>1. (j = l + 1 \/ j \in 1..l) /\ (k = l + 1 \/ k \in 1..l)
      BY <1>1
    <3>2. QED
      BY <1>3, <1>6, <2>1, <3>1
  <2>2. CASE j \in 1..l /\ k \in 1..l
    BY <1>2, <1>6, <2>2
  <2>3. QED
    BY <1>1, <2>1, <2>2
<1>8. ASSUME NEW k \in 1..l PROVE mx[r[k]] = r[k + 1]
  <2>1. CASE k = l
    BY <1>4, <1>6, <2>1
  <2>2. CASE k # l
    <3>1. k \in 1..(l - 1) /\ k \in 1..l /\ k + 1 \in 1..l /\ l \in 1..l
      BY <1>1, <2>2
    <3>2. q[k] # q[l]
      BY <1>2, <2>2, <3>1
    <3>3. QED
      BY <1>2, <1>3, <1>4, <1>6, <3>1, <3>2
  <2>3. QED
    BY <2>1, <2>2
<1>9. mx[r[l + 1]] = r[1]
  <2>1. 1 \in 1..l
    BY <1>1
  <2>2. QED
    BY <1>4, <1>6, <2>1
<1>10. QED
  BY <1>1, <1>5, <1>6, <1>7, <1>8, <1>9 DEF Ring

\* What is left when the thread at place i is taken out.
LEMMA Removed ==
    ASSUME NEW q \in Seq(AnyThread), NEW i \in 1..Len(q)
    PROVE  /\ Abstract!RemoveAt(q, i) \in Seq(AnyThread)
           /\ Len(Abstract!RemoveAt(q, i)) = Len(q) - 1
           /\ \A k \in 1..(i - 1) : Abstract!RemoveAt(q, i)[k] = q[k]
           /\ \A k \in i..(Len(q) - 1) : Abstract!RemoveAt(q, i)[k] = q[k + 1]
<1>1. PICK l \in Nat : l = Len(q)
  OBVIOUS
<1>2. PICK a, b : a = SubSeq(q, 1, i - 1) /\ b = SubSeq(q, i + 1, l)
  OBVIOUS
<1>3. /\ a \in Seq(AnyThread) /\ Len(a) = i - 1
      /\ \A k \in 1..(i - 1) : a[k] = q[k]
  <2>1. i - 1 \in Int /\ \A k \in 1..(i - 1) : k \in 1..Len(q) /\ 1 + k - 1 = k
    BY <1>1
  <2>2. /\ a \in Seq(AnyThread)
        /\ Len(a) = IF 1 <= i - 1 THEN i - 1 - 1 + 1 ELSE 0
        /\ \A k \in 1..(i - 1 - 1 + 1) : a[k] = q[1 + k - 1]
    BY <1>2, <2>1, SubSeqProperties
  <2>3. i - 1 - 1 + 1 = i - 1
    BY <1>1
  <2>4. QED
    BY <1>1, <2>1, <2>2, <2>3
<1>4. /\ b \in Seq(AnyThread) /\ Len(b) = l - i
      /\ \A k \in 1..(l - i) : b[k] = q[i + k]
  <2>1. i + 1 \in Int /\ l \in Int /\ \A k \in (i + 1)..l : k \in 1..Len(q)
    BY <1>1
  <2>2. /\ b \in Seq(AnyThread)
        /\ Len(b) = IF i + 1 <= l THEN l - (i + 1) + 1 ELSE 0
        /\ \A k \in 1..(l - (i + 1) + 1) : b[k] = q[i + 1 + k - 1]
    BY <1>2, <2>1, SubSeqProperties
  <2>3. l - (i + 1) + 1 = l - i /\ \A k \in 1..(l - i) : i + 1 + k - 1 = i + k
    BY <1>1
  <2>4. QED
    BY <1>1, <2>2, <2>3
<1>5. PICK r : r = Abstract!RemoveAt(q, i)
  OBVIOUS
<1>6. /\ r \in Seq(AnyThread) /\ Len(r) = l - 1
      /\ \A k \in 1..(l - 1) : r[k] = IF k <= i - 1 THEN a[k] ELSE b[k - (i - 1)]
  <2>1. r = a \o b
    BY <1>1, <1>2, <1>5 DEF Abstract!RemoveAt
  <2>2. /\ r \in Seq(AnyThread) /\ Len(r) = Len(a) + Len(b)
        /\ \A k \in 1..(Len(a) + Len(b)) : r[k] = IF k <= Len(a) THEN a[k] ELSE b[k - Len(a)]
    BY <1>3, <1>4, <2>1, ConcatProperties
  <2>3. Len(a) = i - 1 /\ Len(a) + Len(b) = l - 1
    BY <1>1, <1>3, <1>4
  <2>4. QED
    BY <2>2, <2>3
<1>7. ASSUME NEW k \in 1..(i - 1) PROVE r[k] = q[k]
  <2>1. k \in 1..(l - 1) /\ k <= i - 1
    BY <1>1
  <2>2. QED
    BY <1>3, <1>6, <2>1
<1>8. ASSUME NEW k \in i..(l - 1) PROVE r[k] = q[k + 1]
  <2>1. k \in 1..(l - 1) /\ ~ (k <= i - 1) /\ k - (i - 1) \in 1..(l - i) /\ i + (k - (i - 1)) = k + 1
    BY <1>1
  <2>2. r[k] = b[k - (i - 1)] /\ b[k - (i - 1)] = q[i + (k - (i - 1))]
    BY <1>4, <1>6, <2>1
  <2>3. QED
    BY <2>1, <2>2
<1>9. QED
  BY <1>1, <1>5, <1>6, <1>7, <1>8

\* From a thread of the ring the links lead to all of it.
LEMMA ChainAt ==
    ASSUME NEW nx, NEW q, Ring(nx, q), NEW t, t \in ToSet(q)
    PROVE  Chain(nx, t) \in Seq(AnyThread) /\ ToSet(Chain(nx, t)) = ToSet(q)
<1>1. q \in Seq(AnyThread)
  BY DEF Ring
<1>2. PICK j \in 1..Len(q) : q[j] = t
  BY <1>1, OnSequence
<1>3. PICK k \in 0..Len(q) : k + 1 = j /\ k # Len(q)
  <2>1. j - 1 \in 0..Len(q) /\ j - 1 + 1 = j /\ j - 1 # Len(q)
    BY <1>1
  <2>2. QED
    BY <2>1
<1>4. Ring(nx, Round(q, k)) /\ Round(q, k)[1] = t
  BY <1>2, <1>3, RingRound
<1>5. Chain(nx, t) = Round(q, k)
  BY <1>4, ChainOfRing
<1>6. QED
  BY <1>1, <1>4, <1>5, RoundSame DEF Ring

-----------------------------------------------------------------------------
(* Scanning for a ready thread.                                             *)

\* The ready threads.
Readies(R, st) == R \in SUBSET AnyThread /\ \A t \in AnyThread : t \in R <=> st[t] = "READY"

\* The candidate loop finds what the queue of RunQueueSpec scans for.
LEMMA FirstReady ==
    ASSUME NEW nx, NEW st, NEW p, NEW q, NEW i \in 0..Len(q), NEW c, c = Round(q, i),
           Chain(nx, p) = c, c \in Seq(AnyThread), NEW R, Readies(R, st),
           NEW k \in 1..Len(c), c[k] \in R
    PROVE  \E m \in 1..Len(c) :
             /\ Candidate(nx, st, p) = c[m]
             /\ c[m] \in R
             /\ Abstract!NextReady(q, R, i) = c[m]
<1>1. PICK I : I = {j \in 1..Len(c) : c[j] \in R}
  OBVIOUS
<1>2. k \in I /\ I \in SUBSET Nat
  BY <1>1
<1>3. PICK m \in I : \A j \in I : m <= j
  BY <1>2, LeastExists
<1>4. Min(I) = m
  BY <1>2, <1>3, MinIs
<1>5. Abstract!Min(I) = Min(I)
  BY DEF Abstract!Min, Min
<1>6. Abstract!SelectInSeq(c, LAMBDA t : t \in R) = m
  BY <1>1, <1>2, <1>4, <1>5 DEF Abstract!SelectInSeq
<1>7. Candidate(nx, st, p) = c[m]
  <2>1. DOMAIN c = 1..Len(c) /\ \A j \in 1..Len(c) : c[j] \in AnyThread
    OBVIOUS
  <2>2. {j \in DOMAIN c : st[c[j]] = "READY"} = I
    BY <1>1, <2>1 DEF Readies
  <2>3. QED
    BY <1>2, <1>4, <2>2 DEF Candidate
<1>8. Abstract!NextReady(q, R, i) = c[m]
  BY <1>6 DEF Abstract!NextReady, Round
<1>9. QED
  BY <1>1, <1>3, <1>7, <1>8

\* Without a ready thread the loop returns to its start.
LEMMA NoneReady ==
    ASSUME NEW nx, NEW st, NEW p, NEW c, Chain(nx, p) = c, c \in Seq(AnyThread),
           \A k \in 1..Len(c) : st[c[k]] # "READY"
    PROVE  Candidate(nx, st, p) = p
<1>1. {i \in DOMAIN c : st[c[i]] = "READY"} = {}
  OBVIOUS
<1>2. QED
  BY <1>1 DEF Candidate

\* From place i round the ring, the loop and the queue's scan agree.
LEMMA Scan ==
    ASSUME NEW nx, NEW q, Ring(nx, q), NEW st, NEW i \in 0..Len(q),
           NEW p, p = Round(q, i)[1], NEW R, Readies(R, st), R \subseteq ToSet(q)
    PROVE  \/ R = {} /\ st[Candidate(nx, st, p)] # "READY"
           \/ /\ Candidate(nx, st, p) \in R /\ st[Candidate(nx, st, p)] = "READY"
              /\ Abstract!NextReady(q, R, i) = Candidate(nx, st, p)
<1>1. PICK c : c = Round(q, i)
  OBVIOUS
<1>2. Ring(nx, c) /\ p = c[1]
  BY <1>1, RingRound
<1>3. Chain(nx, p) = c /\ c \in Seq(AnyThread) /\ Len(c) # 0
  BY <1>2, ChainOfRing DEF Ring
<1>4. q \in Seq(AnyThread)
  BY DEF Ring
<1>5. ToSet(c) = ToSet(q)
  BY <1>1, <1>4, RoundSame
<1>6. \A k \in 1..Len(c) : c[k] \in ToSet(q) /\ c[k] \in AnyThread
  BY <1>3, <1>5, OnSequence
<1>7. CASE \E k \in 1..Len(c) : c[k] \in R
  <2>1. PICK k \in 1..Len(c) : c[k] \in R
    BY <1>7
  <2>2. PICK m \in 1..Len(c) :
          /\ Candidate(nx, st, p) = c[m]
          /\ c[m] \in R
          /\ Abstract!NextReady(q, R, i) = c[m]
    BY <1>1, <1>3, <2>1, FirstReady
  <2>3. QED
    BY <1>6, <2>2 DEF Readies
<1>8. CASE ~ \E k \in 1..Len(c) : c[k] \in R
  <2>1. \A k \in 1..Len(c) : st[c[k]] # "READY"
    BY <1>6, <1>8 DEF Readies
  <2>2. Candidate(nx, st, p) = p
    BY <1>3, <2>1, NoneReady
  <2>3. \A t \in ToSet(q) : t \notin R
    BY <1>3, <1>5, <1>8, OnSequence
  <2>4. p \in ToSet(q)
    <3>1. 1 \in 1..Len(c)
      BY <1>3
    <3>2. QED
      BY <1>2, <1>6, <3>1
  <2>5. R = {} /\ p \in AnyThread
    BY <1>4, <2>3, <2>4, OnSequence
  <2>6. QED
    BY <2>2, <2>5 DEF Readies
<1>9. QED
  BY <1>7, <1>8

-----------------------------------------------------------------------------
(* The invariant.                                                           *)

Live == {"READY", "RUNNING", "BLOCKED"}

\* Links nx, from head, tail, zombie list and the reapers' lists, thread the
\* ring q, the list z and the lists tk.
Threaded(nx, hd, tl, zl, ls, q, z, tk) ==
    /\ Ring(nx, q)
    /\ hd = q[1] /\ tl = q[Len(q)]
    /\ Leads(nx, zl, z)
    /\ \A t \in AnyThread : Leads(nx, ls[t], tk[t])
    /\ tk = [t \in AnyThread |-> tk[t]]

\* The ring is of the live threads, the lists are of terminated ones.
Sorted(st, cur, q, z, tk) ==
    /\ \A t \in AnyThread : t \in ToSet(q) <=> st[t] \in Live
    /\ \A t \in AnyThread : t \in ToSet(z) => st[t] = "TERMINATED"
    /\ \A t, u \in AnyThread : t \in ToSet(tk[u]) => st[t] = "TERMINATED" /\ t \notin ToSet(z)
    /\ \A t, u, v \in AnyThread : t \in ToSet(tk[u]) /\ t \in ToSet(tk[v]) => u = v
    /\ st[cur] = "RUNNING"
    /\ \A t \in AnyThread : st[t] = "RUNNING" => t = cur
    /\ st[boot_thread] \in {"READY", "RUNNING"}

Shape(q, z, tk) ==
    /\ Threaded(next, run_queue_head, run_queue_tail, zombie_list, list, q, z, tk)
    /\ Sorted(state, current_thread, q, z, tk)

QueueInv == QueueTypeOK /\ \E q, z, tk : Shape(q, z, tk)

\* What the links are to RunQueueSpec.
LEMMA Mapped ==
    ASSUME NEW nx, NEW hd, NEW tl, NEW zl, NEW ls, NEW q, NEW z, NEW tk,
           Threaded(nx, hd, tl, zl, ls, q, z, tk)
    PROVE  /\ Chain(nx, hd) = q
           /\ Chain(nx, zl) = z
           /\ \A t \in AnyThread : Chain(nx, ls[t]) = tk[t]
<1>1. Chain(nx, hd) = q
  BY ChainOfRing DEF Threaded
<1>2. Chain(nx, zl) = z
  BY ChainOfList DEF Threaded
<1>3. ASSUME NEW t \in AnyThread PROVE Chain(nx, ls[t]) = tk[t]
  <2>1. Leads(nx, ls[t], tk[t])
    BY DEF Threaded
  <2>2. QED
    BY <2>1, ChainOfList
<1>4. QED
  BY <1>1, <1>2, <1>3

LEMMA Sequences ==
    ASSUME NEW q, NEW z, NEW tk, Shape(q, z, tk)
    PROVE  /\ q \in Seq(AnyThread) /\ Len(q) # 0 /\ z \in Seq(AnyThread)
           /\ \A t \in AnyThread : tk[t] \in Seq(AnyThread)
  BY DEF Shape, Threaded, Ring, Leads

\* Where the current thread is on the ring, and what follows it.
LEMMA CurrentAt ==
    ASSUME QueueTypeOK, NEW q, NEW z, NEW tk, Shape(q, z, tk)
    PROVE  \E i \in 1..Len(q) : q[i] = current_thread /\ next[current_thread] = Round(q, i)[1]
<1>1. q \in Seq(AnyThread) /\ Ring(next, q)
  BY Sequences DEF Shape, Threaded
<1>2. current_thread \in ToSet(q)
  BY DEF QueueTypeOK, Shape, Sorted, Live
<1>3. PICK i \in 1..Len(q) : q[i] = current_thread
  BY <1>1, <1>2, OnSequence
<1>4. i \in 0..Len(q) /\ i # 0
  OBVIOUS
<1>5. Round(q, i)[1] = next[q[i]]
  BY <1>1, <1>4, RingRound
<1>6. QED
  BY <1>3, <1>5

-----------------------------------------------------------------------------
(* The steps.                                                               *)

\* A thread's state as the types have it.
States == {"READY", "RUNNING", "BLOCKED", "TERMINATED", "FREE"}

\* What RunQueueSpec sees of a step between two shapes.
LEMMA MappedStep ==
    ASSUME NEW q, NEW z, NEW tk, Shape(q, z, tk),
           NEW q2, NEW z2, NEW tk2, Shape(q2, z2, tk2)'
    PROVE  /\ Chain(next, run_queue_head) = q
           /\ Chain(next, zombie_list) = z
           /\ [t \in AnyThread |-> Chain(next, list[t])] = tk
           /\ Chain(next', run_queue_head') = q2
           /\ Chain(next', zombie_list') = z2
           /\ [t \in AnyThread |-> Chain(next', list'[t])] = tk2
<1>1. /\ Chain(next, run_queue_head) = q
      /\ Chain(next, zombie_list) = z
      /\ [t \in AnyThread |-> Chain(next, list[t])] = tk
  <2>1. PICK nx, hd, tl, zl, ls :
          nx = next /\ hd = run_queue_head /\ tl = run_queue_tail /\ zl = zombie_list /\ ls = list
    OBVIOUS
  <2>2. Threaded(nx, hd, tl, zl, ls, q, z, tk)
    BY <2>1 DEF Shape
  <2>3. Chain(nx, hd) = q /\ Chain(nx, zl) = z /\ \A t \in AnyThread : Chain(nx, ls[t]) = tk[t]
    BY <2>2, Mapped
  <2>4. tk = [t \in AnyThread |-> tk[t]]
    BY <2>2 DEF Threaded
  <2>5. QED
    BY <2>1, <2>3, <2>4
<1>2. /\ Chain(next', run_queue_head') = q2
      /\ Chain(next', zombie_list') = z2
      /\ [t \in AnyThread |-> Chain(next', list'[t])] = tk2
  <2>1. PICK nx, hd, tl, zl, ls :
          nx = next' /\ hd = run_queue_head' /\ tl = run_queue_tail' /\ zl = zombie_list' /\ ls = list'
    OBVIOUS
  <2>2. Threaded(nx, hd, tl, zl, ls, q2, z2, tk2)
    BY <2>1 DEF Shape
  <2>3. Chain(nx, hd) = q2 /\ Chain(nx, zl) = z2 /\ \A t \in AnyThread : Chain(nx, ls[t]) = tk2[t]
    BY <2>2, Mapped
  <2>4. tk2 = [t \in AnyThread |-> tk2[t]]
    BY <2>2 DEF Threaded
  <2>5. QED
    BY <2>1, <2>3, <2>4
<1>3. QED
  BY <1>1, <1>2

\* The thread cur gives way to c.
LEMMA SortedOn ==
    ASSUME NEW s0, NEW s1, NEW cur \in AnyThread, NEW c \in AnyThread, NEW q, NEW z, NEW tk,
           Sorted(s0, cur, q, z, tk),
           c # cur, s0[c] = "READY", s1[c] = "RUNNING",
           s1[cur] \in {"READY", "BLOCKED"}, cur = boot_thread => s1[cur] = "READY",
           \A t \in AnyThread : t # c /\ t # cur => s1[t] = s0[t]
    PROVE  Sorted(s1, c, q, z, tk)
<1>1. s0[cur] = "RUNNING"
  BY DEF Sorted
<1>2. \A t \in AnyThread : s1[t] \in Live <=> s0[t] \in Live
  BY <1>1 DEF Live
<1>3. \A t \in AnyThread : s0[t] = "TERMINATED" => s1[t] = "TERMINATED"
  BY <1>1
<1>4. \A t \in AnyThread : s1[t] = "RUNNING" => t = c
  BY DEF Sorted
<1>5. s1[boot_thread] \in {"READY", "RUNNING"}
  BY DEF Sorted, AnyThread
<1>6. QED
  BY <1>2, <1>3, <1>4, <1>5 DEF Sorted

LEMMA RescheduleStep ==
    ASSUME QueueTypeOK, NEW q, NEW z, NEW tk, Shape(q, z, tk), Reschedule
    PROVE  QueueTypeOK' /\ Shape(q, z, tk)' /\ Abstract!Switch(TRUE)
<1>1. PICK i \in 1..Len(q) : q[i] = current_thread /\ next[current_thread] = Round(q, i)[1]
  BY CurrentAt
<1>2. PICK R \in SUBSET AnyThread : R = {t \in AnyThread : state[t] = "READY"}
  OBVIOUS
<1>3. PICK st, nx, c : st = state /\ nx = next /\ c = Candidate(nx, st, nx[current_thread])
  OBVIOUS
<1>4. state[current_thread] = "RUNNING" /\ current_thread \in AnyThread /\ current_thread \in ToSet(q)
  BY DEF Shape, Sorted, QueueTypeOK, Live
<1>5. \/ R = {} /\ st[c] # "READY"
      \/ c \in R \cap ToSet(q) /\ c = Abstract!NextReady(q, R, i) /\ st[c] = "READY"
  <2>1. Readies(R, st)
    BY <1>2, <1>3 DEF Readies
  <2>2. R \subseteq ToSet(q)
    BY <1>2 DEF Shape, Sorted, Live
  <2>3. PICK p : p = nx[current_thread]
    OBVIOUS
  <2>4. Ring(nx, q) /\ i \in 0..Len(q) /\ p = Round(q, i)[1]
    BY <1>1, <1>3, <2>3 DEF Shape, Threaded
  <2>5. \/ R = {} /\ st[Candidate(nx, st, p)] # "READY"
        \/ /\ Candidate(nx, st, p) \in R /\ st[Candidate(nx, st, p)] = "READY"
           /\ Abstract!NextReady(q, R, i) = Candidate(nx, st, p)
    BY <2>1, <2>2, <2>4, Scan
  <2>6. QED
    BY <1>3, <2>2, <2>3, <2>5
<1>6. UNCHANGED <<run_queue_head, run_queue_tail, zombie_list, next, list>>
  BY DEF Reschedule
<1>7. IF state[c] = "READY"
      THEN /\ state' = [state EXCEPT ![current_thread] = IF @ = "RUNNING" THEN "READY" ELSE @,
                                     ![c] = "RUNNING"]
           /\ current_thread' = c
      ELSE state' = state /\ current_thread' = current_thread
  BY <1>3, <1>4 DEF Reschedule, Schedule
<1>8. CASE R = {} /\ st[c] # "READY"
  <2>1. state' = state /\ current_thread' = current_thread
    BY <1>3, <1>7, <1>8
  <2>2. QueueTypeOK'
    BY <1>6, <2>1 DEF QueueTypeOK
  <2>3. Shape(q, z, tk)'
    BY <1>6, <2>1 DEF Shape
  <2>4. Abstract!Switch(TRUE)
    BY <1>1, <1>2, <1>6, <1>8, <2>1, <2>3, MappedStep DEF Abstract!Switch
  <2>5. QED
    BY <2>2, <2>3, <2>4
<1>9. CASE c \in R \cap ToSet(q) /\ c = Abstract!NextReady(q, R, i) /\ st[c] = "READY"
  <2>1. /\ current_thread' = c /\ c \in AnyThread /\ c # current_thread
        /\ state' = [state EXCEPT ![current_thread] = "READY", ![c] = "RUNNING"]
    BY <1>3, <1>4, <1>7, <1>9
  <2>2. /\ state'[c] = "RUNNING" /\ state'[current_thread] = "READY"
        /\ \A t \in AnyThread : t # c /\ t # current_thread => state'[t] = state[t]
    BY <1>4, <2>1 DEF QueueTypeOK
  <2>3. QueueTypeOK'
    BY <1>4, <1>6, <2>1 DEF QueueTypeOK
  <2>4. Shape(q, z, tk)'
    <3>1. PICK s0, s1, cur : s0 = state /\ s1 = state' /\ cur = current_thread
      OBVIOUS
    <3>2. Sorted(s0, cur, q, z, tk)
      BY <3>1 DEF Shape
    <3>3. Sorted(s1, c, q, z, tk)
      BY <1>3, <1>4, <1>9, <2>1, <2>2, <3>1, <3>2, SortedOn
    <3>4. QED
      BY <1>6, <2>1, <3>1, <3>3 DEF Shape
  <2>5. PICK R2 : R2 = {t \in AnyThread : state'[t] = "READY"}
    OBVIOUS
  <2>6. R2 = (R \ {c}) \cup {current_thread}
    BY <1>2, <1>4, <2>1, <2>2, <2>5
  <2>7. Chain(next, run_queue_head) = q
    BY <2>4, MappedStep
  <2>8. UNCHANGED <<Chain(next, run_queue_head), Chain(next, zombie_list), [t \in AnyThread |-> Chain(next, list[t])]>>
    BY <1>6
  <2>9. Abstract!Switch(TRUE)
    <3>1. Abstract!NextReady(Chain(next, run_queue_head), {t \in AnyThread : state[t] = "READY"}, i) = c
      BY <1>2, <1>9, <2>7
    <3>2. i \in DOMAIN Chain(next, run_queue_head) /\ Chain(next, run_queue_head)[i] = current_thread
      BY <1>1, <2>7
    <3>3. {t \in AnyThread : state[t] = "READY"} # {}
      BY <1>2, <1>9
    <3>4. {t \in AnyThread : state'[t] = "READY"} = ({t \in AnyThread : state[t] = "READY"} \ {c}) \cup {current_thread}
      BY <1>2, <2>5, <2>6
    <3>5. QED
      BY <2>1, <2>8, <3>1, <3>2, <3>3, <3>4 DEF Abstract!Switch
  <2>10. QED
    BY <2>3, <2>4, <2>9
<1>10. QED
  BY <1>5, <1>8, <1>9

LEMMA BlockStep ==
    ASSUME QueueTypeOK, NEW q, NEW z, NEW tk, Shape(q, z, tk), Block
    PROVE  QueueTypeOK' /\ Shape(q, z, tk)' /\ Abstract!Block
<1>1. PICK i \in 1..Len(q) : q[i] = current_thread /\ next[current_thread] = Round(q, i)[1]
  BY CurrentAt
<1>2. PICK R \in SUBSET AnyThread : R = {t \in AnyThread : state[t] = "READY"}
  OBVIOUS
<1>3. PICK st, nx, c : st = [state EXCEPT ![current_thread] = "BLOCKED"] /\ nx = next
                       /\ c = Candidate(nx, st, nx[current_thread])
  OBVIOUS
<1>4. state[current_thread] = "RUNNING" /\ current_thread \in AnyThread /\ current_thread \in ToSet(q)
  BY DEF Shape, Sorted, QueueTypeOK, Live
<1>5. st[current_thread] = "BLOCKED" /\ \A t \in AnyThread : t # current_thread => st[t] = state[t]
  BY <1>3, <1>4 DEF QueueTypeOK
<1>6. R # {}
  <2>1. Ring(next, q)
    BY DEF Shape, Threaded
  <2>2. PICK ch : ch = Chain(next, current_thread)
    OBVIOUS
  <2>3. ch \in Seq(AnyThread)
    <3>1. PICK n, t : n = next /\ t = current_thread
      OBVIOUS
    <3>2. Chain(n, t) \in Seq(AnyThread)
      BY <1>4, <2>1, <3>1, ChainAt
    <3>3. QED
      BY <2>2, <3>1, <3>2
  <2>4. \E k \in DOMAIN ch : state[ch[k]] = "READY"
    BY <2>2 DEF Block
  <2>5. QED
    BY <1>2, <2>3, <2>4
<1>7. c \in R \cap ToSet(q) /\ c = Abstract!NextReady(q, R, i) /\ st[c] = "READY"
  <2>1. Readies(R, st)
    BY <1>2, <1>4, <1>5 DEF Readies
  <2>2. R \subseteq ToSet(q)
    BY <1>2 DEF Shape, Sorted, Live
  <2>3. PICK p : p = nx[current_thread]
    OBVIOUS
  <2>4. Ring(nx, q) /\ i \in 0..Len(q) /\ p = Round(q, i)[1]
    BY <1>1, <1>3, <2>3 DEF Shape, Threaded
  <2>5. \/ R = {} /\ st[Candidate(nx, st, p)] # "READY"
        \/ /\ Candidate(nx, st, p) \in R /\ st[Candidate(nx, st, p)] = "READY"
           /\ Abstract!NextReady(q, R, i) = Candidate(nx, st, p)
    BY <2>1, <2>2, <2>4, Scan
  <2>6. QED
    BY <1>3, <1>6, <2>2, <2>3, <2>5
<1>8. /\ UNCHANGED <<run_queue_head, run_queue_tail, zombie_list, next, list>>
      /\ current_thread # boot_thread
  BY DEF Block
<1>9. /\ state' = [st EXCEPT ![current_thread] = IF @ = "RUNNING" THEN "READY" ELSE @,
                             ![c] = "RUNNING"]
      /\ current_thread' = c
  BY <1>3, <1>5, <1>7 DEF Block, Schedule
<1>10. c \in AnyThread /\ c # current_thread /\ state[c] = "READY"
  BY <1>2, <1>4, <1>7
<1>11. st \in [AnyThread -> {"READY", "RUNNING", "BLOCKED", "TERMINATED", "FREE"}]
  BY <1>3 DEF QueueTypeOK
<1>12. /\ state'[c] = "RUNNING" /\ state'[current_thread] = "BLOCKED"
       /\ \A t \in AnyThread : t # c /\ t # current_thread => state'[t] = state[t]
       /\ state' \in [AnyThread -> {"READY", "RUNNING", "BLOCKED", "TERMINATED", "FREE"}]
  BY <1>4, <1>5, <1>9, <1>10, <1>11
<1>13. QueueTypeOK'
  BY <1>8, <1>9, <1>10, <1>12 DEF QueueTypeOK
<1>14. Shape(q, z, tk)'
  <2>1. PICK s0, s1, cur : s0 = state /\ s1 = state' /\ cur = current_thread
    OBVIOUS
  <2>2. Sorted(s0, cur, q, z, tk)
    BY <2>1 DEF Shape
  <2>3. Sorted(s1, c, q, z, tk)
    BY <1>4, <1>8, <1>10, <1>12, <2>1, <2>2, SortedOn
  <2>4. QED
    BY <1>8, <1>9, <2>1, <2>3 DEF Shape
<1>15. {t \in AnyThread : state'[t] = "READY"} = {t \in AnyThread : state[t] = "READY"} \ {c}
  BY <1>4, <1>10, <1>12
<1>16. Chain(next, run_queue_head) = q
  BY <1>14, MappedStep
<1>17. UNCHANGED <<Chain(next, run_queue_head), Chain(next, zombie_list), [t \in AnyThread |-> Chain(next, list[t])]>>
  BY <1>8
<1>18. Abstract!Switch(FALSE)
  <2>1. Abstract!NextReady(Chain(next, run_queue_head), {t \in AnyThread : state[t] = "READY"}, i) = c
    BY <1>2, <1>7, <1>16
  <2>2. i \in DOMAIN Chain(next, run_queue_head) /\ Chain(next, run_queue_head)[i] = current_thread
    BY <1>1, <1>16
  <2>3. {t \in AnyThread : state[t] = "READY"} # {}
    BY <1>2, <1>6
  <2>4. QED
    BY <1>9, <1>15, <1>17, <2>1, <2>2, <2>3 DEF Abstract!Switch
<1>19. Abstract!Block
  BY <1>2, <1>6, <1>8, <1>18 DEF Abstract!Block
<1>20. QED
  BY <1>13, <1>14, <1>19

LEMMA WakeStep ==
    ASSUME QueueTypeOK, NEW q, NEW z, NEW tk, Shape(q, z, tk), NEW thread \in Thread, Wake(thread)
    PROVE  QueueTypeOK' /\ Shape(q, z, tk)' /\ Abstract!Wake(thread)
<1>1. /\ thread \in AnyThread /\ state[thread] = "BLOCKED"
      /\ state' = [state EXCEPT ![thread] = "READY"]
      /\ UNCHANGED <<run_queue_head, run_queue_tail, current_thread, zombie_list, next, list>>
  BY DEF Wake, AnyThread
<1>2. state[current_thread] = "RUNNING" /\ thread # current_thread
  BY <1>1 DEF Shape, Sorted
<1>3. thread \in ToSet(q)
  BY <1>1 DEF Shape, Sorted, Live
<1>4. QueueTypeOK'
  BY <1>1 DEF QueueTypeOK
<1>5. /\ state'[thread] = "READY"
      /\ \A t \in AnyThread : t # thread => state'[t] = state[t]
  BY <1>1 DEF QueueTypeOK
<1>6. Sorted(state', current_thread', q, z, tk)
  <2>1. Sorted(state, current_thread, q, z, tk) /\ current_thread' = current_thread
    BY <1>1 DEF Shape
  <2>2. \A t \in AnyThread : state'[t] \in Live <=> state[t] \in Live
    BY <1>1, <1>5 DEF Live
  <2>3. \A t \in AnyThread : state[t] = "TERMINATED" => state'[t] = "TERMINATED"
    BY <1>1, <1>5
  <2>4. \A t \in AnyThread : state'[t] = "RUNNING" <=> state[t] = "RUNNING"
    BY <1>1, <1>5
  <2>5. current_thread \in AnyThread /\ boot_thread \in AnyThread
    BY DEF QueueTypeOK, AnyThread
  <2>6. state'[boot_thread] \in {"READY", "RUNNING"}
    BY <1>5, <2>1, <2>5 DEF Sorted
  <2>7. QED
    BY <2>1, <2>2, <2>3, <2>4, <2>5, <2>6 DEF Sorted
<1>7. Shape(q, z, tk)'
  BY <1>1, <1>6 DEF Shape
<1>8. {t \in AnyThread : state'[t] = "READY"} = {t \in AnyThread : state[t] = "READY"} \cup {thread}
  BY <1>1, <1>5
<1>9. Chain(next, run_queue_head) = q
  BY <1>7, MappedStep
<1>10. UNCHANGED <<Chain(next, run_queue_head), Chain(next, zombie_list), [t \in AnyThread |-> Chain(next, list[t])]>>
  BY <1>1
<1>11. thread \in Abstract!ToSet(q)
  BY <1>3 DEF Abstract!ToSet, ToSet
<1>12. Abstract!Wake(thread)
  BY <1>1, <1>2, <1>8, <1>9, <1>10, <1>11 DEF Abstract!Wake
<1>13. QED
  BY <1>4, <1>7, <1>12

LEMMA OnAppend ==
    ASSUME NEW q \in Seq(AnyThread), NEW u \in AnyThread
    PROVE  ToSet(Append(q, u)) = ToSet(q) \cup {u}
<1>2. PICK l \in Nat : l = Len(q)
  OBVIOUS
<1>1. PICK r : r = Append(q, u)
  OBVIOUS
<1>3. /\ r \in Seq(AnyThread) /\ Len(r) = l + 1
      /\ r[l + 1] = u
      /\ \A k \in 1..l : r[k] = q[k]
  BY <1>1, <1>2, AppendProperties
<1>4. ASSUME NEW t PROVE t \in ToSet(r) <=> t \in ToSet(q) \cup {u}
  <2>1. t \in ToSet(r) <=> \E k \in 1..(l + 1) : r[k] = t
    BY <1>3, OnSequence
  <2>2. t \in ToSet(q) <=> \E k \in 1..l : q[k] = t
    BY <1>2, OnSequence
  <2>3. \A k \in 1..(l + 1) : k \in 1..l \/ k = l + 1
    BY <1>2
  <2>4. l + 1 \in 1..(l + 1) /\ \A k \in 1..l : k \in 1..(l + 1)
    BY <1>2
  <2>5. QED
    BY <1>3, <2>1, <2>2, <2>3, <2>4
<1>5. QED
  BY <1>1, <1>4

\* Both ends of a ring are on it.
LEMMA RingEnds ==
    ASSUME NEW nx, NEW q, Ring(nx, q)
    PROVE  q[1] \in ToSet(q) /\ q[Len(q)] \in ToSet(q)
<1>1. q \in Seq(AnyThread) /\ 1 \in 1..Len(q) /\ Len(q) \in 1..Len(q)
  BY DEF Ring
<1>2. QED
  BY <1>1, OnSequence

LEMMA SameToSet ==
    ASSUME NEW s
    PROVE  Abstract!ToSet(s) = ToSet(s)
  BY DEF Abstract!ToSet, ToSet

LEMMA LinkStep ==
    ASSUME QueueTypeOK, NEW q, NEW z, NEW tk, Shape(q, z, tk), NEW thread \in Thread, Link(thread)
    PROVE  QueueTypeOK' /\ Shape(Append(q, thread), z, tk)' /\ Abstract!Link(thread)
<1>1. /\ thread \in AnyThread /\ state[thread] = "FREE"
      /\ state' = [state EXCEPT ![thread] = "READY"]
      /\ next' = [[next EXCEPT ![thread] = run_queue_head] EXCEPT ![run_queue_tail] = thread]
      /\ run_queue_tail' = thread
      /\ UNCHANGED <<run_queue_head, current_thread, zombie_list, list>>
  BY DEF Link, AnyThread
<1>2. /\ state'[thread] = "READY"
      /\ \A t \in AnyThread : t # thread => state'[t] = state[t]
  BY <1>1 DEF QueueTypeOK
<1>3. QueueTypeOK'
  BY <1>1 DEF QueueTypeOK, Pointer
<1>4. PICK nx, mx : nx = next /\ mx = next'
  OBVIOUS
<1>5. /\ Ring(nx, q) /\ q \in Seq(AnyThread) /\ Len(q) # 0
      /\ run_queue_head = q[1] /\ run_queue_tail = q[Len(q)]
      /\ Leads(nx, zombie_list, z)
      /\ \A t \in AnyThread : Leads(nx, list[t], tk[t])
      /\ tk = [t \in AnyThread |-> tk[t]]
  BY <1>4 DEF Shape, Threaded, Ring
<1>6. Sorted(state, current_thread, q, z, tk)
  BY DEF Shape
<1>7. thread \notin ToSet(q) /\ thread \notin ToSet(z) /\ \A t \in AnyThread : thread \notin ToSet(tk[t])
  BY <1>1, <1>6 DEF Sorted, Live
<1>8. nx \in [AnyThread -> Pointer] /\ mx = [[nx EXCEPT ![thread] = q[1]] EXCEPT ![q[Len(q)]] = thread]
  BY <1>1, <1>4, <1>5 DEF QueueTypeOK
<1>9. PICK r : r = Append(q, thread)
  OBVIOUS
<1>10. Ring(mx, r)
  BY <1>1, <1>5, <1>7, <1>8, <1>9, RingAppend
<1>11. r[1] = q[1] /\ r[Len(r)] = thread
  BY <1>1, <1>5, <1>9, AppendProperties
<1>12. ASSUME NEW p, NEW s, Leads(nx, p, s), thread \notin ToSet(s),
              \A t \in AnyThread : t \in ToSet(s) => state[t] = "TERMINATED"
       PROVE  Leads(mx, p, s)
  <2>1. \A t \in ToSet(s) : t \in AnyThread
    BY <1>12, OnSequence DEF Leads
  <2>2. q[Len(q)] \in ToSet(q)
    BY <1>5, RingEnds
  <2>3. q[Len(q)] \in AnyThread /\ q[Len(q)] \notin ToSet(s)
    BY <1>5, <1>6, <1>12, <2>2, OnSequence DEF Sorted, Live
  <2>4. \A t \in ToSet(s) : mx[t] = nx[t]
    BY <1>1, <1>8, <1>12, <2>1, <2>3
  <2>5. QED
    BY <1>12, <2>4, LeadsSame
<1>13. Leads(mx, zombie_list, z)
  BY <1>5, <1>6, <1>7, <1>12 DEF Sorted
<1>14. \A t \in AnyThread : Leads(mx, list[t], tk[t])
  BY <1>5, <1>6, <1>7, <1>12 DEF Sorted
<1>15. ToSet(r) = ToSet(q) \cup {thread}
  BY <1>1, <1>5, <1>9, OnAppend
<1>16. Sorted(state', current_thread', r, z, tk)
  <2>1. \A t \in AnyThread : t \in ToSet(r) <=> state'[t] \in Live
    BY <1>1, <1>2, <1>6, <1>15 DEF Sorted, Live
  <2>2. \A t \in AnyThread : state[t] = "TERMINATED" => state'[t] = "TERMINATED"
    BY <1>1, <1>2
  <2>3. current_thread' = current_thread /\ state'[current_thread] = state[current_thread]
    BY <1>1, <1>2, <1>6 DEF Sorted, QueueTypeOK
  <2>4. \A t \in AnyThread : state'[t] = "RUNNING" => state[t] = "RUNNING"
    BY <1>2
  <2>5. state'[boot_thread] = state[boot_thread]
    BY <1>1, <1>2, <1>6 DEF Sorted, AnyThread
  <2>6. QED
    BY <1>6, <2>1, <2>2, <2>3, <2>4, <2>5 DEF Sorted
<1>17. Shape(r, z, tk)'
  BY <1>1, <1>4, <1>5, <1>10, <1>11, <1>13, <1>14, <1>16 DEF Shape, Threaded
<1>18. {t \in AnyThread : state'[t] = "READY"} = {t \in AnyThread : state[t] = "READY"} \cup {thread}
  BY <1>1, <1>2
<1>19. /\ Chain(next, run_queue_head) = q
       /\ Chain(next, zombie_list) = z
       /\ [t \in AnyThread |-> Chain(next, list[t])] = tk
       /\ Chain(next', run_queue_head') = r
       /\ Chain(next', zombie_list') = z
       /\ [t \in AnyThread |-> Chain(next', list'[t])] = tk
  BY <1>17, MappedStep
<1>20. ~ Abstract!Somewhere(thread)
  <2>1. \A u \in Abstract!AnyThread : u \in AnyThread
    BY DEF Abstract!AnyThread, AnyThread
  <2>2. QED
    BY <1>7, <1>19, <2>1, SameToSet DEF Abstract!Somewhere
<1>21. Abstract!Link(thread)
  BY <1>1, <1>9, <1>18, <1>19, <1>20 DEF Abstract!Link
<1>22. QED
  BY <1>3, <1>9, <1>17, <1>21

LEMMA TakeStep ==
    ASSUME QueueTypeOK, NEW q, NEW z, NEW tk, Shape(q, z, tk), TakeZombies
    PROVE  QueueTypeOK' /\ (\E z2, tk2 : Shape(q, z2, tk2)') /\ Abstract!Take
<1>1. /\ list[current_thread] = NULL
      /\ list' = [list EXCEPT ![current_thread] = zombie_list]
      /\ zombie_list' = NULL
      /\ UNCHANGED <<run_queue_head, run_queue_tail, current_thread, next, state>>
  BY DEF TakeZombies, Idle
<1>2. QueueTypeOK'
  BY <1>1 DEF QueueTypeOK, Pointer
<1>3. PICK cur \in AnyThread : cur = current_thread
  BY DEF QueueTypeOK
<1>4. PICK tk2, e : tk2 = [tk EXCEPT ![cur] = z] /\ e = <<>>
  OBVIOUS
<1>5. /\ Leads(next, zombie_list, z)
      /\ \A t \in AnyThread : Leads(next, list[t], tk[t])
      /\ tk = [t \in AnyThread |-> tk[t]]
  BY DEF Shape, Threaded
<1>6. tk2[cur] = z /\ (\A t \in AnyThread : t # cur => tk2[t] = tk[t]) /\ tk2 = [t \in AnyThread |-> tk2[t]]
  BY <1>4, <1>5
<1>7. tk[cur] = <<>>
  <2>1. tk[cur] \in Seq(AnyThread) /\ (Len(tk[cur]) # 0 => tk[cur][1] = NULL)
    BY <1>1, <1>3, <1>5 DEF Leads
  <2>2. Len(tk[cur]) = 0
    BY <2>1, ThreadsNotNull
  <2>3. QED
    BY <2>1, <2>2, EmptySeq
<1>8. Leads(next, NULL, e) /\ ToSet(e) = {}
  <2>1. e \in Seq(AnyThread) /\ Len(e) = 0
    BY <1>4
  <2>2. \A t : t \notin ToSet(e)
    <3>1. 1..Len(e) = {}
      BY <2>1
    <3>2. QED
      BY <2>1, <3>1, OnSequence
  <2>3. QED
    BY <2>1, <2>2 DEF Leads, OneEach
<1>9. \A t \in AnyThread : Leads(next, list'[t], tk2[t])
  BY <1>1, <1>3, <1>5, <1>6 DEF QueueTypeOK
<1>10. Sorted(state, current_thread, q, z, tk) /\ ToSet(tk[cur]) = {}
  BY <1>4, <1>7, <1>8 DEF Shape
<1>11. \A t, u \in AnyThread : t \in ToSet(tk2[u]) =>
          \/ u = cur /\ t \in ToSet(z)
          \/ u # cur /\ t \in ToSet(tk[u])
  BY <1>6
<1>12. Sorted(state', current_thread', q, e, tk2)
  BY <1>1, <1>8, <1>10, <1>11 DEF Sorted
<1>13. Shape(q, e, tk2)'
  BY <1>1, <1>6, <1>8, <1>9, <1>12 DEF Shape, Threaded
<1>14. /\ Chain(next, run_queue_head) = q
       /\ Chain(next, zombie_list) = z
       /\ [t \in AnyThread |-> Chain(next, list[t])] = tk
       /\ Chain(next', run_queue_head') = q
       /\ Chain(next', zombie_list') = e
       /\ [t \in AnyThread |-> Chain(next', list'[t])] = tk2
  BY <1>13, MappedStep
<1>15. Abstract!Take
  BY <1>1, <1>3, <1>4, <1>7, <1>14 DEF Abstract!Take
<1>16. QED
  BY <1>2, <1>13, <1>15

\* The list without its first thread, whatever becomes of that one's link.
LEMMA LeadsTail ==
    ASSUME NEW nx, NEW mx, NEW p, NEW s, Leads(nx, p, s), p # NULL,
           \A t \in AnyThread : t # p => mx[t] = nx[t]
    PROVE  /\ s # <<>> /\ p \in ToSet(s)
           /\ Leads(mx, nx[p], Tail(s))
           /\ \A t : t \in ToSet(Tail(s)) <=> t \in ToSet(s) /\ t # p
<1>1. PICK l \in Nat : l = Len(s) /\ l # 0
  BY DEF Leads
<1>2. /\ s \in Seq(AnyThread) /\ p = s[1]
      /\ \A j, k \in 1..l : s[j] = s[k] => j = k
      /\ \A k \in 1..(l - 1) : nx[s[k]] = s[k + 1]
      /\ nx[s[l]] = NULL
  BY <1>1 DEF Leads, OneEach
<1>3. PICK r : r = Tail(s)
  OBVIOUS
<1>4. s # <<>>
  BY <1>1
<1>5. /\ r \in Seq(AnyThread) /\ Len(r) = l - 1
      /\ \A k \in 1..(l - 1) : r[k] = s[k + 1]
  BY <1>1, <1>2, <1>3, <1>4, HeadTailProperties
<1>6. p \in ToSet(s)
  <2>1. 1 \in 1..Len(s)
    BY <1>1
  <2>2. QED
    BY <1>2, <2>1, OnSequence
<1>7. \A k \in 1..(l - 1) : k + 1 \in 1..l /\ s[k + 1] # p /\ s[k + 1] \in AnyThread
  <2> TAKE k \in 1..(l - 1)
  <2>1. k + 1 \in 1..l /\ 1 \in 1..l /\ k + 1 # 1
    BY <1>1
  <2>2. QED
    BY <1>1, <1>2, <2>1
<1>8. OneEach(r)
  <2> SUFFICES ASSUME NEW j \in 1..(l - 1), NEW k \in 1..(l - 1), r[j] = r[k] PROVE j = k
    BY <1>5 DEF OneEach
  <2>1. s[j + 1] = s[k + 1] /\ j + 1 \in 1..l /\ k + 1 \in 1..l
    BY <1>5, <1>7
  <2>2. j + 1 = k + 1
    BY <1>2, <2>1
  <2>3. QED
    BY <2>2
<1>9. ASSUME NEW k \in 1..(l - 1 - 1) PROVE mx[r[k]] = r[k + 1]
  <2>1. k \in 1..(l - 1) /\ k + 1 \in 1..(l - 1)
    BY <1>1
  <2>2. mx[s[k + 1]] = nx[s[k + 1]] /\ nx[s[k + 1]] = s[k + 1 + 1]
    BY <1>2, <1>7, <2>1
  <2>3. QED
    BY <1>5, <2>1, <2>2
<1>10. ASSUME l - 1 # 0 PROVE mx[r[l - 1]] = NULL
  <2>1. l - 1 \in 1..(l - 1) /\ l - 1 + 1 = l
    BY <1>1, <1>10
  <2>2. r[l - 1] = s[l] /\ s[l] # p /\ s[l] \in AnyThread
    BY <1>5, <1>7, <2>1
  <2>3. QED
    BY <1>2, <2>2
<1>11. nx[p] = IF l - 1 = 0 THEN NULL ELSE r[1]
  <2>1. CASE l = 1
    BY <1>2, <2>1
  <2>2. CASE l # 1
    <3>1. 1 \in 1..(l - 1)
      BY <1>1, <2>2
    <3>2. QED
      BY <1>1, <1>2, <1>5, <2>2, <3>1
  <2>3. QED
    BY <2>1, <2>2
<1>12. Leads(mx, nx[p], r)
  BY <1>5, <1>8, <1>9, <1>10, <1>11 DEF Leads
<1>13. ASSUME NEW t PROVE t \in ToSet(r) <=> t \in ToSet(s) /\ t # p
  <2>1. t \in ToSet(r) <=> \E k \in 1..(l - 1) : r[k] = t
    BY <1>5, OnSequence
  <2>2. t \in ToSet(s) <=> \E k \in 1..l : s[k] = t
    BY <1>1, <1>2, OnSequence
  <2>3. ASSUME NEW k \in 1..l, s[k] = t, t # p PROVE \E j \in 1..(l - 1) : r[j] = t
    <3>1. k # 1
      BY <1>2, <2>3
    <3>2. PICK j \in 1..(l - 1) : j + 1 = k
      <4>1. k - 1 \in 1..(l - 1) /\ k - 1 + 1 = k
        BY <1>1, <3>1
      <4>2. QED
        BY <4>1
    <3>3. QED
      BY <1>5, <2>3, <3>2
  <2>4. ASSUME NEW k \in 1..(l - 1), r[k] = t PROVE t # p /\ \E j \in 1..l : s[j] = t
    BY <1>5, <1>7, <2>4
  <2>5. QED
    BY <2>1, <2>2, <2>3, <2>4
<1>14. QED
  BY <1>3, <1>4, <1>6, <1>12, <1>13

LEMMA FreeStep ==
    ASSUME QueueTypeOK, NEW q, NEW z, NEW tk, Shape(q, z, tk), FreeZombie
    PROVE  QueueTypeOK' /\ (\E z2, tk2 : Shape(q, z2, tk2)') /\ Abstract!Free
<1>1. PICK cur \in AnyThread : cur = current_thread
  BY DEF QueueTypeOK
<1>2. PICK p, nx, mx : p = list[cur] /\ nx = next /\ mx = next'
  OBVIOUS
<1>3. /\ p # NULL
      /\ list' = [list EXCEPT ![cur] = nx[p]]
      /\ state' = [state EXCEPT ![p] = "FREE"]
      /\ mx = [nx EXCEPT ![p] = NULL]
      /\ UNCHANGED <<run_queue_head, run_queue_tail, current_thread, zombie_list>>
  BY <1>1, <1>2 DEF FreeZombie
<1>4. p \in AnyThread /\ nx \in [AnyThread -> Pointer]
  BY <1>1, <1>2, <1>3 DEF QueueTypeOK, Pointer
<1>5. QueueTypeOK'
  <2>1. nx[p] \in Pointer /\ NULL \in Pointer
    BY <1>4 DEF Pointer
  <2>2. list' \in [AnyThread -> Pointer] /\ next' \in [AnyThread -> Pointer]
    BY <1>2, <1>3, <1>4, <2>1 DEF QueueTypeOK
  <2>3. state' \in [AnyThread -> {"READY", "RUNNING", "BLOCKED", "TERMINATED", "FREE"}]
    BY <1>3 DEF QueueTypeOK
  <2>4. QED
    BY <1>3, <2>2, <2>3 DEF QueueTypeOK
<1>6. mx[p] = NULL /\ \A t \in AnyThread : t # p => mx[t] = nx[t]
  BY <1>3, <1>4
<1>7. PICK tk2, s : s = tk[cur] /\ tk2 = [tk EXCEPT ![cur] = Tail(s)]
  OBVIOUS
<1>8. /\ Ring(nx, q) /\ run_queue_head = q[1] /\ run_queue_tail = q[Len(q)]
      /\ Leads(nx, zombie_list, z)
      /\ \A t \in AnyThread : Leads(nx, list[t], tk[t])
      /\ tk = [t \in AnyThread |-> tk[t]]
  BY <1>2 DEF Shape, Threaded
<1>9. /\ s # <<>> /\ p \in ToSet(s)
      /\ Leads(mx, nx[p], Tail(s))
      /\ \A t : t \in ToSet(Tail(s)) <=> t \in ToSet(s) /\ t # p
  <2>1. Leads(nx, p, s)
    BY <1>1, <1>2, <1>7, <1>8
  <2>2. p # NULL
    BY <1>3
  <2>3. \A t \in AnyThread : t # p => mx[t] = nx[t]
    BY <1>6
  <2>4. QED
    BY <2>1, <2>2, <2>3, LeadsTail
<1>10. tk2[cur] = Tail(s) /\ (\A t \in AnyThread : t # cur => tk2[t] = tk[t]) /\ tk2 = [t \in AnyThread |-> tk2[t]]
  BY <1>7, <1>8
<1>11. Sorted(state, cur, q, z, tk)
  BY <1>1 DEF Shape
<1>12. /\ p \notin ToSet(q) /\ p \notin ToSet(z) /\ state[p] = "TERMINATED"
       /\ \A t \in AnyThread : t # cur => p \notin ToSet(tk[t])
  BY <1>4, <1>7, <1>9, <1>11 DEF Sorted, Live
<1>13. ASSUME NEW a, NEW l, Leads(nx, a, l), p \notin ToSet(l)
       PROVE  Leads(mx, a, l)
  <2>1. \A t \in ToSet(l) : t \in AnyThread
    BY <1>13, OnSequence DEF Leads
  <2>2. \A t \in ToSet(l) : mx[t] = nx[t]
    BY <1>6, <1>13, <2>1
  <2>3. QED
    BY <1>13, <2>2, LeadsSame
<1>14. Ring(mx, q)
  <2>1. \A t \in ToSet(q) : t \in AnyThread
    BY <1>8, OnSequence DEF Ring
  <2>2. \A t \in ToSet(q) : mx[t] = nx[t]
    BY <1>6, <1>12, <2>1
  <2>3. QED
    BY <1>8, <2>2, RingSame
<1>15. Leads(mx, zombie_list, z)
  BY <1>8, <1>12, <1>13
<1>16. ASSUME NEW t \in AnyThread PROVE Leads(mx, list'[t], tk2[t])
  <2>1. CASE t = cur
    BY <1>3, <1>9, <1>10, <2>1 DEF QueueTypeOK
  <2>2. CASE t # cur
    <3>1. list'[t] = list[t] /\ tk2[t] = tk[t]
      BY <1>3, <1>10, <2>2 DEF QueueTypeOK
    <3>2. QED
      BY <1>8, <1>12, <1>13, <2>2, <3>1
  <2>3. QED
    BY <2>1, <2>2
<1>17. state'[p] = "FREE" /\ \A t \in AnyThread : t # p => state'[t] = state[t]
  BY <1>3, <1>4 DEF QueueTypeOK
<1>18. Sorted(state', cur, q, z, tk2)
  <2>1. \A t, u \in AnyThread : t \in ToSet(tk2[u]) => t # p /\ t \in ToSet(tk[u])
    BY <1>7, <1>9, <1>10, <1>12
  <2>2. \A t \in AnyThread : state'[t] \in Live <=> state[t] \in Live
    BY <1>12, <1>17 DEF Live
  <2>3. p # cur /\ p # boot_thread
    BY <1>11, <1>12 DEF Sorted
  <2>4. state'[cur] = state[cur] /\ state'[boot_thread] = state[boot_thread]
    BY <1>1, <1>17, <2>3 DEF AnyThread
  <2>5. \A t \in AnyThread : state'[t] = "RUNNING" => state[t] = "RUNNING"
    BY <1>17
  <2>6. QED
    BY <1>11, <1>12, <1>17, <2>1, <2>2, <2>4, <2>5 DEF Sorted
<1>19. Shape(q, z, tk2)'
  BY <1>1, <1>2, <1>3, <1>8, <1>10, <1>14, <1>15, <1>16, <1>18 DEF Shape, Threaded
<1>20. /\ Chain(next, run_queue_head) = q
       /\ Chain(next, zombie_list) = z
       /\ [t \in AnyThread |-> Chain(next, list[t])] = tk
       /\ Chain(next', run_queue_head') = q
       /\ Chain(next', zombie_list') = z
       /\ [t \in AnyThread |-> Chain(next', list'[t])] = tk2
  BY <1>19, MappedStep
<1>21. {t \in AnyThread : state'[t] = "READY"} = {t \in AnyThread : state[t] = "READY"}
  BY <1>12, <1>17
<1>22. Abstract!Free
  BY <1>1, <1>3, <1>7, <1>9, <1>20, <1>21 DEF Abstract!Free
<1>23. QED
  BY <1>5, <1>19, <1>22

\* Giving up on an element moves on along the list and leaves every link alone.
LEMMA AbandonStep ==
    ASSUME QueueTypeOK, NEW q, NEW z, NEW tk, Shape(q, z, tk), AbandonZombie
    PROVE  QueueTypeOK' /\ (\E z2, tk2 : Shape(q, z2, tk2)') /\ Abstract!Free
<1>1. PICK cur \in AnyThread : cur = current_thread
  BY DEF QueueTypeOK
<1>2. PICK p, nx : p = list[cur] /\ nx = next
  OBVIOUS
<1>3. /\ p # NULL
      /\ list' = [list EXCEPT ![cur] = nx[p]]
      /\ UNCHANGED <<run_queue_head, run_queue_tail, current_thread, zombie_list, next, state>>
  BY <1>1, <1>2 DEF AbandonZombie
<1>4. p \in AnyThread /\ nx \in [AnyThread -> Pointer]
  BY <1>1, <1>2, <1>3 DEF QueueTypeOK, Pointer
<1>5. QueueTypeOK'
  <2>1. nx[p] \in Pointer
    BY <1>4
  <2>2. list' \in [AnyThread -> Pointer]
    BY <1>3, <2>1 DEF QueueTypeOK
  <2>3. QED
    BY <1>3, <2>2 DEF QueueTypeOK
<1>6. PICK tk2, s : s = tk[cur] /\ tk2 = [tk EXCEPT ![cur] = Tail(s)]
  OBVIOUS
<1>7. /\ Ring(nx, q) /\ run_queue_head = q[1] /\ run_queue_tail = q[Len(q)]
      /\ Leads(nx, zombie_list, z)
      /\ \A t \in AnyThread : Leads(nx, list[t], tk[t])
      /\ tk = [t \in AnyThread |-> tk[t]]
  BY <1>2 DEF Shape, Threaded
<1>8. /\ s # <<>> /\ p \in ToSet(s)
      /\ Leads(nx, nx[p], Tail(s))
      /\ \A t : t \in ToSet(Tail(s)) <=> t \in ToSet(s) /\ t # p
  <2>1. Leads(nx, p, s)
    BY <1>1, <1>2, <1>6, <1>7
  <2>2. \A t \in AnyThread : t # p => nx[t] = nx[t]
    OBVIOUS
  <2>3. QED
    BY <1>3, <2>1, <2>2, LeadsTail
<1>9. tk2[cur] = Tail(s) /\ (\A t \in AnyThread : t # cur => tk2[t] = tk[t]) /\ tk2 = [t \in AnyThread |-> tk2[t]]
  BY <1>6, <1>7
<1>10. Sorted(state, cur, q, z, tk)
  BY <1>1 DEF Shape
<1>11. ASSUME NEW t \in AnyThread PROVE Leads(nx, list'[t], tk2[t])
  <2>1. CASE t = cur
    BY <1>3, <1>8, <1>9, <2>1 DEF QueueTypeOK
  <2>2. CASE t # cur
    <3>1. list'[t] = list[t] /\ tk2[t] = tk[t]
      BY <1>3, <1>9, <2>2 DEF QueueTypeOK
    <3>2. QED
      BY <1>7, <3>1
  <2>3. QED
    BY <2>1, <2>2
<1>12. Sorted(state, cur, q, z, tk2)
  <2>1. \A t, u \in AnyThread : t \in ToSet(tk2[u]) => t \in ToSet(tk[u])
    BY <1>6, <1>8, <1>9
  <2>2. QED
    BY <1>10, <2>1 DEF Sorted
<1>13. Shape(q, z, tk2)'
  BY <1>1, <1>2, <1>3, <1>7, <1>9, <1>11, <1>12 DEF Shape, Threaded
<1>14. /\ Chain(next, run_queue_head) = q
       /\ Chain(next, zombie_list) = z
       /\ [t \in AnyThread |-> Chain(next, list[t])] = tk
       /\ Chain(next', run_queue_head') = q
       /\ Chain(next', zombie_list') = z
       /\ [t \in AnyThread |-> Chain(next', list'[t])] = tk2
  BY <1>13, MappedStep
<1>15. Abstract!Free
  BY <1>1, <1>3, <1>6, <1>8, <1>14 DEF Abstract!Free
<1>16. QED
  BY <1>5, <1>13, <1>15

-----------------------------------------------------------------------------
(* Unlinking.                                                               *)

\* A thread of the ring has one predecessor.
LEMMA Predecessor ==
    ASSUME NEW nx, NEW q, Ring(nx, q), NEW i \in 1..Len(q),
           NEW j, j = IF i = 1 THEN Len(q) ELSE i - 1
    PROVE  /\ j \in 1..Len(q)
           /\ nx[q[j]] = q[i]
           /\ \A k \in 1..Len(q) : nx[q[k]] = q[i] => k = j
<1>1. PICK l \in Nat : l = Len(q) /\ l # 0
  BY DEF Ring
<1>2. /\ \A k, m \in 1..l : q[k] = q[m] => k = m
      /\ \A k \in 1..(l - 1) : nx[q[k]] = q[k + 1]
      /\ nx[q[l]] = q[1]
  BY <1>1 DEF Ring, OneEach
<1>3. j \in 1..l
  BY <1>1
<1>4. nx[q[j]] = q[i]
  <2>1. CASE i = 1
    BY <1>1, <1>2, <2>1
  <2>2. CASE i # 1
    <3>1. j \in 1..(l - 1) /\ j + 1 = i
      BY <1>1, <2>2
    <3>2. QED
      BY <1>2, <3>1
  <2>3. QED
    BY <2>1, <2>2
<1>5. ASSUME NEW k \in 1..l, nx[q[k]] = q[i] PROVE k = j
  <2>1. CASE k = l
    <3>1. q[1] = q[i] /\ 1 \in 1..l /\ i \in 1..l
      BY <1>1, <1>2, <1>5, <2>1
    <3>2. i = 1
      BY <1>2, <3>1
    <3>3. QED
      BY <1>1, <2>1, <3>2
  <2>2. CASE k # l
    <3>1. k \in 1..(l - 1) /\ k + 1 \in 1..l /\ i \in 1..l
      BY <1>1, <2>2
    <3>2. q[k + 1] = q[i]
      BY <1>2, <1>5, <3>1
    <3>3. k + 1 = i
      BY <1>2, <3>1, <3>2
    <3>4. QED
      BY <3>1, <3>3
  <2>3. QED
    BY <2>1, <2>2
<1>6. QED
  BY <1>1, <1>3, <1>4, <1>5

\* What kernel_thread_exit makes of links nx and the ends of the ring q when the
\* thread at place i exits: j is its predecessor's place, hd and tl the new ends.
Unlinked(nx, q, i, zl, hd, tl, mx) ==
    \E j : /\ j = IF i = 1 THEN Len(q) ELSE i - 1
           /\ hd = IF i = 1 THEN nx[q[i]] ELSE q[1]
           /\ tl = IF i = Len(q) THEN q[j] ELSE q[Len(q)]
           /\ mx = [[[nx EXCEPT ![q[j]] = nx[q[i]]] EXCEPT ![tl] = hd] EXCEPT ![q[i]] = zl]

\* It takes the thread out of the ring and touches no link but of the ring.
LEMMA RingRemove ==
    ASSUME NEW nx, nx \in [AnyThread -> Pointer], NEW q, Ring(nx, q), Len(q) # 1,
           NEW i \in 1..Len(q), NEW r, r = Abstract!RemoveAt(q, i),
           NEW zl, NEW hd, NEW tl, NEW mx, Unlinked(nx, q, i, zl, hd, tl, mx)
    PROVE  /\ Ring(mx, r) /\ hd = r[1] /\ tl = r[Len(r)]
           /\ mx[q[i]] = zl
           /\ \A t \in AnyThread : t \notin ToSet(q) => mx[t] = nx[t]
           /\ \A t : t \in ToSet(r) <=> t \in ToSet(q) /\ t # q[i]
<1>1. PICK l \in Nat : l = Len(q) /\ l # 0 /\ l # 1
  <2>1. q \in Seq(AnyThread) /\ Len(q) # 0
    BY DEF Ring
  <2>2. Len(q) \in Nat
    BY <2>1
  <2>3. QED
    BY <2>1, <2>2
<1>2. PICK j :
              /\ j = IF i = 1 THEN Len(q) ELSE i - 1
              /\ hd = IF i = 1 THEN nx[q[i]] ELSE q[1]
              /\ tl = IF i = Len(q) THEN q[j] ELSE q[Len(q)]
              /\ mx = [[[nx EXCEPT ![q[j]] = nx[q[i]]] EXCEPT ![tl] = hd] EXCEPT ![q[i]] = zl]
  BY DEF Unlinked
<1>3. /\ q \in Seq(AnyThread)
      /\ \A k, m \in 1..l : q[k] = q[m] => k = m
      /\ \A k \in 1..(l - 1) : nx[q[k]] = q[k + 1]
      /\ nx[q[l]] = q[1]
      /\ \A k \in 1..l : q[k] \in AnyThread
  BY <1>1 DEF Ring, OneEach
<1>4. /\ r \in Seq(AnyThread) /\ Len(r) = l - 1
      /\ \A k \in 1..(i - 1) : r[k] = q[k]
      /\ \A k \in i..(l - 1) : r[k] = q[k + 1]
  <2>1. /\ Abstract!RemoveAt(q, i) \in Seq(AnyThread)
        /\ Len(Abstract!RemoveAt(q, i)) = Len(q) - 1
        /\ \A k \in 1..(i - 1) : Abstract!RemoveAt(q, i)[k] = q[k]
        /\ \A k \in i..(Len(q) - 1) : Abstract!RemoveAt(q, i)[k] = q[k + 1]
    BY <1>3, Removed
  <2>2. QED
    BY <1>1, <2>1
<1>5. j \in 1..l /\ j # i
  BY <1>1, <1>2
<1>6. PICK at : at = [k \in 1..(l - 1) |-> IF k < i THEN k ELSE k + 1]
  OBVIOUS
<1>7. \A k \in 1..(l - 1) : at[k] \in 1..l /\ at[k] # i /\ r[k] = q[at[k]]
  <2> TAKE k \in 1..(l - 1)
  <2>1. CASE k < i
    <3>1. k \in 1..(i - 1) /\ at[k] = k /\ k \in 1..l
      BY <1>1, <1>6, <2>1
    <3>2. QED
      BY <1>4, <2>1, <3>1
  <2>2. CASE ~ (k < i)
    <3>1. k \in i..(l - 1) /\ at[k] = k + 1 /\ k + 1 \in 1..l /\ k + 1 # i
      BY <1>1, <1>6, <2>2
    <3>2. QED
      BY <1>4, <3>1
  <2>3. QED
    BY <2>1, <2>2
<1>8. OneEach(r)
  <2> SUFFICES ASSUME NEW k \in 1..(l - 1), NEW m \in 1..(l - 1), r[k] = r[m] PROVE k = m
    BY <1>4 DEF OneEach
  <2>1. PICK a, b : a = at[k] /\ b = at[m]
    OBVIOUS
  <2>2. a \in 1..l /\ b \in 1..l /\ q[a] = q[b]
    BY <1>7, <2>1
  <2>3. at[k] = at[m]
    BY <1>3, <2>1, <2>2
  <2>4. QED
    BY <1>1, <1>6, <2>3
<1>9. tl = r[l - 1] /\ l - 1 \in 1..(l - 1)
  <2>1. l - 1 \in 1..(l - 1) /\ at[l - 1] = IF i = l THEN l - 1 ELSE l
    BY <1>1, <1>6
  <2>2. i = l => j = l - 1
    BY <1>1, <1>2
  <2>3. QED
    BY <1>1, <1>7, <1>2, <2>1, <2>2
<1>10. hd = r[1]
  <2>1. 1 \in 1..(l - 1) /\ at[1] = IF i = 1 THEN 2 ELSE 1
    BY <1>1, <1>6
  <2>2. nx[q[1]] = q[2]
    <3>1. 1 \in 1..(l - 1) /\ 1 + 1 = 2
      BY <1>1
    <3>2. QED
      BY <1>3, <3>1
  <2>3. QED
    BY <1>7, <1>2, <2>1, <2>2
<1>11. /\ mx[q[i]] = zl
       /\ tl # q[i] => mx[tl] = hd
       /\ \A t \in AnyThread : t # q[i] /\ t # tl => mx[t] = IF t = q[j] THEN nx[q[i]] ELSE nx[t]
  <2>1. q[i] \in AnyThread /\ tl \in AnyThread /\ q[j] \in AnyThread
    BY <1>1, <1>3, <1>5, <1>9, <1>7
  <2>2. QED
    BY <1>2, <2>1
<1>12. \A k \in 1..(l - 1) : r[k] # q[i] /\ r[k] \in AnyThread
  <2> TAKE k \in 1..(l - 1)
  <2>1. PICK a \in 1..l : a # i /\ r[k] = q[a]
    BY <1>7
  <2>2. i \in 1..l
    BY <1>1
  <2>3. QED
    BY <1>3, <2>1, <2>2
<1>13. mx[r[l - 1]] = r[1]
  BY <1>9, <1>10, <1>11, <1>12
<1>14. ASSUME NEW k \in 1..(l - 1 - 1) PROVE mx[r[k]] = r[k + 1]
  <2>1. k \in 1..(l - 1) /\ k + 1 \in 1..(l - 1) /\ k # l - 1
    BY <1>1
  <2>2. r[k] # tl
    BY <1>4, <1>8, <1>9, <2>1 DEF OneEach
  <2>3. PICK a \in 1..l : a = at[k] /\ a # i /\ r[k] = q[a]
    BY <1>7, <2>1
  <2>4. PICK b \in 1..l : b = at[k + 1] /\ r[k + 1] = q[b]
    BY <1>7, <2>1
  <2>5. CASE a = j
    <3>1. i # 1 /\ a = i - 1 /\ k = i - 1
      <4>1. CASE i = 1
        <5>1. q[j] = tl
          BY <1>1, <1>2, <4>1
        <5>2. QED
          BY <2>2, <2>3, <2>5, <5>1
      <4>2. CASE i # 1
        BY <1>1, <1>6, <1>2, <2>1, <2>3, <2>5, <4>2
      <4>3. QED
        BY <4>1, <4>2
    <3>2. b = i + 1 /\ i \in 1..(l - 1)
      BY <1>1, <1>6, <2>1, <2>4, <3>1
    <3>3. mx[r[k]] = nx[q[i]]
      BY <1>11, <1>12, <2>1, <2>2, <2>3, <2>5
    <3>4. QED
      BY <1>3, <2>4, <3>2, <3>3
  <2>6. CASE a # j
    <3>1. q[a] # q[j]
      BY <1>3, <1>5, <2>6
    <3>2. mx[r[k]] = nx[q[a]]
      BY <1>11, <1>12, <2>1, <2>2, <2>3, <3>1
    <3>3. a \in 1..(l - 1) /\ b = a + 1
      <4>1. k # i - 1
        BY <1>1, <1>6, <1>2, <2>1, <2>3, <2>6
      <4>2. QED
        BY <1>1, <1>6, <2>1, <2>3, <2>4, <4>1
    <3>4. QED
      BY <1>3, <2>4, <3>2, <3>3
  <2>7. QED
    BY <2>5, <2>6
<1>15. Ring(mx, r)
  <2>1. Len(r) # 0 /\ Len(r) - 1 = l - 1 - 1
    BY <1>1, <1>4
  <2>2. \A k \in 1..(Len(r) - 1) : mx[r[k]] = r[k + 1]
    BY <1>14, <2>1
  <2>3. mx[r[Len(r)]] = r[1]
    BY <1>4, <1>13
  <2>4. QED
    BY <1>4, <1>8, <2>1, <2>2, <2>3 DEF Ring
<1>16. ASSUME NEW t \in AnyThread, t \notin ToSet(q) PROVE mx[t] = nx[t]
  <2>1. q[i] \in ToSet(q) /\ q[j] \in ToSet(q) /\ tl \in ToSet(q)
    BY <1>1, <1>3, <1>5, <1>7, <1>9, OnSequence
  <2>2. QED
    BY <1>11, <1>16, <2>1
<1>17. ASSUME NEW t PROVE t \in ToSet(r) <=> t \in ToSet(q) /\ t # q[i]
  <2>1. t \in ToSet(r) <=> \E k \in 1..(l - 1) : r[k] = t
    BY <1>4, OnSequence
  <2>2. t \in ToSet(q) <=> \E k \in 1..l : q[k] = t
    BY <1>1, <1>3, OnSequence
  <2>3. ASSUME NEW k \in 1..(l - 1), r[k] = t PROVE t \in ToSet(q) /\ t # q[i]
    BY <1>7, <1>12, <2>2, <2>3
  <2>4. ASSUME NEW k \in 1..l, q[k] = t, t # q[i] PROVE \E m \in 1..(l - 1) : r[m] = t
    <3>1. k # i
      BY <2>4
    <3>2. PICK m \in 1..(l - 1) : at[m] = k
      <4>1. CASE k < i
        <5>1. k \in 1..(l - 1) /\ at[k] = k
          BY <1>1, <1>6, <4>1
        <5>2. QED
          BY <5>1
      <4>2. CASE k > i
        <5>1. k - 1 \in 1..(l - 1) /\ at[k - 1] = k
          BY <1>1, <1>6, <4>2
        <5>2. QED
          BY <5>1
      <4>3. QED
        BY <3>1, <4>1, <4>2
    <3>3. QED
      BY <1>7, <2>4, <3>2
  <2>5. QED
    BY <2>1, <2>2, <2>3, <2>4
<1>18. QED
  BY <1>4, <1>9, <1>10, <1>11, <1>15, <1>16, <1>17

\* A thread pushed on a list through its own link.
LEMMA LeadsPush ==
    ASSUME NEW mx, NEW p, NEW s, Leads(mx, p, s), NEW u \in AnyThread, u \notin ToSet(s), mx[u] = p
    PROVE  /\ Leads(mx, u, <<u>> \o s)
           /\ \A t : t \in ToSet(<<u>> \o s) <=> t = u \/ t \in ToSet(s)
<1>1. PICK l \in Nat : l = Len(s)
  BY DEF Leads
<1>2. /\ s \in Seq(AnyThread)
      /\ \A j, k \in 1..l : s[j] = s[k] => j = k
      /\ p = IF l = 0 THEN NULL ELSE s[1]
      /\ \A k \in 1..(l - 1) : mx[s[k]] = s[k + 1]
      /\ l # 0 => mx[s[l]] = NULL
  BY <1>1 DEF Leads, OneEach
<1>3. PICK r : r = <<u>> \o s
  OBVIOUS
<1>4. /\ r \in Seq(AnyThread) /\ Len(r) = 1 + l
      /\ r[1] = u
      /\ \A k \in 1..l : r[k + 1] = s[k]
  <2>1. PICK e : e = <<u>>
    OBVIOUS
  <2>2. e \in Seq(AnyThread) /\ Len(e) = 1 /\ e[1] = u
    BY <2>1
  <2>3. /\ r \in Seq(AnyThread) /\ Len(r) = 1 + l
        /\ \A k \in 1..(1 + l) : r[k] = IF k <= 1 THEN e[k] ELSE s[k - 1]
    <3>1. /\ r \in Seq(AnyThread) /\ Len(r) = Len(e) + Len(s)
          /\ \A k \in 1..(Len(e) + Len(s)) : r[k] = IF k <= Len(e) THEN e[k] ELSE s[k - Len(e)]
      BY <1>2, <1>3, <2>1, <2>2, ConcatProperties
    <3>2. QED
      BY <1>1, <2>2, <3>1
  <2>4. 1 \in 1..(1 + l) /\ \A k \in 1..l : k + 1 \in 1..(1 + l) /\ ~ (k + 1 <= 1) /\ k + 1 - 1 = k
    BY <1>1
  <2>5. QED
    BY <2>2, <2>3, <2>4
<1>5. \A k \in 1..l : s[k] # u
  BY <1>1, <1>2, OnSequence
<1>6. \A k \in 1..(1 + l) : k = 1 \/ \E j \in 1..l : k = j + 1
  <2> TAKE k \in 1..(1 + l)
  <2>1. k = 1 \/ (k - 1 \in 1..l /\ k = (k - 1) + 1)
    BY <1>1
  <2>2. QED
    BY <2>1
<1>7. OneEach(r)
  <2> SUFFICES ASSUME NEW j \in 1..(1 + l), NEW k \in 1..(1 + l), r[j] = r[k] PROVE j = k
    BY <1>4 DEF OneEach
  <2>1. CASE j = 1 \/ k = 1
    BY <1>4, <1>5, <1>6, <2>1
  <2>2. CASE j # 1 /\ k # 1
    <3>1. PICK a \in 1..l : j = a + 1
      BY <1>6, <2>2
    <3>2. PICK b \in 1..l : k = b + 1
      BY <1>6, <2>2
    <3>3. s[a] = s[b]
      BY <1>4, <3>1, <3>2
    <3>4. QED
      BY <1>2, <3>1, <3>2, <3>3
  <2>3. QED
    BY <2>1, <2>2
<1>8. ASSUME NEW k \in 1..(1 + l - 1) PROVE mx[r[k]] = r[k + 1]
  <2>1. k \in 1..l /\ k \in 1..(1 + l)
    BY <1>1
  <2>2. CASE k = 1
    BY <1>1, <1>2, <1>4, <2>1, <2>2
  <2>3. CASE k # 1
    <3>1. PICK a \in 1..l : k = a + 1
      BY <1>6, <2>1, <2>3
    <3>2. a \in 1..(l - 1)
      BY <1>1, <2>1, <3>1
    <3>3. r[k] = s[a] /\ r[k + 1] = s[k]
      BY <1>4, <2>1, <3>1
    <3>4. QED
      BY <1>2, <3>1, <3>2, <3>3
  <2>4. QED
    BY <2>2, <2>3
<1>9. mx[r[1 + l]] = NULL
  <2>1. CASE l = 0
    BY <1>2, <1>4, <2>1
  <2>2. CASE l # 0
    <3>1. l \in 1..l /\ 1 + l = l + 1
      BY <1>1, <2>2
    <3>2. QED
      BY <1>2, <1>4, <2>2, <3>1
  <2>3. QED
    BY <2>1, <2>2
<1>10. Leads(mx, u, r)
  BY <1>1, <1>4, <1>7, <1>8, <1>9 DEF Leads
<1>11. ASSUME NEW t PROVE t \in ToSet(r) <=> t = u \/ t \in ToSet(s)
  <2>1. t \in ToSet(r) <=> \E k \in 1..(1 + l) : r[k] = t
    BY <1>4, OnSequence
  <2>2. t \in ToSet(s) <=> \E k \in 1..l : s[k] = t
    BY <1>1, <1>2, OnSequence
  <2>3. 1 \in 1..(1 + l) /\ \A k \in 1..l : k + 1 \in 1..(1 + l)
    BY <1>1
  <2>4. ASSUME NEW k \in 1..l, s[k] = t PROVE \E m \in 1..(1 + l) : r[m] = t
    BY <1>4, <2>3, <2>4
  <2>5. ASSUME NEW k \in 1..(1 + l), r[k] = t PROVE t = u \/ \E m \in 1..l : s[m] = t
    BY <1>4, <1>6, <2>5
  <2>6. QED
    BY <1>4, <2>1, <2>2, <2>3, <2>4, <2>5
<1>12. QED
  BY <1>3, <1>10, <1>11

\* The links, ends and zombie list that kernel_thread_exit leaves.
LEMMA ExitLinks ==
    ASSUME QueueTypeOK, NEW q, NEW z, NEW tk, Shape(q, z, tk), Exit,
           NEW i \in 1..Len(q), q[i] = current_thread
    PROVE  /\ Len(q) # 1
           /\ Unlinked(next, q, i, zombie_list, run_queue_head', run_queue_tail', next')
<1>1. PICK nx : nx = next
  OBVIOUS
<1>2. Ring(nx, q) /\ run_queue_head = q[1] /\ run_queue_tail = q[Len(q)]
  BY <1>1 DEF Shape, Threaded
<1>3. q \in Seq(AnyThread) /\ Len(q) # 0 /\ Len(q) \in Nat /\ OneEach(q)
  BY <1>2 DEF Ring
<1>4. Len(q) # 1
  <2>1. boot_thread \in ToSet(q) /\ boot_thread # current_thread
    BY DEF Shape, Sorted, Live, AnyThread, Exit
  <2>2. PICK k \in 1..Len(q) : q[k] = boot_thread
    BY <1>3, <2>1, OnSequence
  <2>3. k # i /\ i \in 1..Len(q)
    BY <2>1, <2>2
  <2>4. QED
    BY <2>2, <2>3
<1>5. PICK j : j = IF i = 1 THEN Len(q) ELSE i - 1
  OBVIOUS
<1>6. j \in 1..Len(q) /\ nx[q[j]] = q[i] /\ \A k \in 1..Len(q) : nx[q[k]] = q[i] => k = j
  BY <1>2, <1>5, Predecessor
<1>7. Chain(next, run_queue_head) = q
  <2>1. Chain(nx, q[1]) = q
    BY <1>2, ChainOfRing
  <2>2. QED
    BY <1>1, <1>2, <2>1
<1>8. q[SelectInSeq(q, LAMBDA t : next[t] = current_thread)] = q[j]
  <2>1. PICK I : I = {k \in 1..Len(q) : next[q[k]] = current_thread}
    OBVIOUS
  <2>2. j \in I /\ I \in SUBSET Nat /\ \A k \in I : j <= k
    BY <1>1, <1>6, <2>1
  <2>3. Min(I) = j
    BY <2>2, MinIs
  <2>4. SelectInSeq(q, LAMBDA t : next[t] = current_thread) = j
    BY <2>1, <2>2, <2>3 DEF SelectInSeq
  <2>5. QED
    BY <2>4
<1>9. (q[1] = q[i] <=> i = 1) /\ (q[Len(q)] = q[i] <=> i = Len(q))
  <2>1. 1 \in 1..Len(q) /\ Len(q) \in 1..Len(q)
    BY <1>3
  <2>2. QED
    BY <1>3, <2>1 DEF OneEach
<1>10. /\ run_queue_head' = IF i = 1 THEN next[q[i]] ELSE q[1]
       /\ run_queue_tail' = IF i = Len(q) THEN q[j] ELSE q[Len(q)]
  BY <1>2, <1>7, <1>8, <1>9 DEF Exit
<1>11. next' = [[[next EXCEPT ![q[j]] = next[q[i]]] EXCEPT ![run_queue_tail'] = run_queue_head']
                      EXCEPT ![q[i]] = zombie_list]
  BY <1>7, <1>8 DEF Exit
<1>12. QED
  BY <1>4, <1>5, <1>10, <1>11 DEF Unlinked

LEMMA ExitStep ==
    ASSUME QueueTypeOK, NEW q, NEW z, NEW tk, Shape(q, z, tk), Exit
    PROVE  QueueTypeOK' /\ (\E q2, z2 : Shape(q2, z2, tk)') /\ Abstract!Exit
<1>1. PICK i \in 1..Len(q) : q[i] = current_thread
  BY CurrentAt
<1>2. PICK nx, mx, zl, cur, r :
        nx = next /\ mx = next' /\ zl = zombie_list /\ cur = current_thread /\ r = Abstract!RemoveAt(q, i)
  OBVIOUS
<1>3. PICK hd, tl :
        /\ run_queue_head' = hd /\ run_queue_tail' = tl
        /\ Unlinked(nx, q, i, zl, hd, tl, mx)
        /\ Len(q) # 1
  BY <1>1, <1>2, ExitLinks
<1>4. /\ Ring(nx, q)
      /\ Leads(nx, zl, z)
      /\ \A t \in AnyThread : Leads(nx, list[t], tk[t])
      /\ tk = [t \in AnyThread |-> tk[t]]
  BY <1>2 DEF Shape, Threaded
<1>5. Sorted(state, cur, q, z, tk) /\ cur \in AnyThread /\ cur # boot_thread /\ q[i] = cur
  BY <1>1, <1>2 DEF Shape, QueueTypeOK, Exit
<1>6. nx \in [AnyThread -> Pointer] /\ zl \in Pointer
  BY <1>2 DEF QueueTypeOK
<1>7. /\ Ring(mx, r) /\ hd = r[1] /\ tl = r[Len(r)]
      /\ mx[cur] = zl
      /\ \A t \in AnyThread : t \notin ToSet(q) => mx[t] = nx[t]
      /\ \A t : t \in ToSet(r) <=> t \in ToSet(q) /\ t # cur
  <2>1. /\ Ring(mx, r) /\ hd = r[1] /\ tl = r[Len(r)]
        /\ mx[q[i]] = zl
        /\ \A t \in AnyThread : t \notin ToSet(q) => mx[t] = nx[t]
        /\ \A t : t \in ToSet(r) <=> t \in ToSet(q) /\ t # q[i]
    BY <1>2, <1>3, <1>4, <1>6, RingRemove
  <2>2. QED
    BY <1>5, <2>1
<1>8. ASSUME NEW a, NEW s, Leads(nx, a, s), \A t \in AnyThread : t \in ToSet(s) => state[t] = "TERMINATED"
      PROVE  Leads(mx, a, s)
  <2>1. \A t \in ToSet(s) : t \in AnyThread
    BY <1>8, OnSequence DEF Leads
  <2>2. \A t \in ToSet(s) : mx[t] = nx[t]
    BY <1>5, <1>7, <1>8, <2>1 DEF Sorted, Live
  <2>3. QED
    BY <1>8, <2>2, LeadsSame
<1>9. Leads(mx, zl, z) /\ \A t \in AnyThread : Leads(mx, list[t], tk[t])
  BY <1>4, <1>5, <1>8 DEF Sorted
<1>10. PICK z2 : z2 = <<cur>> \o z
  OBVIOUS
<1>11. Leads(mx, cur, z2) /\ \A t : t \in ToSet(z2) <=> t = cur \/ t \in ToSet(z)
  <2>1. cur \notin ToSet(z)
    BY <1>5 DEF Sorted
  <2>2. QED
    BY <1>5, <1>7, <1>9, <1>10, <2>1, LeadsPush
<1>12. PICK R \in SUBSET AnyThread : R = {t \in AnyThread : state[t] = "READY"}
  OBVIOUS
<1>13. PICK st, c : st = [state EXCEPT ![cur] = "TERMINATED"] /\ c = Candidate(mx, st, hd)
  OBVIOUS
<1>14. /\ st[cur] = "TERMINATED" /\ \A t \in AnyThread : t # cur => st[t] = state[t]
       /\ st \in [AnyThread -> {"READY", "RUNNING", "BLOCKED", "TERMINATED", "FREE"}]
  BY <1>5, <1>13 DEF QueueTypeOK
<1>15. cur \in ToSet(q) /\ state[cur] = "RUNNING"
  BY <1>5 DEF Sorted, Live
<1>16. c \in R /\ st[c] = "READY" /\ Abstract!NextReady(r, R, 0) = c
  <2>1. Readies(R, st)
    BY <1>12, <1>14, <1>15 DEF Readies
  <2>2. R \subseteq ToSet(r)
    BY <1>5, <1>7, <1>12, <1>15 DEF Sorted, Live
  <2>3. boot_thread \in R
    BY <1>5, <1>12 DEF Sorted, AnyThread
  <2>4. 0 \in 0..Len(r) /\ 0 # Len(r) /\ hd = Round(r, 0)[1]
    <3>1. r \in Seq(AnyThread) /\ Len(r) # 0
      BY <1>7 DEF Ring
    <3>2. 0 \in 0..Len(r)
      BY <3>1
    <3>3. Round(r, 0)[1] = r[0 + 1]
      BY <1>7, <3>1, <3>2, RingRound
    <3>4. QED
      BY <1>7, <3>1, <3>2, <3>3
  <2>5. \/ R = {} /\ st[Candidate(mx, st, hd)] # "READY"
        \/ /\ Candidate(mx, st, hd) \in R /\ st[Candidate(mx, st, hd)] = "READY"
           /\ Abstract!NextReady(r, R, 0) = Candidate(mx, st, hd)
    BY <1>7, <2>1, <2>2, <2>4, Scan
  <2>6. QED
    BY <1>13, <2>3, <2>5
<1>17. /\ zombie_list' = cur /\ UNCHANGED list
       /\ current_thread' = c
       /\ state' = [st EXCEPT ![cur] = IF @ = "RUNNING" THEN "READY" ELSE @, ![c] = "RUNNING"]
  <2>1. zombie_list' = cur /\ UNCHANGED list
    BY <1>2 DEF Exit
  <2>2. Schedule(next', st, run_queue_head')
    BY <1>2, <1>13, Zenon DEF Exit
  <2>3. Candidate(next', st, run_queue_head') = c
    BY <1>2, <1>3, <1>13
  <2>4. QED
    BY <1>2, <1>14, <1>16, <2>1, <2>2, <2>3 DEF Schedule
<1>18. c \in AnyThread /\ c # cur /\ state[c] = "READY"
  BY <1>12, <1>15, <1>16
<1>19. /\ state'[c] = "RUNNING" /\ state'[cur] = "TERMINATED"
       /\ \A t \in AnyThread : t # c /\ t # cur => state'[t] = state[t]
       /\ state' \in [AnyThread -> {"READY", "RUNNING", "BLOCKED", "TERMINATED", "FREE"}]
  BY <1>5, <1>14, <1>17, <1>18
<1>20. Sorted(state', c, r, z2, tk)
  <2>1. \A t \in AnyThread : t \in ToSet(r) <=> state'[t] \in Live
    BY <1>5, <1>7, <1>15, <1>18, <1>19 DEF Sorted, Live
  <2>2. \A t \in AnyThread : state[t] = "TERMINATED" => state'[t] = "TERMINATED"
    BY <1>15, <1>18, <1>19
  <2>3. \A t \in AnyThread : t \in ToSet(z2) => state'[t] = "TERMINATED"
    BY <1>5, <1>11, <1>19, <2>2 DEF Sorted
  <2>4. \A u \in AnyThread : cur \notin ToSet(tk[u])
    BY <1>5, <1>15 DEF Sorted
  <2>5. \A t, u \in AnyThread : t \in ToSet(tk[u]) => state'[t] = "TERMINATED" /\ t \notin ToSet(z2)
    BY <1>5, <1>11, <2>2, <2>4 DEF Sorted
  <2>6. state'[boot_thread] \in {"READY", "RUNNING"}
    BY <1>5, <1>19 DEF Sorted, AnyThread
  <2>7. \A t \in AnyThread : state'[t] = "RUNNING" => t = c
    BY <1>5, <1>19 DEF Sorted
  <2>8. QED
    BY <1>5, <1>19, <2>1, <2>3, <2>5, <2>6, <2>7 DEF Sorted
<1>21. Shape(r, z2, tk)'
  BY <1>2, <1>3, <1>4, <1>7, <1>9, <1>11, <1>17, <1>20 DEF Shape, Threaded
<1>22. QueueTypeOK'
  <2>1. \A t \in ToSet(r) : t \in AnyThread
    BY <1>7, OnSequence DEF Ring
  <2>2. hd \in AnyThread /\ tl \in AnyThread
    BY <1>7, <2>1, RingEnds
  <2>3. q \in Seq(AnyThread) /\ q[i] \in AnyThread /\ nx[q[i]] \in Pointer
    BY <1>4, <1>5, <1>6 DEF Ring
  <2>4. mx \in [AnyThread -> Pointer]
    BY <1>3, <1>6, <2>2, <2>3 DEF Pointer, Unlinked
  <2>5. QED
    BY <1>2, <1>3, <1>5, <1>17, <1>18, <1>19, <2>2, <2>4 DEF QueueTypeOK, Pointer
<1>23. /\ Chain(next, run_queue_head) = q
       /\ Chain(next, zombie_list) = z
       /\ [t \in AnyThread |-> Chain(next, list[t])] = tk
       /\ Chain(next', run_queue_head') = r
       /\ Chain(next', zombie_list') = z2
       /\ [t \in AnyThread |-> Chain(next', list'[t])] = tk
  BY <1>21, MappedStep
<1>24. {t \in AnyThread : state'[t] = "READY"} = {t \in AnyThread : state[t] = "READY"} \ {c}
  BY <1>15, <1>18, <1>19
<1>25. Abstract!NextReady(Chain(next', run_queue_head'), {t \in AnyThread : state[t] = "READY"}, 0) = c
  BY <1>12, <1>16, <1>23
<1>26. Abstract!RemoveAt(Chain(next, run_queue_head), i) = Chain(next', run_queue_head')
  BY <1>2, <1>23
<1>27. i \in DOMAIN Chain(next, run_queue_head) /\ Chain(next, run_queue_head)[i] = current_thread
  BY <1>1, <1>4, <1>23 DEF Ring
<1>28. Abstract!Exit
  BY <1>2, <1>5, <1>10, <1>17, <1>23, <1>24, <1>25, <1>26, <1>27 DEF Abstract!Exit
<1>29. QED
  BY <1>21, <1>22, <1>28

-----------------------------------------------------------------------------
(* The theorems.                                                            *)

LEMMA InitShape ==
    ASSUME QueueInit
    PROVE  QueueTypeOK /\ Shape(<<boot_thread>>, <<>>, [t \in AnyThread |-> <<>>]) /\ Abstract!Init
<1>1. PICK q, e, tk : q = <<boot_thread>> /\ e = <<>> /\ tk = [t \in AnyThread |-> e]
  OBVIOUS
<1>2. /\ boot_thread \in AnyThread
      /\ run_queue_head = boot_thread /\ run_queue_tail = boot_thread /\ current_thread = boot_thread
      /\ zombie_list = NULL
      /\ next = [t \in AnyThread |-> IF t = boot_thread THEN boot_thread ELSE NULL]
      /\ state = [t \in AnyThread |-> IF t = boot_thread THEN "RUNNING" ELSE "FREE"]
      /\ list = [t \in AnyThread |-> NULL]
  BY DEF QueueInit, AnyThread
<1>3. QueueTypeOK
  BY <1>2 DEF QueueTypeOK, Pointer
<1>4. q \in Seq(AnyThread) /\ Len(q) = 1 /\ q[1] = boot_thread
  BY <1>1, <1>2
<1>5. e \in Seq(AnyThread) /\ Len(e) = 0
  BY <1>1
<1>6. Ring(next, q)
  <2>1. OneEach(q)
    BY <1>4 DEF OneEach
  <2>2. next[q[Len(q)]] = q[1] /\ 1..(Len(q) - 1) = {}
    BY <1>2, <1>4
  <2>3. QED
    BY <1>4, <2>1, <2>2 DEF Ring
<1>7. Leads(next, NULL, e)
  <2>1. 1..Len(e) = {} /\ 1..(Len(e) - 1) = {}
    BY <1>5
  <2>2. QED
    BY <1>5, <2>1 DEF Leads, OneEach
<1>8. \A t : t \in ToSet(q) <=> t = boot_thread
  <2>1. 1..Len(q) = {1}
    BY <1>4
  <2>2. QED
    BY <1>4, <2>1, OnSequence
<1>9. \A t : t \notin ToSet(e)
  <2>1. 1..Len(e) = {}
    BY <1>5
  <2>2. QED
    BY <1>5, <2>1, OnSequence
<1>10. Sorted(state, current_thread, q, e, tk)
  BY <1>1, <1>2, <1>8, <1>9 DEF Sorted, Live
<1>11. Threaded(next, run_queue_head, run_queue_tail, zombie_list, list, q, e, tk)
  BY <1>1, <1>2, <1>4, <1>6, <1>7 DEF Threaded
<1>12. Shape(q, e, tk)
  BY <1>10, <1>11 DEF Shape
<1>13. /\ Chain(next, run_queue_head) = q
       /\ Chain(next, zombie_list) = e
       /\ [t \in AnyThread |-> Chain(next, list[t])] = tk
  <2>1. PICK nx, hd, tl, zl, ls :
          nx = next /\ hd = run_queue_head /\ tl = run_queue_tail /\ zl = zombie_list /\ ls = list
    OBVIOUS
  <2>2. Threaded(nx, hd, tl, zl, ls, q, e, tk)
    BY <1>11, <2>1
  <2>3. Chain(nx, hd) = q /\ Chain(nx, zl) = e /\ \A t \in AnyThread : Chain(nx, ls[t]) = tk[t]
    BY <2>2, Mapped
  <2>4. QED
    BY <1>1, <2>1, <2>3
<1>14. {t \in AnyThread : state[t] = "READY"} = {}
  BY <1>2
<1>15. Abstract!AnyThread = AnyThread
  BY DEF Abstract!AnyThread, AnyThread
<1>16. Abstract!Init
  BY <1>1, <1>2, <1>13, <1>14, <1>15 DEF Abstract!Init
<1>17. QED
  BY <1>1, <1>3, <1>12, <1>16

\* Every step keeps the ring and the lists and is a step of RunQueueSpec.
LEMMA StepShape ==
    ASSUME QueueTypeOK, NEW q, NEW z, NEW tk, Shape(q, z, tk), [QueueNext]_queueVars
    PROVE  QueueTypeOK' /\ (\E q2, z2, tk2 : Shape(q2, z2, tk2)') /\ [Abstract!Next]_Abstract!vars
<1>1. ASSUME NEW thread \in Thread, Link(thread)
      PROVE  QueueTypeOK' /\ (\E q2, z2, tk2 : Shape(q2, z2, tk2)') /\ [Abstract!Next]_Abstract!vars
  BY <1>1, LinkStep DEF Abstract!Next
<1>2. ASSUME NEW thread \in Thread, Wake(thread)
      PROVE  QueueTypeOK' /\ (\E q2, z2, tk2 : Shape(q2, z2, tk2)') /\ [Abstract!Next]_Abstract!vars
  BY <1>2, WakeStep DEF Abstract!Next
<1>3. CASE Reschedule
  BY <1>3, RescheduleStep DEF Abstract!Next
<1>4. CASE Block
  BY <1>4, BlockStep DEF Abstract!Next
<1>5. CASE Exit
  BY <1>5, ExitStep DEF Abstract!Next
<1>6. CASE TakeZombies
  BY <1>6, TakeStep DEF Abstract!Next
<1>7. CASE FreeZombie
  BY <1>7, FreeStep DEF Abstract!Next
<1>8. CASE AbandonZombie
  BY <1>8, AbandonStep DEF Abstract!Next
<1>9. CASE UNCHANGED queueVars
  <2>1. /\ UNCHANGED <<run_queue_head, run_queue_tail, current_thread, zombie_list, next, state, list>>
    BY <1>9 DEF queueVars
  <2>2. QueueTypeOK'
    BY <2>1 DEF QueueTypeOK
  <2>3. Shape(q, z, tk)'
    BY <2>1 DEF Shape
  <2>4. UNCHANGED Abstract!vars
    BY <2>1 DEF Abstract!vars
  <2>5. QED
    BY <2>2, <2>3, <2>4
<1>10. QED
  BY <1>1, <1>2, <1>3, <1>4, <1>5, <1>6, <1>7, <1>8, <1>9 DEF QueueNext

\* The links always thread one ring of the live threads, and lists that end of
\* terminated ones (the critical sections of task/thread.c).
THEOREM LinksInvariant == QueueSpec => []QueueInv
<1>1. QueueInit => QueueInv
  BY InitShape DEF QueueInv
<1>2. QueueInv /\ [QueueNext]_queueVars => QueueInv'
  BY StepShape DEF QueueInv
<1>3. QED
  BY <1>1, <1>2, PTL DEF QueueSpec

\* From every live thread the links lead to every other, the tail's to the head,
\* and no terminated thread is among them, for any number of threads.
THEOREM RingCorrect == QueueSpec => []OneRing
<1>1. QueueInv => OneRing
  <2> SUFFICES ASSUME QueueInv PROVE OneRing
    OBVIOUS
  <2>1. PICK q, z, tk : Shape(q, z, tk)
    BY DEF QueueInv
  <2>2. PICK nx : nx = next
    OBVIOUS
  <2>3. Ring(nx, q) /\ run_queue_head = q[1] /\ run_queue_tail = q[Len(q)]
    BY <2>1, <2>2 DEF Shape, Threaded
  <2>4. next[run_queue_tail] = run_queue_head
    BY <2>2, <2>3 DEF Ring
  <2>5. PICK live : live = {t \in AnyThread : state[t] \in {"READY", "RUNNING", "BLOCKED"}}
    OBVIOUS
  <2>6. ToSet(q) = live
    <3>1. \A t \in ToSet(q) : t \in AnyThread
      BY <2>3, OnSequence DEF Ring
    <3>2. QED
      BY <2>1, <2>5, <3>1 DEF Shape, Sorted, Live
  <2>7. \A t \in live : ToSet(Chain(next, t)) = live
    <3>1. \A t \in live : ToSet(Chain(nx, t)) = live
      BY <2>3, <2>6, ChainAt
    <3>2. QED
      BY <2>2, <3>1
  <2>8. QED
    BY <2>4, <2>5, <2>7 DEF OneRing, QueueInv
<1>2. QED
  BY <1>1, LinksInvariant, PTL

\* What the critical sections do to the links is what RunQueueSpec promises of
\* a queue scanned in order and a stack of zombies.
THEOREM QueueImplemented == QueueSpec => ImplementsQueue
<1>1. QueueInit => Abstract!Init
  BY InitShape
<1>2. QueueInv /\ [QueueNext]_queueVars => [Abstract!Next]_Abstract!vars
  BY StepShape DEF QueueInv
<1>3. QED
  BY <1>1, <1>2, LinksInvariant, PTL DEF QueueSpec, ImplementsQueue, Abstract!Spec
=============================================================================
