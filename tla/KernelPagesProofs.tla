------------------------- MODULE KernelPagesProofs -------------------------
(***************************************************************************)
(* The region allocator of VRegion.tla and the guarded allocations of      *)
(* KernelPages.tla that use it.                                            *)
(*                                                                         *)
(* First the region, for any size of it and of its table and any requests: *)
(* the table of free extents stays sorted and coalesced, and together with *)
(* the reserved ranges it covers the region exactly, and it serves what    *)
(* the set of free pages of VRegionSpec.tla would.  This part uses nothing *)
(* of KernelPages.tla.                                                     *)
(*                                                                         *)
(* Then the allocations, for any region, table size, threads, frames and   *)
(* shapes: whatever fails and however the calls are interleaved, pages,    *)
(* frames and reservations stay accounted for.  Their steps use the region *)
(* as VRegion.tla says its callers do, so everything the first part shows  *)
(* of the region holds here too.                                           *)
(***************************************************************************)
EXTENDS KernelPages, SequenceTheorems, FiniteSetTheorems, WellFoundedInduction, TLAPS

-----------------------------------------------------------------------------
(* The region.                                                              *)

\* A nonempty set of naturals has a least element.
LEMMA LeastExists ==
    ASSUME NEW S \in SUBSET Nat, S # {}
    PROVE  \E m \in S : \A k \in S : m <= k
<1> DEFINE Less == {ss \in Nat \X Nat : ss[1] < ss[2]}
<1>1. \A i, j \in Nat : i < j => <<i, j>> \in Less
  OBVIOUS
<1>2. IsWellFoundedOn(Less, Nat)
  BY NatLessThanWellFounded DEF OpToRel
<1> HIDE DEF Less
<1>3. \E m \in S : \A k \in S : ~ (<<k, m>> \in Less)
  BY <1>2, WFMin
<1>4. PICK m \in S : \A k \in S : ~ (<<k, m>> \in Less)
  BY <1>3
<1>5. \A k \in S : m <= k
  <2> TAKE k \in S
  <2>1. k \in Nat /\ m \in Nat /\ ~ (k < m)
    BY <1>1, <1>4
  <2>2. QED
    BY <2>1
<1>6. QED
  BY <1>5

(***************************************************************************)
(* Sequences of extents.                                                   *)
(***************************************************************************)

Sorted(f) == \A i, j \in DOMAIN f : i < j => End(f[i]) < f[j].start

\* A sorted, coalesced table of extents of the region.
Table(f) ==
    /\ f \in Seq(Extent)
    /\ \A i \in DOMAIN f : End(f[i]) <= RegionPages
    /\ Sorted(f)

Cover(f) == UNION {PagesOf(f[i]) : i \in DOMAIN f}

\* An extent that fits between the entries before position i and those from it on.
Between(f, i, e) ==
    /\ e \in Extent
    /\ End(e) <= RegionPages
    /\ \A k \in DOMAIN f : k < i => End(f[k]) < e.start
    /\ \A k \in DOMAIN f : k >= i => End(e) < f[k].start

LEMMA ExtentType ==
    ASSUME NEW e \in Extent
    PROVE  e.start \in Nat /\ e.pages \in Nat \ {0} /\ End(e) \in Nat /\ e.start < End(e)
BY SizesAssumption DEF Extent, End, Page

LEMMA FunctionIsSeq ==
    ASSUME NEW S, NEW n \in Nat, NEW f \in [1..n -> S]
    PROVE  f \in Seq(S) /\ Len(f) = n /\ DOMAIN f = 1..n
OBVIOUS

LEMMA CoverPoint ==
    ASSUME NEW f, NEW p
    PROVE  p \in Cover(f) <=> \E i \in DOMAIN f : p \in PagesOf(f[i])
BY DEF Cover

\* Removing an entry takes exactly its pages away.
LEMMA RemoveTable ==
    ASSUME NEW f, Table(f), NEW i \in DOMAIN f
    PROVE  /\ Table(RemoveExtent(f, i))
           /\ Len(RemoveExtent(f, i)) = Len(f) - 1
           /\ Cover(RemoveExtent(f, i)) = Cover(f) \ PagesOf(f[i])
<1> DEFINE g == RemoveExtent(f, i)
           old(k) == IF k < i THEN k ELSE k + 1
<1>1. f \in Seq(Extent) /\ Len(f) \in Nat /\ DOMAIN f = 1..Len(f) /\ Len(f) - 1 \in Nat
  BY LenProperties DEF Table
<1>2. \A k \in 1..(Len(f) - 1) : old(k) \in DOMAIN f /\ f[old(k)] \in Extent
  BY <1>1, ElementOfSeq
<1>3. g = [k \in 1..(Len(f) - 1) |-> f[old(k)]]
  BY DEF RemoveExtent
<1>4. g \in [1..(Len(f) - 1) -> Extent]
  BY <1>2, <1>3
<1>5. g \in Seq(Extent) /\ Len(g) = Len(f) - 1 /\ DOMAIN g = 1..(Len(f) - 1)
  BY <1>1, <1>4, FunctionIsSeq
<1>6. \A k \in DOMAIN g : g[k] = f[old(k)] /\ old(k) \in DOMAIN f /\ old(k) # i
  BY <1>1, <1>2, <1>3, <1>5
<1>7. \A k \in DOMAIN f : k # i => \E m \in DOMAIN g : old(m) = k
  <2> TAKE k \in DOMAIN f
  <2> HAVE k # i
  <2>1. CASE k < i
    BY <2>1, <1>1, <1>5
  <2>2. CASE k > i
    <3>1. k - 1 \in DOMAIN g /\ old(k - 1) = k
      BY <2>2, <1>1, <1>5
    <3>2. QED
      BY <3>1
  <2>3. QED
    BY <2>1, <2>2, <1>1
<1>8. \A k, m \in DOMAIN g : k < m => old(k) < old(m)
  BY <1>1, <1>5
<1> HIDE DEF g, old
<1>9. Table(g)
  <2>1. \A k \in DOMAIN g : End(g[k]) <= RegionPages
    BY <1>6 DEF Table
  <2>2. Sorted(g)
    BY <1>6, <1>8 DEF Table, Sorted
  <2>3. QED
    BY <1>5, <2>1, <2>2 DEF Table
<1>10. \A k \in DOMAIN f : k # i => PagesOf(f[k]) \cap PagesOf(f[i]) = {}
  <2> TAKE k \in DOMAIN f
  <2> HAVE k # i
  <2>1. f[k] \in Extent /\ f[i] \in Extent
    BY <1>1, ElementOfSeq
  <2>2. End(f[k]) < f[i].start \/ End(f[i]) < f[k].start
    BY <1>1 DEF Table, Sorted
  <2>3. QED
    BY <2>1, <2>2, ExtentType DEF PagesOf
<1>11. \A p : p \in Cover(g) <=> p \in Cover(f) /\ p \notin PagesOf(f[i])
  BY <1>6, <1>7, <1>10, CoverPoint
<1>12. QED
  BY <1>5, <1>9, <1>11 DEF g

\* An entry may be replaced by any extent that keeps its distance.
LEMMA ReplaceTable ==
    ASSUME NEW f, Table(f), NEW i \in DOMAIN f, NEW e \in Extent,
           End(e) <= RegionPages,
           \A k \in DOMAIN f : k < i => End(f[k]) < e.start,
           \A k \in DOMAIN f : k > i => End(e) < f[k].start
    PROVE  /\ Table([f EXCEPT ![i] = e])
           /\ Len([f EXCEPT ![i] = e]) = Len(f)
           /\ Cover([f EXCEPT ![i] = e]) = (Cover(f) \ PagesOf(f[i])) \cup PagesOf(e)
<1> DEFINE g == [f EXCEPT ![i] = e]
<1>1. f \in Seq(Extent) /\ Len(f) \in Nat /\ DOMAIN f = 1..Len(f)
  BY LenProperties DEF Table
<1>2. g \in Seq(Extent) /\ Len(g) = Len(f)
      /\ \A k \in 1..Len(f) : g[k] = IF k = i THEN e ELSE f[k]
  BY <1>1, ExceptSeq
<1>3. DOMAIN g = DOMAIN f
  OBVIOUS
<1> HIDE DEF g
<1>4. \A k \in DOMAIN f : g[k] = IF k = i THEN e ELSE f[k]
  BY <1>1, <1>2
<1>5. Table(g)
  <2>1. \A k \in DOMAIN g : End(g[k]) <= RegionPages
    BY <1>3, <1>4 DEF Table
  <2>2. ASSUME NEW k \in DOMAIN g, NEW m \in DOMAIN g, k < m
        PROVE  End(g[k]) < g[m].start
    <3>1. CASE k = i
      BY <1>1, <1>3, <1>4, <2>2, <3>1
    <3>2. CASE m = i
      BY <1>1, <1>3, <1>4, <2>2, <3>2
    <3>3. CASE k # i /\ m # i
      BY <1>3, <1>4, <2>2, <3>3 DEF Table, Sorted
    <3>4. QED
      BY <3>1, <3>2, <3>3
  <2>3. QED
    BY <1>2, <2>1, <2>2 DEF Table, Sorted
<1>6. \A k \in DOMAIN f : k # i => PagesOf(f[k]) \cap PagesOf(f[i]) = {}
  <2> TAKE k \in DOMAIN f
  <2> HAVE k # i
  <2>1. f[k] \in Extent /\ f[i] \in Extent
    BY <1>1, ElementOfSeq
  <2>2. End(f[k]) < f[i].start \/ End(f[i]) < f[k].start
    BY <1>1 DEF Table, Sorted
  <2>3. QED
    BY <2>1, <2>2, ExtentType DEF PagesOf
<1>7. \A p : p \in Cover(g) <=> (p \in Cover(f) /\ p \notin PagesOf(f[i])) \/ p \in PagesOf(e)
  BY <1>3, <1>4, <1>6, CoverPoint
<1>8. QED
  BY <1>2, <1>5, <1>7 DEF g

\* An extent may be inserted where it fits.
LEMMA InsertTable ==
    ASSUME NEW f, Table(f), NEW i \in 1..(Len(f) + 1), NEW e, Between(f, i, e)
    PROVE  /\ Table(InsertExtent(f, i, e))
           /\ Len(InsertExtent(f, i, e)) = Len(f) + 1
           /\ Cover(InsertExtent(f, i, e)) = Cover(f) \cup PagesOf(e)
<1> DEFINE g == InsertExtent(f, i, e)
           old(k) == IF k < i THEN k ELSE k - 1
<1>1. f \in Seq(Extent) /\ Len(f) \in Nat /\ DOMAIN f = 1..Len(f) /\ Len(f) + 1 \in Nat
  BY LenProperties DEF Table
<1>2. \A k \in 1..(Len(f) + 1) : k # i => old(k) \in DOMAIN f /\ f[old(k)] \in Extent
  BY <1>1, ElementOfSeq
<1>3. g = [k \in 1..(Len(f) + 1) |-> IF k = i THEN e ELSE f[old(k)]]
  BY <1>1 DEF InsertExtent
<1>4. g \in [1..(Len(f) + 1) -> Extent]
  BY <1>2, <1>3 DEF Between
<1>5. g \in Seq(Extent) /\ Len(g) = Len(f) + 1 /\ DOMAIN g = 1..(Len(f) + 1)
  BY <1>1, <1>4, FunctionIsSeq
<1>6. /\ i \in DOMAIN g /\ g[i] = e
      /\ \A k \in DOMAIN g : k # i => g[k] = f[old(k)] /\ old(k) \in DOMAIN f
  BY <1>1, <1>2, <1>3, <1>5
<1>7. \A k \in DOMAIN f : \E m \in DOMAIN g : m # i /\ old(m) = k
  <2> TAKE k \in DOMAIN f
  <2>1. CASE k < i
    BY <2>1, <1>1, <1>5
  <2>2. CASE k >= i
    <3>1. k + 1 \in DOMAIN g /\ old(k + 1) = k /\ k + 1 # i
      BY <2>2, <1>1, <1>5
    <3>2. QED
      BY <3>1
  <2>3. QED
    BY <2>1, <2>2, <1>1
<1>8. \A k, m \in DOMAIN g : k < m /\ k # i /\ m # i => old(k) < old(m)
  BY <1>1, <1>5
<1>9. \A k \in DOMAIN g : /\ k < i => old(k) < i
                          /\ k > i => old(k) >= i
  BY <1>1, <1>5
<1> HIDE DEF g, old
<1>10. Table(g)
  <2>1. \A k \in DOMAIN g : End(g[k]) <= RegionPages
    BY <1>6 DEF Table, Between
  <2>2. ASSUME NEW k \in DOMAIN g, NEW m \in DOMAIN g, k < m
        PROVE  End(g[k]) < g[m].start
    <3>1. CASE k = i
      <4>1. m # i /\ m > i
        BY <1>1, <1>5, <2>2, <3>1
      <4>2. QED
        BY <1>6, <1>9, <3>1, <4>1 DEF Between
    <3>2. CASE m = i
      <4>1. k # i /\ k < i
        BY <1>1, <1>5, <2>2, <3>2
      <4>2. QED
        BY <1>6, <1>9, <3>2, <4>1 DEF Between
    <3>3. CASE k # i /\ m # i
      BY <1>6, <1>8, <2>2, <3>3 DEF Table, Sorted
    <3>4. QED
      BY <3>1, <3>2, <3>3
  <2>3. QED
    BY <1>5, <2>1, <2>2 DEF Table, Sorted
<1>11. \A p : p \in Cover(g) <=> p \in Cover(f) \/ p \in PagesOf(e)
  BY <1>6, <1>7, CoverPoint
<1>12. QED
  BY <1>5, <1>10, <1>11 DEF g

-----------------------------------------------------------------------------
(***************************************************************************)
(* What the two calls do to the table.                                     *)
(***************************************************************************)

LEMMA FreeIsCover == FreePages = Cover(free_extents)
BY DEF FreePages, Cover, Index

LEMMA AlignUpAbove ==
    ASSUME NEW value \in Nat, NEW alignment \in Nat \ {0}
    PROVE  AlignUp(value, alignment) - value \in Nat
BY DEF AlignUp

\* The pages of an entry are one field of its record.
LEMMA WithPages ==
    ASSUME NEW e \in Extent, NEW pages
    PROVE  [e EXCEPT !.pages = pages] = [start |-> e.start, pages |-> pages]
BY DEF Extent

\* Cutting pages out of an extent takes exactly those pages away.
LEMMA CarveTable ==
    ASSUME Table(free_extents), NEW i \in Index, NEW prefix \in Nat, NEW pages \in Nat \ {0},
           prefix + pages <= free_extents[i].pages,
           Carve(i, prefix, pages)
    PROVE  LET taken == [start |-> free_extents[i].start + prefix, pages |-> pages] IN
           /\ taken \in Extent
           /\ PagesOf(taken) \subseteq PagesOf(free_extents[i])
           /\ Table(free_extents')
           /\ Cover(free_extents') = Cover(free_extents) \ PagesOf(taken)
           /\ \/ Len(free_extents') <= Len(free_extents)
              \/ /\ Len(free_extents') = Len(free_extents) + 1
                 /\ prefix # 0 /\ prefix + pages # free_extents[i].pages
<1> DEFINE f == free_extents
           e == f[i]
           taken == [start |-> e.start + prefix, pages |-> pages]
           suffix == e.pages - prefix - pages
           before == [start |-> e.start, pages |-> prefix]
           after == [start |-> e.start + prefix + pages, pages |-> suffix]
<1>1. /\ f \in Seq(Extent) /\ Len(f) \in Nat /\ DOMAIN f = 1..Len(f)
      /\ i \in DOMAIN f /\ i \in 1..Len(f) /\ e \in Extent
  BY LenProperties, ElementOfSeq DEF Table, Index
<1>2. /\ e.start \in Nat /\ e.pages \in Nat \ {0} /\ End(e) = e.start + e.pages
      /\ End(e) <= RegionPages
  BY <1>1, ExtentType DEF Table, End, Extent
<1>3. suffix \in Nat
  BY <1>2
<1>4. taken \in Extent
  BY <1>2, SizesAssumption DEF Extent, Page
<1>5. End(taken) = e.start + prefix + pages
  BY DEF End
<1>6. PagesOf(taken) \subseteq PagesOf(e)
  BY <1>2, <1>5 DEF PagesOf
<1>7. prefix # 0 => before \in Extent /\ End(before) = e.start + prefix
  BY <1>2, SizesAssumption DEF Extent, Page, End
<1>8. suffix # 0 => after \in Extent /\ End(after) = End(e)
  BY <1>2, <1>3, SizesAssumption DEF Extent, Page, End
<1>9. /\ \A k \in DOMAIN f : k < i => End(f[k]) < e.start
      /\ \A k \in DOMAIN f : k > i => End(e) < f[k].start
  BY <1>1 DEF Table, Sorted
<1>10. \A k \in DOMAIN f : f[k].start \in Nat /\ End(f[k]) \in Nat
  BY <1>1, ElementOfSeq, ExtentType
<1>11. PagesOf(e) \subseteq Cover(f)
  BY <1>1 DEF Cover
<1>12. \A k \in DOMAIN f : k # i => PagesOf(f[k]) \cap PagesOf(e) = {}
  <2> TAKE k \in DOMAIN f
  <2> HAVE k # i
  <2>1. End(f[k]) < e.start \/ End(e) < f[k].start
    BY <1>1, <1>9
  <2>2. QED
    BY <1>2, <1>10, <2>1 DEF PagesOf
<1>13. CASE prefix = 0 /\ suffix = 0
  <2>1. free_extents' = RemoveExtent(f, i)
    BY <1>3, <1>13 DEF Carve
  <2>2. taken.start = e.start /\ End(taken) = End(e)
    BY <1>2, <1>5, <1>13
  <2>3. PagesOf(taken) = PagesOf(e)
    BY <2>2 DEF PagesOf
  <2>4. QED
    BY <1>1, <1>4, <1>6, <2>1, <2>3, RemoveTable
<1>14. CASE prefix = 0 /\ suffix # 0
  <2>1. free_extents' = [f EXCEPT ![i] = after]
    BY <1>3, <1>14 DEF Carve
  <2>2. e.start <= after.start /\ End(after) <= RegionPages
    BY <1>2, <1>8, <1>14
  <2>3. \A k \in DOMAIN f : k < i => End(f[k]) < after.start
    BY <1>2, <1>9, <1>10, <2>2
  <2>4. \A k \in DOMAIN f : k > i => End(after) < f[k].start
    BY <1>8, <1>9, <1>14
  <2>5. /\ Table(free_extents') /\ Len(free_extents') = Len(f)
        /\ Cover(free_extents') = (Cover(f) \ PagesOf(e)) \cup PagesOf(after)
    <3>1. Table(f) /\ i \in DOMAIN f /\ after \in Extent /\ End(after) <= RegionPages
      BY <1>1, <1>8, <1>14, <2>2
    <3> HIDE DEF after
    <3>2. /\ Table([f EXCEPT ![i] = after])
          /\ Len([f EXCEPT ![i] = after]) = Len(f)
          /\ Cover([f EXCEPT ![i] = after]) = (Cover(f) \ PagesOf(e)) \cup PagesOf(after)
      BY <2>3, <2>4, <3>1, ReplaceTable
    <3>3. QED
      BY <2>1, <3>2
  <2>6. /\ PagesOf(after) = PagesOf(e) \ PagesOf(taken)
    BY <1>2, <1>5, <1>8, <1>14 DEF PagesOf
  <2>7. Cover(free_extents') = Cover(f) \ PagesOf(taken)
    BY <1>6, <1>11, <2>5, <2>6
  <2>8. QED
    BY <1>1, <1>4, <1>6, <2>5, <2>7
<1>15. CASE prefix # 0 /\ suffix = 0
  <2>1. free_extents' = [f EXCEPT ![i] = before]
    <3>1. free_extents' = [f EXCEPT ![i].pages = prefix]
      BY <1>3, <1>15 DEF Carve
    <3>2. [e EXCEPT !.pages = prefix] = before
      BY <1>1, WithPages
    <3>3. QED
      BY <3>1, <3>2
  <2>2. End(before) <= End(e) /\ before.start = e.start /\ End(before) <= RegionPages
    <3>1. prefix <= e.pages
      BY <1>2
    <3>2. before.start = e.start
      OBVIOUS
    <3>3. End(before) = e.start + prefix
      BY <1>7, <1>15
    <3>4. QED
      BY <1>2, <3>1, <3>2, <3>3, SizesAssumption
  <2>3. \A k \in DOMAIN f : k > i => End(before) < f[k].start
    BY <1>2, <1>7, <1>9, <1>10, <1>15, <2>2
  <2>4. \A k \in DOMAIN f : k < i => End(f[k]) < before.start
    BY <1>9, <2>2
  <2>5. /\ Table(free_extents') /\ Len(free_extents') = Len(f)
        /\ Cover(free_extents') = (Cover(f) \ PagesOf(e)) \cup PagesOf(before)
    BY <1>1, <1>7, <1>15, <2>1, <2>2, <2>3, <2>4, ReplaceTable
  <2>6. PagesOf(before) = PagesOf(e) \ PagesOf(taken)
    BY <1>2, <1>5, <1>7, <1>15 DEF PagesOf
  <2>7. Cover(free_extents') = Cover(f) \ PagesOf(taken)
    BY <1>6, <1>11, <2>5, <2>6
  <2>8. QED
    BY <1>1, <1>4, <1>6, <2>5, <2>7
<1>16. CASE prefix # 0 /\ suffix # 0
  <2> DEFINE h == [f EXCEPT ![i] = before]
  <2>1. free_extents' = InsertExtent(h, i + 1, after)
    <3>1. free_extents' = InsertExtent([f EXCEPT ![i].pages = prefix], i + 1, after)
      BY <1>3, <1>16 DEF Carve
    <3>2. [e EXCEPT !.pages = prefix] = before
      BY <1>1, WithPages
    <3>3. QED
      BY <3>1, <3>2
  <2>2. End(before) <= End(e) /\ before.start = e.start /\ End(before) <= RegionPages
    <3>1. prefix <= e.pages
      BY <1>2
    <3>2. before.start = e.start
      OBVIOUS
    <3>3. End(before) = e.start + prefix
      BY <1>7, <1>16
    <3>4. QED
      BY <1>2, <3>1, <3>2, <3>3, SizesAssumption
  <2>3. \A k \in DOMAIN f : k > i => End(before) < f[k].start
    BY <1>2, <1>7, <1>9, <1>10, <1>16, <2>2
  <2>4. \A k \in DOMAIN f : k < i => End(f[k]) < before.start
    BY <1>9, <2>2
  <2>5. /\ Table(h) /\ Len(h) = Len(f)
        /\ Cover(h) = (Cover(f) \ PagesOf(e)) \cup PagesOf(before)
    BY <1>1, <1>7, <1>16, <2>2, <2>3, <2>4, ReplaceTable
  <2>6. DOMAIN h = DOMAIN f /\ \A k \in DOMAIN f : h[k] = IF k = i THEN before ELSE f[k]
    BY <1>1
  <2> HIDE DEF h
  <2>7. Between(h, i + 1, after)
    <3>1. ASSUME NEW k \in DOMAIN h, k < i + 1 PROVE End(h[k]) < after.start
      <4>1. CASE k = i
        BY <1>2, <1>7, <1>8, <1>16, <2>6, <4>1
      <4>2. CASE k # i
        <5>1. h[k] = f[k] /\ k < i /\ k \in DOMAIN f
          BY <1>1, <2>6, <3>1, <4>2
        <5>2. End(f[k]) < e.start /\ End(f[k]) \in Nat
          BY <1>9, <1>10, <5>1
        <5>3. e.start < after.start
          BY <1>2, <1>16
        <5>4. QED
          BY <1>2, <5>1, <5>2, <5>3
      <4>3. QED
        BY <4>1, <4>2
    <3>2. ASSUME NEW k \in DOMAIN h, k >= i + 1 PROVE End(after) < h[k].start
      BY <1>1, <1>8, <1>9, <1>16, <2>6, <3>2
    <3>3. End(after) <= RegionPages /\ after \in Extent
      BY <1>2, <1>8, <1>16
    <3>4. QED
      BY <3>1, <3>2, <3>3 DEF Between
  <2>8. i + 1 \in 1..(Len(h) + 1)
    BY <1>1, <2>5
  <2>9. /\ Table(free_extents') /\ Len(free_extents') = Len(f) + 1
        /\ Cover(free_extents') = Cover(h) \cup PagesOf(after)
    BY <2>1, <2>5, <2>7, <2>8, InsertTable
  <2>10. PagesOf(before) \cup PagesOf(after) = PagesOf(e) \ PagesOf(taken)
    BY <1>2, <1>5, <1>7, <1>8, <1>16 DEF PagesOf
  <2>11. Cover(free_extents') = Cover(f) \ PagesOf(taken)
    BY <1>6, <1>11, <2>5, <2>9, <2>10
  <2>12. prefix + pages # e.pages
    BY <1>2, <1>16
  <2>13. QED
    BY <1>4, <1>6, <1>16, <2>9, <2>11, <2>12
<1>17. QED
  BY <1>13, <1>14, <1>15, <1>16

\* The scan of kernel_vregion_release stops somewhere.
LEMMA PositionFound ==
    ASSUME Table(free_extents), NEW range \in Extent
    PROVE  /\ Position(range) \in 1..(Len(free_extents) + 1)
           /\ \A k \in Index : k < Position(range) => free_extents[k].start < range.start
           /\ Position(range) <= Len(free_extents) => range.start <= free_extents[Position(range)].start
<1> DEFINE f == free_extents
           Stop(p) == /\ \A k \in 1..(p - 1) : f[k].start < range.start
                      /\ p <= Len(f) => range.start <= f[p].start
           stops == {p \in 1..(Len(f) + 1) : p <= Len(f) => range.start <= f[p].start}
<1>1. Len(f) \in Nat /\ Index = 1..Len(f)
  BY LenProperties DEF Table, Index
<1>2. \A k \in Index : f[k].start \in Nat
  BY ElementOfSeq, ExtentType, <1>1 DEF Table
<1>3. range.start \in Nat
  BY ExtentType
<1>4. stops # {} /\ stops \in SUBSET Nat
  <2>1. Len(f) + 1 \in stops
    BY <1>1
  <2>2. QED
    BY <1>1, <2>1
<1>5. PICK p \in stops : \A q \in stops : p <= q
  BY <1>4, LeastExists
<1>6. p \in 1..(Len(f) + 1) /\ Stop(p)
  <2>1. ASSUME NEW k \in 1..(p - 1) PROVE f[k].start < range.start
    <3>1. k \in 1..Len(f) /\ k < p /\ k \in 1..(Len(f) + 1)
      BY <1>1, <1>5, <2>1
    <3>2. k \notin stops
      BY <1>5, <3>1, <1>4
    <3>3. ~ (range.start <= f[k].start)
      BY <3>1, <3>2
    <3>4. QED
      BY <1>1, <1>2, <1>3, <3>1, <3>3
  <2>2. QED
    BY <1>5, <2>1
<1>7. Position(range) = CHOOSE q \in 1..(Len(f) + 1) : Stop(q)
  BY DEF Position
<1> HIDE DEF Stop
<1>8. Position(range) \in 1..(Len(f) + 1) /\ Stop(Position(range))
  BY <1>6, <1>7
<1>9. QED
  BY <1>1, <1>8 DEF Stop

\* An accepted range that touches neither neighbour fits between them.
LEMMA AcceptedBetween ==
    ASSUME Table(free_extents), NEW range \in Extent, Acceptable(range),
           ~ TouchesPrevious(range), ~ TouchesNext(range)
    PROVE  Between(free_extents, Position(range), range)
<1> DEFINE f == free_extents
           p == Position(range)
<1>1. f \in Seq(Extent) /\ Len(f) \in Nat /\ DOMAIN f = 1..Len(f) /\ Index = DOMAIN f
  BY LenProperties DEF Table, Index
<1>2. \A k \in DOMAIN f : f[k].start \in Nat /\ End(f[k]) \in Nat /\ f[k].start < End(f[k])
  BY <1>1, ElementOfSeq, ExtentType
<1>3. range.start \in Nat /\ End(range) \in Nat
  BY ExtentType
<1>4. p \in 1..(Len(f) + 1)
  BY <1>1, PositionFound
<1>5. /\ End(range) <= RegionPages
      /\ p > 1 => End(f[p - 1]) <= range.start /\ End(f[p - 1]) # range.start
      /\ p <= Len(f) => End(range) <= f[p].start /\ End(range) # f[p].start
  BY DEF Acceptable, TouchesPrevious, TouchesNext
<1>6. ASSUME NEW k \in DOMAIN f, k < p PROVE End(f[k]) < range.start
  <2>1. p - 1 \in DOMAIN f /\ p > 1 /\ k <= p - 1
    BY <1>1, <1>4, <1>6
  <2>2. End(f[p - 1]) < range.start
    BY <1>2, <1>3, <1>5, <2>1
  <2>3. CASE k = p - 1
    BY <2>2, <2>3
  <2>4. CASE k < p - 1
    <3>1. End(f[k]) < f[p - 1].start
      BY <2>1, <2>4 DEF Table, Sorted
    <3>2. QED
      BY <1>2, <1>3, <2>1, <2>2, <3>1
  <2>5. QED
    BY <1>1, <1>4, <2>1, <2>3, <2>4
<1>7. ASSUME NEW k \in DOMAIN f, k >= p PROVE End(range) < f[k].start
  <2>1. p \in DOMAIN f /\ p <= Len(f)
    BY <1>1, <1>4, <1>7
  <2>2. End(range) < f[p].start
    BY <1>2, <1>3, <1>5, <2>1
  <2>3. CASE k = p
    BY <2>2, <2>3
  <2>4. CASE k > p
    <3>1. End(f[p]) < f[k].start
      BY <2>1, <2>4 DEF Table, Sorted
    <3>2. QED
      BY <1>2, <1>3, <2>1, <2>2, <3>1
  <2>5. QED
    BY <1>1, <1>4, <1>7, <2>3, <2>4
<1>8. QED
  BY <1>5, <1>6, <1>7 DEF Between

\* A range that is accepted is none of it free, and joining adds exactly it.
LEMMA JoinTable ==
    ASSUME Table(free_extents), NEW range \in Extent, Acceptable(range), Join(range)
    PROVE  /\ PagesOf(range) \cap Cover(free_extents) = {}
           /\ Table(free_extents')
           /\ Cover(free_extents') = Cover(free_extents) \cup PagesOf(range)
           /\ \/ Len(free_extents') <= Len(free_extents)
              \/ /\ Len(free_extents') = Len(free_extents) + 1
                 /\ ~ TouchesPrevious(range) /\ ~ TouchesNext(range)
<1> DEFINE f == free_extents
           p == Position(range)
<1>1. f \in Seq(Extent) /\ Len(f) \in Nat /\ DOMAIN f = 1..Len(f) /\ Index = DOMAIN f
  BY LenProperties DEF Table, Index
<1>2. \A k \in DOMAIN f : /\ f[k] \in Extent
                           /\ f[k].start \in Nat /\ f[k].pages \in Nat \ {0}
                           /\ End(f[k]) \in Nat /\ f[k].start < End(f[k])
                           /\ End(f[k]) = f[k].start + f[k].pages
  BY <1>1, ElementOfSeq, ExtentType DEF End
<1>3. /\ range.start \in Nat /\ range.pages \in Nat \ {0} /\ End(range) \in Nat
      /\ range.start < End(range) /\ End(range) = range.start + range.pages
  BY ExtentType DEF End
<1>4. /\ p \in 1..(Len(f) + 1)
      /\ \A k \in DOMAIN f : k < p => f[k].start < range.start
      /\ p <= Len(f) => range.start <= f[p].start
  BY <1>1, PositionFound
<1>5. /\ End(range) <= RegionPages
      /\ p > 1 => End(f[p - 1]) <= range.start
      /\ p <= Len(f) => End(range) <= f[p].start
  BY DEF Acceptable
<1> HIDE DEF p
<1>6. \A i, j \in DOMAIN f : i < j => End(f[i]) < f[j].start
  BY DEF Table, Sorted
<1>7. p > 1 => p - 1 \in DOMAIN f
  BY <1>1, <1>4
<1>8. p <= Len(f) => p \in DOMAIN f
  BY <1>1, <1>4
<1>9. ASSUME NEW k \in DOMAIN f, k < p - 1 PROVE End(f[k]) < f[p - 1].start /\ End(f[k]) < range.start
  <2>1. p - 1 \in DOMAIN f /\ p - 1 < p
    BY <1>1, <1>4, <1>9
  <2>2. End(f[k]) < f[p - 1].start /\ f[p - 1].start < range.start
    BY <1>4, <1>6, <1>9, <2>1
  <2>3. QED
    BY <1>2, <1>3, <2>1, <2>2
<1>10. ASSUME NEW k \in DOMAIN f, k > p PROVE End(f[p]) < f[k].start /\ End(range) < f[k].start
  <2>1. p \in DOMAIN f /\ p <= Len(f)
    BY <1>1, <1>4, <1>10
  <2>2. End(f[p]) < f[k].start /\ End(range) <= f[p].start
    BY <1>5, <1>6, <1>10, <2>1
  <2>3. QED
    BY <1>2, <1>3, <2>1, <2>2
<1>11. \A k \in DOMAIN f : \/ k < p /\ End(f[k]) <= range.start
                           \/ k >= p /\ End(range) <= f[k].start
  <2> TAKE k \in DOMAIN f
  <2>1. CASE k < p - 1
    <3>1. End(f[k]) < range.start
      BY <1>9, <2>1
    <3>2. k < p
      BY <1>1, <1>4, <2>1
    <3>3. QED
      BY <1>1, <1>2, <1>3, <1>4, <3>1, <3>2
  <2>2. CASE k = p - 1
    <3>1. k < p /\ p > 1
      BY <1>1, <1>4, <2>2
    <3>2. End(f[p - 1]) <= range.start
      BY <1>5, <3>1
    <3>3. QED
      BY <1>1, <1>4, <2>2, <3>1, <3>2
  <2>3. CASE k = p
    BY <1>1, <1>4, <1>5, <2>3
  <2>4. CASE k > p
    BY <1>1, <1>2, <1>3, <1>4, <1>10, <2>4
  <2>5. QED
    BY <1>1, <1>4, <2>1, <2>2, <2>3, <2>4
<1>12. PagesOf(range) \cap Cover(f) = {}
  <2>1. \A k \in DOMAIN f : PagesOf(range) \cap PagesOf(f[k]) = {}
    BY <1>2, <1>3, <1>11 DEF PagesOf
  <2>2. QED
    BY <2>1 DEF Cover
<1>13. /\ TouchesPrevious(range) <=> p > 1 /\ End(f[p - 1]) = range.start
       /\ TouchesNext(range) <=> p <= Len(f) /\ End(range) = f[p].start
  BY DEF TouchesPrevious, TouchesNext, p
<1>14. CASE TouchesPrevious(range) /\ TouchesNext(range)
  <2> DEFINE g == RemoveExtent(f, p)
             e == [start |-> f[p - 1].start, pages |-> f[p - 1].pages + range.pages + f[p].pages]
  <2>1. p - 1 \in DOMAIN f /\ p \in DOMAIN f /\ End(f[p - 1]) = range.start /\ End(range) = f[p].start
    BY <1>7, <1>8, <1>13, <1>14
  <2>2. /\ Table(g) /\ Len(g) = Len(f) - 1
        /\ Cover(g) = Cover(f) \ PagesOf(f[p])
    BY <2>1, RemoveTable
  <2>3. /\ DOMAIN g = 1..(Len(f) - 1)
        /\ \A k \in DOMAIN g : g[k] = IF k < p THEN f[k] ELSE f[k + 1]
    BY DEF RemoveExtent
  <2>4. p - 1 \in DOMAIN g /\ g[p - 1] = f[p - 1]
    BY <1>1, <1>4, <2>1, <2>3
  <2>5. free_extents' = [g EXCEPT ![p - 1] = e]
    <3>1. free_extents' = [g EXCEPT ![p - 1].pages = g[p - 1].pages + range.pages + f[p].pages]
      BY <1>14 DEF Join, p
    <3>2. [f[p - 1] EXCEPT !.pages = f[p - 1].pages + range.pages + f[p].pages] = e
      BY <1>2, <2>1, WithPages
    <3>3. QED
      BY <2>4, <3>1, <3>2
  <2>6. End(e) = End(f[p]) /\ e.start = f[p - 1].start
    BY <1>2, <1>3, <2>1 DEF End
  <2>7. End(f[p]) <= RegionPages
    BY <2>1 DEF Table
  <2>8. e \in Extent
    <3>1. f[p - 1].start \in Page /\ e.pages \in Nat \ {0}
      BY <1>2, <1>3, <2>1 DEF Extent
    <3>2. e.start + e.pages <= RegionPages
      BY <2>6, <2>7 DEF End
    <3>3. e.pages \in 1..RegionPages
      BY <1>2, <2>1, <2>6, <3>1, <3>2, SizesAssumption
    <3>4. QED
      BY <3>1, <3>3 DEF Extent
  <2>9. PagesOf(e) = PagesOf(f[p - 1]) \cup PagesOf(range) \cup PagesOf(f[p])
    BY <1>2, <1>3, <2>1, <2>6 DEF PagesOf
  <2> HIDE DEF g, e
  <2>10. \A k \in DOMAIN g : k < p - 1 => End(g[k]) < e.start
    BY <1>1, <1>9, <2>1, <2>3, <2>6
  <2>11. \A k \in DOMAIN g : k > p - 1 => End(e) < g[k].start
    BY <1>1, <1>4, <1>10, <2>1, <2>3, <2>6
  <2>12. /\ Table(free_extents') /\ Len(free_extents') = Len(f) - 1
         /\ Cover(free_extents') = (Cover(g) \ PagesOf(f[p - 1])) \cup PagesOf(e)
    <3>1. End(e) <= RegionPages
      BY <2>6, <2>7
    <3>2. /\ Table([g EXCEPT ![p - 1] = e])
          /\ Len([g EXCEPT ![p - 1] = e]) = Len(g)
          /\ Cover([g EXCEPT ![p - 1] = e]) = (Cover(g) \ PagesOf(g[p - 1])) \cup PagesOf(e)
      <4>1. Table(g) /\ p - 1 \in DOMAIN g
        BY <2>2, <2>4
      <4>2. QED
        BY <2>8, <2>10, <2>11, <3>1, <4>1, ReplaceTable
    <3>3. QED
      BY <2>2, <2>4, <2>5, <3>2
  <2>13. PagesOf(f[p]) \subseteq Cover(f) /\ PagesOf(f[p - 1]) \subseteq Cover(f)
    BY <2>1 DEF Cover
  <2>14. Cover(free_extents') = Cover(f) \cup PagesOf(range)
    BY <2>2, <2>9, <2>12, <2>13
  <2>15. Len(free_extents') <= Len(f)
    BY <1>1, <2>12
  <2>16. QED
    BY <1>12, <2>12, <2>14, <2>15
<1>15. CASE TouchesPrevious(range) /\ ~ TouchesNext(range)
  <2> DEFINE e == [start |-> f[p - 1].start, pages |-> f[p - 1].pages + range.pages]
  <2>1. p - 1 \in DOMAIN f /\ End(f[p - 1]) = range.start
    BY <1>7, <1>13, <1>15
  <2>2. free_extents' = [f EXCEPT ![p - 1] = e]
    <3>1. free_extents' = [f EXCEPT ![p - 1].pages = f[p - 1].pages + range.pages]
      BY <1>15 DEF Join, p
    <3>2. [f[p - 1] EXCEPT !.pages = f[p - 1].pages + range.pages] = e
      BY <1>2, <2>1, WithPages
    <3>3. QED
      BY <3>1, <3>2
  <2>3. End(e) = End(range) /\ e.start = f[p - 1].start
    BY <1>2, <1>3, <2>1 DEF End
  <2>4. e \in Extent
    <3>1. f[p - 1].start \in Page /\ e.pages \in Nat \ {0}
      BY <1>2, <1>3, <2>1 DEF Extent
    <3>2. e.start + e.pages <= RegionPages
      BY <1>5, <2>3 DEF End
    <3>3. e.pages \in 1..RegionPages
      BY <1>2, <2>1, <2>3, <3>1, <3>2, SizesAssumption
    <3>4. QED
      BY <3>1, <3>3 DEF Extent
  <2>5. PagesOf(e) = PagesOf(f[p - 1]) \cup PagesOf(range)
    BY <1>2, <1>3, <2>1, <2>3 DEF PagesOf
  <2> HIDE DEF e
  <2>6. \A k \in DOMAIN f : k < p - 1 => End(f[k]) < e.start
    BY <1>9, <2>3
  <2>7. ASSUME NEW k \in DOMAIN f, k > p - 1 PROVE End(e) < f[k].start
    <3>1. CASE k = p
      BY <1>2, <1>3, <1>5, <1>8, <1>13, <1>15, <2>3, <1>1, <3>1
    <3>2. CASE k > p
      BY <1>10, <2>3, <3>2
    <3>3. QED
      BY <1>1, <1>4, <2>7, <3>1, <3>2
  <2>8. /\ Table(free_extents') /\ Len(free_extents') = Len(f)
        /\ Cover(free_extents') = (Cover(f) \ PagesOf(f[p - 1])) \cup PagesOf(e)
    BY <1>5, <2>1, <2>2, <2>3, <2>4, <2>6, <2>7, ReplaceTable
  <2>9. PagesOf(f[p - 1]) \subseteq Cover(f)
    BY <2>1 DEF Cover
  <2>10. Cover(free_extents') = Cover(f) \cup PagesOf(range)
    BY <2>5, <2>8, <2>9
  <2>11. QED
    BY <1>1, <1>12, <2>8, <2>10
<1>16. CASE ~ TouchesPrevious(range) /\ TouchesNext(range)
  <2> DEFINE e == [start |-> range.start, pages |-> f[p].pages + range.pages]
  <2>1. p \in DOMAIN f /\ End(range) = f[p].start
    BY <1>8, <1>13, <1>16
  <2>2. free_extents' = [f EXCEPT ![p] = e]
    <3>1. free_extents' = [f EXCEPT ![p] = [start |-> range.start, pages |-> f[p].pages + range.pages]]
      BY <1>16 DEF Join, p
    <3>2. QED
      BY <3>1
  <2>3. End(e) = End(f[p]) /\ e.start = range.start
    BY <1>2, <1>3, <2>1 DEF End
  <2>4. End(f[p]) <= RegionPages
    BY <2>1 DEF Table
  <2>5. e \in Extent
    <3>1. range.start \in Page /\ e.pages \in Nat \ {0}
      BY <1>2, <1>3, <2>1 DEF Extent
    <3>2. e.start + e.pages <= RegionPages
      BY <2>3, <2>4 DEF End
    <3>3. e.pages \in 1..RegionPages
      BY <1>3, <2>1, <2>3, <3>1, <3>2, SizesAssumption
    <3>4. QED
      BY <3>1, <3>3 DEF Extent
  <2>6. PagesOf(e) = PagesOf(f[p]) \cup PagesOf(range)
    BY <1>2, <1>3, <2>1, <2>3 DEF PagesOf
  <2> HIDE DEF e
  <2>7. \A k \in DOMAIN f : k > p => End(e) < f[k].start
    BY <1>10, <2>3
  <2>8. ASSUME NEW k \in DOMAIN f, k < p PROVE End(f[k]) < e.start
    <3>1. CASE k = p - 1
      <4>1. p > 1
        BY <1>1, <1>4, <3>1
      <4>2. End(f[k]) <= range.start /\ End(f[k]) # range.start
        BY <1>5, <1>13, <1>16, <3>1, <4>1
      <4>3. QED
        BY <1>2, <1>3, <2>3, <4>2
    <3>2. CASE k < p - 1
      BY <1>9, <2>3, <3>2
    <3>3. QED
      BY <1>1, <1>4, <2>8, <3>1, <3>2
  <2>9. /\ Table(free_extents') /\ Len(free_extents') = Len(f)
        /\ Cover(free_extents') = (Cover(f) \ PagesOf(f[p])) \cup PagesOf(e)
    BY <2>1, <2>2, <2>3, <2>4, <2>5, <2>7, <2>8, ReplaceTable
  <2>10. PagesOf(f[p]) \subseteq Cover(f)
    BY <2>1 DEF Cover
  <2>11. Cover(free_extents') = Cover(f) \cup PagesOf(range)
    BY <2>6, <2>9, <2>10
  <2>12. QED
    BY <1>1, <1>12, <2>9, <2>11
<1>17. CASE ~ TouchesPrevious(range) /\ ~ TouchesNext(range)
  <2>1. free_extents' = InsertExtent(f, p, range)
    BY <1>17 DEF Join, p
  <2>2. Between(f, p, range)
    BY <1>17, AcceptedBetween DEF p
  <2>3. /\ Table(free_extents') /\ Len(free_extents') = Len(f) + 1
        /\ Cover(free_extents') = Cover(f) \cup PagesOf(range)
    BY <1>4, <2>1, <2>2, InsertTable
  <2>4. QED
    BY <1>12, <1>17, <2>3
<1>18. QED
  BY <1>14, <1>15, <1>16, <1>17

-----------------------------------------------------------------------------
(***************************************************************************)
(* The inductive invariant.                                                *)
(***************************************************************************)

\* The table alone says nothing of the ranges callers hold; a release keeps it
\* apart only because no held range is free, and keeps the partition only
\* because no range is both held and lost.
IInv ==
    /\ Table(free_extents)
    /\ Len(free_extents) <= MaxExtents
    /\ held \subseteq Extent /\ lost \subseteq Extent /\ held \cap lost = {}
    /\ refused \in BOOLEAN
    /\ RegionPartitioned
    /\ AvailableExact

\* The pages of a range are as many as it says.
LEMMA RangeSize ==
    ASSUME NEW r \in Extent
    PROVE  /\ IsFiniteSet(PagesOf(r))
           /\ Cardinality(PagesOf(r)) = r.pages
           /\ r.start \in PagesOf(r)
           /\ r.pages \in Nat \ {0}
<1>1. r.start \in Nat /\ r.pages \in Nat \ {0} /\ End(r) = r.start + r.pages
  BY ExtentType DEF End
<1> DEFINE last == r.start + r.pages - 1
<1>2. PagesOf(r) = r.start..last
  BY <1>1 DEF PagesOf
<1>3. r.start \in Int /\ last \in Int /\ r.start <= last /\ last - r.start + 1 = r.pages
  BY <1>1
<1> HIDE DEF last
<1>4. IsFiniteSet(r.start..last) /\ Cardinality(r.start..last) = last - r.start + 1
  <2>1. ~ (r.start > last)
    BY <1>3
  <2>2. QED
    BY <1>3, <2>1, FS_Interval
<1>5. r.start \in r.start..last
  BY <1>3
<1>6. QED
  BY <1>1, <1>2, <1>3, <1>4, <1>5

LEMMA PageFinite == IsFiniteSet(Page) /\ Cardinality(Page) = RegionPages
<1>1. 0 \in Int /\ RegionPages - 1 \in Int /\ RegionPages \in Nat \ {0}
  BY SizesAssumption
<1>2. Cardinality(0..(RegionPages - 1)) = RegionPages
  BY <1>1, FS_Interval
<1>3. QED
  BY <1>1, <1>2, FS_Interval DEF Page

\* The free pages are pages of the region.
LEMMA CoverInRegion ==
    ASSUME Table(free_extents)
    PROVE  Cover(free_extents) \subseteq Page
<1>1. \A i \in DOMAIN free_extents : PagesOf(free_extents[i]) \subseteq Page
  <2> TAKE i \in DOMAIN free_extents
  <2>1. free_extents[i] \in Extent /\ End(free_extents[i]) <= RegionPages
    BY LenProperties, ElementOfSeq DEF Table
  <2>2. QED
    BY <2>1, ExtentType, SizesAssumption DEF PagesOf, Page
<1>2. QED
  BY <1>1 DEF Cover

LEMMA AvailableBounded ==
    ASSUME IInv
    PROVE  available_pages \in 0..RegionPages
<1>1. FreePages \in SUBSET Page
  BY FreeIsCover, CoverInRegion DEF IInv
<1>2. Cardinality(FreePages) \in Nat /\ Cardinality(FreePages) <= RegionPages
  BY <1>1, PageFinite, FS_Subset, FS_CardinalityType
<1>3. QED
  BY <1>2, SizesAssumption DEF IInv, AvailableExact

LEMMA InitInvariant == Init => IInv
<1> SUFFICES ASSUME Init PROVE IInv
  OBVIOUS
<1> DEFINE e == [start |-> 0, pages |-> RegionPages]
<1>1. free_extents = <<e>> /\ held = {} /\ lost = {} /\ refused = FALSE /\ available_pages = RegionPages
  BY DEF Init
<1>2. e \in Extent /\ End(e) = RegionPages /\ PagesOf(e) = Page
  BY SizesAssumption DEF Extent, Page, End, PagesOf
<1> HIDE DEF e
<1>3. free_extents \in Seq(Extent) /\ Len(free_extents) = 1 /\ DOMAIN free_extents = {1} /\ free_extents[1] = e
  BY <1>1, <1>2
<1>4. Table(free_extents)
  BY <1>2, <1>3, SizesAssumption DEF Table, Sorted
<1>5. FreePages = Page
  BY <1>2, <1>3 DEF FreePages, Index
<1>6. RegionPartitioned
  BY <1>1, <1>5 DEF RegionPartitioned, Reserved
<1>7. AvailableExact
  BY <1>1, <1>5, PageFinite DEF AvailableExact
<1>8. Len(free_extents) <= MaxExtents
  BY <1>3, SizesAssumption
<1>9. QED
  BY <1>1, <1>4, <1>6, <1>7, <1>8 DEF IInv

\* A call that changes nothing but the flag.
LEMMA IdleInvariant ==
    ASSUME IInv, refused' \in BOOLEAN, UNCHANGED <<free_extents, available_pages, held, lost>>
    PROVE  IInv'
BY DEF IInv, Table, Sorted, RegionPartitioned, Reserved, FreePages, Index, AvailableExact

\* A range taken from the free pages becomes a held one.
LEMMA GrantInvariant ==
    ASSUME IInv, NEW r \in Extent,
           PagesOf(r) \subseteq Cover(free_extents),
           Table(free_extents'), Len(free_extents') <= MaxExtents,
           Cover(free_extents') = Cover(free_extents) \ PagesOf(r),
           available_pages' = available_pages - r.pages,
           held' = held \cup {r}, lost' = lost, refused' = FALSE
    PROVE  IInv'
<1>1. /\ FreePages = Cover(free_extents) /\ FreePages' = Cover(free_extents')
      /\ FreePages \subseteq Page
  BY CoverInRegion DEF FreePages, Cover, Index, IInv
<1>2. Reserved' = Reserved \cup {r}
  BY DEF Reserved
<1>3. \A s \in Reserved : PagesOf(s) \cap PagesOf(r) = {}
  BY <1>1 DEF IInv, RegionPartitioned
<1>4. r \notin lost
  BY <1>3, RangeSize DEF Reserved
<1>5. RegionPartitioned'
  <2>1. ASSUME NEW a \in Reserved', NEW b \in Reserved', a # b PROVE PagesOf(a) \cap PagesOf(b) = {}
    BY <1>2, <1>3, <2>1 DEF IInv, RegionPartitioned
  <2>2. ASSUME NEW q
        PROVE  q \in UNION {PagesOf(s) : s \in Reserved'} <=> q \in Page \ FreePages'
    <3>1. (\E s \in Reserved' : q \in PagesOf(s)) <=> (\E s \in Reserved : q \in PagesOf(s)) \/ q \in PagesOf(r)
      BY <1>2
    <3>2. (\E s \in Reserved : q \in PagesOf(s)) <=> q \in Page \ FreePages
      <4>1. UNION {PagesOf(s) : s \in Reserved} = Page \ FreePages
        BY DEF IInv, RegionPartitioned
      <4>2. QED
        BY <4>1
    <3>3. q \in Page \ FreePages' <=> (q \in Page \ FreePages \/ q \in PagesOf(r))
      BY <1>1
    <3>4. QED
      BY <3>1, <3>2, <3>3
  <2>4. UNION {PagesOf(s) : s \in Reserved'} = Page \ FreePages'
    BY <2>2
  <2>5. QED
    BY <2>1, <2>4 DEF RegionPartitioned
<1>6. AvailableExact'
  <2>1. IsFiniteSet(FreePages)
    BY <1>1, PageFinite, FS_Subset
  <2>2. Cardinality(FreePages \ PagesOf(r)) = Cardinality(FreePages) - Cardinality(FreePages \cap PagesOf(r))
    BY <2>1, FS_Difference
  <2>3. FreePages \cap PagesOf(r) = PagesOf(r)
    BY <1>1
  <2>4. Cardinality(FreePages') = available_pages - r.pages
    BY <1>1, <2>2, <2>3, RangeSize DEF IInv, AvailableExact
  <2>5. QED
    BY <2>4 DEF AvailableExact
<1>7. held' \subseteq Extent /\ lost' \subseteq Extent /\ held' \cap lost' = {}
  BY <1>4 DEF IInv
<1>8. QED
  BY <1>5, <1>6, <1>7 DEF IInv

\* A held range becomes free.
LEMMA ReturnInvariant ==
    ASSUME IInv, NEW r \in held,
           Table(free_extents'), Len(free_extents') <= MaxExtents,
           Cover(free_extents') = Cover(free_extents) \cup PagesOf(r),
           available_pages' = available_pages + r.pages,
           held' = held \ {r}, lost' = lost, refused' = FALSE
    PROVE  IInv'
<1>1. /\ FreePages = Cover(free_extents) /\ FreePages' = Cover(free_extents')
      /\ FreePages \subseteq Page /\ r \in Extent
  BY CoverInRegion DEF FreePages, Cover, Index, IInv
<1>2. Reserved' = Reserved \ {r} /\ r \in Reserved
  BY DEF Reserved, IInv
<1>3. PagesOf(r) \subseteq Page \ FreePages
  BY <1>2 DEF IInv, RegionPartitioned
<1>4. RegionPartitioned'
  <2>1. \A a, b \in Reserved' : a # b => PagesOf(a) \cap PagesOf(b) = {}
    BY <1>2 DEF IInv, RegionPartitioned
  <2>2. ASSUME NEW q
        PROVE  q \in UNION {PagesOf(s) : s \in Reserved'} <=> q \in Page \ FreePages'
    <3>1. (\E s \in Reserved' : q \in PagesOf(s)) <=> (\E s \in Reserved : q \in PagesOf(s)) /\ q \notin PagesOf(r)
      BY <1>2 DEF IInv, RegionPartitioned
    <3>2. (\E s \in Reserved : q \in PagesOf(s)) <=> q \in Page \ FreePages
      <4>1. UNION {PagesOf(s) : s \in Reserved} = Page \ FreePages
        BY DEF IInv, RegionPartitioned
      <4>2. QED
        BY <4>1
    <3>3. q \in Page \ FreePages' <=> (q \in Page \ FreePages /\ q \notin PagesOf(r))
      BY <1>1
    <3>4. QED
      BY <3>1, <3>2, <3>3
  <2>4. UNION {PagesOf(s) : s \in Reserved'} = Page \ FreePages'
    BY <2>2
  <2>5. QED
    BY <2>1, <2>4 DEF RegionPartitioned
<1>5. AvailableExact'
  <2>1. IsFiniteSet(FreePages) /\ IsFiniteSet(PagesOf(r)) /\ Cardinality(PagesOf(r)) = r.pages
    BY <1>1, PageFinite, FS_Subset, RangeSize
  <2>2. Cardinality(FreePages \cup PagesOf(r))
          = Cardinality(FreePages) + Cardinality(PagesOf(r)) - Cardinality(FreePages \cap PagesOf(r))
    BY <2>1, FS_Union
  <2>3. FreePages \cap PagesOf(r) = {}
    BY <1>3
  <2>4. Cardinality(FreePages \cap PagesOf(r)) = 0
    BY <2>3, FS_EmptySet
  <2>5. Cardinality(FreePages) \in Nat /\ r.pages \in Nat
    BY <1>1, <2>1, FS_CardinalityType, RangeSize
  <2>6. Cardinality(FreePages') = available_pages + r.pages
    BY <1>1, <2>1, <2>2, <2>4, <2>5 DEF IInv, AvailableExact
  <2>7. QED
    BY <2>6 DEF AvailableExact
<1>6. held' \subseteq Extent /\ lost' \subseteq Extent /\ held' \cap lost' = {}
  BY DEF IInv
<1>7. QED
  BY <1>4, <1>5, <1>6 DEF IInv

\* A range whose release is refused changes hands and nothing else.
LEMMA LossInvariant ==
    ASSUME IInv, NEW r \in held, held' = held \ {r}, lost' = lost \cup {r}, refused' = TRUE,
           UNCHANGED <<free_extents, available_pages>>
    PROVE  IInv'
<1>1. Reserved' = Reserved
  BY DEF Reserved
<1>2. FreePages' = FreePages
  BY DEF FreePages, Index
<1>3. RegionPartitioned' /\ AvailableExact'
  BY <1>1, <1>2 DEF IInv, RegionPartitioned, AvailableExact
<1>4. Table(free_extents)' /\ Len(free_extents)' <= MaxExtents
  BY DEF IInv, Table, Sorted
<1>5. QED
  BY <1>3, <1>4 DEF IInv

LEMMA ReserveInvariant ==
    ASSUME IInv, NEW pages \in 1..MaxRequest, NEW alignment \in Alignments, Reserve(pages, alignment)
    PROVE  IInv'
<1>1. CASE Refuse
  BY <1>1, IdleInvariant DEF Refuse
<1>2. CASE ~ Refuse
  <2>1. PICK i \in Fits(pages, alignment) :
           /\ Carve(i, Prefix(i, alignment), pages)
           /\ ~ SplitsFullTable(i, Prefix(i, alignment), pages)
           /\ available_pages' = available_pages - pages
           /\ held' = held \cup {[start |-> free_extents[i].start + Prefix(i, alignment), pages |-> pages]}
           /\ refused' = FALSE
           /\ lost' = lost
    BY <1>2 DEF Reserve
  <2> DEFINE prefix == Prefix(i, alignment)
             r == [start |-> free_extents[i].start + prefix, pages |-> pages]
  <2>2. i \in Index /\ prefix + pages <= free_extents[i].pages
    BY DEF Fits
  <2>3. free_extents[i] \in Extent
    BY <2>2, LenProperties, ElementOfSeq DEF IInv, Table, Index
  <2>4. prefix \in Nat /\ pages \in Nat \ {0}
    BY <2>3, AlignUpAbove, ExtentType, SizesAssumption DEF Prefix
  <2> HIDE DEF prefix
  <2>5. Carve(i, prefix, pages)
    BY <2>1 DEF prefix
  <2>6. /\ r \in Extent
        /\ PagesOf(r) \subseteq PagesOf(free_extents[i])
        /\ Table(free_extents')
        /\ Cover(free_extents') = Cover(free_extents) \ PagesOf(r)
        /\ \/ Len(free_extents') <= Len(free_extents)
           \/ /\ Len(free_extents') = Len(free_extents) + 1
              /\ prefix # 0 /\ prefix + pages # free_extents[i].pages
    BY <2>2, <2>4, <2>5, CarveTable DEF IInv
  <2>7. PagesOf(r) \subseteq Cover(free_extents)
    BY <2>2, <2>6 DEF Cover, Index
  <2>8. Len(free_extents') <= MaxExtents
    <3>1. Len(free_extents) \in Nat /\ Len(free_extents') \in Nat /\ Len(free_extents) <= MaxExtents
      BY <2>6, LenProperties DEF IInv, Table
    <3>2. CASE prefix # 0 /\ prefix + pages # free_extents[i].pages
      <4>1. ~ (Len(free_extents) >= MaxExtents)
        BY <2>1, <3>2 DEF SplitsFullTable, prefix
      <4>2. QED
        BY <2>6, <3>1, <4>1, SizesAssumption
    <3>3. CASE ~ (prefix # 0 /\ prefix + pages # free_extents[i].pages)
      BY <2>6, <3>1, <3>3, SizesAssumption
    <3>4. QED
      BY <3>2, <3>3
  <2>9. held' = held \cup {r} /\ r.pages = pages
    BY <2>1 DEF prefix
  <2> HIDE DEF r
  <2>10. QED
    BY <2>1, <2>6, <2>7, <2>8, <2>9, GrantInvariant
<1>3. QED
  BY <1>1, <1>2

\* The table after a join has room for its entries.
LEMMA JoinFits ==
    ASSUME IInv, NEW r \in Extent, Acceptable(r), ~ NoRoomFor(r), Join(r)
    PROVE  Table(free_extents') /\ Len(free_extents') <= MaxExtents
<1>1. Table(free_extents') /\ Table(free_extents)
  BY JoinTable DEF IInv
<1>2. Len(free_extents) \in Nat /\ Len(free_extents') \in Nat /\ Len(free_extents) <= MaxExtents
  BY <1>1, LenProperties DEF IInv, Table
<1>3. CASE ~ TouchesPrevious(r) /\ ~ TouchesNext(r)
  <2>1. ~ (Len(free_extents) >= MaxExtents)
    BY <1>3 DEF NoRoomFor
  <2>2. Len(free_extents') <= Len(free_extents) + 1
    BY <1>1, <1>2, JoinTable
  <2>3. QED
    BY <1>1, <1>2, <2>1, <2>2, SizesAssumption
<1>4. CASE TouchesPrevious(r) \/ TouchesNext(r)
  <2>1. Len(free_extents') <= Len(free_extents)
    BY <1>1, <1>4, JoinTable
  <2>2. QED
    BY <1>1, <1>2, <2>1, SizesAssumption
<1>5. QED
  BY <1>3, <1>4

LEMMA ReleaseInvariant ==
    ASSUME IInv, NEW r \in held, Release(r)
    PROVE  IInv'
<1>1. r \in Extent
  BY DEF IInv
<1>2. CASE Acceptable(r) /\ ~ NoRoomFor(r)
  <2>1. /\ Join(r) /\ held' = held \ {r} /\ lost' = lost /\ refused' = FALSE
        /\ available_pages' = available_pages + r.pages
    BY <1>2 DEF Release
  <2>2. Cover(free_extents') = Cover(free_extents) \cup PagesOf(r)
    BY <1>1, <1>2, <2>1, JoinTable DEF IInv
  <2>3. QED
    BY <1>1, <1>2, <2>1, <2>2, JoinFits, ReturnInvariant
<1>3. CASE ~ (Acceptable(r) /\ ~ NoRoomFor(r))
  BY <1>3, LossInvariant DEF Release
<1>4. QED
  BY <1>2, <1>3

\* A range with a free page, or outside the region, is never accepted.
LEMMA RejectInvariant ==
    ASSUME IInv, NEW r \in Extent, ReleaseTwice(r)
    PROVE  IInv'
<1>1. CASE Acceptable(r) /\ ~ NoRoomFor(r)
  <2>1. Join(r) /\ NotReserved(r)
    BY <1>1 DEF ReleaseTwice
  <2>2. PagesOf(r) \cap Cover(free_extents) = {}
    BY <1>1, <2>1, JoinTable DEF IInv
  <2>3. End(r) <= RegionPages /\ End(r) \in Nat
    BY <1>1, ExtentType DEF Acceptable
  <2>4. \A i \in Index : PagesOf(r) \cap PagesOf(free_extents[i]) = {}
    BY <2>2 DEF Cover, Index
  <2>5. ~ (End(r) > RegionPages)
    BY <2>3, SizesAssumption
  <2>6. QED
    BY <2>1, <2>4, <2>5 DEF NotReserved
<1>2. CASE ~ (Acceptable(r) /\ ~ NoRoomFor(r))
  BY <1>2, IdleInvariant DEF ReleaseTwice, Refuse
<1>3. QED
  BY <1>1, <1>2

LEMMA StepInvariant == IInv /\ [Next]_vars => IInv'
<1> SUFFICES ASSUME IInv, [Next]_vars PROVE IInv'
  OBVIOUS
<1>1. ASSUME NEW pages \in 1..MaxRequest, NEW alignment \in Alignments, Reserve(pages, alignment)
      PROVE  IInv'
  BY <1>1, ReserveInvariant
<1>2. ASSUME NEW range \in held, Release(range) PROVE IInv'
  BY <1>2, ReleaseInvariant
<1>3. ASSUME NEW start \in Page, NEW pages \in 1..MaxRequest,
             ReleaseTwice([start |-> start, pages |-> pages])
      PROVE  IInv'
  <2> DEFINE r == [start |-> start, pages |-> pages]
  <2>1. start \in Nat /\ pages \in Nat \ {0}
    BY SizesAssumption DEF Page
  <2>2. CASE pages <= RegionPages
    <3>1. r \in Extent
      BY <2>1, <2>2, SizesAssumption DEF Extent
    <3>2. QED
      BY <1>3, <3>1, RejectInvariant
  <2>3. CASE ~ (pages <= RegionPages)
    <3>1. End(r) = start + pages
      BY DEF End
    <3>2. ~ (End(r) <= RegionPages)
      BY <2>1, <2>3, <3>1, SizesAssumption
    <3> HIDE DEF r
    <3>3. ReleaseTwice(r)
      BY <1>3 DEF r
    <3>4. Refuse
      BY <3>2, <3>3 DEF ReleaseTwice, Acceptable
    <3>5. QED
      BY <3>4, IdleInvariant DEF Refuse
  <2>4. QED
    BY <2>2, <2>3
<1>4. CASE UNCHANGED vars
  BY <1>4, IdleInvariant DEF vars, IInv
<1>5. QED
  BY <1>1, <1>2, <1>3, <1>4 DEF Next

-----------------------------------------------------------------------------
(***************************************************************************)
(* The table needs an entry more than there are reserved ranges at most.   *)
(***************************************************************************)

\* The ranges R are disjoint and cover what the table f does not.
Splits(R, f) ==
    /\ R \subseteq Extent
    /\ \A r, s \in R : r # s => PagesOf(r) \cap PagesOf(s) = {}
    /\ \A q : (\E r \in R : q \in PagesOf(r)) <=> q \in Page \ Cover(f)

\* Each entry but the last is followed by a range of R, and no range follows two.
LEMMA Gaps ==
    ASSUME NEW f, Table(f), NEW R, Splits(R, f)
    PROVE  IsFiniteSet(R) /\ Cardinality(R) \in Nat /\ Len(f) <= Cardinality(R) + 1
<1> DEFINE starts == [r \in R |-> r.start]
           entries == 1..(Len(f) - 1)
           after == [i \in entries |-> CHOOSE r \in R : End(f[i]) \in PagesOf(r)]
<1>1. f \in Seq(Extent) /\ Len(f) \in Nat /\ DOMAIN f = 1..Len(f)
  BY LenProperties DEF Table
<1>2. \A i \in DOMAIN f : /\ f[i] \in Extent /\ f[i].start \in Nat /\ End(f[i]) \in Nat
                           /\ f[i].start < End(f[i]) /\ f[i].start \in Page
                           /\ f[i].start \in PagesOf(f[i])
  BY <1>1, ElementOfSeq, ExtentType, RangeSize DEF Extent
<1>3. IsFiniteSet(R)
  <2>1. starts \in [R -> Page]
    BY DEF Splits, Extent
  <2>2. ASSUME NEW r \in R, NEW s \in R, starts[r] = starts[s] PROVE r = s
    <3>1. r.start \in PagesOf(r) /\ s.start \in PagesOf(s) /\ r.start = s.start
      BY <2>2, RangeSize DEF Splits
    <3>2. QED
      BY <3>1 DEF Splits
  <2> HIDE DEF starts
  <2>3. starts \in Injection(R, Page)
    BY <2>1, <2>2 DEF Injection, IsInjective
  <2>4. QED
    BY <2>3, PageFinite, FS_Injection
<1>4. Cardinality(R) \in Nat
  BY <1>3, FS_CardinalityType
<1>5. \A i \in entries : /\ i \in DOMAIN f /\ i + 1 \in DOMAIN f
                          /\ End(f[i]) \in Page \ Cover(f)
  <2> TAKE i \in entries
  <2>1. i \in DOMAIN f /\ i + 1 \in DOMAIN f /\ i < i + 1
    BY <1>1
  <2>2. End(f[i]) < f[i + 1].start
    BY <2>1 DEF Table, Sorted
  <2>3. End(f[i]) \in Page
    BY <1>2, <2>1, <2>2, SizesAssumption DEF Page
  <2>4. ASSUME NEW k \in DOMAIN f PROVE End(f[i]) \notin PagesOf(f[k])
    <3>1. CASE k < i
      <4>1. End(f[k]) < f[i].start
        BY <2>1, <3>1 DEF Table, Sorted
      <4>2. QED
        BY <1>2, <2>1, <4>1 DEF PagesOf
    <3>2. CASE k = i
      BY <1>2, <2>1, <3>2 DEF PagesOf
    <3>3. CASE k > i
      <4>1. End(f[i]) < f[k].start
        BY <1>1, <2>1, <3>3 DEF Table, Sorted
      <4>2. QED
        BY <1>2, <2>1, <4>1 DEF PagesOf
    <3>4. QED
      BY <1>1, <2>1, <3>1, <3>2, <3>3
  <2>5. QED
    BY <2>1, <2>3, <2>4 DEF Cover
<1>6. \A i \in entries : after[i] \in R /\ End(f[i]) \in PagesOf(after[i])
  <2> TAKE i \in entries
  <2>1. \E r \in R : End(f[i]) \in PagesOf(r)
    BY <1>5 DEF Splits
  <2>2. QED
    BY <2>1
<1>7. after \in [entries -> R]
  BY <1>6
<1> HIDE DEF after
\* A range that reaches from behind entry i to behind entry j has entry j inside.
<1>8. ASSUME NEW i \in entries, NEW j \in entries, i < j PROVE after[i] # after[j]
  <2>1. /\ End(f[i]) < f[j].start /\ f[j].start < End(f[j]) /\ j \in DOMAIN f
        /\ End(f[i]) \in Nat /\ f[j].start \in Nat /\ End(f[j]) \in Nat
    BY <1>2, <1>5, <1>8 DEF Table, Sorted
  <2>2. SUFFICES ASSUME after[i] = after[j] PROVE FALSE
    OBVIOUS
  <2>3. after[i] \in Extent /\ after[i].start \in Nat /\ End(after[i]) \in Nat
    BY <1>6, ExtentType DEF Splits
  <2>4. f[j].start \in PagesOf(after[i])
    <3>1. End(f[i]) \in PagesOf(after[i]) /\ End(f[j]) \in PagesOf(after[i])
      BY <1>6, <2>2
    <3> DEFINE r == after[i]
    <3>2. r.start \in Nat /\ End(r) \in Nat /\ End(f[i]) \in PagesOf(r) /\ End(f[j]) \in PagesOf(r)
      BY <2>3, <3>1
    <3> HIDE DEF r
    <3>3. f[j].start \in PagesOf(r)
      BY <2>1, <3>2 DEF PagesOf
    <3>4. QED
      BY <3>3 DEF r
  <2>5. f[j].start \in Cover(f)
    BY <1>2, <2>1 DEF Cover
  <2>6. QED
    BY <1>6, <2>4, <2>5 DEF Splits
<1>9. after \in Injection(entries, R)
  <2>1. ASSUME NEW i \in entries, NEW j \in entries, after[i] = after[j] PROVE i = j
    BY <1>1, <1>8, <2>1
  <2>2. QED
    BY <1>7, <2>1 DEF Injection, IsInjective
<1>10. Cardinality(entries) <= Cardinality(R)
  BY <1>3, <1>9, FS_Injection
<1>11. CASE Len(f) = 0
  BY <1>3, <1>4, <1>11
<1>12. CASE Len(f) # 0
  <2>1. Cardinality(entries) = Len(f) - 1
    BY <1>1, <1>12, FS_Interval
  <2>2. QED
    BY <1>1, <1>3, <1>4, <1>10, <2>1
<1>13. QED
  BY <1>11, <1>12

LEMMA ReservedSplits ==
    ASSUME IInv
    PROVE  Table(free_extents) /\ Splits(Reserved, free_extents)
<1>1. UNION {PagesOf(r) : r \in Reserved} = Page \ Cover(free_extents)
  BY FreeIsCover DEF IInv, RegionPartitioned
<1>2. \A q : (\E r \in Reserved : q \in PagesOf(r)) <=> q \in Page \ Cover(free_extents)
  BY <1>1
<1>3. QED
  BY <1>2 DEF Splits, IInv, RegionPartitioned, Reserved

LEMMA TableBounded ==
    ASSUME IInv
    PROVE  TableFollowsUse
BY ReservedSplits, Gaps DEF TableFollowsUse

\* A held range overlaps no free extent, so it is refused only for want of room.
LEMMA HeldAcceptable ==
    ASSUME IInv, NEW r \in held
    PROVE  Acceptable(r)
<1> DEFINE f == free_extents
           p == Position(r)
<1>1. f \in Seq(Extent) /\ Len(f) \in Nat /\ DOMAIN f = 1..Len(f) /\ Index = DOMAIN f
  BY LenProperties DEF IInv, Table, Index
<1>2. r \in Extent /\ r \in Reserved
  BY DEF IInv, Reserved
<1>3. r.start \in Nat /\ r.pages \in Nat \ {0} /\ End(r) \in Nat /\ r.start < End(r) /\ r.start \in PagesOf(r)
  BY <1>2, ExtentType, RangeSize
<1>4. \A q \in PagesOf(r) : q \in Page /\ q \notin Cover(f)
  BY <1>2, ReservedSplits DEF Splits
<1>5. /\ p \in 1..(Len(f) + 1)
      /\ \A k \in DOMAIN f : k < p => f[k].start < r.start
      /\ p <= Len(f) => r.start <= f[p].start
  BY <1>1, <1>2, PositionFound DEF IInv
<1>6. End(r) <= RegionPages
  <2>1. End(r) - 1 \in PagesOf(r)
    BY <1>3 DEF PagesOf
  <2>2. End(r) - 1 \in Page
    BY <1>4, <2>1
  <2>3. QED
    BY <1>3, <2>2, SizesAssumption DEF Page
<1>7. ASSUME NEW k \in DOMAIN f
      PROVE  /\ f[k].start \in Nat /\ End(f[k]) \in Nat /\ f[k].start < End(f[k])
             /\ f[k].start < r.start => End(f[k]) <= r.start
             /\ r.start <= f[k].start => End(r) <= f[k].start
  <2>1. f[k] \in Extent
    BY <1>1, <1>7, ElementOfSeq
  <2>2. f[k].start \in Nat /\ End(f[k]) \in Nat /\ f[k].start < End(f[k]) /\ f[k].start \in PagesOf(f[k])
    BY <2>1, ExtentType, RangeSize
  <2>3. r.start \notin PagesOf(f[k])
    BY <1>3, <1>4 DEF Cover
  <2>4. f[k].start \notin PagesOf(r)
    BY <1>4, <2>2 DEF Cover
  <2>5. QED
    BY <1>3, <2>2, <2>3, <2>4 DEF PagesOf
<1>8. p > 1 => End(f[p - 1]) <= r.start
  <2> SUFFICES ASSUME p > 1 PROVE End(f[p - 1]) <= r.start
    OBVIOUS
  <2>1. p - 1 \in DOMAIN f /\ p - 1 < p
    BY <1>1, <1>5
  <2>2. QED
    BY <1>5, <1>7, <2>1
<1>9. p <= Len(f) => End(r) <= f[p].start
  <2> SUFFICES ASSUME p <= Len(f) PROVE End(r) <= f[p].start
    OBVIOUS
  <2>1. p \in DOMAIN f
    BY <1>1, <1>5
  <2>2. QED
    BY <1>5, <1>7, <2>1
<1>10. QED
  BY <1>6, <1>8, <1>9 DEF Acceptable

\* Were there room for a range that touches no extent, the table would hold one
\* more entry and the ranges left would still be as many as its gaps.
LEMMA LossCrowded ==
    ASSUME IInv, NEW r \in held, NoRoomFor(r)
    PROVE  Cardinality(Reserved) > MaxExtents
<1> DEFINE f == free_extents
           p == Position(r)
           g == InsertExtent(f, p, r)
           R == Reserved \ {r}
<1>1. f \in Seq(Extent) /\ Len(f) \in Nat /\ DOMAIN f = 1..Len(f) /\ Table(f) /\ Index = DOMAIN f
  BY LenProperties DEF IInv, Table, Index
<1>2. r \in Extent /\ r \in Reserved /\ Splits(Reserved, f)
  BY ReservedSplits DEF IInv, Reserved
<1>3. p \in 1..(Len(f) + 1)
  BY <1>1, <1>2, PositionFound
<1>4. Between(f, p, r)
  BY <1>2, HeldAcceptable, AcceptedBetween DEF IInv, NoRoomFor
<1>5. Table(g) /\ Len(g) = Len(f) + 1 /\ Cover(g) = Cover(f) \cup PagesOf(r)
  BY <1>1, <1>3, <1>4, InsertTable
<1> HIDE DEF g
<1>6. Splits(R, g)
  <2>1. ASSUME NEW q
        PROVE  (\E s \in R : q \in PagesOf(s)) <=> q \in Page \ Cover(g)
    <3>1. (\E s \in R : q \in PagesOf(s)) <=> (\E s \in Reserved : q \in PagesOf(s)) /\ q \notin PagesOf(r)
      BY <1>2 DEF Splits
    <3>2. (\E s \in Reserved : q \in PagesOf(s)) <=> q \in Page \ Cover(f)
      BY <1>2 DEF Splits
    <3>3. QED
      BY <1>5, <3>1, <3>2
  <2>2. R \subseteq Extent /\ \A a, b \in R : a # b => PagesOf(a) \cap PagesOf(b) = {}
    BY <1>2 DEF Splits
  <2>3. QED
    BY <2>1, <2>2 DEF Splits
<1>7. IsFiniteSet(R) /\ Cardinality(R) \in Nat /\ Len(g) <= Cardinality(R) + 1
  BY <1>5, <1>6, Gaps
<1>8. Cardinality(Reserved) = Cardinality(R) + 1
  <2>1. Reserved = R \cup {r} /\ r \notin R
    BY <1>2
  <2> HIDE DEF R
  <2>2. QED
    BY <1>7, <2>1, FS_AddElement
<1>9. Len(f) >= MaxExtents
  BY DEF NoRoomFor
<1>10. QED
  BY <1>1, <1>5, <1>7, <1>8, <1>9, SizesAssumption

LEMMA LossStep == IInv /\ [Next]_vars => [lost' # lost => Cardinality(Reserved) > MaxExtents]_vars
<1> SUFFICES ASSUME IInv, Next, lost' # lost
             PROVE  Cardinality(Reserved) > MaxExtents
  BY DEF vars
<1>1. ~ \E pages \in 1..MaxRequest, alignment \in Alignments : Reserve(pages, alignment)
  BY DEF Reserve, Refuse
<1>2. ~ \E start \in Page, pages \in 1..MaxRequest : ReleaseTwice([start |-> start, pages |-> pages])
  BY DEF ReleaseTwice, Refuse
<1>3. PICK r \in held : Release(r)
  BY <1>1, <1>2 DEF Next
<1>4. NoRoomFor(r)
  BY <1>3, HeldAcceptable DEF Release
<1>5. QED
  BY <1>4, LossCrowded

-----------------------------------------------------------------------------
\* What every call keeps: IInv holds in every reachable state.
THEOREM Invariance == Spec => []IInv
BY InitInvariant, StepInvariant, PTL DEF Spec

\* The table and the count stay within their bounds: no split or insertion ever
\* writes an entry past MAX_FREE_EXTENTS.
THEOREM TypeCorrect == Spec => []TypeOK
<1>1. IInv => TypeOK
  BY AvailableBounded DEF IInv, Table, TypeOK
<1>2. QED
  BY <1>1, Invariance, PTL

\* free_extents stays sorted and coalesced through every reserve and release.
THEOREM TableCorrect == Spec => []ExtentsApart
<1>1. IInv => ExtentsApart
  BY DEF IInv, Table, Sorted, ExtentsApart, Index
<1>2. QED
  BY <1>1, Invariance, PTL

\* No address is handed out twice, none is forgotten, and a release of what is not
\* reserved never gets through, for any order of calls.
THEOREM PartitionCorrect == Spec => []RegionPartitioned
<1>1. IInv => RegionPartitioned
  BY DEF IInv
<1>2. QED
  BY <1>1, Invariance, PTL

\* available_pages is the number of free pages.
THEOREM CountCorrect == Spec => []AvailableExact
<1>1. IInv => AvailableExact
  BY DEF IInv
<1>2. QED
  BY <1>1, Invariance, PTL

\* The table never has more entries than one above the ranges in use or lost.
THEOREM TableSizeCorrect == Spec => []TableFollowsUse
<1>1. IInv => TableFollowsUse
  BY TableBounded
<1>2. QED
  BY <1>1, Invariance, PTL

\* A release loses its range only while more than MAX_FREE_EXTENTS are reserved.
THEOREM LossCorrect == Spec => LossNeedsCrowd
<1>1. IInv /\ [Next]_vars => [lost' # lost => Cardinality(Reserved) > MaxExtents]_vars
  BY LossStep
<1>2. QED
  BY <1>1, Invariance, PTL DEF Spec, LossNeedsCrowd

-----------------------------------------------------------------------------
(***************************************************************************)
(* The table implements the set of free pages.                             *)
(***************************************************************************)

\* VRegionSpec counts as this module does.
LEMMA SameCardinality ==
    ASSUME NEW S
    PROVE  Region!Cardinality(S) = Cardinality(S)
BY DEF Region!Cardinality, Cardinality

\* A multiple leaves no remainder.
LEMMA MultipleMod ==
    ASSUME NEW k \in Int, NEW a \in Nat \ {0}
    PROVE  (k * a) % a = 0
OBVIOUS

\* The multiples of the alignment: align_up finds the first one from value on.
LEMMA AlignUpLeast ==
    ASSUME NEW value \in Nat, NEW alignment \in Nat \ {0}
    PROVE  /\ AlignUp(value, alignment) \in Nat
           /\ AlignUp(value, alignment) >= value
           /\ AlignUp(value, alignment) % alignment = 0
           /\ \A s \in Nat : s >= value /\ s % alignment = 0 => AlignUp(value, alignment) <= s
<1> DEFINE a == alignment
           r == (-value) % a
           q == (-value) \div a
<1>1. /\ -value = q * a + r /\ q \in Int
      /\ r \in Nat /\ r < a /\ a \in Nat \ {0}
  OBVIOUS
<1> HIDE DEF q, r, a
<1>2. value + r = (-q) * a /\ -q \in Int
  BY <1>1
<1>3. AlignUp(value, alignment) = value + r
  BY DEF AlignUp, r, a
<1>4. ((-q) * a) % a = 0
  BY <1>1, <1>2, MultipleMod
<1>5. ASSUME NEW s \in Nat, s >= value, s % a = 0
      PROVE  value + r <= s
  <2>1. PICK k \in Int : s = k * a
    <3>1. s = (s \div a) * a + (s % a) /\ (s \div a) \in Int
      BY <1>1
    <3>2. QED
      BY <1>1, <1>5, <3>1
  <2>2. CASE k >= -q
    <3>1. k * a >= (-q) * a
      BY <1>1, <1>2, <2>2
    <3>2. QED
      BY <1>2, <2>1, <3>1
  <2>3. CASE k < -q
    <3>1. k + 1 <= -q
      BY <1>2, <2>3
    <3>2. (k + 1) * a <= (-q) * a
      BY <1>1, <1>2, <3>1
    <3>3. (k + 1) * a = k * a + a /\ k * a \in Int
      BY <1>1
    <3>4. QED
      BY <1>1, <1>2, <1>5, <2>1, <3>2, <3>3
  <2>4. QED
    BY <1>2, <2>2, <2>3
<1>6. QED
  BY <1>1, <1>2, <1>3, <1>4, <1>5 DEF a

\* A stretch of free pages begins where an extent does.
LEMMA StretchStarts ==
    ASSUME NEW f, Table(f)
    PROVE  \A p : p \in Region!Stretches(Cover(f)) <=> \E i \in DOMAIN f : p = f[i].start
<1>1. \A i \in DOMAIN f : /\ f[i] \in Extent
                          /\ f[i].start \in Nat /\ End(f[i]) \in Nat /\ f[i].start < End(f[i])
  BY LenProperties, ElementOfSeq, ExtentType DEF Table
<1>2. DOMAIN f \subseteq Nat
  BY LenProperties DEF Table
<1>3. \A p : p \in Cover(f) <=> \E i \in DOMAIN f : p \in f[i].start..(End(f[i]) - 1)
  BY CoverPoint DEF PagesOf
<1>4. ASSUME NEW i \in DOMAIN f
      PROVE  f[i].start \in Cover(f) /\ f[i].start - 1 \notin Cover(f)
  <2>1. f[i].start \in Cover(f)
    BY <1>1, <1>3, <1>4
  <2>2. ASSUME NEW j \in DOMAIN f, f[i].start - 1 \in f[j].start..(End(f[j]) - 1)
        PROVE  FALSE
    <3>1. f[j].start < f[i].start /\ f[i].start <= End(f[j])
      BY <1>1, <1>4, <2>2
    <3>2. CASE i = j
      BY <1>1, <1>4, <3>1, <3>2
    <3>3. CASE i < j
      <4>1. End(f[i]) < f[j].start
        BY <1>4, <2>2, <3>3 DEF Table, Sorted
      <4>2. QED
        BY <1>1, <1>4, <2>2, <3>1, <4>1
    <3>4. CASE j < i
      <4>1. End(f[j]) < f[i].start
        BY <1>4, <2>2, <3>4 DEF Table, Sorted
      <4>2. QED
        BY <1>1, <1>4, <2>2, <3>1, <4>1
    <3>5. QED
      BY <1>2, <1>4, <2>2, <3>2, <3>3, <3>4
  <2>3. QED
    BY <1>3, <2>1, <2>2
<1>5. ASSUME NEW p \in Cover(f), p - 1 \notin Cover(f)
      PROVE  \E i \in DOMAIN f : p = f[i].start
  <2>1. PICK i \in DOMAIN f : p \in f[i].start..(End(f[i]) - 1)
    BY <1>3
  <2>2. ~ (p > f[i].start)
    BY <1>1, <1>3, <1>5, <2>1
  <2>3. QED
    BY <1>1, <2>1, <2>2
<1>6. QED
  BY <1>4, <1>5 DEF Region!Stretches

\* So there are as many stretches as the table has entries.
LEMMA StretchCount ==
    ASSUME NEW f, Table(f)
    PROVE  /\ IsFiniteSet(Region!Stretches(Cover(f)))
           /\ Cardinality(Region!Stretches(Cover(f))) = Len(f)
<1> DEFINE S == Region!Stretches(Cover(f))
           h == [i \in 1..Len(f) |-> f[i].start]
<1>1. /\ Len(f) \in Nat /\ DOMAIN f = 1..Len(f)
      /\ \A i \in 1..Len(f) : f[i].start \in Nat /\ End(f[i]) \in Nat /\ f[i].start < End(f[i])
  BY LenProperties, ElementOfSeq, ExtentType DEF Table
<1>2. \A p : p \in S <=> \E i \in 1..Len(f) : p = f[i].start
  BY <1>1, StretchStarts
<1>3. \A i, j \in 1..Len(f) : i < j => f[i].start < f[j].start
  <2> TAKE i, j \in 1..Len(f)
  <2> HAVE i < j
  <2>1. End(f[i]) < f[j].start
    BY <1>1 DEF Table, Sorted
  <2>2. QED
    BY <1>1, <2>1
<1> HIDE DEF S
<1>4. h \in [1..Len(f) -> S]
  BY <1>2
<1>5. \A i, j \in 1..Len(f) : h[i] = h[j] => i = j
  <2> TAKE i, j \in 1..Len(f)
  <2> HAVE h[i] = h[j]
  <2>1. ~ (i < j) /\ ~ (j < i)
    BY <1>1, <1>3
  <2>2. QED
    BY <1>1, <2>1
<1>6. \A p \in S : \E i \in 1..Len(f) : h[i] = p
  BY <1>2
<1> HIDE DEF h
<1>7. h \in Bijection(1..Len(f), S)
  BY <1>4, <1>5, <1>6 DEF Bijection, Injection, Surjection, IsInjective
<1>8. IsFiniteSet(1..Len(f)) /\ Cardinality(1..Len(f)) = Len(f)
  <2>1. 1 \in Int /\ Len(f) \in Int
    BY <1>1
  <2>2. QED
    BY <1>1, <2>1, FS_Interval
<1>9. QED
  BY <1>7, <1>8, FS_Bijection DEF ExistsBijection, S

\* A run of free pages lies within one extent: between two there is a page in use.
LEMMA RunInExtent ==
    ASSUME NEW f, Table(f), NEW s \in Nat, NEW pages \in Nat \ {0},
           Region!PageRange(s, pages) \subseteq Cover(f)
    PROVE  \E i \in DOMAIN f : f[i].start <= s /\ s + pages <= End(f[i])
<1>1. \A i \in DOMAIN f : f[i].start \in Nat /\ End(f[i]) \in Nat /\ f[i].start < End(f[i])
  BY LenProperties, ElementOfSeq, ExtentType DEF Table
<1>2. DOMAIN f \subseteq Nat
  BY LenProperties DEF Table
<1>3. \A p : p \in Cover(f) <=> \E i \in DOMAIN f : p \in f[i].start..(End(f[i]) - 1)
  BY CoverPoint DEF PagesOf
<1>4. \A p \in s..(s + pages - 1) : p \in Cover(f)
  BY DEF Region!PageRange
<1>5. PICK i \in DOMAIN f : s \in f[i].start..(End(f[i]) - 1)
  BY <1>3, <1>4
<1>6. End(f[i]) \notin Cover(f)
  <2>1. ASSUME NEW j \in DOMAIN f, End(f[i]) \in f[j].start..(End(f[j]) - 1)
        PROVE  FALSE
    <3>1. CASE i = j
      BY <1>1, <2>1, <3>1
    <3>2. CASE i < j
      <4>1. End(f[i]) < f[j].start
        BY <2>1, <3>2 DEF Table, Sorted
      <4>2. QED
        BY <1>1, <2>1, <4>1
    <3>3. CASE j < i
      <4>1. End(f[j]) < f[i].start
        BY <2>1, <3>3 DEF Table, Sorted
      <4>2. QED
        BY <1>1, <2>1, <4>1
    <3>4. QED
      BY <1>2, <2>1, <3>1, <3>2, <3>3
  <2>2. QED
    BY <1>3, <2>1
<1>7. QED
  BY <1>1, <1>4, <1>5, <1>6

\* Where the request would go in extent i.
Place(i, alignment) == free_extents[i].start + Prefix(i, alignment)

\* The extents that fit have the lowest aligned runs, in order, and every run has
\* one of them at or before it.
LEMMA RunsOfFits ==
    ASSUME IInv, NEW pages \in 1..MaxRequest, NEW alignment \in Alignments
    PROVE  /\ \A i \in Fits(pages, alignment) : Place(i, alignment) \in Region!Runs(pages, alignment)
           /\ \A s \in Region!Runs(pages, alignment) :
                \E i \in Fits(pages, alignment) : Place(i, alignment) <= s
           /\ \A i, j \in Fits(pages, alignment) : i < j => Place(i, alignment) < Place(j, alignment)
<1>1. /\ Table(free_extents) /\ Index = DOMAIN free_extents
      /\ \A i \in Index : /\ free_extents[i] \in Extent
                          /\ free_extents[i].start \in Nat /\ free_extents[i].pages \in Nat \ {0}
                          /\ End(free_extents[i]) = free_extents[i].start + free_extents[i].pages
                          /\ End(free_extents[i]) <= RegionPages
  BY LenProperties, ElementOfSeq, ExtentType DEF IInv, Table, Index, End
<1>2. /\ pages \in Nat \ {0} /\ alignment \in Nat \ {0}
      /\ RegionPages \in Nat
  BY SizesAssumption
<1>3. \A i \in Index : /\ Place(i, alignment) = AlignUp(free_extents[i].start, alignment)
                       /\ Place(i, alignment) \in Nat
                       /\ free_extents[i].start <= Place(i, alignment)
                       /\ Place(i, alignment) % alignment = 0
                       /\ \A s \in Nat : s >= free_extents[i].start /\ s % alignment = 0 => Place(i, alignment) <= s
                       /\ Place(i, alignment) + pages <= End(free_extents[i])
                            <=> i \in Fits(pages, alignment)
  <2> TAKE i \in Index
  <2>1. PICK v \in Nat : v = free_extents[i].start
    BY <1>1
  <2>2. PICK u \in Nat : /\ u = AlignUp(v, alignment) /\ u >= v /\ u % alignment = 0
                         /\ \A s \in Nat : s >= v /\ s % alignment = 0 => u <= s
    BY <1>2, AlignUpLeast
  <2>3. Prefix(i, alignment) = u - v /\ Place(i, alignment) = u
    BY <2>1, <2>2 DEF Prefix, Place
  <2>4. i \in Fits(pages, alignment) <=> (u - v) + pages <= free_extents[i].pages
    BY <2>3 DEF Fits
  <2>5. QED
    BY <1>1, <1>2, <2>1, <2>2, <2>3, <2>4
<1>4. ASSUME NEW i \in Fits(pages, alignment)
      PROVE  Place(i, alignment) \in Region!Runs(pages, alignment)
  <2>1. i \in Index
    BY DEF Fits
  <2>2. PICK p \in Nat : /\ p = Place(i, alignment) /\ p % alignment = 0
                         /\ free_extents[i].start <= p /\ p + pages <= End(free_extents[i])
    BY <1>3, <2>1
  <2>3. Region!PageRange(p, pages) \subseteq PagesOf(free_extents[i])
    BY <1>1, <1>2, <2>1, <2>2 DEF Region!PageRange, PagesOf
  <2>4. PagesOf(free_extents[i]) \subseteq FreePages
    BY <2>1 DEF FreePages
  <2>5. p \in 0..(RegionPages - 1)
    BY <1>1, <1>2, <2>1, <2>2
  <2>6. QED
    BY <2>2, <2>3, <2>4, <2>5 DEF Region!Runs, Region!Page
<1>5. ASSUME NEW s \in Region!Runs(pages, alignment)
      PROVE  \E i \in Fits(pages, alignment) : Place(i, alignment) <= s
  <2>1. /\ s \in Nat /\ s % alignment = 0
        /\ Region!PageRange(s, pages) \subseteq Cover(free_extents)
    BY FreeIsCover DEF Region!Runs, Region!Page
  <2>2. PICK i \in Index : free_extents[i].start <= s /\ s + pages <= End(free_extents[i])
    BY <1>1, <1>2, <2>1, RunInExtent
  <2>3. Place(i, alignment) \in Nat /\ Place(i, alignment) <= s
    BY <1>1, <1>3, <2>1, <2>2
  <2>4. Place(i, alignment) + pages <= End(free_extents[i])
    BY <1>1, <1>2, <2>1, <2>2, <2>3
  <2>5. QED
    BY <1>3, <2>3, <2>4
<1>6. ASSUME NEW i \in Fits(pages, alignment), NEW j \in Fits(pages, alignment), i < j
      PROVE  Place(i, alignment) < Place(j, alignment)
  <2>1. i \in Index /\ j \in Index
    BY DEF Fits
  <2>2. End(free_extents[i]) < free_extents[j].start
    BY <1>1, <1>6, <2>1 DEF Table, Sorted
  <2>3. QED
    BY <1>1, <1>2, <1>3, <2>1, <2>2
<1>7. QED
  BY <1>4, <1>5, <1>6

\* No run is longer than all free pages together.
LEMMA TooManyPages ==
    ASSUME IInv, NEW pages \in 1..MaxRequest, NEW alignment \in Alignments, pages > available_pages
    PROVE  Region!Runs(pages, alignment) = {}
<1> SUFFICES ASSUME NEW s \in Region!Runs(pages, alignment) PROVE FALSE
  OBVIOUS
<1>1. s \in Nat /\ Region!PageRange(s, pages) \subseteq FreePages
  BY DEF Region!Runs, Region!Page
<1>2. IsFiniteSet(FreePages)
  BY FreeIsCover, CoverInRegion, PageFinite, FS_Subset DEF IInv
<1>3. pages \in Nat \ {0} /\ available_pages = Cardinality(FreePages)
  BY SizesAssumption DEF IInv, AvailableExact
<1>4. Cardinality(s..(s + pages - 1)) = pages
  <2>1. s \in Int /\ s + pages - 1 \in Int /\ ~ (s > s + pages - 1)
    BY <1>1, <1>3
  <2>2. Cardinality(s..(s + pages - 1)) = (s + pages - 1) - s + 1
    BY <2>1, FS_Interval
  <2>3. QED
    BY <1>1, <1>3, <2>2
<1>5. Cardinality(s..(s + pages - 1)) <= Cardinality(FreePages)
  BY <1>1, <1>2, FS_Subset DEF Region!PageRange
<1>6. Cardinality(FreePages) \in Nat
  BY <1>2, FS_CardinalityType
<1>7. QED
  BY <1>3, <1>4, <1>5, <1>6

\* Cutting the middle out of an extent makes one stretch more.
LEMMA SplitStretches ==
    ASSUME NEW f, Table(f), NEW i \in DOMAIN f, NEW p \in Nat, NEW pages \in Nat \ {0},
           f[i].start < p, p + pages < End(f[i])
    PROVE  Cardinality(Region!Stretches(Cover(f) \ Region!PageRange(p, pages))) = Len(f) + 1
<1> DEFINE R == Region!PageRange(p, pages)
           S == Region!Stretches(Cover(f))
           T == Region!Stretches(Cover(f) \ R)
<1>1. /\ \A j \in DOMAIN f : f[j].start \in Nat /\ End(f[j]) \in Nat /\ f[j].start < End(f[j])
      /\ DOMAIN f \subseteq Nat
  BY LenProperties, ElementOfSeq, ExtentType DEF Table
<1>2. \A q : q \in Cover(f) <=> \E j \in DOMAIN f : q \in f[j].start..(End(f[j]) - 1)
  BY CoverPoint DEF PagesOf
<1>3. \A q : q \in R <=> q \in p..(p + pages - 1)
  BY DEF Region!PageRange
<1>4. p + pages \in Cover(f) /\ p + pages \notin R /\ p + pages - 1 \in R
  BY <1>1, <1>2, <1>3
<1>5. \A q \in f[i].start..(End(f[i]) - 1) : q \in Cover(f)
  BY <1>2
<1>6. \A q \in S : q \notin R /\ q \in Cover(f) /\ q - 1 \notin Cover(f)
  <2> TAKE q \in S
  <2>1. q \in Cover(f) /\ q - 1 \notin Cover(f)
    BY DEF Region!Stretches
  <2>2. \A y \in R : y - 1 \in Cover(f)
    BY <1>1, <1>3, <1>5
  <2>3. QED
    BY <2>1, <2>2
<1>7. ASSUME NEW q
      PROVE  q \in T <=> q \in S \/ q = p + pages
  <2>1. ASSUME q \in T PROVE q \in S \/ q = p + pages
    <3>1. q \in Cover(f) /\ q \notin R /\ (q - 1 \notin Cover(f) \/ q - 1 \in R)
      BY <2>1 DEF Region!Stretches
    <3>2. q \in Nat
      BY <1>1, <1>2, <3>1
    <3>3. CASE q - 1 \in R
      BY <1>3, <3>1, <3>2, <3>3
    <3>4. CASE q - 1 \notin Cover(f)
      BY <3>1, <3>4 DEF Region!Stretches
    <3>5. QED
      BY <3>1, <3>3, <3>4
  <2>2. ASSUME q \in S PROVE q \in T
    BY <1>6, <2>2 DEF Region!Stretches
  <2>3. ASSUME q = p + pages PROVE q \in T
    BY <1>4, <2>3 DEF Region!Stretches
  <2>4. QED
    BY <2>1, <2>2, <2>3
<1>8. T = S \cup {p + pages}
  BY <1>7
<1>9. p + pages \notin S
  <2>1. p + pages - 1 \in Cover(f)
    BY <1>1, <1>5
  <2>2. QED
    BY <1>6, <2>1
<1>10. IsFiniteSet(S) /\ Cardinality(S) = Len(f)
  BY StretchCount
<1> HIDE DEF S, T
<1>11. Cardinality(T) = Len(f) + 1
  BY <1>8, <1>9, <1>10, FS_AddElement
<1>12. QED
  BY <1>11 DEF T, R

\* A reservation serves the lowest run, and is refused where the promise refuses it.
LEMMA ReserveRefines ==
    ASSUME IInv, IInv', NEW pages \in 1..MaxRequest, NEW alignment \in Alignments,
           Reserve(pages, alignment)
    PROVE  Region!SpecReserve(pages, alignment)
<1> DEFINE runs == Region!Runs(pages, alignment)
           fits == Fits(pages, alignment)
<1>1. /\ \A i \in fits : Place(i, alignment) \in runs
      /\ \A s \in runs : \E i \in fits : Place(i, alignment) <= s
      /\ \A i, j \in fits : i < j => Place(i, alignment) < Place(j, alignment)
  BY RunsOfFits
<1>2. /\ FreePages = Cover(free_extents) /\ FreePages' = Cover(free_extents')
      /\ Table(free_extents) /\ Table(free_extents')
      /\ Len(free_extents) \in Nat /\ Len(free_extents) <= MaxExtents
      /\ Len(free_extents') \in Nat /\ Len(free_extents') <= MaxExtents
      /\ MaxExtents \in Nat
  BY LenProperties, SizesAssumption DEF FreePages, Cover, Index, IInv, Table, Sorted
<1>3. Refuse => refused' = TRUE /\ FreePages' = FreePages /\ UNCHANGED <<held, lost>>
  BY <1>2 DEF Refuse
<1>4. CASE pages > available_pages \/ fits = {}
  <2>1. runs = {}
    <3>1. CASE pages > available_pages
      BY <3>1, TooManyPages
    <3>2. CASE fits = {}
      BY <1>1, <3>2
    <3>3. QED
      BY <1>4, <3>1, <3>2
  <2>2. Refuse
    BY <1>4 DEF Reserve
  <2>3. QED
    BY <1>3, <2>1, <2>2 DEF Region!SpecReserve
<1>5. CASE ~ (pages > available_pages \/ fits = {})
  <2>1. PICK i \in fits :
           /\ \A j \in fits : i <= j
           /\ IF SplitsFullTable(i, Prefix(i, alignment), pages)
              THEN Refuse
              ELSE /\ Carve(i, Prefix(i, alignment), pages)
                   /\ available_pages' = available_pages - pages
                   /\ held' = held \cup {[start |-> free_extents[i].start + Prefix(i, alignment), pages |-> pages]}
                   /\ refused' = FALSE
                   /\ UNCHANGED lost
    BY <1>5 DEF Reserve
  <2>2. /\ i \in Index /\ i \in DOMAIN free_extents
        /\ Prefix(i, alignment) + pages <= free_extents[i].pages
        /\ free_extents[i] \in Extent
    BY <1>2, LenProperties, ElementOfSeq DEF Fits, Index, Table
  <2>3. /\ free_extents[i].start \in Nat /\ free_extents[i].pages \in Nat
        /\ End(free_extents[i]) = free_extents[i].start + free_extents[i].pages
        /\ Prefix(i, alignment) \in Nat /\ pages \in Nat \ {0}
    BY <2>2, AlignUpAbove, ExtentType, SizesAssumption DEF Prefix, End, Extent
  <2>4. PICK prefix \in Nat : prefix = Prefix(i, alignment)
    BY <2>3
  <2>5. PICK s \in Nat : s = Place(i, alignment) /\ s = free_extents[i].start + prefix
    BY <2>3, <2>4 DEF Place
  <2>6. s \in runs /\ \A t \in runs : s <= t
    <3>1. ASSUME NEW t \in runs PROVE s <= t
      <4>1. PICK j \in fits : Place(j, alignment) <= t
        BY <1>1
      <4>2. i \in Nat /\ j \in Nat /\ t \in Nat
        BY <1>2, LenProperties DEF Fits, Index, Table, Region!Runs, Region!Page
      <4>3. i = j \/ i < j
        BY <2>1, <4>2
      <4>4. PICK u : u = Place(j, alignment)
        OBVIOUS
      <4>5. u \in Nat
        BY <1>1, <4>4 DEF Region!Runs, Region!Page
      <4>6. s = u \/ s < u
        BY <1>1, <2>5, <4>3, <4>4
      <4>7. QED
        BY <4>1, <4>2, <4>4, <4>5, <4>6
    <3>2. QED
      BY <1>1, <2>5, <3>1
  <2>7. PICK rest : rest = FreePages \ Region!PageRange(s, pages)
    OBVIOUS
  <2>8. CASE SplitsFullTable(i, Prefix(i, alignment), pages)
    <3>1. /\ prefix # 0 /\ prefix + pages # free_extents[i].pages
          /\ Len(free_extents) >= MaxExtents
      BY <2>4, <2>8 DEF SplitsFullTable
    <3>2. free_extents[i].start < s /\ s + pages < End(free_extents[i])
      <4>1. PICK b \in Nat, n \in Nat : b = free_extents[i].start /\ n = free_extents[i].pages
        BY <2>3
      <4>2. s = b + prefix /\ End(free_extents[i]) = b + n
        BY <2>3, <2>5, <4>1
      <4>3. prefix + pages <= n /\ prefix + pages # n /\ prefix # 0 /\ pages \in Nat
        BY <2>2, <2>3, <2>4, <3>1, <4>1
      <4>4. b < b + prefix /\ b + prefix + pages < b + n
        BY <4>1, <4>3
      <4>5. QED
        BY <4>1, <4>2, <4>4
    <3>3. Cardinality(Region!Stretches(rest)) = Len(free_extents) + 1
      BY <1>2, <2>2, <2>3, <2>7, <3>2, SplitStretches
    <3>4. Cardinality(Region!Stretches(rest)) > MaxExtents
      BY <1>2, <3>1, <3>3
    <3>5. Refuse
      BY <2>1, <2>8
    <3>6. refused' = TRUE /\ FreePages' = FreePages /\ held' = held /\ lost' = lost
      BY <1>3, <3>5
    <3>7. runs # {}
      BY <2>6
    <3>8. QED
      BY <2>6, <2>7, <3>4, <3>6, <3>7, SameCardinality DEF Region!SpecReserve
  <2>9. CASE ~ SplitsFullTable(i, Prefix(i, alignment), pages)
    <3>1. /\ Carve(i, prefix, pages)
          /\ held' = held \cup {[start |-> s, pages |-> pages]}
          /\ refused' = FALSE /\ lost' = lost
      BY <2>1, <2>4, <2>5, <2>9
    <3>2. PICK taken : taken = [start |-> free_extents[i].start + prefix, pages |-> pages]
      OBVIOUS
    <3>3. Cover(free_extents') = Cover(free_extents) \ PagesOf(taken)
      BY <1>2, <2>2, <2>3, <2>4, <3>1, <3>2, CarveTable
    <3>4. PagesOf(taken) = Region!PageRange(s, pages)
      BY <2>3, <2>5, <3>2 DEF PagesOf, End, Region!PageRange
    <3>5. FreePages' = rest
      BY <1>2, <2>7, <3>3, <3>4
    <3>6. Cardinality(Region!Stretches(rest)) = Len(free_extents')
      BY <1>2, <3>5, StretchCount
    <3>7. ~ (Cardinality(Region!Stretches(rest)) > MaxExtents)
      BY <1>2, <3>6
    <3>8. runs # {}
      BY <2>6
    <3>9. QED
      BY <2>6, <2>7, <3>1, <3>5, <3>7, <3>8, SameCardinality DEF Region!SpecReserve
  <2>10. QED
    BY <2>8, <2>9
<1>6. QED
  BY <1>4, <1>5

\* A release gives the range back, or loses it where the promise does.
LEMMA ReleaseRefines ==
    ASSUME IInv, IInv', NEW r \in held, Release(r)
    PROVE  Region!SpecRelease(r)
<1>1. /\ FreePages = Cover(free_extents) /\ FreePages' = Cover(free_extents')
      /\ Table(free_extents) /\ Table(free_extents')
      /\ Len(free_extents) \in Nat /\ Len(free_extents) <= MaxExtents
      /\ Len(free_extents') \in Nat /\ Len(free_extents') <= MaxExtents
      /\ MaxExtents \in Nat
  BY LenProperties, SizesAssumption DEF FreePages, Cover, Index, IInv, Table, Sorted
<1>2. r \in Extent /\ Acceptable(r)
  BY HeldAcceptable DEF IInv
<1>3. Region!PageRange(r.start, r.pages) = PagesOf(r)
  BY <1>2, ExtentType DEF Region!PageRange, PagesOf, End
<1>4. PICK rest : rest = FreePages \cup PagesOf(r)
  OBVIOUS
<1>5. held' = held \ {r}
  BY DEF Release
<1>6. CASE NoRoomFor(r)
  <2>1. PICK p : p = Position(r)
    OBVIOUS
  <2>2. p \in 1..(Len(free_extents) + 1)
    BY <1>1, <1>2, <2>1, PositionFound
  <2>3. Between(free_extents, p, r)
    BY <1>1, <1>2, <1>6, <2>1, AcceptedBetween DEF NoRoomFor
  <2>4. PICK g : g = InsertExtent(free_extents, p, r)
    OBVIOUS
  <2>5. Table(g) /\ Len(g) = Len(free_extents) + 1 /\ Cover(g) = Cover(free_extents) \cup PagesOf(r)
    BY <1>1, <2>2, <2>3, <2>4, InsertTable
  <2>6. Cardinality(Region!Stretches(rest)) = Len(free_extents) + 1
    BY <1>1, <1>4, <2>5, StretchCount
  <2>7. Cardinality(Region!Stretches(rest)) > MaxExtents
    BY <1>1, <1>6, <2>6 DEF NoRoomFor
  <2>8. lost' = lost \cup {r} /\ refused' = TRUE /\ free_extents' = free_extents
    BY <1>6 DEF Release
  <2>9. FreePages' = FreePages
    BY <1>1, <2>8
  <2>10. QED
    BY <1>3, <1>4, <1>5, <2>7, <2>8, <2>9, SameCardinality DEF Region!SpecRelease
<1>7. CASE ~ NoRoomFor(r)
  <2>1. Join(r) /\ refused' = FALSE /\ lost' = lost
    BY <1>2, <1>7 DEF Release
  <2>2. FreePages' = rest
    BY <1>1, <1>2, <1>4, <2>1, JoinTable
  <2>3. Cardinality(Region!Stretches(rest)) = Len(free_extents')
    BY <1>1, <2>2, StretchCount
  <2>4. ~ (Cardinality(Region!Stretches(rest)) > MaxExtents)
    BY <1>1, <2>3
  <2>5. QED
    BY <1>3, <1>4, <1>5, <2>1, <2>2, <2>4, SameCardinality DEF Region!SpecRelease
<1>8. QED
  BY <1>6, <1>7

\* A range that is not reserved is turned down.
LEMMA RejectRefines ==
    ASSUME IInv, NEW start \in Page, NEW pages \in 1..MaxRequest,
           ReleaseTwice([start |-> start, pages |-> pages])
    PROVE  Region!SpecReject(start, pages)
<1>1. PICK r : r = [start |-> start, pages |-> pages]
  OBVIOUS
<1>2. start \in Nat /\ pages \in Nat \ {0} /\ RegionPages \in Nat /\ End(r) = start + pages
  BY <1>1, SizesAssumption DEF Page, End
<1>3. NotReserved(r) /\ ReleaseTwice(r)
  BY <1>1 DEF ReleaseTwice
<1>4. ~ (Acceptable(r) /\ ~ NoRoomFor(r))
  <2> SUFFICES ASSUME Acceptable(r), ~ NoRoomFor(r) PROVE FALSE
    OBVIOUS
  <2>1. Join(r)
    BY <1>3 DEF ReleaseTwice
  <2>2. End(r) <= RegionPages
    BY DEF Acceptable
  <2>3. r \in Extent
    BY <1>1, <1>2, <2>2 DEF Extent
  <2>4. PagesOf(r) \cap Cover(free_extents) = {}
    BY <2>1, <2>3, JoinTable DEF IInv
  <2>5. \A i \in Index : PagesOf(r) \cap PagesOf(free_extents[i]) = {}
    BY <2>4 DEF Cover, Index
  <2>6. ~ (End(r) > RegionPages)
    BY <1>2, <2>2
  <2>7. QED
    BY <1>3, <2>5, <2>6 DEF NotReserved
<1>5. Refuse
  BY <1>3, <1>4 DEF ReleaseTwice
<1>6. FreePages' = FreePages
  BY <1>5 DEF Refuse, FreePages, Index
<1>7. ~ (PagesOf(r) \subseteq Page \ FreePages)
  <2>1. CASE End(r) > RegionPages
    <3>1. start + pages - 1 \in PagesOf(r) /\ start + pages - 1 \notin Page
      BY <1>1, <1>2, <2>1 DEF PagesOf, Page
    <3>2. QED
      BY <3>1
  <2>2. CASE \E i \in Index : PagesOf(r) \cap PagesOf(free_extents[i]) # {}
    BY <2>2 DEF FreePages
  <2>3. QED
    BY <1>3, <2>1, <2>2 DEF NotReserved
<1>8. PagesOf(r) = Region!PageRange(start, pages) /\ Page = Region!Page
  BY <1>1, <1>2 DEF PagesOf, Region!PageRange, Page, Region!Page
<1>9. QED
  BY <1>5, <1>6, <1>7, <1>8 DEF Refuse, Region!SpecReject

\* The array of extents implements the set of free pages call for call, for any size of
\* region and table: a request is served from the lowest aligned run wherever the
\* extents are cut, and is refused only if there is no such run or the table cannot take
\* the split; a held range comes back unless that would need one entry too many; and a
\* release of anything not reserved changes nothing.
THEOREM RegionImplemented == Spec => ImplementsRegion
<1>1. Init => Region!SpecInit
  <2> SUFFICES ASSUME Init PROVE Region!SpecInit
    OBVIOUS
  <2>1. PICK e : e = [start |-> 0, pages |-> RegionPages]
    OBVIOUS
  <2>2. free_extents = <<e>> /\ held = {} /\ lost = {} /\ refused = FALSE
    BY <2>1 DEF Init
  <2>3. PagesOf(e) = 0..(RegionPages - 1)
    BY <2>1, SizesAssumption DEF PagesOf, End
  <2>4. DOMAIN free_extents = {1} /\ free_extents[1] = e
    BY <2>2
  <2>5. FreePages = PagesOf(e)
    BY <2>4 DEF FreePages, Index
  <2>6. QED
    BY <2>2, <2>3, <2>5 DEF Region!SpecInit, Region!Page
<1> DEFINE Serves(pages, alignment) == Reserve(pages, alignment) => Region!SpecReserve(pages, alignment)
           Returns(range) == Release(range) => Region!SpecRelease(range)
           Strays(start, pages) ==
               ReleaseTwice([start |-> start, pages |-> pages]) => Region!SpecReject(start, pages)
<1>2. ASSUME IInv, IInv'
      PROVE  /\ \A pages \in 1..MaxRequest, alignment \in Alignments : Serves(pages, alignment)
             /\ \A range \in held : Returns(range)
             /\ \A start \in Page, pages \in 1..MaxRequest : Strays(start, pages)
  BY <1>2, ReserveRefines, ReleaseRefines, RejectRefines
<1>3. ASSUME IInv, IInv', [Next]_vars
      PROVE  [Region!SpecNext]_(Region!specVars)
  <2>1. ASSUME NEW pages \in 1..MaxRequest, NEW alignment \in Alignments, Reserve(pages, alignment)
        PROVE  Region!SpecNext
    BY <1>3, <2>1, ReserveRefines DEF Region!SpecNext
  <2>2. ASSUME NEW range \in held, Release(range) PROVE Region!SpecNext
    BY <1>3, <2>2, ReleaseRefines DEF Region!SpecNext
  <2>3. ASSUME NEW start \in Page, NEW pages \in 1..MaxRequest,
               ReleaseTwice([start |-> start, pages |-> pages])
        PROVE  Region!SpecNext
    <3>1. Region!SpecReject(start, pages)
      BY <1>3, <2>3, RejectRefines
    <3>2. start \in Region!Page
      BY DEF Page, Region!Page
    <3>3. QED
      BY <3>1, <3>2 DEF Region!SpecNext
  <2>4. CASE UNCHANGED vars
    BY <2>4 DEF vars, Region!specVars, FreePages, Index
  <2>5. QED
    BY <1>3, <2>1, <2>2, <2>3, <2>4 DEF Next
<1>4. QED
  BY <1>1, <1>2, <1>3, Invariance, PTL DEF Spec, ImplementsRegion, Region!RegionSpec

-----------------------------------------------------------------------------
(* The allocations.                                                         *)

\* The descriptors allocations make: their usable pages lie in their range.
Descriptors ==
    {d \in [range : Extent, first : Nat, pages : Nat \ {0}] :
        /\ d.range.start <= d.first
        /\ d.first + d.pages <= End(d.range)}

Calls == [step : Steps, d : Descriptors, done : Nat, frame : Frame \cup {None}]

CallOK(t) ==
    /\ call[t] \in Calls
    /\ call[t].done <= call[t].d.pages
    /\ call[t].step = "map" => call[t].frame # None
    /\ call[t].step = "allocate" => call[t].frame = None
    /\ call[t].step = "map" => call[t].done < call[t].d.pages

Typed ==
    /\ mapped \in [Page -> Frame \cup {None}]
    /\ free \subseteq Frame
    /\ published \subseteq Descriptors
    /\ DOMAIN call = Thread
    /\ \A t \in Busy : CallOK(t)

\* Two calls never work on one range, and a release works on a descriptor that
\* is still published and whose range is not lost.
CallsApart ==
    /\ \A s, t \in Busy : s # t => call[s].d.range # call[t].d.range
    /\ \A t \in Busy : call[t].step = "unmap" => call[t].d \in published \ Stuck

\* The inductive invariant, of which the region's is a part.
PagesInv ==
    /\ IInv
    /\ Typed
    /\ CallsApart
    /\ ReservationsOwned
    /\ MappingsExact

-----------------------------------------------------------------------------
(* The steps are steps of the region.                                       *)

LEMMA InitIsInit == PagesInit => Init
BY DEF PagesInit

LEMMA ShapeSize ==
    ASSUME NEW s \in Shapes
    PROVE  /\ s.before \in Nat /\ s.after \in Nat /\ s.pages \in Nat \ {0}
           /\ s.alignment \in Alignments
           /\ s.before + s.pages + s.after \in 1..MaxRequest
BY ShapesAssumption, SizesAssumption

LEMMA StepIsStep == PagesNext => [Next]_vars
<1> SUFFICES ASSUME PagesNext PROVE [Next]_vars
  OBVIOUS
<1>1. ASSUME NEW t \in Thread, NEW s \in Shapes, BeginAllocate(t, s) PROVE Next
  <2>1. Reserve(s.before + s.pages + s.after, s.alignment)
    BY <1>1 DEF BeginAllocate
  <2>2. QED
    BY <2>1, ShapeSize DEF Next
<1>2. ASSUME NEW t \in Thread, FinishUndo(t) \/ FinishRelease(t) PROVE Next
  <2>1. Release(call[t].d.range)
    BY <1>2 DEF FinishUndo, FinishRelease
  <2>2. call[t].d.range \in held
    BY <2>1 DEF Release
  <2>3. QED
    BY <2>1, <2>2 DEF Next
<1>3. ASSUME NEW t \in Thread,
             \/ TakeFrame(t) \/ MapPage(t) \/ MapFails(t) \/ FinishAllocate(t) \/ ProtectFails(t)
             \/ Undo(t) \/ Unmap(t) \/ GiveBack(t)
             \/ \E d \in published : BeginRelease(t, d)
      PROVE  UNCHANGED vars
  BY <1>3 DEF TakeFrame, MapPage, MapFails, FinishAllocate, ProtectFails, Undo, Unmap, UnmapLast,
              GiveBack, BeginRelease
<1>4. ASSUME StrayRelease PROVE Next
  BY <1>4 DEF StrayRelease, Next
<1>5. QED
  BY <1>1, <1>2, <1>3, <1>4 DEF PagesNext

\* Every behaviour of the allocations is, to the region allocator, one of callers
\* that release only what they hold or what is not reserved (kernel_pages.c and
\* kernel_stack.c use kernel_vregion_reserve and kernel_vregion_release so).
THEOREM UsesRegion == PagesSpec => Spec
<1>1. PagesInit => Init
  BY InitIsInit
<1>2. [PagesNext]_pageVars => [Next]_vars
  BY StepIsStep DEF pageVars
<1>3. QED
  BY <1>1, <1>2, PTL DEF PagesSpec, Spec

-----------------------------------------------------------------------------
(***************************************************************************)
(* Descriptors and calls.                                                  *)
(***************************************************************************)

\* The first k usable pages of d.
FirstPages(d, k) == d.first..(d.first + k - 1)

LEMMA GoPoint ==
    ASSUME DOMAIN call = Thread, NEW t \in Thread, NEW c, Go(t, c)
    PROVE  /\ DOMAIN call' = Thread
           /\ call'[t] = c
           /\ \A s \in Thread : s # t => call'[s] = call[s]
BY DEF Go

LEMMA WorkingFields ==
    ASSUME NEW step \in Steps, NEW d, NEW done, NEW frame, NEW c, c = Working(step, d, done, frame)
    PROVE  c.step = step /\ c.d = d /\ c.done = done /\ c.frame = frame /\ c # Idle
BY DEF Working, Idle, Steps

LEMMA Layout ==
    ASSUME NEW d \in Descriptors
    PROVE  /\ d.range \in Extent /\ d.first \in Nat /\ d.pages \in Nat \ {0}
           /\ UsablePages(d) \subseteq PagesOf(d.range)
           /\ d.first \in UsablePages(d)
<1>1. /\ d.range \in Extent /\ d.first \in Nat /\ d.pages \in Nat \ {0}
      /\ d.range.start <= d.first /\ d.first + d.pages <= End(d.range)
  BY DEF Descriptors
<1>2. d.range.start \in Nat /\ End(d.range) \in Nat
  BY <1>1, ExtentType
<1>3. QED
  BY <1>1, <1>2 DEF UsablePages, PagesOf

LEMMA Prefixes ==
    ASSUME NEW d \in Descriptors, NEW k \in Nat, k <= d.pages
    PROVE  /\ FirstPages(d, k) \subseteq UsablePages(d)
           /\ k = 0 => FirstPages(d, k) = {}
           /\ k = d.pages => FirstPages(d, k) = UsablePages(d)
           /\ k > 0 => /\ NthPage(d, k) \in UsablePages(d)
                       /\ NthPage(d, k) \notin FirstPages(d, k - 1)
                       /\ FirstPages(d, k) = FirstPages(d, k - 1) \cup {NthPage(d, k)}
<1>1. d.first \in Nat /\ d.pages \in Nat
  BY Layout
<1>2. QED
  BY <1>1 DEF FirstPages, UsablePages, NthPage

LEMMA RangeInRegion ==
    ASSUME IInv, NEW r \in held
    PROVE  PagesOf(r) \subseteq Page
BY DEF IInv, RegionPartitioned, Reserved

LEMMA RangesApart ==
    ASSUME IInv, NEW r \in held, NEW s \in held \cup lost, r # s
    PROVE  PagesOf(r) \cap PagesOf(s) = {}
BY DEF IInv, RegionPartitioned, Reserved

\* What a thread other than t, or a descriptor, claims.
Elsewhere(t, p) ==
    \/ \E d \in Intact : p \in UsablePages(d)
    \/ \E s \in Busy : s # t /\ p \in InHand(s)

LEMMA ClaimedByOne ==
    ASSUME NEW t \in Busy, NEW p
    PROVE  Claimed(p) <=> Elsewhere(t, p) \/ p \in FirstPages(call[t].d, call[t].done)
BY DEF Claimed, Elsewhere, InHand, FirstPages

LEMMA HandInRange ==
    ASSUME Typed, NEW t \in Busy
    PROVE  /\ call[t].d \in Descriptors
           /\ InHand(t) = FirstPages(call[t].d, call[t].done)
           /\ InHand(t) \subseteq PagesOf(call[t].d.range)
<1>1. call[t].d \in Descriptors /\ call[t].done \in Nat /\ call[t].done <= call[t].d.pages
  BY DEF Typed, CallOK, Calls
<1>2. InHand(t) = FirstPages(call[t].d, call[t].done)
  BY DEF InHand, FirstPages
<1>3. QED
  BY <1>1, <1>2, Layout, Prefixes

\* Nobody else has a page of the range thread t works on.
LEMMA RangeIsMine ==
    ASSUME PagesInv, NEW t \in Busy, NEW p \in PagesOf(call[t].d.range)
    PROVE  ~ Elsewhere(t, p) /\ p \in Page
<1> DEFINE r == call[t].d.range
<1>1. r \in held
  BY DEF PagesInv, ReservationsOwned
<1>2. ASSUME NEW d \in Intact, p \in UsablePages(d) PROVE FALSE
  <2>1. d \in published /\ d.range \in held /\ d \in Descriptors /\ d \in published \ Stuck
    BY DEF Intact, PagesInv, ReservationsOwned, Typed
  <2>2. d.range # r
    <3> SUFFICES ASSUME d.range = r PROVE FALSE
      OBVIOUS
    <3>1. call[t].step = "unmap"
      BY <2>1 DEF PagesInv, ReservationsOwned
    <3>2. call[t].d \in published
      BY <3>1 DEF PagesInv, CallsApart
    <3>3. call[t].d = d
      BY <2>1, <3>2 DEF PagesInv, ReservationsOwned
    <3>4. QED
      BY <3>1, <3>3 DEF Intact, Released, Busy
  <2>3. PagesOf(d.range) \cap PagesOf(r) = {}
    BY <1>1, <2>1, <2>2, RangesApart DEF PagesInv
  <2>4. QED
    BY <1>2, <2>1, <2>3, Layout
<1>3. ASSUME NEW s \in Busy, s # t, p \in InHand(s) PROVE FALSE
  <2>1. call[s].d.range \in held /\ call[s].d.range # r
    BY <1>3 DEF PagesInv, ReservationsOwned, CallsApart
  <2>2. PagesOf(call[s].d.range) \cap PagesOf(r) = {}
    BY <1>1, <2>1, RangesApart DEF PagesInv
  <2>3. QED
    BY <1>3, <2>2, HandInRange DEF PagesInv
<1>4. p \in Page
  BY <1>1, RangeInRegion DEF PagesInv
<1>5. QED
  BY <1>2, <1>3, <1>4 DEF Elsewhere

-----------------------------------------------------------------------------
(***************************************************************************)
(* A step inside a call: the call goes on with the same descriptor, and    *)
(* neither the region nor the published descriptors change.                *)
(***************************************************************************)

Onward(t, c) ==
    /\ Go(t, c)
    /\ c \in Calls /\ c # Idle
    /\ c.d = call[t].d
    /\ c.step = "unmap" <=> call[t].step = "unmap"
    /\ c.done <= c.d.pages
    /\ c.step = "map" => c.frame # None
    /\ c.step = "allocate" => c.frame = None
    /\ c.step = "map" => c.done < c.d.pages
    /\ UNCHANGED <<vars, published>>

LEMMA OnwardCalls ==
    ASSUME PagesInv, NEW t \in Busy, NEW c, Onward(t, c)
    PROVE  /\ Busy' = Busy /\ t \in Thread /\ DOMAIN call' = Thread
           /\ call'[t] = c
           /\ \A s \in Busy : s # t => call'[s] = call[s]
           /\ Stuck' = Stuck /\ Intact' = Intact
<1>1. t \in Thread /\ DOMAIN call = Thread
  BY DEF Busy, PagesInv, Typed
<1>2. DOMAIN call' = Thread /\ call'[t] = c /\ \A s \in Thread : s # t => call'[s] = call[s]
  BY <1>1, GoPoint DEF Onward
<1>3. Busy' = Busy
  BY <1>1, <1>2 DEF Busy, Onward
<1>4. Stuck' = Stuck /\ published' = published
  BY DEF Stuck, Onward, vars
<1>5. \A d : Released(d)' <=> Released(d)
  BY <1>1, <1>2 DEF Released, Onward
<1>6. Intact' = Intact
  BY <1>4, <1>5 DEF Intact
<1>7. QED
  BY <1>1, <1>2, <1>3, <1>4, <1>6 DEF Busy

LEMMA OnwardKeeps ==
    ASSUME PagesInv, NEW t \in Busy, NEW c, Onward(t, c),
           mapped' \in [Page -> Frame \cup {None}], free' \subseteq Frame
    PROVE  IInv' /\ Typed' /\ CallsApart' /\ ReservationsOwned'
<1>1. /\ Busy' = Busy /\ DOMAIN call' = Thread /\ call'[t] = c
      /\ \A s \in Busy : s # t => call'[s] = call[s]
      /\ Stuck' = Stuck /\ published' = published /\ held' = held
  BY OnwardCalls DEF Onward, vars
<1>2. IInv'
  BY StepInvariant DEF Onward, PagesInv
<1>3. Typed'
  <2>1. \A s \in Busy : CallOK(s)'
    BY <1>1 DEF CallOK, Onward, PagesInv, Typed
  <2>2. QED
    BY <1>1, <2>1 DEF Typed, PagesInv
<1>4. \A s \in Busy : call'[s].d = call[s].d /\ (call'[s].step = "unmap" <=> call[s].step = "unmap")
  BY <1>1 DEF Onward
<1>5. CallsApart'
  BY <1>1, <1>4 DEF CallsApart, PagesInv
<1>6. ReservationsOwned'
  BY <1>1, <1>4 DEF ReservationsOwned, PagesInv
<1>7. QED
  BY <1>2, <1>3, <1>5, <1>6

\* What is claimed changes only by what the call itself has done.
LEMMA OnwardClaims ==
    ASSUME PagesInv, NEW t \in Busy, NEW c, Onward(t, c), NEW p
    PROVE  Claimed(p)' <=> Elsewhere(t, p) \/ p \in FirstPages(c.d, c.done)
<1>1. /\ Busy' = Busy /\ call'[t] = c /\ Intact' = Intact
      /\ \A s \in Busy : s # t => call'[s] = call[s]
  BY OnwardCalls
<1>2. InHand(t)' = FirstPages(c.d, c.done)
  BY <1>1 DEF InHand, FirstPages
<1>3. \A s \in Busy : s # t => InHand(s)' = InHand(s)
  BY <1>1 DEF InHand
<1>4. QED
  BY <1>1, <1>2, <1>3 DEF Claimed, Elsewhere

\* The frames in hand but for t's.
OthersHands(t) == {call[s].frame : s \in Holding \ {t}}

LEMMA OnwardHands ==
    ASSUME PagesInv, NEW t \in Busy, NEW c, Onward(t, c)
    PROVE  /\ c.frame = None => Hands' = OthersHands(t)
           /\ c.frame # None => Hands' = OthersHands(t) \cup {c.frame}
           /\ call[t].frame = None => Hands = OthersHands(t)
           /\ call[t].frame # None => /\ Hands = OthersHands(t) \cup {call[t].frame}
                                      /\ call[t].frame \notin OthersHands(t)
           /\ (c.frame # None => c.frame \notin OthersHands(t)) =>
                  (\A r, s \in Holding' : r # s => call'[r].frame # call'[s].frame)
<1>1. Busy' = Busy /\ call'[t] = c /\ \A s \in Busy : s # t => call'[s] = call[s]
  BY OnwardCalls
<1>2. Holding' = (Holding \ {t}) \cup (IF c.frame = None THEN {} ELSE {t})
  BY <1>1 DEF Holding
<1>3. /\ c.frame = None => Hands' = OthersHands(t)
      /\ c.frame # None => Hands' = OthersHands(t) \cup {c.frame}
  BY <1>1, <1>2 DEF Hands, OthersHands, Holding
<1>4. /\ call[t].frame = None => Hands = OthersHands(t)
      /\ call[t].frame # None => Hands = OthersHands(t) \cup {call[t].frame}
  BY DEF Hands, OthersHands, Holding
<1>5. call[t].frame # None => call[t].frame \notin OthersHands(t)
  BY DEF OthersHands, PagesInv, MappingsExact, Holding
<1>6. ASSUME c.frame # None => c.frame \notin OthersHands(t),
             NEW r \in Holding', NEW s \in Holding', r # s
      PROVE  call'[r].frame # call'[s].frame
  <2>1. r \in Busy /\ s \in Busy
    BY <1>1 DEF Holding
  <2>2. CASE r # t /\ s # t
    BY <1>1, <1>2, <1>6, <2>1, <2>2 DEF PagesInv, MappingsExact
  <2>3. CASE r = t \/ s = t
    BY <1>1, <1>2, <1>6, <2>1, <2>3 DEF OthersHands
  <2>4. QED
    BY <2>2, <2>3
<1>7. QED
  BY <1>3, <1>4, <1>5, <1>6

-----------------------------------------------------------------------------
(***************************************************************************)
(* The steps inside a call.                                                *)
(***************************************************************************)

LEMMA TakeFrameStep ==
    ASSUME PagesInv, NEW t \in Thread, TakeFrame(t)
    PROVE  PagesInv'
<1> DEFINE d == call[t].d
           k == call[t].done
<1>1. /\ t \in Busy /\ call[t] \in Calls /\ call[t].step = "allocate" /\ call[t].frame = None
      /\ d \in Descriptors /\ k \in Nat /\ k < d.pages /\ d.pages \in Nat
  <2>1. t \in Busy
    BY DEF TakeFrame, Busy, Idle
  <2>2. CallOK(t)
    BY <2>1 DEF PagesInv, Typed
  <2>3. QED
    BY <2>1, <2>2, Layout DEF CallOK, Calls, TakeFrame
<1>2. mapped' = mapped /\ mapped' \in [Page -> Frame \cup {None}] /\ UNCHANGED <<vars, published>>
  BY DEF TakeFrame, PagesInv, Typed
<1>3. \A p : Claimed(p) <=> Elsewhere(t, p) \/ p \in FirstPages(d, k)
  BY <1>1, ClaimedByOne
<1>4. CASE free = {}
  <2> DEFINE c == Working("undo", d, k, None)
  <2>1. Go(t, c) /\ free' = free
    BY <1>4 DEF TakeFrame
  <2>2. c.step = "undo" /\ c.d = d /\ c.done = k /\ c.frame = None /\ c # Idle
    BY WorkingFields DEF Steps
  <2>3. c \in Calls
    BY <1>1 DEF Working, Calls, Steps
  <2> HIDE DEF c
  <2>4. Onward(t, c)
    BY <1>1, <1>2, <2>1, <2>2, <2>3 DEF Onward
  <2>5. free' \subseteq Frame
    BY <2>1 DEF PagesInv, Typed
  <2>6. \A p : Claimed(p)' <=> Claimed(p)
    BY <1>1, <1>3, <2>2, <2>4, OnwardClaims
  <2>7. Hands' = Hands /\ \A r, s \in Holding' : r # s => call'[r].frame # call'[s].frame
    BY <1>1, <2>2, <2>4, OnwardHands
  <2>8. MappingsExact'
    BY <1>2, <2>1, <2>6, <2>7 DEF MappingsExact, PagesInv
  <2>9. QED
    BY <1>1, <1>2, <2>4, <2>5, <2>8, OnwardKeeps DEF PagesInv
<1>5. CASE free # {}
  <2>1. PICK f \in free : Go(t, Working("map", d, k, f)) /\ free' = free \ {f}
    BY <1>5 DEF TakeFrame
  <2> DEFINE c == Working("map", d, k, f)
  <2>2. c.step = "map" /\ c.d = d /\ c.done = k /\ c.frame = f /\ c # Idle
    BY WorkingFields DEF Steps
  <2>3. f \in Frame /\ f # None
    BY ShapesAssumption DEF PagesInv, Typed
  <2>4. c \in Calls
    BY <1>1, <2>3 DEF Working, Calls, Steps
  <2>5. Go(t, c)
    BY <2>1
  <2> HIDE DEF c
  <2>6. Onward(t, c)
    BY <1>1, <1>2, <2>2, <2>3, <2>4, <2>5 DEF Onward
  <2>7. free' \subseteq Frame
    BY <2>1 DEF PagesInv, Typed
  <2>8. \A p : Claimed(p)' <=> Claimed(p)
    BY <1>1, <1>3, <2>2, <2>6, OnwardClaims
  <2>9. Hands = OthersHands(t) /\ Hands' = Hands \cup {f}
    BY <1>1, <2>2, <2>3, <2>6, OnwardHands
  <2>10. f \notin Hands
    BY DEF PagesInv, MappingsExact
  <2>11. \A r, s \in Holding' : r # s => call'[r].frame # call'[s].frame
    BY <1>1, <2>2, <2>6, <2>9, <2>10, OnwardHands
  <2>12. MappingsExact'
    BY <1>2, <2>1, <2>8, <2>9, <2>10, <2>11 DEF MappingsExact, PagesInv
  <2>13. QED
    BY <1>1, <1>2, <2>6, <2>7, <2>12, OnwardKeeps DEF PagesInv
<1>6. QED
  BY <1>4, <1>5

\* A call that is given up: nothing changes but what it does next.
LEMMA GiveUpStep ==
    ASSUME PagesInv, NEW t \in Busy, NEW c, Onward(t, c),
           c.done = call[t].done, c.frame = call[t].frame, UNCHANGED <<mapped, free>>
    PROVE  PagesInv'
<1>1. mapped' \in [Page -> Frame \cup {None}] /\ free' \subseteq Frame
  BY DEF PagesInv, Typed
<1>2. \A p : Claimed(p)' <=> Claimed(p)
  BY OnwardClaims, ClaimedByOne DEF Onward
<1>3. Hands' = Hands /\ \A r, s \in Holding' : r # s => call'[r].frame # call'[s].frame
  BY OnwardHands
<1>4. MappingsExact'
  BY <1>2, <1>3 DEF MappingsExact, PagesInv
<1>5. QED
  BY <1>1, <1>4, OnwardKeeps DEF PagesInv

LEMMA FailureStep ==
    ASSUME PagesInv, NEW t \in Thread, MapFails(t) \/ ProtectFails(t)
    PROVE  PagesInv'
<1> DEFINE d == call[t].d
           k == call[t].done
           f == call[t].frame
           c == Working("undo", d, k, f)
<1>1. /\ t \in Busy /\ call[t] \in Calls /\ call[t].step \in {"map", "allocate"}
      /\ d \in Descriptors /\ k \in Nat /\ k <= d.pages /\ f \in Frame \cup {None}
      /\ ProtectFails(t) => f = None
  <2>1. t \in Busy
    BY DEF MapFails, ProtectFails, Busy, Idle
  <2>2. CallOK(t)
    BY <2>1 DEF PagesInv, Typed
  <2>3. QED
    BY <2>1, <2>2 DEF CallOK, Calls, MapFails, ProtectFails
<1>2. Go(t, c) /\ UNCHANGED <<vars, mapped, free, published>>
  BY <1>1 DEF MapFails, ProtectFails
<1>3. c.step = "undo" /\ c.d = d /\ c.done = k /\ c.frame = f /\ c # Idle
  BY WorkingFields DEF Steps
<1>4. c \in Calls
  BY <1>1 DEF Working, Calls, Steps
<1> HIDE DEF c
<1>5. Onward(t, c)
  BY <1>1, <1>2, <1>3, <1>4 DEF Onward
<1>6. QED
  BY <1>1, <1>2, <1>3, <1>5, GiveUpStep

LEMMA GiveBackStep ==
    ASSUME PagesInv, NEW t \in Thread, GiveBack(t)
    PROVE  PagesInv'
<1> DEFINE d == call[t].d
           k == call[t].done
           f == call[t].frame
           c == Working(call[t].step, d, k, None)
<1>1. /\ t \in Busy /\ call[t] \in Calls /\ call[t].step \in {"undo", "unmap"}
      /\ d \in Descriptors /\ k \in Nat /\ k <= d.pages /\ f # None /\ f \in Frame
  <2>1. t \in Busy
    BY DEF GiveBack, Busy, Idle
  <2>2. CallOK(t)
    BY <2>1 DEF PagesInv, Typed
  <2>3. QED
    BY <2>1, <2>2 DEF CallOK, Calls, GiveBack
<1>2. mapped' = mapped /\ mapped' \in [Page -> Frame \cup {None}] /\ UNCHANGED <<vars, published>>
  BY DEF GiveBack, PagesInv, Typed
<1>3. Go(t, c) /\ free' = free \cup {f}
  BY DEF GiveBack
<1>4. c.step = call[t].step /\ c.d = d /\ c.done = k /\ c.frame = None /\ c # Idle
  BY <1>1, WorkingFields DEF Steps
<1>5. c \in Calls
  BY <1>1 DEF Working, Calls, Steps
<1> HIDE DEF c
<1>6. Onward(t, c)
  BY <1>1, <1>2, <1>3, <1>4, <1>5 DEF Onward
<1>7. free' \subseteq Frame
  BY <1>1, <1>3 DEF PagesInv, Typed
<1>8. \A p : Claimed(p)' <=> Claimed(p)
  BY <1>1, <1>4, <1>6, OnwardClaims, ClaimedByOne
<1>9. /\ Hands = OthersHands(t) \cup {f} /\ f \notin OthersHands(t) /\ Hands' = OthersHands(t)
      /\ \A r, s \in Holding' : r # s => call'[r].frame # call'[s].frame
  BY <1>1, <1>4, <1>6, OnwardHands
<1>10. MappingsExact'
  BY <1>2, <1>3, <1>8, <1>9 DEF MappingsExact, PagesInv
<1>11. QED
  BY <1>1, <1>2, <1>6, <1>7, <1>10, OnwardKeeps DEF PagesInv

LEMMA MapPageStep ==
    ASSUME PagesInv, NEW t \in Thread, MapPage(t)
    PROVE  PagesInv'
<1> DEFINE d == call[t].d
           k == call[t].done
           f == call[t].frame
           page == NthPage(d, k + 1)
           c == Working("allocate", d, k + 1, None)
<1>1. /\ t \in Busy /\ call[t] \in Calls /\ call[t].step = "map"
      /\ d \in Descriptors /\ k \in Nat /\ k + 1 \in Nat /\ k + 1 <= d.pages /\ k + 1 > 0 /\ (k + 1) - 1 = k
      /\ f # None /\ f \in Frame
  <2>1. t \in Busy
    BY DEF MapPage, Busy, Idle
  <2>2. CallOK(t)
    BY <2>1 DEF PagesInv, Typed
  <2>3. QED
    BY <2>1, <2>2, Layout DEF CallOK, Calls, MapPage
<1>2. Go(t, c) /\ free' = free /\ mapped' = [mapped EXCEPT ![page] = f] /\ UNCHANGED <<vars, published>>
  BY DEF MapPage
<1>3. c.step = "allocate" /\ c.d = d /\ c.done = k + 1 /\ c.frame = None /\ c # Idle
  BY WorkingFields DEF Steps
<1>4. c \in Calls
  BY <1>1 DEF Working, Calls, Steps
<1>5. page \in UsablePages(d) /\ FirstPages(d, k + 1) = FirstPages(d, k) \cup {page} /\ page \notin FirstPages(d, k)
  BY <1>1, Prefixes
<1> HIDE DEF c, page
<1>6. Onward(t, c)
  BY <1>1, <1>2, <1>3, <1>4 DEF Onward
<1>7. page \in Page /\ ~ Elsewhere(t, page)
  BY <1>1, <1>5, Layout, RangeIsMine
<1>8. /\ mapped \in [Page -> Frame \cup {None}] /\ mapped' \in [Page -> Frame \cup {None}]
      /\ mapped'[page] = f /\ \A p \in Page : p # page => mapped'[p] = mapped[p]
  BY <1>1, <1>2, <1>7 DEF PagesInv, Typed
<1>9. mapped[page] = None
  BY DEF MapPage, page
<1>10. free' \subseteq Frame
  BY <1>2 DEF PagesInv, Typed
<1>11. \A p : Claimed(p)' <=> Claimed(p) \/ p = page
  BY <1>1, <1>3, <1>5, <1>6, OnwardClaims, ClaimedByOne
<1>12. /\ Hands = OthersHands(t) \cup {f} /\ f \notin OthersHands(t) /\ Hands' = OthersHands(t)
       /\ \A r, s \in Holding' : r # s => call'[r].frame # call'[s].frame
  BY <1>1, <1>3, <1>6, OnwardHands
<1>13. MappingsExact'
  <2>1. \A p \in Page : mapped'[p] # None <=> Claimed(p)'
    BY <1>1, <1>7, <1>8, <1>11 DEF PagesInv, MappingsExact
  <2>2. \A p \in Page : mapped[p] # f
    BY <1>12 DEF PagesInv, MappingsExact
  <2>3. \A p, q \in Page : mapped'[p] # None /\ p # q => mapped'[p] # mapped'[q]
    BY <1>1, <1>8, <2>2 DEF PagesInv, MappingsExact
  <2>4. \A p \in Page : mapped'[p] \notin free' \cup Hands'
    BY <1>2, <1>8, <1>12 DEF PagesInv, MappingsExact
  <2>5. \A g \in Frame : g \in free' \/ g \in Hands' \/ \E p \in Page : mapped'[p] = g
    <3> TAKE g \in Frame
    <3>1. CASE g = f
      BY <1>7, <1>8, <3>1
    <3>2. CASE g # f /\ \E p \in Page : mapped[p] = g
      <4>1. PICK p \in Page : mapped[p] = g
        BY <3>2
      <4>2. g # None
        BY ShapesAssumption
      <4>3. p # page
        BY <1>9, <4>1, <4>2
      <4>4. QED
        BY <1>8, <4>1, <4>3
    <3>3. CASE g # f /\ (g \in free \/ g \in Hands)
      BY <1>2, <1>12, <3>3
    <3>4. QED
      BY <3>1, <3>2, <3>3 DEF PagesInv, MappingsExact
  <2>6. free' \cap Hands' = {}
    BY <1>2, <1>12 DEF PagesInv, MappingsExact
  <2>7. QED
    BY <1>12, <2>1, <2>3, <2>4, <2>5, <2>6 DEF MappingsExact
<1>14. QED
  BY <1>1, <1>6, <1>8, <1>10, <1>13, OnwardKeeps DEF PagesInv

\* Undo and Unmap
LEMMA UnmapLastStep ==
    ASSUME PagesInv, NEW t \in Thread, call[t].step \in {"undo", "unmap"}, UnmapLast(t)
    PROVE  PagesInv'
<1> DEFINE d == call[t].d
           k == call[t].done
           page == NthPage(d, k)
           f == mapped[page]
           c == Working(call[t].step, d, k - 1, f)
<1>1. /\ t \in Busy /\ call[t] \in Calls /\ call[t].frame = None
      /\ d \in Descriptors /\ k \in Nat /\ k - 1 \in Nat /\ k <= d.pages /\ k - 1 <= d.pages /\ k > 0
  <2>1. t \in Busy
    BY DEF Busy, Idle
  <2>2. CallOK(t)
    BY <2>1 DEF PagesInv, Typed
  <2>3. QED
    BY <2>1, <2>2, Layout DEF CallOK, Calls, UnmapLast
<1>2. /\ Go(t, c) /\ free' = free /\ mapped' = [mapped EXCEPT ![page] = None] /\ f # None
      /\ UNCHANGED <<vars, published>>
  BY DEF UnmapLast
<1>3. c.step = call[t].step /\ c.d = d /\ c.done = k - 1 /\ c.frame = f /\ c # Idle
  BY WorkingFields DEF Steps
<1>4. page \in Page /\ ~ Elsewhere(t, page) /\ f \in Frame
  <2>1. page \in UsablePages(d)
    BY <1>1, Prefixes
  <2>2. page \in Page /\ ~ Elsewhere(t, page)
    BY <1>1, <2>1, Layout, RangeIsMine
  <2>3. QED
    BY <1>2, <2>2 DEF PagesInv, Typed
<1>5. c \in Calls
  BY <1>1, <1>4 DEF Working, Calls, Steps
<1>6. page \in UsablePages(d) /\ FirstPages(d, k) = FirstPages(d, k - 1) \cup {page} /\ page \notin FirstPages(d, k - 1)
  BY <1>1, Prefixes
<1> HIDE DEF c, page
<1>7. Onward(t, c)
  BY <1>1, <1>2, <1>3, <1>5 DEF Onward
<1>8. /\ mapped \in [Page -> Frame \cup {None}] /\ mapped' \in [Page -> Frame \cup {None}]
      /\ mapped'[page] = None /\ \A p \in Page : p # page => mapped'[p] = mapped[p]
  BY <1>1, <1>2, <1>4 DEF PagesInv, Typed
<1>9. free' \subseteq Frame
  BY <1>2 DEF PagesInv, Typed
<1>10. \A p : Claimed(p)' <=> Claimed(p) /\ p # page
  BY <1>1, <1>3, <1>4, <1>6, <1>7, OnwardClaims, ClaimedByOne
<1>11. f \notin Hands /\ f \notin free
  BY <1>4 DEF PagesInv, MappingsExact
<1>12. /\ Hands' = Hands \cup {f}
       /\ \A r, s \in Holding' : r # s => call'[r].frame # call'[s].frame
  BY <1>1, <1>2, <1>3, <1>7, <1>11, OnwardHands
<1>13. MappingsExact'
  <2>1. \A p \in Page : mapped'[p] # None <=> Claimed(p)'
    BY <1>8, <1>10 DEF PagesInv, MappingsExact
  <2>2. \A p, q \in Page : mapped'[p] # None /\ p # q => mapped'[p] # mapped'[q]
    BY <1>8 DEF PagesInv, MappingsExact
  <2>3. \A p \in Page : mapped'[p] \notin free' \cup Hands'
    <3> TAKE p \in Page
    <3>1. CASE p = page
      <4>1. None \notin Hands /\ None \notin free' /\ f # None
        BY <1>2, <1>9, ShapesAssumption DEF Hands, Holding
      <4>2. QED
        BY <1>8, <1>12, <3>1, <4>1
    <3>2. CASE p # page
      <4>1. mapped'[p] # f
        BY <1>2, <1>4, <1>8, <3>2 DEF PagesInv, MappingsExact
      <4>2. QED
        BY <1>2, <1>8, <1>12, <3>2, <4>1 DEF PagesInv, MappingsExact
    <3>3. QED
      BY <3>1, <3>2
  <2>4. \A g \in Frame : g \in free' \/ g \in Hands' \/ \E p \in Page : mapped'[p] = g
    BY <1>2, <1>8, <1>12 DEF PagesInv, MappingsExact
  <2>5. free' \cap Hands' = {}
    BY <1>2, <1>11, <1>12 DEF PagesInv, MappingsExact
  <2>6. QED
    BY <1>12, <2>1, <2>2, <2>3, <2>4, <2>5 DEF MappingsExact
<1>14. QED
  BY <1>1, <1>7, <1>8, <1>9, <1>13, OnwardKeeps DEF PagesInv

-----------------------------------------------------------------------------
(***************************************************************************)
(* The steps that begin and end a call.                                    *)
(***************************************************************************)

\* Nobody's mappings change when the same pages are claimed as before and the
\* frames in hand are the same.
LEMMA MappingsKept ==
    ASSUME MappingsExact, UNCHANGED <<mapped, free>>,
           \A p : Claimed(p)' <=> Claimed(p),
           Holding' = Holding, \A s \in Holding : call'[s].frame = call[s].frame
    PROVE  MappingsExact'
<1>1. Hands' = Hands
  BY DEF Hands
<1>2. \A s, t \in Holding' : s # t => call'[s].frame # call'[t].frame
  BY DEF MappingsExact
<1>3. QED
  BY <1>1, <1>2 DEF MappingsExact

LEMMA FinishAllocateStep ==
    ASSUME PagesInv, NEW t \in Thread, FinishAllocate(t)
    PROVE  PagesInv'
<1> DEFINE d == call[t].d
<1>1. /\ t \in Busy /\ call[t] \in Calls /\ call[t].step = "allocate" /\ call[t].frame = None
      /\ d \in Descriptors /\ call[t].done = d.pages /\ DOMAIN call = Thread
  <2>1. t \in Busy
    BY DEF FinishAllocate, Busy, Idle
  <2>2. CallOK(t)
    BY <2>1 DEF PagesInv, Typed
  <2>3. QED
    BY <2>1, <2>2 DEF CallOK, Calls, FinishAllocate, PagesInv, Typed
<1>2. Go(t, Idle) /\ published' = published \cup {d} /\ UNCHANGED <<vars, mapped, free>>
  BY DEF FinishAllocate
<1>3. DOMAIN call' = Thread /\ call'[t] = Idle /\ \A s \in Thread : s # t => call'[s] = call[s]
  BY <1>1, <1>2, GoPoint
<1>4. Busy' = Busy \ {t} /\ Busy \subseteq Thread
  BY <1>3 DEF Busy
<1>5. held' = held /\ lost' = lost /\ d.range \in held /\ held \cap lost = {}
  BY <1>1, <1>2 DEF vars, PagesInv, ReservationsOwned, IInv
<1>6. \A e \in published : e.range # d.range
  BY <1>1 DEF PagesInv, ReservationsOwned
<1>7. Stuck' = Stuck /\ d \notin Stuck
  BY <1>2, <1>5 DEF Stuck
<1>8. IInv'
  BY <1>2, StepInvariant DEF PagesInv
<1>9. Typed'
  <2>1. \A s \in Busy' : CallOK(s)'
    BY <1>3, <1>4 DEF CallOK, PagesInv, Typed
  <2>2. QED
    BY <1>1, <1>2, <1>3, <2>1 DEF Typed, PagesInv
<1>10. CallsApart'
  BY <1>2, <1>3, <1>4, <1>7 DEF CallsApart, PagesInv
<1>11. ReservationsOwned'
  <2>1. held' = {e.range : e \in published' \ Stuck'} \cup {call'[s].d.range : s \in Busy'}
    <3>1. held = {e.range : e \in published \ Stuck} \cup {call[s].d.range : s \in Busy}
      BY DEF PagesInv, ReservationsOwned
    <3>2. published' \ Stuck' = (published \ Stuck) \cup {d}
      BY <1>2, <1>7
    <3>3. {call'[s].d.range : s \in Busy'} = {call[s].d.range : s \in Busy \ {t}}
      BY <1>3, <1>4
    <3>4. {call[s].d.range : s \in Busy} = {call[s].d.range : s \in Busy \ {t}} \cup {d.range}
      BY <1>1
    <3>5. QED
      BY <1>5, <3>1, <3>2, <3>3, <3>4
  <2>2. \A e, g \in published' : e.range = g.range => e = g
    BY <1>2, <1>6 DEF PagesInv, ReservationsOwned
  <2>3. ASSUME NEW s \in Busy', NEW e \in published', call'[s].d.range = e.range
        PROVE  call'[s].step = "unmap"
    <3>1. s \in Busy /\ s # t /\ call'[s] = call[s]
      BY <1>3, <1>4
    <3>2. call[s].d.range # d.range
      BY <1>1, <3>1 DEF PagesInv, CallsApart
    <3>3. QED
      BY <1>2, <2>3, <3>1, <3>2 DEF PagesInv, ReservationsOwned
  <2>4. QED
    BY <2>1, <2>2, <2>3 DEF ReservationsOwned
<1>12. Intact' = Intact \cup {d}
  <2>1. \A e : Released(e)' <=> Released(e)
    BY <1>1, <1>3, <1>4 DEF Released, Idle
  <2>2. ~ Released(d)
    <3>1. ASSUME NEW s \in Thread, call[s].step = "unmap", call[s].d = d PROVE FALSE
      <4>1. s \in Busy /\ s # t
        BY <1>1, <3>1 DEF Busy, Idle
      <4>2. QED
        BY <1>1, <3>1, <4>1 DEF PagesInv, CallsApart
    <3>2. QED
      BY <3>1 DEF Released
  <2>3. QED
    BY <1>2, <1>7, <2>1, <2>2 DEF Intact
<1>13. \A p : Claimed(p)' <=> Claimed(p)
  <2> TAKE p
  <2>1. Claimed(p) <=> Elsewhere(t, p) \/ p \in UsablePages(d)
    <3>1. d.pages \in Nat
      BY <1>1, Layout
    <3>2. FirstPages(d, d.pages) = UsablePages(d)
      BY <1>1, <3>1, Prefixes
    <3>3. QED
      BY <1>1, <3>2, ClaimedByOne
  <2>2. \A s \in Busy' : InHand(s)' = InHand(s)
    BY <1>3, <1>4 DEF InHand
  <2>3. QED
    BY <1>4, <1>12, <2>1, <2>2 DEF Claimed, Elsewhere
<1>14. Holding' = Holding /\ \A s \in Holding : call'[s] = call[s]
  BY <1>1, <1>3, <1>4 DEF Holding
<1>15. MappingsExact'
  BY <1>2, <1>13, <1>14, MappingsKept DEF PagesInv
<1>16. QED
  BY <1>8, <1>9, <1>10, <1>11, <1>15 DEF PagesInv

LEMMA BeginReleaseStep ==
    ASSUME PagesInv, NEW t \in Thread, NEW d \in published, BeginRelease(t, d)
    PROVE  PagesInv'
<1> DEFINE c == Working("unmap", d, d.pages, None)
<1>1. /\ call[t] = Idle /\ t \notin Busy /\ d \in Descriptors /\ d.pages \in Nat /\ DOMAIN call = Thread
      /\ ~ Released(d) /\ Go(t, c) /\ UNCHANGED <<vars, mapped, free, published>>
  BY Layout DEF BeginRelease, Busy, PagesInv, Typed
<1>2. c.step = "unmap" /\ c.d = d /\ c.done = d.pages /\ c.frame = None /\ c # Idle
  BY WorkingFields DEF Steps
<1>3. c \in Calls
  BY <1>1 DEF Working, Calls, Steps
<1> HIDE DEF c
<1>4. DOMAIN call' = Thread /\ call'[t] = c /\ \A s \in Thread : s # t => call'[s] = call[s]
  BY <1>1, GoPoint
<1>5. Busy' = Busy \cup {t} /\ Busy \subseteq Thread
  BY <1>2, <1>4 DEF Busy
<1>6. Stuck' = Stuck /\ held' = held /\ published' = published
  BY <1>1 DEF Stuck, vars
\* A stuck descriptor has no pages left, so the call validates it in vain.
<1>7. d \notin Stuck
  <2> SUFFICES ASSUME d \in Stuck PROVE FALSE
    OBVIOUS
  <2>1. d.range \in lost /\ d.first \in UsablePages(d) /\ d.first \in PagesOf(d.range)
    BY <1>1, Layout DEF Stuck
  <2>2. d.first \in Page
    BY <2>1 DEF PagesInv, IInv, RegionPartitioned, Reserved
  <2>3. Claimed(d.first)
    BY <2>1, <2>2 DEF BeginRelease, Valid, PagesInv, MappingsExact
  <2>4. ASSUME NEW e \in Intact, d.first \in UsablePages(e) PROVE FALSE
    <3>1. e.range \in held /\ e \in Descriptors
      BY DEF Intact, PagesInv, ReservationsOwned, Typed
    <3>2. PagesOf(e.range) \cap PagesOf(d.range) = {}
      BY <2>1, <3>1, RangesApart DEF PagesInv, IInv
    <3>3. QED
      BY <2>1, <2>4, <3>1, <3>2, Layout
  <2>5. ASSUME NEW s \in Busy, d.first \in InHand(s) PROVE FALSE
    <3>1. call[s].d.range \in held
      BY DEF PagesInv, ReservationsOwned
    <3>2. PagesOf(call[s].d.range) \cap PagesOf(d.range) = {}
      BY <2>1, <3>1, RangesApart DEF PagesInv, IInv
    <3>3. QED
      BY <2>1, <2>5, <3>2, HandInRange DEF PagesInv
  <2>6. QED
    BY <2>3, <2>4, <2>5 DEF Claimed
<1>8. d.range \in held
  BY <1>7 DEF PagesInv, ReservationsOwned
<1>9. \A s \in Busy : call[s].d.range # d.range
  <2> SUFFICES ASSUME NEW s \in Busy, call[s].d.range = d.range PROVE FALSE
    OBVIOUS
  <2>1. call[s].step = "unmap"
    BY DEF PagesInv, ReservationsOwned
  <2>2. call[s].d = d
    BY <2>1 DEF PagesInv, CallsApart, ReservationsOwned
  <2>3. QED
    BY <1>1, <2>1, <2>2 DEF Released, Busy
<1>10. IInv'
  BY <1>1, StepInvariant DEF PagesInv
<1>11. Typed'
  <2>1. ASSUME NEW s \in Busy' PROVE CallOK(s)'
    <3>1. CASE s = t
      BY <1>2, <1>3, <1>4, <1>1, <3>1 DEF CallOK
    <3>2. CASE s # t
      BY <1>4, <1>5, <3>2 DEF CallOK, PagesInv, Typed
    <3>3. QED
      BY <3>1, <3>2
  <2>2. QED
    BY <1>1, <1>4, <2>1 DEF Typed, PagesInv
<1>12. CallsApart'
  BY <1>1, <1>2, <1>4, <1>5, <1>6, <1>7, <1>9 DEF CallsApart, PagesInv
<1>13. ReservationsOwned'
  <2>1. {call'[s].d.range : s \in Busy'} = {call[s].d.range : s \in Busy} \cup {d.range}
    BY <1>1, <1>2, <1>4, <1>5
  <2>2. held' = {e.range : e \in published' \ Stuck'} \cup {call'[s].d.range : s \in Busy'}
    BY <1>6, <1>8, <2>1 DEF PagesInv, ReservationsOwned
  <2>3. \A e, g \in published' : e.range = g.range => e = g
    BY <1>6 DEF PagesInv, ReservationsOwned
  <2>4. \A s \in Busy' : \A e \in published' : call'[s].d.range = e.range => call'[s].step = "unmap"
    BY <1>1, <1>2, <1>4, <1>5, <1>6 DEF PagesInv, ReservationsOwned
  <2>5. QED
    BY <2>2, <2>3, <2>4 DEF ReservationsOwned
<1>14. Intact' = Intact \ {d} /\ d \in Intact
  <2>1. \A e : Released(e)' <=> Released(e) \/ e = d
    BY <1>1, <1>2, <1>4 DEF Released, Idle
  <2>2. QED
    BY <1>1, <1>6, <1>7, <2>1 DEF Intact
<1>15. \A p : Claimed(p)' <=> Claimed(p)
  <2> TAKE p
  <2>1. InHand(t)' = UsablePages(d)
    BY <1>2, <1>4 DEF InHand, UsablePages
  <2>2. \A s \in Busy : InHand(s)' = InHand(s)
    BY <1>1, <1>4, <1>5 DEF InHand
  <2>3. QED
    BY <1>5, <1>14, <2>1, <2>2 DEF Claimed
<1>16. Holding' = Holding /\ \A s \in Holding : call'[s] = call[s]
  BY <1>1, <1>2, <1>4, <1>5 DEF Holding
<1>17. MappingsExact'
  BY <1>1, <1>15, <1>16, MappingsKept DEF PagesInv
<1>18. QED
  BY <1>10, <1>11, <1>12, <1>13, <1>17 DEF PagesInv

\* A call that has nothing left mapped ends: what is true of both FinishUndo and
\* FinishRelease.
LEMMA FinishCalls ==
    ASSUME PagesInv, NEW t \in Thread, call[t].step \in {"undo", "unmap"}, call[t].done = 0, call[t].frame = None,
           Go(t, Idle), UNCHANGED <<mapped, free>>,
           Release(call[t].d.range), published' \subseteq published, Intact' = Intact
    PROVE  /\ t \in Busy
           /\ Busy' = Busy \ {t}
           /\ \A s \in Thread : s # t => call'[s] = call[s]
           /\ call'[t] = Idle
           /\ held' = held \ {call[t].d.range}
           /\ lost' = (IF refused' THEN lost \cup {call[t].d.range} ELSE lost)
           /\ IInv' /\ Typed' /\ MappingsExact'
<1> DEFINE d == call[t].d
<1>1. /\ t \in Busy /\ call[t] \in Calls /\ call[t].frame = None
      /\ d \in Descriptors /\ DOMAIN call = Thread
  <2>1. t \in Busy
    BY DEF Busy, Idle
  <2>2. CallOK(t)
    BY <2>1 DEF PagesInv, Typed
  <2>3. QED
    BY <2>1, <2>2 DEF CallOK, Calls, PagesInv, Typed
<1>2. DOMAIN call' = Thread /\ call'[t] = Idle /\ \A s \in Thread : s # t => call'[s] = call[s]
  BY <1>1, GoPoint
<1>3. Busy' = Busy \ {t} /\ Busy \subseteq Thread
  BY <1>2 DEF Busy
<1>4. held' = held \ {d.range} /\ d.range \in held
      /\ lost' = (IF refused' THEN lost \cup {d.range} ELSE lost)
  BY DEF Release
<1>5. IInv'
  BY <1>4, StepInvariant DEF PagesInv, Next
<1>6. Typed'
  <2>1. \A s \in Busy' : CallOK(s)'
    BY <1>2, <1>3 DEF CallOK, PagesInv, Typed
  <2>2. QED
    BY <1>2, <2>1 DEF Typed, PagesInv
<1>7. \A p : Claimed(p)' <=> Claimed(p)
  <2> TAKE p
  <2>1. p \notin InHand(t)
    <3>1. d.pages \in Nat
      BY <1>1, Layout
    <3>2. FirstPages(d, 0) = {}
      BY <1>1, <3>1, Prefixes
    <3>3. QED
      BY <3>2 DEF InHand, FirstPages
  <2>2. \A s \in Busy' : InHand(s)' = InHand(s)
    BY <1>2, <1>3 DEF InHand
  <2>3. QED
    BY <1>3, <2>1, <2>2 DEF Claimed
<1>8. Holding' = Holding /\ \A s \in Holding : call'[s] = call[s]
  BY <1>1, <1>2, <1>3 DEF Holding
<1>9. MappingsExact'
  BY <1>7, <1>8, MappingsKept DEF PagesInv
<1>10. QED
  BY <1>1, <1>2, <1>3, <1>4, <1>5, <1>6, <1>9

LEMMA FinishUndoStep ==
    ASSUME PagesInv, NEW t \in Thread, FinishUndo(t)
    PROVE  PagesInv'
<1> DEFINE d == call[t].d
<1>1. /\ call[t].step = "undo" /\ call[t].done = 0 /\ call[t].frame = None /\ Release(d.range) /\ Go(t, Idle)
      /\ UNCHANGED <<mapped, free, published>>
  BY DEF FinishUndo
<1>2. t \in Busy /\ DOMAIN call = Thread
  BY <1>1 DEF Busy, Idle, PagesInv, Typed
<1>3. \A e \in published : e.range # d.range
  BY <1>1, <1>2 DEF PagesInv, ReservationsOwned
<1>4. held' = held \ {d.range} /\ lost' \subseteq lost \cup {d.range} /\ lost \subseteq lost'
  BY <1>1 DEF Release
<1>5. Stuck' = Stuck
  BY <1>1, <1>3, <1>4 DEF Stuck
<1>6. Intact' = Intact
  <2>1. call'[t] = Idle /\ \A s \in Thread : s # t => call'[s] = call[s]
    BY <1>1, <1>2, GoPoint
  <2>2. \A e : Released(e)' <=> Released(e)
    BY <1>1, <2>1 DEF Released, Idle
  <2>3. QED
    BY <1>1, <1>5, <2>2 DEF Intact
<1>7. /\ Busy' = Busy \ {t} /\ \A s \in Thread : s # t => call'[s] = call[s]
      /\ IInv' /\ Typed' /\ MappingsExact' /\ Busy \subseteq Thread
  BY <1>1, <1>6, FinishCalls DEF Busy
<1>8. CallsApart'
  BY <1>1, <1>5, <1>7 DEF CallsApart, PagesInv
<1>9. ReservationsOwned'
  <2>1. \A s \in Busy' : call'[s] = call[s] /\ call[s].d.range # d.range
    BY <1>2, <1>7 DEF PagesInv, CallsApart
  <2>2. {call[s].d.range : s \in Busy} \ {d.range} = {call'[s].d.range : s \in Busy'}
    BY <1>2, <1>7, <2>1
  <2>3. {e.range : e \in published \ Stuck} \ {d.range} = {e.range : e \in published' \ Stuck'}
    BY <1>1, <1>3, <1>5
  <2>4. held' = {e.range : e \in published' \ Stuck'} \cup {call'[s].d.range : s \in Busy'}
    BY <1>4, <2>2, <2>3 DEF PagesInv, ReservationsOwned
  <2>5. QED
    BY <1>1, <1>7, <2>1, <2>4 DEF PagesInv, ReservationsOwned
<1>10. QED
  BY <1>7, <1>8, <1>9 DEF PagesInv

LEMMA FinishReleaseStep ==
    ASSUME PagesInv, NEW t \in Thread, FinishRelease(t)
    PROVE  PagesInv'
<1> DEFINE d == call[t].d
<1>1. /\ call[t].step = "unmap" /\ call[t].done = 0 /\ call[t].frame = None /\ Release(d.range) /\ Go(t, Idle)
      /\ UNCHANGED <<mapped, free>>
      /\ published' = IF refused' THEN published ELSE published \ {d}
  BY DEF FinishRelease
<1>2. t \in Busy /\ DOMAIN call = Thread
  BY <1>1 DEF Busy, Idle, PagesInv, Typed
<1>3. d \in published /\ d \notin Stuck /\ d.range \notin lost /\ \A e \in published : e # d => e.range # d.range
  BY <1>1, <1>2 DEF PagesInv, CallsApart, ReservationsOwned, Stuck
<1>4. held' = held \ {d.range} /\ lost' = IF refused' THEN lost \cup {d.range} ELSE lost
  BY <1>1 DEF Release
<1>5. published' \ Stuck' = (published \ Stuck) \ {d} /\ published' \subseteq published
  BY <1>1, <1>3, <1>4 DEF Stuck
<1>6. call'[t] = Idle /\ \A s \in Thread : s # t => call'[s] = call[s]
  BY <1>1, <1>2, GoPoint
<1>7. Intact' = Intact
  <2>1. \A e : e # d => (Released(e)' <=> Released(e))
    BY <1>1, <1>6 DEF Released, Idle
  <2>2. Released(d)
    BY <1>1 DEF Released
  <2>3. QED
    BY <1>5, <2>1, <2>2 DEF Intact
<1>8. /\ Busy' = Busy \ {t} /\ IInv' /\ Typed' /\ MappingsExact' /\ Busy \subseteq Thread
  BY <1>1, <1>5, <1>7, FinishCalls DEF Busy
<1>9. \A s \in Busy' : call'[s] = call[s] /\ call[s].d.range # d.range
  BY <1>2, <1>6, <1>8 DEF PagesInv, CallsApart
<1>10. CallsApart'
  BY <1>5, <1>8, <1>9 DEF CallsApart, PagesInv
<1>11. ReservationsOwned'
  <2>1. {call[s].d.range : s \in Busy} \ {d.range} = {call'[s].d.range : s \in Busy'}
    BY <1>2, <1>8, <1>9
  <2>2. {e.range : e \in published \ Stuck} \ {d.range} = {e.range : e \in published' \ Stuck'}
    BY <1>3, <1>5
  <2>3. held' = {e.range : e \in published' \ Stuck'} \cup {call'[s].d.range : s \in Busy'}
    BY <1>4, <2>1, <2>2 DEF PagesInv, ReservationsOwned
  <2>4. QED
    BY <1>5, <1>8, <1>9, <2>3 DEF PagesInv, ReservationsOwned
<1>12. QED
  BY <1>8, <1>10, <1>11 DEF PagesInv

\* A request that is granted adds one range of the size asked for.
LEMMA ReserveGrants ==
    ASSUME NEW pages, NEW alignment, Reserve(pages, alignment), NEW range \in held' \ held
    PROVE  held' = held \cup {range} /\ range.pages = pages
<1>1. PICK i \in Fits(pages, alignment) :
         held' = held \cup {[start |-> free_extents[i].start + Prefix(i, alignment), pages |-> pages]}
  BY DEF Reserve, Refuse
<1>2. QED
  BY <1>1

LEMMA ReserveKeepsLost ==
    ASSUME NEW pages, NEW alignment, Reserve(pages, alignment)
    PROVE  lost' = lost
BY DEF Reserve, Refuse

LEMMA BeginAllocateStep ==
    ASSUME PagesInv, NEW t \in Thread, NEW s \in Shapes, BeginAllocate(t, s)
    PROVE  PagesInv'
<1> DEFINE size == s.before + s.pages + s.after
<1>1. /\ call[t] = Idle /\ t \notin Busy /\ DOMAIN call = Thread /\ Reserve(size, s.alignment)
      /\ UNCHANGED <<mapped, free, published>>
  BY DEF BeginAllocate, Busy, PagesInv, Typed
<1>2. lost' = lost /\ Stuck' = Stuck
  BY <1>1, ReserveKeepsLost DEF Stuck
<1>3. IInv'
  BY <1>1, ShapeSize, StepInvariant DEF PagesInv, Next
<1>4. CASE held' = held
  <2>1. call' = call
    BY <1>4 DEF BeginAllocate
  <2>2. Busy' = Busy /\ Intact' = Intact
    BY <1>1, <1>2, <2>1 DEF Busy, Intact, Released
  <2>3. Typed' /\ CallsApart' /\ ReservationsOwned'
    BY <1>1, <1>2, <1>4, <2>1, <2>2 DEF PagesInv, Typed, CallOK, CallsApart, ReservationsOwned
  <2>4. \A p : Claimed(p)' <=> Claimed(p)
    BY <2>1, <2>2 DEF Claimed, InHand
  <2>5. MappingsExact'
    BY <1>1, <2>1, <2>2, <2>4, MappingsKept DEF PagesInv, Holding
  <2>6. QED
    BY <1>3, <2>3, <2>5 DEF PagesInv
<1>5. CASE held' # held
  <2>1. PICK range \in held' \ held : Go(t, Working("allocate", Descriptor(range, s), 0, None))
    BY <1>1, <1>5 DEF BeginAllocate
  <2> DEFINE d == Descriptor(range, s)
             c == Working("allocate", d, 0, None)
  <2>2. held' = held \cup {range} /\ range.pages = size
    BY <1>1, ReserveGrants
  <2>3. range \in Extent /\ range \notin lost
    BY <1>2, <1>3 DEF IInv
  <2>4. d \in Descriptors /\ d.range = range /\ d.pages \in Nat
    <3>1. range.start \in Nat /\ s.before \in Nat /\ s.pages \in Nat \ {0} /\ s.after \in Nat
      BY <2>3, ExtentType, ShapeSize
    <3>2. End(range) = range.start + size
      BY <2>2 DEF End
    <3>3. range.start <= range.start + s.before /\ (range.start + s.before) + s.pages <= End(range)
      BY <3>1, <3>2
    <3>4. range.start + s.before \in Nat
      BY <3>1
    <3>5. QED
      BY <2>3, <3>1, <3>3, <3>4 DEF Descriptor, Descriptors
  <2>5. c.step = "allocate" /\ c.d = d /\ c.done = 0 /\ c.frame = None /\ c # Idle
    BY WorkingFields DEF Steps
  <2> HIDE DEF d
  <2>6. c \in Calls
    BY <2>4 DEF Working, Calls, Steps
  <2>7. Go(t, c)
    BY <2>1 DEF d
  <2> HIDE DEF c
  <2>8. DOMAIN call' = Thread /\ call'[t] = c /\ \A r \in Thread : r # t => call'[r] = call[r]
    BY <1>1, <2>7, GoPoint
  <2>9. Busy' = Busy \cup {t} /\ Busy \subseteq Thread
    BY <2>5, <2>8 DEF Busy
  \* No descriptor has the new range: the reserved ones are apart from it, and so
  \* are the lost ones.
  <2>10. \A e \in published : e.range # range
    BY <2>3 DEF PagesInv, ReservationsOwned, Stuck
  <2>11. \A r \in Busy : call[r].d.range # range
    BY DEF PagesInv, ReservationsOwned
  <2>12. Typed'
    <3>1. ASSUME NEW r \in Busy' PROVE CallOK(r)'
      <4>1. CASE r = t
        BY <2>4, <2>5, <2>6, <2>8, <4>1 DEF CallOK
      <4>2. CASE r # t
        BY <2>8, <2>9, <4>2 DEF CallOK, PagesInv, Typed
      <4>3. QED
        BY <4>1, <4>2
    <3>2. QED
      BY <1>1, <2>8, <3>1 DEF Typed, PagesInv
  <2>13. CallsApart'
    BY <1>1, <1>2, <2>4, <2>5, <2>8, <2>9, <2>11 DEF CallsApart, PagesInv
  <2>14. ReservationsOwned'
    <3>1. {call'[r].d.range : r \in Busy'} = {call[r].d.range : r \in Busy} \cup {range}
      BY <1>1, <2>4, <2>5, <2>8, <2>9
    <3>2. held' = {e.range : e \in published' \ Stuck'} \cup {call'[r].d.range : r \in Busy'}
      BY <1>1, <1>2, <2>2, <3>1 DEF PagesInv, ReservationsOwned
    <3>3. \A r \in Busy' : \A e \in published' : call'[r].d.range = e.range => call'[r].step = "unmap"
      BY <1>1, <2>4, <2>5, <2>8, <2>9, <2>10 DEF PagesInv, ReservationsOwned
    <3>4. QED
      BY <1>1, <3>2, <3>3 DEF PagesInv, ReservationsOwned
  <2>15. Intact' = Intact
    <3>1. \A e : Released(e)' <=> Released(e)
      BY <1>1, <2>5, <2>8 DEF Released, Idle
    <3>2. QED
      BY <1>1, <1>2, <3>1 DEF Intact
  <2>16. \A p : Claimed(p)' <=> Claimed(p)
    <3> TAKE p
    <3>1. InHand(t)' = {}
      <4>1. InHand(t)' = FirstPages(d, 0)
        BY <2>5, <2>8 DEF InHand, FirstPages
      <4>2. QED
        BY <2>4, <4>1, Prefixes
    <3>2. \A r \in Busy : InHand(r)' = InHand(r)
      BY <1>1, <2>8, <2>9 DEF InHand
    <3>3. QED
      BY <2>9, <2>15, <3>1, <3>2 DEF Claimed
  <2>17. Holding' = Holding /\ \A r \in Holding : call'[r] = call[r]
    BY <1>1, <2>5, <2>8, <2>9 DEF Holding
  <2>18. MappingsExact'
    BY <1>1, <2>16, <2>17, MappingsKept DEF PagesInv
  <2>19. QED
    BY <1>3, <2>12, <2>13, <2>14, <2>18 DEF PagesInv
<1>6. QED
  BY <1>4, <1>5

\* A step that only looks at the region, or changes its free pages alone.
LEMMA RegionStep ==
    ASSUME PagesInv, PagesNext \/ UNCHANGED pageVars,
           UNCHANGED <<held, lost, mapped, free, published, call>>
    PROVE  PagesInv'
<1>1. IInv'
  BY StepIsStep, StepInvariant DEF PagesInv, pageVars
<1>2. Busy' = Busy /\ Stuck' = Stuck /\ Intact' = Intact
  BY DEF Busy, Stuck, Intact, Released
<1>3. Typed' /\ CallsApart' /\ ReservationsOwned'
  BY <1>2 DEF PagesInv, Typed, CallOK, CallsApart, ReservationsOwned
<1>4. \A p : Claimed(p)' <=> Claimed(p)
  BY <1>2 DEF Claimed, InHand
<1>5. MappingsExact'
  BY <1>2, <1>4, MappingsKept DEF PagesInv, Holding
<1>6. QED
  BY <1>1, <1>3, <1>5 DEF PagesInv

LEMMA PagesInitInv == PagesInit => PagesInv
<1> SUFFICES ASSUME PagesInit PROVE PagesInv
  OBVIOUS
<1>1. /\ call = [t \in Thread |-> Idle] /\ published = {} /\ free = Frame /\ held = {}
      /\ mapped = [p \in Page |-> None]
  BY DEF PagesInit, Init
<1>2. Busy = {} /\ Intact = {} /\ Holding = {} /\ Hands = {}
  BY <1>1 DEF Busy, Intact, Holding, Hands
<1>3. IInv
  BY InitInvariant DEF PagesInit
<1>4. Typed /\ CallsApart /\ ReservationsOwned
  BY <1>1, <1>2 DEF Typed, CallsApart, ReservationsOwned
<1>5. MappingsExact
  BY <1>1, <1>2, ShapesAssumption DEF MappingsExact, Claimed
<1>6. QED
  BY <1>3, <1>4, <1>5 DEF PagesInv

LEMMA PagesStep == PagesInv /\ [PagesNext]_pageVars => PagesInv'
<1> SUFFICES ASSUME PagesInv, [PagesNext]_pageVars PROVE PagesInv'
  OBVIOUS
<1>1. ASSUME NEW t \in Thread, NEW s \in Shapes, BeginAllocate(t, s) PROVE PagesInv'
  BY <1>1, BeginAllocateStep
<1>2. ASSUME NEW t \in Thread, TakeFrame(t) PROVE PagesInv'
  BY <1>2, TakeFrameStep
<1>3. ASSUME NEW t \in Thread, MapPage(t) PROVE PagesInv'
  BY <1>3, MapPageStep
<1>4. ASSUME NEW t \in Thread, MapFails(t) \/ ProtectFails(t) \/ GiveBack(t) PROVE PagesInv'
  BY <1>4, FailureStep, GiveBackStep
<1>5. ASSUME NEW t \in Thread, FinishAllocate(t) PROVE PagesInv'
  BY <1>5, FinishAllocateStep
<1>6. ASSUME NEW t \in Thread, Undo(t) \/ Unmap(t) PROVE PagesInv'
  BY <1>6, UnmapLastStep DEF Undo, Unmap
<1>7. ASSUME NEW t \in Thread, FinishUndo(t) PROVE PagesInv'
  BY <1>7, FinishUndoStep
<1>8. ASSUME NEW t \in Thread, NEW d \in published, BeginRelease(t, d) PROVE PagesInv'
  BY <1>8, BeginReleaseStep
<1>9. ASSUME NEW t \in Thread, FinishRelease(t) PROVE PagesInv'
  BY <1>9, FinishReleaseStep
<1>10. CASE StrayRelease
  <2>1. held' = held /\ lost' = lost
    BY <1>10 DEF StrayRelease, ReleaseTwice, Refuse
  <2>2. QED
    BY <1>10, <2>1, RegionStep DEF StrayRelease, PagesNext
<1>11. CASE UNCHANGED pageVars
  BY <1>11, RegionStep DEF pageVars, vars
<1>12. QED
  BY <1>1, <1>2, <1>3, <1>4, <1>5, <1>6, <1>7, <1>8, <1>9, <1>10, <1>11 DEF PagesNext

-----------------------------------------------------------------------------
(* The theorems.                                                            *)

THEOREM PagesInvariance == PagesSpec => []PagesInv
<1>1. QED
  BY PagesInitInv, PagesStep, PTL DEF PagesSpec

\* The variables have their types: no thread maps more pages than its allocation
\* has, and it maps a page only with a frame in hand.
THEOREM PagesTypeCorrect == PagesSpec => []PagesTypeOK
<1>1. PagesInv => PagesTypeOK
  <2> SUFFICES ASSUME PagesInv PROVE PagesTypeOK
    OBVIOUS
  <2>1. TypeOK
    BY AvailableBounded DEF PagesInv, IInv, Table, TypeOK
  <2>2. ASSUME NEW t \in Busy
        PROVE  /\ call[t].step \in Steps
               /\ call[t].done \in 0..call[t].d.pages
               /\ call[t].frame \in Frame \cup {None}
               /\ call[t].step = "map" => call[t].frame # None
               /\ call[t].step = "allocate" => call[t].frame = None
    <3>1. CallOK(t)
      BY DEF PagesInv, Typed
    <3>2. call[t].d.pages \in Nat
      BY <3>1, Layout DEF CallOK, Calls
    <3>3. QED
      BY <3>1, <3>2 DEF CallOK, Calls
  <2>3. QED
    BY <2>1, <2>2 DEF PagesTypeOK, PagesInv, Typed
<1>2. QED
  BY <1>1, PagesInvariance, PTL

\* A page is mapped exactly if an allocation that is whole, or a call that has got
\* to it, claims it (so a guard never is), and every frame is accounted for once,
\* whichever page of kernel_pages_allocate_guarded fails.
THEOREM MappingsCorrect == PagesSpec => []MappingsExact
<1>1. PagesInv => MappingsExact
  BY DEF PagesInv
<1>2. QED
  BY <1>1, PagesInvariance, PTL

\* rollback_mapping and kernel_pages_release leave no reservation without an
\* owner, and no two owners share one.
THEOREM ReservationsCorrect == PagesSpec => []ReservationsOwned
<1>1. PagesInv => ReservationsOwned
  BY DEF PagesInv
<1>2. QED
  BY <1>1, PagesInvariance, PTL

\* No address is reserved twice or forgotten, whoever allocates and releases.
THEOREM PagesPartition == PagesSpec => []RegionPartitioned
<1>1. QED
  BY UsesRegion, PartitionCorrect, PTL

\* A release gets stuck only when the table of kernel_vregion_release is crowded.
THEOREM PagesLoss == PagesSpec => LossNeedsCrowd
<1>1. QED
  BY UsesRegion, LossCorrect, PTL

\* Nor do the allocations of kernel_pages.c see anything else of the region.
THEOREM PagesRegion == PagesSpec => ImplementsRegion
<1>1. QED
  BY UsesRegion, RegionImplemented, PTL
=============================================================================
