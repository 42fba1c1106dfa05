------------------------------ MODULE VRegion ------------------------------
(***************************************************************************)
(* The allocator of kernel virtual addresses, memory/vregion.c: a sorted   *)
(* array of at most MAX_FREE_EXTENTS free extents, taken from first-fit    *)
(* and coalesced on release.  Every call is one critical section of        *)
(* allocator_lock.                                                         *)
(*                                                                         *)
(* Addresses are counted in pages from KERNEL_HEAP_BASE, which is aligned  *)
(* to every alignment requested.  A caller whose release is refused keeps  *)
(* the range for good (kernel_pages_release cannot be repeated once it has *)
(* unmapped the pages, rollback_mapping does not look at the result).      *)
(***************************************************************************)
EXTENDS Integers, Sequences, FiniteSets

CONSTANTS
    RegionPages,  \* the pages between KERNEL_HEAP_BASE and KERNEL_HEAP_TOP
    MaxExtents,   \* MAX_FREE_EXTENTS
    MaxRequest,   \* the largest number of pages requested at a time
    Alignments    \* the alignments requested, in pages

ASSUME SizesAssumption ==
    /\ RegionPages \in Nat \ {0}
    /\ MaxExtents \in Nat \ {0}
    /\ MaxRequest \in Nat
    /\ Alignments \subseteq Nat \ {0}

VARIABLES
    free_extents,     \* the sequence of free extents [start, pages]
    available_pages,
    held,             \* the ranges callers reserved and did not release
    lost,             \* the ranges whose release was refused for want of room
    refused           \* whether the last call was refused

vars == <<free_extents, available_pages, held, lost, refused>>

Page == 0..(RegionPages - 1)

Extent == [start : Page, pages : 1..RegionPages]

End(e) == e.start + e.pages

PagesOf(e) == e.start..(End(e) - 1)

TypeOK ==
    /\ free_extents \in Seq(Extent)
    /\ Len(free_extents) <= MaxExtents
    /\ available_pages \in 0..RegionPages
    /\ held \subseteq Extent
    /\ lost \subseteq Extent
    /\ refused \in BOOLEAN

\* kernel_vregion_init
Init ==
    /\ free_extents = <<[start |-> 0, pages |-> RegionPages]>>
    /\ available_pages = RegionPages
    /\ held = {}
    /\ lost = {}
    /\ refused = FALSE

-----------------------------------------------------------------------------
Index == DOMAIN free_extents

\* remove_extent
RemoveExtent(f, i) ==
    [k \in 1..(Len(f) - 1) |-> IF k < i THEN f[k] ELSE f[k + 1]]

\* The array f with e put at position i and everything from there moved up.
InsertExtent(f, i, e) ==
    [k \in 1..(Len(f) + 1) |-> IF k < i THEN f[k] ELSE IF k = i THEN e ELSE f[k - 1]]

\* align_up
AlignUp(value, alignment) == value + ((-value) % alignment)

Prefix(i, alignment) ==
    AlignUp(free_extents[i].start, alignment) - free_extents[i].start

\* Mutant: an extent must be larger than what it is to hold.
FitsStrict(pages, alignment) ==
    {i \in Index : Prefix(i, alignment) + pages < free_extents[i].pages}

\* The extents the loop of kernel_vregion_reserve does not pass over.
Fits(pages, alignment) ==
    {i \in Index : Prefix(i, alignment) + pages <= free_extents[i].pages}

Refuse == refused' = TRUE /\ UNCHANGED <<free_extents, available_pages, held, lost>>

\* Cut pages out of extent i, after its first prefix pages.
Carve(i, prefix, pages) ==
    LET e == free_extents[i]
        suffix == e.pages - prefix - pages
        after == [start |-> e.start + prefix + pages, pages |-> suffix]
    IN  \/ /\ prefix = 0 /\ suffix = 0
           /\ free_extents' = RemoveExtent(free_extents, i)
        \/ /\ prefix = 0 /\ suffix # 0
           /\ free_extents' = [free_extents EXCEPT ![i] = after]
        \/ /\ prefix # 0 /\ suffix = 0
           /\ free_extents' = [free_extents EXCEPT ![i].pages = prefix]
        \/ /\ prefix # 0 /\ suffix # 0
           /\ free_extents' = InsertExtent([free_extents EXCEPT ![i].pages = prefix], i + 1, after)

\* A full array cannot take the second half of a split extent.
SplitsFullTable(i, prefix, pages) ==
    prefix # 0 /\ prefix + pages # free_extents[i].pages /\ Len(free_extents) >= MaxExtents

\* kernel_vregion_reserve: the first extent that fits, and no other
Reserve(pages, alignment) ==
    IF pages > available_pages \/ Fits(pages, alignment) = {}
    THEN Refuse
    ELSE \E i \in Fits(pages, alignment) :
           LET prefix == Prefix(i, alignment) IN
           /\ \A j \in Fits(pages, alignment) : i <= j
           /\ IF SplitsFullTable(i, prefix, pages)
              THEN Refuse
              ELSE /\ Carve(i, prefix, pages)
                   /\ available_pages' = available_pages - pages
                   /\ held' = held \cup {[start |-> free_extents[i].start + prefix, pages |-> pages]}
                   /\ refused' = FALSE
                   /\ UNCHANGED lost

-----------------------------------------------------------------------------
\* Where a range would go: at the first extent that does not start before it.
Position(range) ==
    CHOOSE p \in 1..(Len(free_extents) + 1) :
        /\ \A i \in 1..(p - 1) : free_extents[i].start < range.start
        /\ p <= Len(free_extents) => range.start <= free_extents[p].start

\* Mutant: only the extent after the range is compared with it.
AcceptableNext(range) ==
    LET p == Position(range) IN
    /\ End(range) <= RegionPages
    /\ p <= Len(free_extents) => End(range) <= free_extents[p].start

\* The range lies in the region and overlaps neither neighbour.
Acceptable(range) ==
    LET p == Position(range) IN
    /\ End(range) <= RegionPages
    /\ p > 1 => End(free_extents[p - 1]) <= range.start
    /\ p <= Len(free_extents) => End(range) <= free_extents[p].start

TouchesPrevious(range) ==
    LET p == Position(range) IN p > 1 /\ End(free_extents[p - 1]) = range.start

TouchesNext(range) ==
    LET p == Position(range) IN p <= Len(free_extents) /\ End(range) = free_extents[p].start

\* Join the range with the neighbours it touches.
Join(range) ==
    LET p == Position(range) IN
    \/ /\ TouchesPrevious(range) /\ TouchesNext(range)
       /\ free_extents' = [RemoveExtent(free_extents, p) EXCEPT ![p - 1].pages = @ + range.pages + free_extents[p].pages]
    \/ /\ TouchesPrevious(range) /\ ~ TouchesNext(range)
       /\ free_extents' = [free_extents EXCEPT ![p - 1].pages = @ + range.pages]
    \/ /\ ~ TouchesPrevious(range) /\ TouchesNext(range)
       /\ free_extents' = [free_extents EXCEPT ![p] = [start |-> range.start, pages |-> @.pages + range.pages]]
    \/ /\ ~ TouchesPrevious(range) /\ ~ TouchesNext(range)
       /\ free_extents' = InsertExtent(free_extents, p, range)

\* Mutant: extending a neighbour is refused too when the array is full.
NoRoomEver(range) == Len(free_extents) >= MaxExtents

\* A range that touches no extent needs an entry of its own.
NoRoomFor(range) ==
    ~ TouchesPrevious(range) /\ ~ TouchesNext(range) /\ Len(free_extents) >= MaxExtents

\* kernel_vregion_release of a range its caller holds
Release(range) ==
    /\ range \in held
    /\ held' = held \ {range}
    /\ IF Acceptable(range) /\ ~ NoRoomFor(range)
       THEN /\ Join(range)
            /\ available_pages' = available_pages + range.pages
            /\ refused' = FALSE
            /\ UNCHANGED lost
       ELSE /\ lost' = lost \cup {range}
            /\ refused' = TRUE
            /\ UNCHANGED <<free_extents, available_pages>>

\* A range that is free already, in part, or reaches past the region.
NotReserved(range) ==
    End(range) > RegionPages \/ \E i \in Index : PagesOf(range) \cap PagesOf(free_extents[i]) # {}

\* kernel_vregion_release of a range released before or never reserved
ReleaseTwice(range) ==
    /\ NotReserved(range)
    /\ IF Acceptable(range) /\ ~ NoRoomFor(range)
       THEN /\ Join(range)
            /\ available_pages' = available_pages + range.pages
            /\ refused' = FALSE
            /\ UNCHANGED <<held, lost>>
       ELSE Refuse

Next ==
    \/ \E pages \in 1..MaxRequest, alignment \in Alignments : Reserve(pages, alignment)
    \/ \E range \in held : Release(range)
    \/ \E start \in Page, pages \in 1..MaxRequest : ReleaseTwice([start |-> start, pages |-> pages])

Spec == Init /\ [][Next]_vars

-----------------------------------------------------------------------------
FreePages == UNION {PagesOf(free_extents[i]) : i \in Index}

Reserved == held \cup lost

\* The array is sorted and coalesced: between two extents there is always a
\* page that is not free.  The scans of both calls take this for granted.
ExtentsApart ==
    \A i, j \in Index : i < j => End(free_extents[i]) < free_extents[j].start

\* No address is reserved twice, free and reserved at once, or forgotten.
RegionPartitioned ==
    /\ \A r, s \in Reserved : r # s => PagesOf(r) \cap PagesOf(s) = {}
    /\ UNION {PagesOf(r) : r \in Reserved} = Page \ FreePages

\* available_pages, by which a request is turned down at once, is exact.
AvailableExact == available_pages = Cardinality(FreePages)

\* The array is full only because of the ranges in use: between two extents lies
\* one of them, so kernel_vregion_release can lose a range only while more than
\* MAX_FREE_EXTENTS others are in use or lost.
TableFollowsUse == Len(free_extents) <= Cardinality(Reserved) + 1

LossNeedsCrowd == [][lost' # lost => Cardinality(Reserved) > MaxExtents]_vars

Region == INSTANCE VRegionSpec WITH free <- FreePages

\* The array implements the set of pages, call for call: wherever the extents
\* happen to be cut, a request is served from the lowest aligned run of free
\* pages, and refused only if there is none or the table cannot take the split; a
\* range comes back unless the table is full, and only what is reserved does.
ImplementsRegion ==
    /\ Region!RegionSpec
    /\ [][/\ \A pages \in 1..MaxRequest, alignment \in Alignments :
               Reserve(pages, alignment) => Region!SpecReserve(pages, alignment)
          /\ \A range \in held : Release(range) => Region!SpecRelease(range)
          /\ \A start \in Page, pages \in 1..MaxRequest :
               ReleaseTwice([start |-> start, pages |-> pages]) => Region!SpecReject(start, pages)
        ]_vars

=============================================================================
