---------------------------- MODULE VRegionSpec ----------------------------
(***************************************************************************)
(* What the allocator of kernel virtual addresses promises, over the set   *)
(* of free pages and without any table: a request is given the lowest      *)
(* aligned run of free pages and refused when there is none, a released    *)
(* range becomes free again, either is refused when it would leave more    *)
(* separate stretches of free pages than MAX_FREE_EXTENTS, and a release   *)
(* is refused of pages that are not reserved.  Each action is named by its *)
(* call, so that an implementation can be held to the action of the call   *)
(* it makes: taken together they would let a request be refused at any     *)
(* time, as if it had been some other call.                                *)
(***************************************************************************)
EXTENDS Integers, FiniteSets

CONSTANTS
    RegionPages,  \* the pages between KERNEL_HEAP_BASE and KERNEL_HEAP_TOP
    MaxExtents,   \* MAX_FREE_EXTENTS
    MaxRequest,   \* the largest number of pages requested at a time
    Alignments    \* the alignments requested, in pages

VARIABLES
    free,     \* the pages nobody has reserved
    held,     \* the ranges [start, pages] reserved and not released
    lost,     \* the ranges whose release was refused for want of room
    refused   \* whether the last call was refused

specVars == <<free, held, lost, refused>>

Page == 0..(RegionPages - 1)

PageRange(start, pages) == start..(start + pages - 1)

\* The stretches of free pages, each named by its first page.
Stretches(f) == {p \in f : p - 1 \notin f}

Runs(pages, alignment) ==
    {s \in Page : s % alignment = 0 /\ PageRange(s, pages) \subseteq free}

SpecInit ==
    /\ free = Page
    /\ held = {}
    /\ lost = {}
    /\ refused = FALSE

SpecReserve(pages, alignment) ==
    IF Runs(pages, alignment) = {}
    THEN refused' = TRUE /\ UNCHANGED <<free, held, lost>>
    ELSE \E s \in Runs(pages, alignment) :
           LET rest == free \ PageRange(s, pages) IN
           /\ \A t \in Runs(pages, alignment) : s <= t
           /\ IF Cardinality(Stretches(rest)) > MaxExtents
              THEN refused' = TRUE /\ UNCHANGED <<free, held, lost>>
              ELSE /\ free' = rest
                   /\ held' = held \cup {[start |-> s, pages |-> pages]}
                   /\ refused' = FALSE
                   /\ UNCHANGED lost

SpecRelease(range) ==
    LET rest == free \cup PageRange(range.start, range.pages) IN
    /\ held' = held \ {range}
    /\ IF Cardinality(Stretches(rest)) > MaxExtents
       THEN lost' = lost \cup {range} /\ refused' = TRUE /\ UNCHANGED free
       ELSE free' = rest /\ refused' = FALSE /\ UNCHANGED lost

\* The release of a range that was not reserved, all or part of it.
SpecReject(start, pages) ==
    /\ ~ (PageRange(start, pages) \subseteq Page \ free)
    /\ refused' = TRUE
    /\ UNCHANGED <<free, held, lost>>

SpecNext ==
    \/ \E pages \in 1..MaxRequest, alignment \in Alignments : SpecReserve(pages, alignment)
    \/ \E range \in held : SpecRelease(range)
    \/ \E start \in Page, pages \in 1..MaxRequest : SpecReject(start, pages)

RegionSpec == SpecInit /\ [][SpecNext]_specVars
=============================================================================
