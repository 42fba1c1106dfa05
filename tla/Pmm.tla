-------------------------------- MODULE Pmm --------------------------------
(***************************************************************************)
(* The physical page allocator of memory/pmm.c: a bitmap over the physical *)
(* pages, a count of the free ones and a next-fit cursor.  Every call is   *)
(* one critical section of allocator_lock.                                 *)
(*                                                                         *)
(* The memory map is a set of disjoint usable page ranges, as the Limine   *)
(* protocol guarantees for usable entries; the bitmap is the set of pages  *)
(* whose bit is set.  Callers free pages they own, or by mistake a range   *)
(* with a page that is free, unusable or part of the bitmap.               *)
(***************************************************************************)
EXTENDS Integers, FiniteSets

CONSTANTS
    PageCount,    \* physical_page_count
    MemoryMaps,   \* the sets of usable ranges [first, end] the boot may report
    BitmapPages,  \* page_bitmap_pages
    MaxRequest    \* the largest number of pages requested at a time

Page == 0..(PageCount - 1)

\* The pages from first up to, not including, end.
PageRange(first, end) == first..(end - 1)

ASSUME BoundsAssumption ==
    /\ PageCount \in Nat
    /\ BitmapPages \in Nat \ {0}
    /\ MaxRequest \in Nat

\* Every map has a range that holds the bitmap, else pmm_init gives up; the
\* last usable page determines physical_page_count.
ASSUME MapsAssumption ==
    \A map \in MemoryMaps :
        /\ \A r \in map : r.first \in Nat /\ r.end \in Nat /\ r.first < r.end /\ r.end <= PageCount
        /\ \E r \in map : r.end = PageCount
        /\ \E r \in map : r.end - r.first >= BitmapPages
        /\ \A r, s \in map : r # s => r.end <= s.first \/ s.end <= r.first

VARIABLES
    managed,           \* the pages of usable ranges
    bitmap_storage,    \* the pages that hold the bitmap
    used,              \* pages whose bit in page_bitmap is set
    free_page_count,
    next_search_page,
    owned,             \* the pages callers hold
    failed             \* the size of the last request, if it was refused

vars == <<managed, bitmap_storage, used, free_page_count, next_search_page, owned, failed>>

TypeOK ==
    /\ managed \subseteq Page
    /\ bitmap_storage \subseteq Page
    /\ used \subseteq Page
    /\ free_page_count \in Int
    /\ next_search_page \in Nat \ {0}
    /\ next_search_page < PageCount \/ next_search_page = 1
    /\ owned \subseteq Page
    /\ failed \in 0..MaxRequest

Usable(map) == UNION {PageRange(r.first, r.end) : r \in map}

\* choose_bitmap_region: the first range of the map that is large enough
\* (ranges are listed by address).
BitmapRange(map) ==
    LET fits == {r \in map : r.end - r.first >= BitmapPages}
    IN  CHOOSE r \in fits : \A s \in fits : r.first <= s.first

\* What the counting of pmm_init leaves: every usable page counted once, page
\* zero and the bitmap's pages counted out unless their bit was set already.
FreeAtBoot(map, storage) ==
    Cardinality(Usable(map)) - Cardinality({0} \cap Usable(map))
                             - Cardinality(storage \ {0})

\* pmm_init
Init ==
    \E map \in MemoryMaps :
        LET r == BitmapRange(map) IN
        /\ managed = Usable(map)
        /\ bitmap_storage = PageRange(r.first, r.first + BitmapPages)
        /\ used = (Page \ managed) \cup {0} \cup bitmap_storage
        /\ free_page_count = FreeAtBoot(map, bitmap_storage)
        /\ next_search_page = 1
        /\ owned = {}
        /\ failed = 0

-----------------------------------------------------------------------------
\* Mutant: a run is taken on the strength of its first page.
RunsSingle(n, begin, end) == {s \in begin..(end - n) : s \notin used}

\* The runs of n pages with clear bits that one pass over begin..end - 1 meets
Runs(n, begin, end) ==
    {s \in begin..(end - n) : PageRange(s, s + n) \cap used = {}}

\* Where the two passes of pmm_allocate_pages look, the second only when the
\* first found nothing.
Found(n) ==
    IF Runs(n, next_search_page, PageCount) # {}
    THEN Runs(n, next_search_page, PageCount) ELSE Runs(n, 1, next_search_page)

Take(first, n) ==
    /\ used' = used \cup PageRange(first, first + n)
    /\ owned' = owned \cup PageRange(first, first + n)
    /\ free_page_count' = free_page_count - n
    /\ next_search_page' = IF first + n >= PageCount THEN 1 ELSE first + n
    /\ failed' = 0

Refuse(n) ==
    /\ failed' = n
    /\ UNCHANGED <<used, owned, free_page_count, next_search_page>>

\* pmm_allocate_pages: the first run of the first pass that has one
AllocatePages(n) ==
    /\ IF n > free_page_count \/ Found(n) = {}
       THEN Refuse(n)
       ELSE \E first \in Found(n) :
              /\ \A s \in Found(n) : first <= s
              /\ Take(first, n)
    /\ UNCHANGED <<managed, bitmap_storage>>

\* Mutant: only the first page of the range is validated.
FreeableFirst(pages) == \A page \in pages :
    (\A q \in pages : page <= q) => page \in managed \ bitmap_storage /\ page \in used

\* The validation pass of pmm_free_pages
Freeable(pages) == \A page \in pages : page \in managed \ bitmap_storage /\ page \in used

Rewind(first) == IF first < next_search_page THEN first ELSE next_search_page

\* What a caller may pass: its own pages, or a range with a page that is not
\* anyone's to free.
Plausible(pages) == pages \subseteq owned \/ ~ (pages \subseteq (managed \cap used) \ bitmap_storage)

\* pmm_free_pages
FreePages(first, n) ==
    LET pages == PageRange(first, first + n) IN
    /\ first + n <= PageCount
    /\ Plausible(pages)
    /\ IF Freeable(pages)
       THEN /\ used' = used \ pages
            /\ owned' = owned \ pages
            /\ free_page_count' = free_page_count + n
            /\ next_search_page' = Rewind(first)
       ELSE UNCHANGED <<used, owned, free_page_count, next_search_page>>
    /\ failed' = 0
    /\ UNCHANGED <<managed, bitmap_storage>>

Next ==
    \E n \in 1..MaxRequest :
        \/ AllocatePages(n)
        \/ \E first \in Page : FreePages(first, n)

Spec == Init /\ [][Next]_vars

-----------------------------------------------------------------------------
\* No frame is handed out twice, and none that is not RAM: the bitmap says
\* exactly which managed pages are the callers', the allocator's, or page zero.
BitmapExact ==
    /\ used = (Page \ managed) \cup {0} \cup bitmap_storage \cup owned
    /\ owned \subseteq managed
    /\ owned \cap (bitmap_storage \cup {0}) = {}

\* free_page_count, which pmm_allocate_pages trusts, is the number of clear bits.
FreeCountExact == free_page_count = Cardinality(Page \ used)

\* What the comment above the two passes says of the holes located before the
\* cursor (pmm.c:333-336): allocation from them is still allowed.  A hole that
\* starts before the cursor and reaches past it is met by neither pass.
HolesBeforeCursorServe ==
    failed # 0 => \A first \in 1..(next_search_page - 1) :
        ~ (first + failed <= PageCount /\ PageRange(first, first + failed) \cap used = {})

=============================================================================
