-------------------------------- MODULE Heap --------------------------------
(***************************************************************************)
(* The kernel heap, memory/heap.c: arenas of whole pages, each tiled by a  *)
(* list of blocks, every block a header and its payload.  First fit over   *)
(* the arenas in the order they were added; an arena other than the first  *)
(* is unmapped as soon as it is empty.  Every call is one critical section *)
(* of heap_lock, the calls into kernel_pages included, so every call is    *)
(* one action here.                                                        *)
(*                                                                         *)
(* Sizes and addresses are counted in units of KHEAP_ALIGNMENT; an address *)
(* is the arena's base and the offset in it.  The region allocator returns *)
(* the lowest base that is not in use.                                     *)
(***************************************************************************)
EXTENDS Integers, Sequences, FiniteSets

CONSTANTS
    BlockHeader,    \* HEAP_BLOCK_HEADER_SIZE
    ArenaHeader,    \* HEAP_ARENA_HEADER_SIZE
    Minimum,        \* KHEAP_MINIMUM_ALLOCATION
    PageUnits,      \* KRISHNA_PAGE_SIZE
    InitialPages,   \* KHEAP_INITIAL_ARENA_PAGES
    MaxArenas,      \* how many arenas the address space or the frames allow
    SizeMax,        \* SIZE_MAX
    Requests        \* the sizes requested

ASSUME SizesAssumption ==
    /\ {BlockHeader, ArenaHeader, Minimum, PageUnits, InitialPages, MaxArenas, SizeMax} \subseteq Nat \ {0}
    /\ Requests \subseteq Minimum..SizeMax
    /\ InitialPages * PageUnits >= ArenaHeader + BlockHeader + Minimum

VARIABLES
    heap,   \* the arenas in list order and the two allocation counters
    held    \* the size asked for each allocation its owner has not freed

vars == <<heap, held>>

Base == 1..MaxArenas

Block == [at : Nat, size : Nat, free : BOOLEAN]

Arena == [base : Base, pages : Nat \ {0}, blocks : Seq(Block)]

ArenaSize(pages) == pages * PageUnits - ArenaHeader - BlockHeader

\* create_arena
NewArena(base, pages) ==
    [base |-> base, pages |-> pages,
     blocks |-> <<[at |-> ArenaHeader, size |-> ArenaSize(pages), free |-> TRUE]>>]

\* kheap_init
Init ==
    /\ heap = [arenas |-> <<NewArena(1, InitialPages)>>, allocated |-> 0, bytes |-> 0]
    /\ held = <<>>

-----------------------------------------------------------------------------
(* The list of blocks of one arena.                                         *)

\* split_block: a remainder too small for a header and a payload stays
SplitBlock(b, i, n) ==
    IF b[i].size - n < BlockHeader + Minimum
    THEN b
    ELSE SubSeq(b, 1, i - 1)
         \o <<[b[i] EXCEPT !.size = n],
              [at |-> b[i].at + BlockHeader + n, size |-> b[i].size - n - BlockHeader, free |-> TRUE]>>
         \o SubSeq(b, i + 1, Len(b))

NextFree(b, i) == i < Len(b) /\ b[i + 1].free

\* merge_with_next
MergeWithNext(b, i) ==
    IF ~ NextFree(b, i)
    THEN b
    ELSE SubSeq(b, 1, i - 1)
         \o <<[b[i] EXCEPT !.size = b[i].size + BlockHeader + b[i + 1].size]>>
         \o SubSeq(b, i + 2, Len(b))

\* What kfree_locked does to the list: merge forward, then backward.
ReleaseBlock(b, i) ==
    LET merged == MergeWithNext([b EXCEPT ![i].free = TRUE], i) IN
    IF i > 1 /\ b[i - 1].free THEN MergeWithNext(merged, i - 1) ELSE merged

\* Mutant: the remainder of a shrink is not merged with the free block after it.
ShrinkBlockOnly(b, i, n) == SplitBlock(b, i, n)

\* Shrinking in krealloc_locked: the remainder joins the free block after it.
ShrinkBlock(b, i, n) ==
    LET split == SplitBlock(b, i, n) IN
    IF NextFree(split, i) THEN MergeWithNext(split, i + 1) ELSE split

\* Growing into the next block, if it is free and large enough.
CanGrow(b, i, n) == NextFree(b, i) /\ b[i].size + BlockHeader + b[i + 1].size >= n

GrowBlock(b, i, n) == SplitBlock(MergeWithNext(b, i), i, n)

-----------------------------------------------------------------------------
(* The heap.  A result is the heap after a call and what the call returned. *)

Null == <<0, 0>>

Result(h, value) == [heap |-> h, value |-> value]

Slots(h) == UNION {{k} \X DOMAIN h.arenas[k].blocks : k \in DOMAIN h.arenas}

BlockAt(h, s) == h.arenas[s[1]].blocks[s[2]]

Payload(h, s) == <<h.arenas[s[1]].base, BlockAt(h, s).at + BlockHeader>>

\* Slot s of the list comes before slot t.
Before(s, t) == s[1] < t[1] \/ (s[1] = t[1] /\ s[2] <= t[2])

Fitting(h, n) == {s \in Slots(h) : BlockAt(h, s).free /\ BlockAt(h, s).size >= n}

\* find_free_block: first fit
FindFreeBlock(h, n) == CHOOSE s \in Fitting(h, n) : \A t \in Fitting(h, n) : Before(s, t)

\* The heap with arena k's list replaced and the counters moved.
Update(h, k, blocks, allocated, bytes) ==
    [arenas |-> [h.arenas EXCEPT ![k].blocks = blocks],
     allocated |-> h.allocated + allocated,
     bytes |-> h.bytes + bytes]

\* allocate_from_block
AllocateFromBlock(h, s, n) ==
    LET split == SplitBlock(h.arenas[s[1]].blocks, s[2], n)
        taken == [split EXCEPT ![s[2]].free = FALSE]
    IN  Result(Update(h, s[1], taken, 1, split[s[2]].size), Payload(h, s))

\* arena_pages_for_allocation
ArenaPages(n) ==
    LET pages == (ArenaHeader + BlockHeader + n + PageUnits - 1) \div PageUnits IN
    IF pages < InitialPages THEN InitialPages ELSE pages

FreeBases(h) == Base \ {h.arenas[k].base : k \in 1..Len(h.arenas)}

\* append_arena
AppendArena(h, n) ==
    LET base == CHOOSE b \in FreeBases(h) : \A c \in FreeBases(h) : b <= c IN
    [h EXCEPT !.arenas = Append(h.arenas, NewArena(base, ArenaPages(n)))]

\* kmalloc_locked; room says whether kernel_pages_allocate would succeed
Malloc(h, n, room) ==
    CASE Fitting(h, n) # {} -> AllocateFromBlock(h, FindFreeBlock(h, n), n)
      [] Fitting(h, n) = {} /\ room /\ FreeBases(h) # {} ->
            AllocateFromBlock(AppendArena(h, n), <<Len(h.arenas) + 1, 1>>, n)
      [] OTHER -> Result(h, Null)

\* The slots find_heap_block accepts for a pointer: a payload, never an interior.
Named(h, pointer) == {s \in Slots(h) : Payload(h, s) = pointer}

FindHeapBlock(h, pointer) == CHOOSE s \in Named(h, pointer) : TRUE

\* arena_is_completely_free
CompletelyFree(a) == Len(a.blocks) = 1 /\ a.blocks[1].free /\ a.blocks[1].size = ArenaSize(a.pages)

\* release_empty_arena.  A kernel_pages_release that fails is left out: the pages are
\* unmapped by then and the arena stays in the list, so that the next walk faults.
ReleaseEmptyArena(h, k) ==
    IF k = 1 \/ ~ CompletelyFree(h.arenas[k])
    THEN h
    ELSE [h EXCEPT !.arenas = SubSeq(h.arenas, 1, k - 1) \o SubSeq(h.arenas, k + 1, Len(h.arenas))]

\* kfree_locked; the counters are compared before they are decreased
FreePointer(h, pointer) ==
    LET s == FindHeapBlock(h, pointer)
        k == s[1]
        blocks == h.arenas[k].blocks
    IN  IF \/ Named(h, pointer) = {} \/ BlockAt(h, s).free
           \/ h.allocated = 0 \/ h.bytes < BlockAt(h, s).size
        THEN Result(h, FALSE)
        ELSE Result(ReleaseEmptyArena(Update(h, k, ReleaseBlock(blocks, s[2]), -1, - BlockAt(h, s).size), k), TRUE)

\* The block of slot s resized in place.
Resized(h, s, blocks) == Update(h, s[1], blocks, 0, blocks[s[2]].size - BlockAt(h, s).size)

\* krealloc_locked of a pointer and a size that are not zero
Realloc(h, pointer, n, room) ==
    LET s == FindHeapBlock(h, pointer)
        blocks == h.arenas[s[1]].blocks
        moved == Malloc(h, n, room)
        freed == FreePointer(moved.heap, pointer)
    IN  IF Named(h, pointer) = {} \/ BlockAt(h, s).free
        THEN Result(h, Null)
        ELSE
        CASE n <= BlockAt(h, s).size -> Result(Resized(h, s, ShrinkBlock(blocks, s[2], n)), pointer)
          [] n > BlockAt(h, s).size /\ CanGrow(blocks, s[2], n) ->
                Result(Resized(h, s, GrowBlock(blocks, s[2], n)), pointer)
          [] OTHER ->
                CASE moved.value = Null -> Result(h, Null)
                  [] moved.value # Null /\ freed.value -> Result(freed.heap, moved.value)
                  [] OTHER -> Result(FreePointer(moved.heap, moved.value).heap, Null)

-----------------------------------------------------------------------------
Without(f, x) == [y \in DOMAIN f \ {x} |-> f[y]]

With(f, x, v) == [y \in DOMAIN f \cup {x} |-> IF y = x THEN v ELSE f[y]]

\* kmalloc
Kmalloc(n, room) ==
    LET r == Malloc(heap, n, room) IN
    /\ heap' = r.heap
    /\ held' = IF r.value = Null THEN held ELSE With(held, r.value, n)

\* Mutant: the product may wrap.
ProductUnchecked(count, size) == TRUE

\* The product of kcalloc's arguments fits in a size_t.
ProductFits(count, size) == size <= SizeMax \div count

\* kcalloc: its caller counts on count * size
Kcalloc(count, size, room) ==
    LET total == (count * size) % (SizeMax + 1)
        r == Malloc(heap, total, room)
    IN  /\ ProductFits(count, size)
        /\ total # 0
        /\ heap' = r.heap
        /\ held' = IF r.value = Null THEN held ELSE With(held, r.value, count * size)

\* kfree of any address: one that is held, was freed before, or never was a payload
Kfree(pointer) ==
    LET r == FreePointer(heap, pointer) IN
    /\ r.value
    /\ heap' = r.heap
    /\ held' = Without(held, pointer)

\* krealloc, of a held pointer
Krealloc(pointer, n, room) ==
    LET r == Realloc(heap, pointer, n, room) IN
    /\ r.value # Null
    /\ heap' = r.heap
    /\ held' = With(Without(held, pointer), r.value, n)

Address == Base \X (1..SizeMax)

Next ==
    \/ \E n \in Requests, room \in BOOLEAN : Kmalloc(n, room)
    \/ \E count, size \in Requests, room \in BOOLEAN : Kcalloc(count, size, room)
    \/ \E pointer \in Address : Kfree(pointer)
    \/ \E pointer \in DOMAIN held, n \in Requests, room \in BOOLEAN : Krealloc(pointer, n, room)

Spec == Init /\ [][Next]_vars

-----------------------------------------------------------------------------
TypeOK ==
    /\ heap.arenas \in Seq(Arena)
    /\ heap.allocated \in Nat
    /\ heap.bytes \in Nat
    /\ DOMAIN held \subseteq Base \X Nat

\* The list of every arena tiles it: the first block follows the arena's header,
\* each block begins where the one before it ends, the last ends with the pages.
\* find_heap_block gives up on any list that is not of this form.
Tiled(a) ==
    LET End(i) == a.blocks[i].at + BlockHeader + a.blocks[i].size IN
    /\ a.blocks # <<>>
    /\ a.blocks[1].at = ArenaHeader
    /\ \A i \in 1..(Len(a.blocks) - 1) : a.blocks[i + 1].at = End(i)
    /\ End(Len(a.blocks)) = a.pages * PageUnits

\* No two neighbours are both free, and every block can hold something.  Freeing
\* looks one block ahead and one back only, and counts on this.
Coalesced(a) ==
    /\ \A i \in 1..(Len(a.blocks) - 1) : ~ (a.blocks[i].free /\ a.blocks[i + 1].free)
    /\ \A i \in 1..Len(a.blocks) : a.blocks[i].size >= Minimum

\* The first arena stays, and only it may be empty: every other one is given back
\* to the page allocator with its last block.  No two arenas share their pages.
HeapWellFormed ==
    /\ heap.arenas \in Seq(Arena)
    /\ heap.arenas # <<>> /\ heap.arenas[1].base = 1
    /\ \A k, m \in 1..Len(heap.arenas) : heap.arenas[k].base = heap.arenas[m].base => k = m
    /\ \A k \in 1..Len(heap.arenas) :
        /\ Tiled(heap.arenas[k])
        /\ Coalesced(heap.arenas[k])
        /\ k = 1 \/ \E i \in 1..Len(heap.arenas[k].blocks) : ~ heap.arenas[k].blocks[i].free

Used == {s \in Slots(heap) : ~ BlockAt(heap, s).free}

\* Every allocation still held is one allocated block, at least as large as was
\* asked for, and there are no other allocated blocks.
AllocationsKept ==
    /\ DOMAIN held = {Payload(heap, s) : s \in Used}
    /\ \A s \in Used : BlockAt(heap, s).size >= held[Payload(heap, s)]
    /\ heap.allocated = Cardinality(Used)

\* kmalloc, kcalloc, kfree and krealloc never lose, share, cut short or forget an
\* allocation, and both counters of kheap_get_stats are exact.
AllocationsExact ==
    /\ TypeOK
    /\ AllocationsKept
    /\ heap.bytes = Cardinality(UNION {{s} \X (1..BlockAt(heap, s).size) : s \in Used})
=============================================================================
