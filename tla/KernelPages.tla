---------------------------- MODULE KernelPages ----------------------------
(***************************************************************************)
(* Kernel pages and stacks, memory/kernel_pages.c and kernel_stack.c: a    *)
(* reservation of the region allocator (VRegion, whose calls these are),   *)
(* the pages between its guards each mapped to a frame of its own, all or  *)
(* nothing.  The calls are not atomic: every access to the region, to the  *)
(* frames and to the page tables takes its own lock, and the threads that  *)
(* allocate and release stacks preempt each other in between.              *)
(***************************************************************************)
EXTENDS VRegion

CONSTANTS
    Thread,   \* the threads inside kernel_pages
    Frame,    \* the frames of the page allocator
    None,     \* no frame
    Shapes    \* the allocations asked for [before, pages, after, alignment]

ASSUME ShapesAssumption ==
    /\ None \notin Frame
    /\ \A s \in Shapes : /\ s.before \in Nat /\ s.after \in Nat /\ s.pages \in Nat \ {0}
                         /\ s.alignment \in Alignments
                         /\ s.before + s.pages + s.after <= MaxRequest

VARIABLES
    mapped,     \* the frame each page of the region is mapped to, or None
    free,       \* the frames the page allocator has
    published,  \* the descriptors callers hold [range, first, pages]
    call        \* what each thread is doing: step, descriptor, pages done, frame in hand

pageVars == <<vars, mapped, free, published, call>>

Idle == [step |-> "idle"]

Steps == {"allocate", "map", "undo", "unmap"}

\* Thread t in the middle of a call: the first done pages of d are mapped.
Working(step, d, done, frame) == [step |-> step, d |-> d, done |-> done, frame |-> frame]

Descriptor(range, s) == [range |-> range, first |-> range.start + s.before, pages |-> s.pages]

\* Page number k of the usable pages, from 1.
NthPage(d, k) == d.first + k - 1

UsablePages(d) == d.first..(d.first + d.pages - 1)

Guards(d) == PagesOf(d.range) \ UsablePages(d)

PagesInit ==
    /\ Init
    /\ mapped = [p \in Page |-> None]
    /\ free = Frame
    /\ published = {}
    /\ call = [t \in Thread |-> Idle]

Go(t, c) == call' = [call EXCEPT ![t] = c]

-----------------------------------------------------------------------------
(* kernel_pages_allocate_guarded, kernel_stack_allocate                     *)

\* Reserve the pages and both guards.
BeginAllocate(t, s) ==
    /\ call[t] = Idle
    /\ Reserve(s.before + s.pages + s.after, s.alignment)
    /\ IF held' = held
       THEN UNCHANGED call
       ELSE \E range \in held' \ held : Go(t, Working("allocate", Descriptor(range, s), 0, None))
    /\ UNCHANGED <<mapped, free, published>>

\* pmm_allocate_page for the next page; without a frame the call is undone.
TakeFrame(t) ==
    LET c == call[t] IN
    /\ c.step = "allocate"
    /\ c.done < c.d.pages
    /\ IF free = {}
       THEN Go(t, Working("undo", c.d, c.done, None)) /\ UNCHANGED free
       ELSE \E f \in free : Go(t, Working("map", c.d, c.done, f)) /\ free' = free \ {f}
    /\ UNCHANGED <<vars, mapped, published>>

\* vmm_map_page
MapPage(t) ==
    LET c == call[t] IN
    /\ c.step = "map"
    /\ mapped[NthPage(c.d, c.done + 1)] = None
    /\ mapped' = [mapped EXCEPT ![NthPage(c.d, c.done + 1)] = c.frame]
    /\ Go(t, Working("allocate", c.d, c.done + 1, None))
    /\ UNCHANGED <<vars, free, published>>

\* Mutant: the frame that could not be mapped is not given back.
MapFailsKeepsFrame(t) ==
    LET c == call[t] IN
    /\ c.step = "map"
    /\ Go(t, Working("undo", c.d, c.done, None))
    /\ UNCHANGED <<vars, mapped, free, published>>

\* vmm_map_page finds no frame for a table: the frame is still in hand.
MapFails(t) ==
    LET c == call[t] IN
    /\ c.step = "map"
    /\ Go(t, Working("undo", c.d, c.done, c.frame))
    /\ UNCHANGED <<vars, mapped, free, published>>

\* vmm_protect_page fails for a page that is not to be writable.
ProtectFails(t) ==
    LET c == call[t] IN
    /\ c.step = "allocate"
    /\ c.done = c.d.pages
    /\ Go(t, Working("undo", c.d, c.done, None))
    /\ UNCHANGED <<vars, mapped, free, published>>

\* Everything is mapped: clear the pages, set the final rights, publish.
FinishAllocate(t) ==
    LET c == call[t] IN
    /\ c.step = "allocate"
    /\ c.done = c.d.pages
    /\ published' = published \cup {c.d}
    /\ Go(t, Idle)
    /\ UNCHANGED <<vars, mapped, free>>

\* vmm_unmap_page of the last page still mapped, which hands out its frame
UnmapLast(t) ==
    LET c == call[t]
        p == NthPage(c.d, c.done)
    IN  /\ c.done > 0
        /\ c.frame = None
        /\ mapped[p] # None
        /\ mapped' = [mapped EXCEPT ![p] = None]
        /\ Go(t, Working(c.step, c.d, c.done - 1, mapped[p]))
        /\ UNCHANGED <<vars, free, published>>

\* pmm_free_page of the frame in hand
GiveBack(t) ==
    LET c == call[t] IN
    /\ c.step \in {"undo", "unmap"}
    /\ c.frame # None
    /\ free' = free \cup {c.frame}
    /\ Go(t, Working(c.step, c.d, c.done, None))
    /\ UNCHANGED <<vars, mapped, published>>

\* rollback_mapping, page by page
Undo(t) == call[t].step = "undo" /\ UnmapLast(t)

\* Mutant: the reservation is not given back.
FinishUndoKeeps(t) ==
    LET c == call[t] IN
    /\ c.step = "undo"
    /\ c.done = 0 /\ c.frame = None
    /\ Go(t, Idle)
    /\ UNCHANGED <<vars, mapped, free, published>>

\* The end of rollback_mapping, which does not look at the result.
FinishUndo(t) ==
    LET c == call[t] IN
    /\ c.step = "undo"
    /\ c.done = 0 /\ c.frame = None
    /\ Release(c.d.range)
    /\ Go(t, Idle)
    /\ UNCHANGED <<mapped, free, published>>

-----------------------------------------------------------------------------
(* kernel_pages_release, kernel_stack_release                               *)

\* The guards are unmapped and all pages mapped, or the call changes nothing.
Valid(d) ==
    /\ \A p \in Guards(d) : mapped[p] = None
    /\ \A p \in UsablePages(d) : mapped[p] # None

Released(d) == \E t \in Thread : call[t].step = "unmap" /\ call[t].d = d

\* A descriptor has one owner, so nobody releases it twice at a time; an owner
\* may call again after a failure.
BeginRelease(t, d) ==
    /\ call[t] = Idle
    /\ d \in published
    /\ ~ Released(d)
    /\ Valid(d)
    /\ Go(t, Working("unmap", d, d.pages, None))
    /\ UNCHANGED <<vars, mapped, free, published>>

Unmap(t) == call[t].step = "unmap" /\ UnmapLast(t)

\* The reservation goes back last.  If it is refused the descriptor stays as it
\* is, although its pages are gone.
FinishRelease(t) ==
    LET c == call[t] IN
    /\ c.step = "unmap"
    /\ c.done = 0 /\ c.frame = None
    /\ Release(c.d.range)
    /\ published' = IF refused' THEN published ELSE published \ {c.d}
    /\ Go(t, Idle)
    /\ UNCHANGED <<mapped, free>>

\* A caller of kernel_vregion_release that owns nothing there.
StrayRelease ==
    /\ \E start \in Page, pages \in 1..MaxRequest : ReleaseTwice([start |-> start, pages |-> pages])
    /\ UNCHANGED <<mapped, free, published, call>>

PagesNext ==
    \/ \E t \in Thread :
        \/ \E s \in Shapes : BeginAllocate(t, s)
        \/ TakeFrame(t) \/ MapPage(t) \/ MapFails(t) \/ FinishAllocate(t) \/ ProtectFails(t)
        \/ Undo(t) \/ GiveBack(t) \/ FinishUndo(t)
        \/ \E d \in published : BeginRelease(t, d)
        \/ Unmap(t) \/ FinishRelease(t)
    \/ StrayRelease

PagesSpec == PagesInit /\ [][PagesNext]_pageVars

-----------------------------------------------------------------------------
Busy == {t \in Thread : call[t] # Idle}

\* The pages thread t has mapped so far, or not unmapped yet.
InHand(t) == call[t].d.first..(call[t].d.first + call[t].done - 1)

\* The frames threads have taken and not mapped yet, or unmapped and not freed yet.
Holding == {t \in Busy : call[t].frame # None}

Hands == {call[t].frame : t \in Holding}

\* The descriptors whose release got stuck: their pages are gone, their
\* reservation was refused.
Stuck == {d \in published : d.range \in lost}

Intact == {d \in published \ Stuck : ~ Released(d)}

PagesTypeOK ==
    /\ TypeOK
    /\ mapped \in [Page -> Frame \cup {None}]
    /\ free \subseteq Frame
    /\ \A t \in Busy : /\ call[t].step \in Steps
                       /\ call[t].done \in 0..call[t].d.pages
                       /\ call[t].frame \in Frame \cup {None}
                       /\ call[t].step = "map" => call[t].frame # None
                       /\ call[t].step = "allocate" => call[t].frame = None

Claimed(p) ==
    \/ \E d \in Intact : p \in UsablePages(d)
    \/ \E t \in Busy : p \in InHand(t)

\* A page is mapped if and only if it is a usable page of an intact descriptor or
\* one a call has got to, so guard pages never are; and every frame is free, in
\* one thread's hand, or behind one page.
MappingsExact ==
    /\ \A p \in Page : mapped[p] # None <=> Claimed(p)
    /\ \A p, q \in Page : mapped[p] # None /\ p # q => mapped[p] # mapped[q]
    /\ \A p \in Page : mapped[p] \notin free \cup Hands
    /\ \A s, t \in Holding : s # t => call[s].frame # call[t].frame
    /\ \A f \in Frame : f \in free \/ f \in Hands \/ \E p \in Page : mapped[p] = f
    /\ free \cap Hands = {}

\* Every reservation belongs to a descriptor some caller holds or to a call in
\* progress, so none is leaked; and no two of them share one.
ReservationsOwned ==
    /\ held = {d.range : d \in published \ Stuck} \cup {call[t].d.range : t \in Busy}
    /\ \A d, e \in published : d.range = e.range => d = e
    /\ \A t \in Busy : \A d \in published : call[t].d.range = d.range => call[t].step = "unmap"
=============================================================================
