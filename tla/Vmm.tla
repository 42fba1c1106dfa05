-------------------------------- MODULE Vmm --------------------------------
(***************************************************************************)
(* Four-level page tables, memory/vmm.c.  Every call is one critical       *)
(* section of vmm_lock, so it is one action; what happens inside (tables   *)
(* created on the way down, the undo when frames run out, the reclaiming   *)
(* of empty tables) is computed on the memory [table, free] step by step.  *)
(*                                                                         *)
(* A virtual page is the sequence of its four table indexes.  The lower    *)
(* half has the top-level indexes below KernelFirst.  The free frames are  *)
(* those of the page allocator, which hands out any one of them; Limine's  *)
(* own tables (BootFrame) do not come from it.                             *)
(***************************************************************************)
EXTENDS Integers, Sequences, FiniteSets

CONSTANTS
    Kernel,        \* kernel_space
    Process,       \* the address spaces of processes
    EntryCount,    \* PAGE_ENTRY_COUNT
    KernelFirst,   \* PML4_KERNEL_FIRST_INDEX
    PoolSizes,     \* how many frames the page allocator may have
    BootFrame,
    Boot,          \* the page tables Limine leaves, a function on BootFrame
    BootRoot,      \* the frame in CR3 at start
    Data,          \* frames that are mapped and hold no table
    KernelRuns,    \* the runs of pages the kernel maps in its own space
    UserRuns,      \* the runs of pages mapped in a process
    Permanent      \* the first page of the heap's first arena, which is never unmapped

Index == 0..(EntryCount - 1)

Page == [1..4 -> Index]

Frame == UNION {1..n : n \in PoolSizes}

Space == {Kernel} \cup Process

Nowhere == 0

VARIABLES
    frames,  \* the frames the page allocator can hand out
    memory,  \* the tables in each frame and the free frames
    pml4,    \* pml4_physical of every space, Nowhere if it has none
    cr3,     \* the space whose table CR3 holds
    owned    \* kernel_page_tables_owned

vars == <<frames, memory, pml4, cr3, owned>>

Rights == [user : BOOLEAN, writable : BOOLEAN]

Entry == [kind : {"absent", "table", "large", "page"}, at : Frame \cup BootFrame \cup Data \cup {Nowhere},
          owned : BOOLEAN, user : BOOLEAN, writable : BOOLEAN]

Absent == [kind |-> "absent", at |-> Nowhere, owned |-> FALSE, user |-> FALSE, writable |-> FALSE]

EmptyTable == [i \in Index |-> Absent]

Pages(runs) == UNION {{r[k] : k \in 1..Len(r)} : r \in runs}

\* One level of a translation: the entry e leads to, with the rights both grant.
Under(table, e, i) ==
    LET b == table[e.at][i] IN
    IF e.kind # "table"
    THEN e
    ELSE [b EXCEPT !.user = b.user /\ e.user, !.writable = b.writable /\ e.writable]

\* What the translation of a virtual page finds: the walk of vmm_translate_locked,
\* with the rights every level grants, as vmm_translate_user_locked checks them.
TranslateIn(table, root, va) ==
    Under(table, Under(table, Under(table, table[root][va[1]], va[2]), va[3]), va[4])

Leads(e) == e.kind \in {"page", "large"}

ASSUME ConstantsAssumption ==
    /\ PoolSizes \subseteq Nat \ {0}
    /\ EntryCount \in Nat \ {0}
    /\ KernelFirst \in Index
    /\ Kernel \notin Process
    /\ BootRoot \in BootFrame
    /\ BootFrame \cap (Frame \cup {Nowhere}) = {}
    /\ Data \subseteq Nat
    /\ Boot \in [BootFrame -> [Index -> Entry]]

\* The place of an entry that points to a table.
IsRecursive(f, i) == f = BootRoot /\ Boot[f][i].kind = "table" /\ Boot[f][i].at = BootRoot

\* Limine leaves a tree of four levels; its top level may have one entry for itself.
ASSUME BootAssumption ==
    /\ \E level \in [BootFrame -> 1..4] :
        /\ level[BootRoot] = 4
        /\ \A f \in BootFrame, i \in Index :
            LET e == Boot[f][i] IN
            /\ e.kind = "absent" => e = Absent
            /\ e.kind = "page" => level[f] = 1
            /\ e.kind = "large" => level[f] \in {2, 3}
            /\ Leads(e) => ~ e.owned
            /\ e.kind = "table" =>
                /\ e.at \in BootFrame
                /\ level[f] = level[e.at] + 1 \/ (IsRecursive(f, i) /\ i >= KernelFirst)
    /\ \A f, g \in BootFrame, i, j \in Index :
        Boot[f][i].kind = "table" /\ Boot[g][j].kind = "table" /\ Boot[f][i].at = Boot[g][j].at
            => f = g /\ i = j

\* The kernel maps in the upper half, beside a page that stays; a process in the lower.
\* (What the kernel maps elsewhere, for the local APIC and the tests at boot, it maps
\* while there is no process.)
ASSUME RunsAssumption ==
    /\ \A run \in KernelRuns \cup UserRuns : run \in Seq(Page)
    /\ Permanent \in Page
    /\ \A va \in Pages(KernelRuns) :
        /\ va[1] >= KernelFirst
        /\ ~ IsRecursive(BootRoot, va[1])
        /\ va[1] = Permanent[1] \/ \E b \in Page : b[1] = va[1] /\ Leads(TranslateIn(Boot, BootRoot, b))
    /\ \A va \in Pages(UserRuns) : va[1] < KernelFirst

TypeOK ==
    /\ memory.table \in [Frame \cup BootFrame -> [Index -> Entry]]
    /\ frames \subseteq Frame
    /\ memory.free \subseteq frames
    /\ pml4 \in [Space -> Frame \cup {BootRoot, Nowhere}]
    /\ cr3 \in Space
    /\ owned \in BOOLEAN

\* vmm_init
Init ==
    /\ \E n \in PoolSizes : frames = 1..n
    /\ memory = [table |-> [f \in Frame \cup BootFrame |-> IF f \in BootFrame THEN Boot[f] ELSE EmptyTable],
                 free |-> frames]
    /\ pml4 = [s \in Space |-> IF s = Kernel THEN BootRoot ELSE Nowhere]
    /\ cr3 = Kernel
    /\ owned = FALSE

-----------------------------------------------------------------------------
(* Frames and entries.  The contents of a free frame are not looked at: a   *)
(* frame is cleared whenever it becomes a table.                            *)

NextFrame(m) == CHOOSE f \in m.free : TRUE

Allocate(m) == [table |-> [m.table EXCEPT ![NextFrame(m)] = EmptyTable], free |-> m.free \ {NextFrame(m)}]

Free(m, f) == [table |-> [m.table EXCEPT ![f] = EmptyTable], free |-> m.free \cup {f}]

SetEntry(m, t, i, e) == [m EXCEPT !.table[t][i] = e]

\* table_empty
TableEmpty(m, t) == \A i \in Index : m.table[t][i].kind = "absent"

\* The tables in made and the entries that point to them are cleared.
Cleared(m, made) ==
    [f \in DOMAIN m.table |->
        IF \E c \in made : c.frame = f
        THEN EmptyTable
        ELSE [i \in Index |-> IF \E c \in made : c.table = f /\ c.index = i THEN Absent ELSE m.table[f][i]]]

\* Mutant: the tables created by the failing walk are only unlinked.
RollbackUnlinkOnly(m, made) == [m EXCEPT !.table = Cleared(m, made)]

\* rollback_new_tables
RollbackNewTables(m, made) == [table |-> Cleared(m, made), free |-> m.free \cup {c.frame : c \in made}]

\* One level of walk_to_leaf: path holds the tables so far, made the tables created.
\* An existing table keeps the rights it is given here even if the walk fails below.
WalkStep(s, va, create, user) ==
    LET d == Len(s.path)
        t == s.path[d]
        e == s.mem.table[t][va[d]]
        new == NextFrame(s.mem)
        fresh == [kind |-> "table", at |-> new, owned |-> TRUE, user |-> user, writable |-> TRUE]
        promoted == [e EXCEPT !.user = e.user \/ user, !.writable = e.writable \/ user]
    IN  CASE ~ s.ok -> s
          [] s.ok /\ e.kind = "absent" /\ create /\ s.mem.free # {} ->
                [ok |-> TRUE, mem |-> SetEntry(Allocate(s.mem), t, va[d], fresh), path |-> Append(s.path, new),
                 made |-> s.made \cup {[table |-> t, index |-> va[d], frame |-> new]}]
          [] s.ok /\ e.kind = "table" ->
                [ok |-> TRUE, mem |-> SetEntry(s.mem, t, va[d], promoted), path |-> Append(s.path, e.at), made |-> s.made]
          [] OTHER -> [ok |-> FALSE, mem |-> RollbackNewTables(s.mem, s.made), path |-> s.path, made |-> {}]

\* walk_to_leaf
WalkToLeaf(m, root, va, create, user) ==
    LET Down(s) == WalkStep(s, va, create, user)
    IN  Down(Down(Down([ok |-> TRUE, mem |-> m, path |-> <<root>>, made |-> {}])))

\* The entry for va in the last table of a completed walk.
Leaf(w, va) == w.mem.table[w.path[4]][va[4]]

Result(ok, m) == [ok |-> ok, mem |-> m]

\* vmm_map_page_locked
MapPage(m, root, va, frame, rights) ==
    LET w == WalkToLeaf(m, root, va, TRUE, rights.user)
        leaf == [kind |-> "page", at |-> frame, owned |-> TRUE, user |-> rights.user, writable |-> rights.writable]
    IN  IF ~ w.ok \/ Leaf(w, va).kind # "absent"
        THEN Result(FALSE, w.mem)
        ELSE Result(TRUE, SetEntry(w.mem, w.path[4], va[4], leaf))

\* The loop of vmm_unmap_page_locked at the table of depth d: it goes on upwards
\* while the table is empty and was allocated by the kernel.
ReclaimTable(s, path, va, d) ==
    LET parent == s.mem.table[path[d - 1]][va[d - 1]] IN
    IF s.ok /\ TableEmpty(s.mem, path[d]) /\ parent.owned
    THEN Result(TRUE, Free(SetEntry(s.mem, path[d - 1], va[d - 1], Absent), parent.at))
    ELSE Result(FALSE, s.mem)

Reclaim(m, path, va) ==
    ReclaimTable(ReclaimTable(ReclaimTable(Result(TRUE, m), path, va, 4), path, va, 3), path, va, 2).mem

\* vmm_unmap_page_locked
UnmapPage(m, root, va) ==
    LET w == WalkToLeaf(m, root, va, FALSE, FALSE) IN
    IF ~ w.ok \/ Leaf(w, va).kind = "absent" \/ ~ Leaf(w, va).owned
    THEN Result(FALSE, w.mem)
    ELSE Result(TRUE, Reclaim(SetEntry(w.mem, w.path[4], va[4], Absent), w.path, va))

\* The loop of vmm_map_pages_locked at the k-th page of run, and the state after k pages:
\* they are mapped to consecutive frames until one cannot be.
MapNext(s, root, run, base, rights, k) ==
    LET next == MapPage(s.mem, root, run[k], base + k - 1, rights) IN
    CASE ~ s.ok -> s
      [] s.ok /\ next.ok -> [ok |-> TRUE, mem |-> next.mem, mapped |-> k]
      [] OTHER -> [ok |-> FALSE, mem |-> next.mem, mapped |-> k - 1]

Mapping(m, root, run, base, rights) ==
    LET after[k \in 0..Len(run)] ==
            IF k = 0
            THEN [ok |-> TRUE, mem |-> m, mapped |-> 0]
            ELSE MapNext(after[k - 1], root, run, base, rights, k)
    IN  after

\* Its undo: the first n pages of run unmapped, the last one first.
Unmapping(m, root, run, n) ==
    LET after[k \in 0..n] == IF k = 0 THEN m ELSE UnmapPage(after[k - 1], root, run[n - k + 1]).mem
    IN  after

\* Mutant: the undo stops before the first page.
MapRunKeepsFirst(m, root, run, base, rights) ==
    LET end == Mapping(m, root, run, base, rights)[Len(run)]
        undone == Unmapping(end.mem, root, run, end.mapped)
    IN  IF end.ok \/ end.mapped = 0 THEN end.mem ELSE undone[end.mapped - 1]

\* vmm_map_pages_locked: the first page that cannot be mapped undoes the others.
MapRun(m, root, run, base, rights) ==
    LET end == Mapping(m, root, run, base, rights)[Len(run)] IN
    IF end.ok THEN end.mem ELSE Unmapping(end.mem, root, run, end.mapped)[end.mapped]

\* vmm_protect_page_locked
ProtectPage(m, root, va, rights) ==
    LET w == WalkToLeaf(m, root, va, FALSE, rights.user)
        leaf == Leaf(w, va)
    IN  IF ~ w.ok \/ leaf.kind = "absent" \/ ~ leaf.owned
        THEN Result(FALSE, w.mem)
        ELSE Result(TRUE, SetEntry(w.mem, w.path[4], va[4],
                                   [leaf EXCEPT !.user = rights.user, !.writable = rights.writable]))

-----------------------------------------------------------------------------
(* Cloning the hierarchy Limine left.  Levels count down from 4, the PML4;  *)
(* Below is the same operation one level further down.                      *)

\* The tables one level below, of those the kernel allocated.
OwnTables(m, tables) ==
    {m.table[c[1]][c[2]].at :
        c \in {d \in tables \X Index : m.table[d[1]][d[2]].kind = "table" /\ m.table[d[1]][d[2]].owned}}

\* destroy_cloned_table comes to each of them once and frees it; never to a frame that is mapped.
DestroyClonedTable(m, t) ==
    LET third == OwnTables(m, {t})
        second == OwnTables(m, third)
        gone == {t} \cup third \cup second \cup OwnTables(m, second)
    IN  [table |-> [f \in DOMAIN m.table |-> IF f \in gone THEN EmptyTable ELSE m.table[f]], free |-> m.free \cup gone]

\* The loop of clone_table at one entry.  Pages stay shared, the top level's entry for
\* itself is turned to the copy.
CopyEntry(Below(_, _), s, source, new, level, i) ==
    LET e == s.mem.table[source][i]
        sub == Below(s.mem, e.at)
    IN  CASE ~ s.ok \/ e.kind = "absent" -> s
          [] s.ok /\ Leads(e) -> Result(TRUE, SetEntry(s.mem, new, i, e))
          [] s.ok /\ e.kind = "table" /\ level = 4 /\ e.at = source ->
                Result(TRUE, SetEntry(s.mem, new, i, [e EXCEPT !.at = new, !.owned = TRUE]))
          [] OTHER ->
                IF sub.ok
                THEN Result(TRUE, SetEntry(sub.mem, new, i, [e EXCEPT !.at = NextFrame(s.mem), !.owned = TRUE]))
                ELSE Result(FALSE, DestroyClonedTable(sub.mem, new))

\* clone_table: the copy of a table begins in the first frame it allocates.
Cloning(Below(_, _), m, source, level) ==
    LET after[k \in 0..EntryCount] ==
            IF k = 0
            THEN Result(TRUE, Allocate(m))
            ELSE CopyEntry(Below, after[k - 1], source, NextFrame(m), level, k - 1)
    IN  IF m.free = {} THEN Result(FALSE, m) ELSE after[EntryCount]

Clone0(m, source) == Result(FALSE, m)
Clone1(m, source) == Cloning(Clone0, m, source, 1)
Clone2(m, source) == Cloning(Clone1, m, source, 2)
Clone3(m, source) == Cloning(Clone2, m, source, 3)
CloneTable(m, source) == Cloning(Clone3, m, source, 4)

-----------------------------------------------------------------------------
Live == {s \in Space : pml4[s] # Nowhere}

Translate(s, va) == TranslateIn(memory.table, pml4[s], va)

\* vmm_take_ownership: the checks on the copy cannot fail if it is exact
TakeOwnership ==
    LET clone == CloneTable(memory, BootRoot) IN
    /\ ~ owned
    /\ memory' = clone.mem
    /\ IF clone.ok
       THEN /\ pml4' = [pml4 EXCEPT ![Kernel] = NextFrame(memory)]
            /\ owned' = TRUE
       ELSE UNCHANGED <<pml4, owned>>
    /\ UNCHANGED <<frames, cr3>>

Mapped(s, va) == Leads(Translate(s, va))

\* The upper half of the kernel's top-level table, closed to ring 3.
KernelHalf ==
    [i \in Index |-> IF i < KernelFirst THEN Absent ELSE [memory.table[pml4[Kernel]][i] EXCEPT !.user = FALSE]]

\* vmm_address_space_create.  The first process is created after the heap got
\* its first arena (main.c), which keeps the kernel's top-level entry in use.
CreateSpace(p) ==
    /\ owned
    /\ pml4[p] = Nowhere
    /\ Mapped(Kernel, Permanent)
    /\ memory.free # {}
    /\ pml4' = [pml4 EXCEPT ![p] = NextFrame(memory)]
    /\ memory' = [Allocate(memory) EXCEPT !.table[NextFrame(memory)] = KernelHalf]
    /\ UNCHANGED <<frames, cr3, owned>>

LowerHalfEmpty(p) == \A i \in Index : i < KernelFirst => memory.table[pml4[p]][i].kind = "absent"

\* vmm_address_space_destroy
DestroySpace(p) ==
    /\ p \in Live
    /\ p # cr3
    /\ LowerHalfEmpty(p)
    /\ memory' = Free(memory, pml4[p])
    /\ pml4' = [pml4 EXCEPT ![p] = Nowhere]
    /\ UNCHANGED <<frames, cr3, owned>>

\* vmm_map_page, vmm_map_pages.  A call that leaves the memory as it was is no step.
Map(s, run, base, rights) ==
    /\ owned
    /\ s \in Live
    /\ memory' = MapRun(memory, pml4[s], run, base, rights)
    /\ memory' # memory
    /\ UNCHANGED <<frames, pml4, cr3, owned>>

\* vmm_unmap_page
Unmap(s, va) ==
    /\ owned
    /\ s \in Live
    /\ memory' = UnmapPage(memory, pml4[s], va).mem
    /\ memory' # memory
    /\ UNCHANGED <<frames, pml4, cr3, owned>>

\* vmm_protect_page
Protect(s, va, rights) ==
    /\ owned
    /\ s \in Live
    /\ memory' = ProtectPage(memory, pml4[s], va, rights).mem
    /\ memory' # memory
    /\ UNCHANGED <<frames, pml4, cr3, owned>>

\* vmm_activate
Activate(s) ==
    /\ s \in Live
    /\ cr3' = s
    /\ UNCHANGED <<frames, memory, pml4, owned>>

KernelRights == [user : {FALSE}, writable : {TRUE}]

UserRights == [user : {TRUE}, writable : BOOLEAN]

Bases == {b \in Data : \A r \in KernelRuns \cup UserRuns : \A k \in 1..Len(r) : b + k - 1 \in Data}

Next ==
    \/ TakeOwnership
    \/ \E run \in KernelRuns, base \in Bases, rights \in KernelRights : Map(Kernel, run, base, rights)
    \/ \E va \in Pages(KernelRuns) \ {Permanent} : Unmap(Kernel, va)
    \/ \E p \in Process :
        \/ CreateSpace(p)
        \/ DestroySpace(p)
        \/ \E run \in UserRuns, base \in Bases, rights \in UserRights : Map(p, run, base, rights)
        \/ \E va \in Pages(UserRuns) : Unmap(p, va) \/ \E rights \in UserRights : Protect(p, va, rights)
    \/ \E s \in Space : Activate(s)

Spec == Init /\ [][Next]_vars

-----------------------------------------------------------------------------
Children(tables) ==
    {memory.table[c[1]][c[2]].at : c \in {d \in tables \X Index : memory.table[d[1]][d[2]].kind = "table"}}

\* The tables a walk can come to, four levels down from the roots.
InUse ==
    LET top == {pml4[s] : s \in Live}
        third == Children(top)
        second == Children(third)
    IN  top \cup third \cup second \cup Children(second)

\* Frames allocated for tables are exactly the tables some space can reach, after
\* every failed map, failed clone, unmap and destruction: none is leaked and no
\* walk, in any space, runs into a frame that was given back.  A table hangs in
\* one place, but for those of the upper half, which hang from every top level.
TablesExact ==
    LET inUse == InUse
        parents(f) == {c \in inUse \X Index : memory.table[c[1]][c[2]].kind = "table" /\ memory.table[c[1]][c[2]].at = f}
    IN  /\ TypeOK
        /\ inUse \cap Frame = frames \ memory.free
        /\ \A f \in inUse : \A x, y \in parents(f) : x = y \/ (x[2] = y[2] /\ x[2] >= KernelFirst)

Address == Pages(KernelRuns) \cup Pages(UserRuns)

View ==
    {[space |-> c[1], va |-> c[2], at |-> Translate(c[1], c[2]).at,
      user |-> Translate(c[1], c[2]).user, writable |-> Translate(c[1], c[2]).writable] :
        c \in {d \in Live \X Address : Mapped(d[1], d[2])}}

UpperPages == {va \in Address : va[1] >= KernelFirst}

BootPages == {va \in Address : Leads(TranslateIn(Boot, BootRoot, va))}

Promise == INSTANCE VmmSpec WITH view <- View, live <- Live, loaded <- cr3

\* What each call does to the mappings is what the promise says of that call.
CallForCall ==
    /\ \A run \in KernelRuns, base \in Bases, rights \in KernelRights :
         Map(Kernel, run, base, rights) => Promise!MapPages(Kernel, run, base, rights, View, View')
    /\ \A va \in Pages(KernelRuns) \ {Permanent} :
         Unmap(Kernel, va) => Promise!UnmapPage(Kernel, va, View, View')
    /\ \A p \in Process, run \in UserRuns, base \in Bases, rights \in UserRights :
         Map(p, run, base, rights) => Promise!MapPages(p, run, base, rights, View, View')
    /\ \A p \in Process, va \in Pages(UserRuns) :
         /\ Unmap(p, va) => Promise!UnmapPage(p, va, View, View')
         /\ \A rights \in UserRights : Protect(p, va, rights) => Promise!ProtectPage(p, va, rights, View, View')

\* The tables implement the mappings, call for call: a run is mapped as a whole, to the
\* frames and with the rights asked for, or nothing changes, however far the call came
\* before it ran out of frames; unmapping and protecting change the page they name; and
\* all of them in the spaces concerned and in no other.
ImplementsVmm == Promise!VmmSpecification /\ [][CallForCall]_vars
=============================================================================
