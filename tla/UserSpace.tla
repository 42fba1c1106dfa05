----------------------------- MODULE UserSpace -----------------------------
(***************************************************************************)
(* What a process is made of: the three ways task/user.c launches one      *)
(* (user_mode_self_test, user_desktop_start, user_application_spawn), the  *)
(* ELF loader (task/elf.c) that fills its address space, the framebuffer   *)
(* it may map (object/framebuffer.c), the copies between it and the kernel *)
(* (user_copy.c) and its destruction (task/process.c).                     *)
(*                                                                         *)
(* A launch is a sequence of steps, each of which can fail for want of a   *)
(* frame, a table or heap memory, and then everything is undone.  Launches *)
(* and system calls are not interrupted by one another: system calls run   *)
(* with interrupts masked, and the boot thread launches the desktop before *)
(* there is any other process.  The page tables themselves are Vmm's.      *)
(***************************************************************************)
EXTENDS Integers, FiniteSets, FiniteSetsExt, Functions

CONSTANTS
    Process,        \* addresses kcalloc can return for a struct kernel_process
    None,
    Files,          \* the executables: a header and a set of segments
    PoolSizes,      \* how many frames the page allocator may have
    PageSize,       \* VMM_PAGE_SIZE
    UserBase,       \* USER_SPACE_BASE
    UserTop,        \* USER_SPACE_TOP
    StackPages,     \* USER_APPLICATION_STACK_PAGES and USER_DESKTOP_STACK_PAGES
    FramebufferVa,  \* the page of FRAMEBUFFER_USER_MAPPING_BASE
    FramebufferPages,
    MaxImagePages,  \* ELF64_MAX_IMAGE_PAGES
    SlotCount       \* USER_APPLICATION_RUNTIME_LIMIT

ASSUME SizesAssumption ==
    /\ {PageSize, StackPages, FramebufferPages, MaxImagePages, SlotCount} \subseteq Nat \ {0}
    /\ {UserBase, UserTop, FramebufferVa} \subseteq Nat
    /\ UserBase % PageSize = 0 /\ UserTop % PageSize = 0

\* The largest stack and the framebuffer lie in the lower half.
ASSUME LayoutAssumption ==
    /\ UserBase + StackPages * PageSize <= UserTop
    /\ UserBase <= FramebufferVa * PageSize
    /\ (FramebufferVa + FramebufferPages) * PageSize <= UserTop

\* What the fields of the ELF headers can hold.
ASSUME FilesAssumption ==
    \A e \in Files :
        /\ e.entry \in Nat
        /\ IsFiniteSet(e.segments)
        /\ \A s \in e.segments : {s.va, s.memsz, s.filesz} \subseteq Nat

ASSUME PoolsAssumption == PoolSizes \in SUBSET Nat /\ IsFiniteSet(PoolSizes) /\ PoolSizes # {}

ASSUME NoneAssumption ==
    /\ None \notin Process \cup {"test", "desktop", "application"}
    /\ None \notin [p : Process, step : STRING]

VARIABLES
    boot,      \* how far the boot thread is
    kind,      \* what each existing process was launched as, or None
    thread,    \* the state of its thread
    space,     \* the lower half of its address space: page to [frame, write, exec]
    image,     \* the loader's page records: page to frame
    capacity,  \* how many of them the loader has allocated
    stack,     \* the frames of its user stack and whether they are mapped
    file,      \* the executable it was made from
    job,       \* the launch in progress: its process and its next step, or None
    pool,      \* the frames the page allocator can hand out
    free,      \* those that are free
    content,   \* what is in each frame
    owner,     \* mapped_process of the framebuffer
    slots      \* occupied runtime slots

processVars == <<kind, thread, space, image, capacity, stack, file>>
vars == <<boot, processVars, job, pool, free, content, owner, slots>>

Frame == 1..Max(PoolSizes)

Empty == <<>>

NoStack == [frames |-> {}, mapped |-> FALSE]

Stale == [by |-> None, what |-> "stale"]
Zero  == [by |-> None, what |-> "zero"]

Live == {p \in Process : kind[p] # None}

\* The frame of the framebuffer's page k, not one of the page allocator's.
Device(k) == -1 - k

Init ==
    /\ boot = "ready"
    /\ kind = [p \in Process |-> None]
    /\ thread = [p \in Process |-> "none"]
    /\ space = [p \in Process |-> Empty]
    /\ image = [p \in Process |-> Empty]
    /\ capacity = [p \in Process |-> 0]
    /\ stack = [p \in Process |-> NoStack]
    /\ file = [p \in Process |-> None]
    /\ job = None
    /\ \E n \in PoolSizes : pool = 1..n
    /\ free = pool
    /\ content = [f \in Frame |-> Stale]
    /\ owner = None
    /\ slots = 0

-----------------------------------------------------------------------------
(* The loader's view of a file (elf.c).                                     *)

\* page_floor, as a page number
PageFloor(a) == a \div PageSize

\* page_ceiling
PageCeiling(a) == (a + PageSize - 1) \div PageSize

PowerOfTwo(n) == \E k \in 0..n : n = 2^k

\* The segments the loops do not pass over.
Loadable(e) == {s \in e.segments : s.load /\ s.memsz # 0}

\* The pages of a segment.
Span(s) == PageFloor(s.va)..(PageCeiling(s.va + s.memsz) - 1)

\* The bounds of one segment; a sum that would wrap is past the bound too.
SegmentOk(e, s) ==
    /\ s.filesz <= s.memsz
    /\ s.offset + s.filesz <= e.size
    /\ s.va >= UserBase
    /\ s.va + s.memsz <= UserTop
    /\ ~ {"write", "exec"} \subseteq s.flags
    /\ s.align > 1 => PowerOfTwo(s.align) /\ s.va % s.align = s.offset % s.align

\* page_capacity: pages two segments share are counted twice
PageCapacity(e) == Cardinality(UNION {{s} \X Span(s) : s \in Loadable(e)})

\* The entry point is a byte of the file in an executable segment.
EntryOk(e) == \E s \in Loadable(e) : "exec" \in s.flags /\ e.entry >= s.va /\ e.entry < s.va + s.filesz

\* analyze_elf
Analyze(e) ==
    /\ e.header
    /\ Loadable(e) # {}
    /\ \A s \in Loadable(e) : SegmentOk(e, s)
    /\ PageCapacity(e) <= MaxImagePages
    /\ EntryOk(e)

\* The first pass of elf64_load: every page, with the flags of all its segments.
ImagePages(e) == UNION {Span(s) : s \in Loadable(e)}

PageFlags(e, va) == UNION {s.flags : s \in {t \in Loadable(e) : va \in Span(t)}}

\* Mutant: pages two segments share are not looked at again.
NoWritableCodeEach(e) == \A s \in Loadable(e) : ~ {"write", "exec"} \subseteq s.flags

\* No page is both writable and executable because two segments share it.
NoWritableCode(e) == \A va \in ImagePages(e) : ~ {"write", "exec"} \subseteq PageFlags(e, va)

\* The pages the copying loop touches: those that hold bytes of the file.
FilePages(e) ==
    UNION {PageFloor(s.va)..PageFloor(s.va + s.filesz - 1) : s \in {t \in e.segments : t.load /\ t.filesz # 0}}

\* vmm_flags_from_elf
VmmFlags(flags, frame) == [frame |-> frame, write |-> "write" \in flags, exec |-> "exec" \in flags]

-----------------------------------------------------------------------------
(* Launching a process.                                                     *)

StackSize(k) == IF k = "test" THEN 1 ELSE StackPages

StackVa(k) == (PageFloor(UserTop) - StackSize(k))..(PageFloor(UserTop) - 1)

\* The lowest n free frames; pmm_allocate_page, pmm_allocate_pages.
Lowest(n) == CHOOSE s \in SUBSET free : Cardinality(s) = n /\ \A f \in s, g \in free \ s : f < g

Goto(step) == job' = [job EXCEPT !.step = step]

\* A new process with an empty lower half; kernel_process_create.
Begin(k, e) ==
    /\ job = None
    /\ Analyze(e)
    /\ \E p \in Process \ Live :
        /\ kind' = [kind EXCEPT ![p] = k]
        /\ file' = [file EXCEPT ![p] = e]
        /\ job' = [p |-> p, step |-> "pages"]
        /\ capacity' = [capacity EXCEPT ![p] = PageCapacity(e)]
    /\ UNCHANGED <<thread, space, image, stack, pool, free, content, owner>>

\* user_mode_self_test, which the boot thread may run before the desktop
StartTest(e) ==
    /\ boot = "ready"
    /\ boot' = "testing"
    /\ Begin("test", e)
    /\ UNCHANGED slots

\* user_desktop_start
StartDesktop(e) ==
    /\ boot \in {"ready", "tested"}
    /\ boot' = "starting"
    /\ Begin("desktop", e)
    /\ UNCHANGED slots

\* A process in ring 3: no launch is going on, the machine is not halted.
Running(p) == thread[p] = "running" /\ job = None /\ boot # "halted"

\* user_buffer_validate for reading: every page is mapped, for ring 3.
UserBufferReadable(p, pages) == pages \subseteq DOMAIN space[p]

\* SPAWN: the path, here in one page, is copied in; user_application_spawn up to
\* the process.
Spawn(parent, path, e) ==
    /\ Running(parent)
    /\ UserBufferReadable(parent, {path})
    /\ slots < SlotCount
    /\ slots' = slots + 1
    /\ Begin("application", e)
    /\ UNCHANGED boot

At(step) == job # None /\ job.step = step

\* Mutant: the frame of a page is not cleared.
ClearedNot(frames) == content

\* The contents once the frames are cleared.
Cleared(frames) == [f \in Frame |-> IF f \in frames THEN Zero ELSE content[f]]

\* elf64_load: a frame for the next page, cleared
TakePage ==
    LET p == job.p
        todo == ImagePages(file[p]) \ DOMAIN image[p]
        frame == Min(free)
    IN  /\ At("pages")
        /\ NoWritableCode(file[p])
        /\ todo # {}
        /\ free # {}
        /\ free' = free \ {frame}
        /\ image' = [image EXCEPT ![p] = [va \in DOMAIN @ \cup {Min(todo)} |-> IF va \in DOMAIN @ THEN @[va] ELSE frame]]
        /\ content' = Cleared({frame})
        /\ Goto("map")
        /\ UNCHANGED <<boot, kind, thread, space, capacity, stack, file, pool, owner, slots>>

\* elf64_load: that page mapped
MapPage ==
    LET p == job.p
        va == Min(DOMAIN image[p] \ DOMAIN space[p])
        leaf == VmmFlags(PageFlags(file[p], va), image[p][va])
    IN  /\ At("map")
        /\ space' = [space EXCEPT ![p] = [v \in DOMAIN @ \cup {va} |-> IF v = va THEN leaf ELSE @[v]]]
        /\ Goto(IF DOMAIN image[p] = ImagePages(file[p]) THEN "copy" ELSE "pages")
        /\ UNCHANGED <<boot, kind, thread, image, capacity, stack, file, pool, free, content, owner, slots>>

\* elf64_load: the bytes of the file
CopySegments ==
    LET p == job.p IN
    /\ At("copy")
    /\ FilePages(file[p]) \subseteq DOMAIN image[p]
    /\ content' = [f \in Frame |-> IF \E va \in FilePages(file[p]) : image[p][va] = f
                                   THEN [by |-> p, what |-> "file"] ELSE content[f]]
    /\ Goto("stack")
    /\ UNCHANGED <<boot, processVars, pool, free, owner, slots>>

\* The frames of the user stack, cleared.
TakeStack ==
    LET p == job.p
        frames == Lowest(StackSize(kind[p]))
    IN  /\ At("stack")
        /\ Cardinality(free) >= StackSize(kind[p])
        /\ free' = free \ frames
        /\ stack' = [stack EXCEPT ![p].frames = frames]
        /\ content' = Cleared(frames)
        /\ Goto("map_stack")
        /\ UNCHANGED <<boot, kind, thread, space, image, capacity, file, pool, owner, slots>>

\* vmm_map_page or vmm_map_pages: all of it, if none of its pages is mapped
MapStack ==
    LET p == job.p
        pages == StackVa(kind[p])
        FrameFor(va) == CHOOSE f \in stack[p].frames :
                           Cardinality({g \in stack[p].frames : g < f}) = va - Min(pages)
        leaf(va) == [frame |-> FrameFor(va), write |-> TRUE, exec |-> FALSE]
    IN  /\ At("map_stack")
        /\ pages \cap DOMAIN space[p] = {}
        /\ space' = [space EXCEPT ![p] = [v \in DOMAIN @ \cup pages |-> IF v \in pages THEN leaf(v) ELSE @[v]]]
        /\ stack' = [stack EXCEPT ![p].mapped = TRUE]
        /\ Goto("thread")
        /\ UNCHANGED <<boot, kind, thread, image, capacity, file, pool, free, content, owner, slots>>

\* kernel_thread_create_user
StartThread ==
    /\ At("thread")
    /\ thread' = [thread EXCEPT ![job.p] = "running"]
    /\ job' = None
    /\ boot' = IF boot = "starting" THEN "up" ELSE boot
    /\ UNCHANGED <<kind, space, image, capacity, stack, file, pool, free, content, owner, slots>>

-----------------------------------------------------------------------------
(* Undoing a launch, and the end of the self test.                          *)

\* Mutant: a frame that could not be mapped is not given back.
ReleasedMapped(p) == {space[p][va].frame : va \in DOMAIN image[p] \cap DOMAIN space[p]} \cup stack[p].frames

\* The frames release_pages and the release of the stack give back.
ReleasedFrames(p) == {image[p][va] : va \in DOMAIN image[p]} \cup stack[p].frames

\* The pages they unmap.
ReleasedPages(p) == DOMAIN image[p] \cup (IF stack[p].mapped THEN StackVa(kind[p]) ELSE {})

\* Mutant: the pages still mapped in a process are not looked at.
LowerHalfIgnored(pages) == TRUE

\* What vmm_address_space_destroy requires, of the pages that are left.
LowerHalfEmpty(pages) == pages = {}

\* Release the stack, unload the image (release_pages, elf64_unload) and destroy
\* the process (kernel_process_destroy), which fails if anything is still mapped.
Dismantle(p) ==
    LET left == DOMAIN space[p] \ ReleasedPages(p) IN
    /\ free' = free \cup ReleasedFrames(p)
    /\ image' = [image EXCEPT ![p] = Empty]
    /\ stack' = [stack EXCEPT ![p] = NoStack]
    /\ capacity' = [capacity EXCEPT ![p] = 0]
    /\ IF LowerHalfEmpty(left)
       THEN /\ kind' = [kind EXCEPT ![p] = None]
            /\ thread' = [thread EXCEPT ![p] = "none"]
            /\ space' = [space EXCEPT ![p] = Empty]
            /\ file' = [file EXCEPT ![p] = None]
       ELSE /\ space' = [space EXCEPT ![p] = Restrict(@, left)]
            /\ UNCHANGED <<kind, thread, file>>

\* The failure label of the launch: no handle, no heap memory, no frame, no
\* table, a page that is mapped already, or no thread.
LaunchFails ==
    /\ job # None
    /\ Dismantle(job.p)
    /\ job' = None
    /\ slots' = IF kind[job.p] = "application" THEN slots - 1 ELSE slots
    /\ boot' = IF kind[job.p] = "application" THEN boot ELSE "halted"
    /\ UNCHANGED <<pool, content, owner>>

Testing(p) == boot = "testing" /\ job = None /\ kind[p] = "test"

\* The thread of the test has exited, with the right status or another.
FinishTest(p, passed) ==
    /\ Testing(p)
    /\ thread[p] = "exited"
    /\ Dismantle(p)
    /\ boot' = IF passed /\ kind'[p] = None /\ free' = pool THEN "tested" ELSE "halted"
    /\ UNCHANGED <<job, pool, content, owner, slots>>

\* It has not exited after 32 yields: nothing of it may be touched.
TestGivesUp(p) ==
    /\ Testing(p)
    /\ thread[p] = "running"
    /\ boot' = "halted"
    /\ UNCHANGED <<processVars, job, pool, free, content, owner, slots>>

-----------------------------------------------------------------------------
(* What a process does to its own memory.                                   *)

Write(p, frames) ==
    content' = [f \in Frame |-> IF f \in frames THEN [by |-> p, what |-> "written"] ELSE content[f]]

\* A store of the program.
Store(p, va) ==
    /\ Running(p)
    /\ va \in DOMAIN space[p] /\ space[p][va].write
    /\ Write(p, {space[p][va].frame})
    /\ UNCHANGED <<boot, processVars, job, pool, free, owner, slots>>

\* user_buffer_validate for writing: every page mapped, for ring 3, writable.
UserBufferValid(p, pages) == \A va \in pages : va \in DOMAIN space[p] /\ space[p][va].write

\* copy_to_user on behalf of a read, a receive or an ioctl
CopyToUser(p, pages) ==
    /\ Running(p)
    /\ UserBufferValid(p, pages)
    /\ Write(p, {space[p][va].frame : va \in pages})
    /\ UNCHANGED <<boot, processVars, job, pool, free, owner, slots>>

\* Only these launches attach the framebuffer's handle, and a handle a child
\* inherits never has the right to map it or to ask about it.
HasFramebuffer(p) == kind[p] \in {"test", "desktop"}

\* IOCTL: framebuffer_ioctl's answer is copied to the process.
Ioctl(p, pages) == HasFramebuffer(p) /\ CopyToUser(p, pages)

FramebufferVas(n) == FramebufferVa..(FramebufferVa + n - 1)

\* vmm_unmap_page of the framebuffer's first n pages
UnmapFirstPages(s, n) == Restrict(s, DOMAIN s \ FramebufferVas(n))

\* vmm_map_page of them
MapFirstPages(s, n) ==
    [va \in DOMAIN s \cup FramebufferVas(n) |->
        IF va \in FramebufferVas(n)
        THEN [frame |-> Device(va - FramebufferVa), write |-> TRUE, exec |-> FALSE]
        ELSE s[va]]

\* framebuffer_map: a page that is mapped already or has no table stops the loop
\* after n pages, and these are unmapped.
FramebufferMap(p, n) ==
    /\ owner = None
    /\ FramebufferVas(n) \cap DOMAIN space[p] = {}
    /\ LET mapped == MapFirstPages(space[p], n) IN
       IF n = FramebufferPages
       THEN /\ space' = [space EXCEPT ![p] = mapped]
            /\ owner' = p
       ELSE /\ space' = [space EXCEPT ![p] = UnmapFirstPages(mapped, n)]
            /\ UNCHANGED owner
    /\ UNCHANGED <<boot, kind, thread, image, capacity, stack, file, job, pool, free, content, slots>>

\* framebuffer_unmap
FramebufferUnmap(p) ==
    /\ owner = p
    /\ space' = [space EXCEPT ![p] = UnmapFirstPages(@, FramebufferPages)]
    /\ owner' = None
    /\ UNCHANGED <<boot, kind, thread, image, capacity, stack, file, job, pool, free, content, slots>>

\* MEMORY_MAP and MEMORY_UNMAP; no other object can be mapped.
MemoryMap(p) ==
    /\ Running(p)
    /\ HasFramebuffer(p)
    /\ \E n \in 0..FramebufferPages : FramebufferMap(p, n)

MemoryUnmap(p) == Running(p) /\ HasFramebuffer(p) /\ FramebufferUnmap(p)

\* The process exits, or is stopped by an exception; its memory stays as it is.
Exit(p) ==
    /\ Running(p)
    /\ thread' = [thread EXCEPT ![p] = "exited"]
    /\ UNCHANGED <<boot, kind, space, image, capacity, stack, file, job, pool, free, content, owner, slots>>

Page == 0..(PageFloor(UserTop) + 1)

Next ==
    \/ \E e \in Files : StartTest(e) \/ StartDesktop(e) \/ \E p \in Process, path \in Page : Spawn(p, path, e)
    \/ TakePage \/ MapPage \/ CopySegments \/ TakeStack \/ MapStack \/ StartThread \/ LaunchFails
    \/ \E p \in Process :
        \/ TestGivesUp(p) \/ \E passed \in BOOLEAN : FinishTest(p, passed)
        \/ \E va \in Page : Store(p, va) \/ CopyToUser(p, {va, va + 1}) \/ Ioctl(p, {va})
        \/ MemoryMap(p) \/ MemoryUnmap(p) \/ Exit(p)

Spec == Init /\ [][Next]_vars

-----------------------------------------------------------------------------
TypeOK ==
    /\ boot \in {"ready", "testing", "tested", "starting", "up", "halted"}
    /\ kind \in [Process -> {"test", "desktop", "application", None}]
    /\ thread \in [Process -> {"none", "running", "exited"}]
    /\ free \subseteq pool
    /\ owner \in Process \cup {None}
    /\ slots \in 0..SlotCount

\* Every frame is free or recorded once, in the image or the stack of one
\* process, and what a process can reach is a frame recorded for it or the
\* framebuffer: a launch that fails at any point leaks no frame and leaves none
\* mapped that was given back.  The loader's records fit the array it allocated.
FramesExact ==
    LET recorded(p) == {image[p][va] : va \in DOMAIN image[p]} \cup stack[p].frames IN
    /\ TypeOK
    /\ free = pool \ UNION {recorded(p) : p \in Live}
    /\ \A p \in Live :
        /\ Cardinality(DOMAIN image[p]) <= capacity[p]
        /\ Cardinality(recorded(p)) = Cardinality(DOMAIN image[p]) + Cardinality(stack[p].frames)
        /\ \A q \in Live \ {p} : recorded(p) \cap recorded(q) = {}
        /\ \A va \in DOMAIN space[p] : space[p][va].frame \in Frame => space[p][va].frame \in recorded(p)

Bytes(va) == (va * PageSize)..(va * PageSize + PageSize - 1)

Covers(s, b) == s.load /\ b >= s.va /\ b < s.va + s.memsz

\* A process runs in exactly what its executable describes: a page is mapped if
\* a segment has a byte in it, writable and executable if one of these segments
\* is, and not both; there is a writable stack up to the top; nothing below the
\* null guard, nothing above the top; and the first instruction is executable.
ImageAsDescribed ==
    \A p \in Live : thread[p] = "running" =>
      LET touching(va) == {s \in file[p].segments : \E b \in Bytes(va) : Covers(s, b)}
          mapped == {va \in DOMAIN space[p] : space[p][va].frame \in Frame}
      IN  /\ mapped = {va \in Page : touching(va) # {}} \cup StackVa(kind[p])
          /\ \A va \in mapped \ StackVa(kind[p]) :
               /\ space[p][va].write = (\E s \in touching(va) : "write" \in s.flags)
               /\ space[p][va].exec = (\E s \in touching(va) : "exec" \in s.flags)
          /\ \A va \in DOMAIN space[p] :
               /\ ~ (space[p][va].write /\ space[p][va].exec)
               /\ Bytes(va) \subseteq UserBase..(UserTop - 1)
          /\ \A va \in StackVa(kind[p]) : space[p][va].write
          /\ \E va \in mapped : file[p].entry \in Bytes(va) /\ space[p][va].exec

\* A process sees its own data, its file and zeros, never what another process or
\* the kernel left in a frame; and no call of the kernel writes where the process
\* itself may not.
OwnDataOnly ==
    \A p \in Live : \A va \in DOMAIN space[p] :
        space[p][va].frame \in Frame =>
            LET c == content[space[p][va].frame] IN
            /\ c = Zero \/ c.by = p
            /\ c.what = "written" => space[p][va].write

\* The framebuffer is mapped whole, in the process it remembers, or nowhere; that
\* process has not been freed, whatever became of its thread.
FramebufferOwned ==
    /\ owner # None => owner \in Live
    /\ \A p \in Live :
         {space[p][va].frame : va \in DOMAIN space[p]} \ Frame =
             IF p = owner THEN {Device(k) : k \in 0..(FramebufferPages - 1)} ELSE {}
=============================================================================
