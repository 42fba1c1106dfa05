------------------------------ MODULE Objects ------------------------------
(***************************************************************************)
(* Who keeps a channel alive: the reference counts of object/object.c, the *)
(* handle tables of task/process.c, the endpoints of object/channel.c, and *)
(* the system calls of syscall.c and task/user.c that move references      *)
(* between them.                                                           *)
(*                                                                         *)
(* A process here is the struct kernel_process with its one thread.  One   *)
(* action is one critical section or one atomic update.  The processes     *)
(* interleave between any two of them, which is what the locks and the     *)
(* atomics must withstand (a kernel thread is preemptible there; a system  *)
(* call runs with interrupts masked, which only removes interleavings).    *)
(***************************************************************************)
EXTENDS Integers, FiniteSets

CONSTANTS
    Process,         \* addresses kcalloc can return for a struct kernel_process
    desktop,         \* the process that runs first
    Channel,         \* addresses kcalloc can return for a struct kernel_channel
    HandleCount,     \* KERNEL_PROCESS_MAX_HANDLES
    StandardHandle,  \* the handles a new process finds connected
    FirstDynamic,    \* KERNEL_PROCESS_FIRST_DYNAMIC_HANDLE
    SlotCount,       \* the runtime slots of user.c
    console,         \* the static objects behind the standard handles
    None             \* the null pointer

Side     == {0, 1}
Endpoint == Channel \X Side
Handle   == 0..(HandleCount - 1)

ASSUME BoundsAssumption ==
    /\ IsFiniteSet(Process) /\ desktop \in Process
    /\ HandleCount \in Nat /\ FirstDynamic \in Nat /\ SlotCount \in Nat
    /\ StandardHandle \subseteq 0..(FirstDynamic - 1)
    /\ StandardHandle \subseteq Handle

ASSUME NamesAssumption ==
    /\ None \notin Process \cup Channel \cup Endpoint \cup Handle
    /\ console \notin Endpoint \cup {None}

VARIABLES
    allocated,  \* per channel: its memory is allocated
    open,       \* per endpoint: channel->endpoint_open
    refs,       \* per endpoint: object->reference_count
    life,       \* per process: its struct and its thread
    table,      \* process->handles
    slots,      \* occupied runtime slots
    pc,         \* where the process stands in its system call
    local,      \* the object pointers in the local variables of that call
    array,      \* objects_to_release in kernel_process_destroy
    pair,       \* the handle numbers syscall_handle_channel_create allocated
    spawning,   \* the child user_application_spawn has in hand
    dying,      \* the endpoint whose destroy a release has to call
    freeing     \* the channel a channel_destroy has to kfree

objectVars == <<allocated, open, refs>>
callVars   == <<local, array, pair, spawning>>
calleeVars == <<dying, freeing>>
vars == <<objectVars, life, table, slots, pc, callVars, calleeVars>>

Pointer == Endpoint \cup {console, None}
Local   == {"first", "second", "entry", "object"}

CreateSteps == {"retain_first", "put_first", "retain_second", "put_second", "drop_entry",
                "close_first", "drop_closed", "drop_first", "drop_second", "copy_out",
                "uncopy_first", "drop_uncopied", "uncopy_second"}
SpawnSteps  == {"create", "inherit", "retain_child", "put_child", "unput_child",
                "drop_inherited", "drop_refused", "load", "destroy", "drop_array", "free_process", "free_slot"}
Steps       == {"user", "use", "drop_object"} \cup CreateSteps \cup SpawnSteps

TypeOK ==
    /\ allocated \in [Channel -> BOOLEAN]
    /\ open \in [Endpoint -> BOOLEAN]
    /\ refs \in [Endpoint -> Nat]
    /\ life \in [Process -> {"free", "new", "running", "exited", "terminated"}]
    /\ table \in [Process -> [Handle -> Pointer]]
    /\ slots \in 0..SlotCount
    /\ pc \in [Process -> Steps]
    /\ local \in [Process -> [Local -> Pointer]]
    /\ array \in [Process -> [Handle -> Pointer]]
    /\ pair \in [Process -> [{"first", "second"} -> Handle \cup {None}]]
    /\ spawning \in [Process -> Process \cup {None}]
    /\ dying \in [Process -> Endpoint \cup {None}]
    /\ freeing \in [Process -> Channel \cup {None}]

NoHandles == [h \in Handle |-> None]

Connected == [h \in Handle |-> IF h \in StandardHandle THEN console ELSE None]

Init ==
    /\ allocated = [c \in Channel |-> FALSE]
    /\ open = [e \in Endpoint |-> FALSE]
    /\ refs = [e \in Endpoint |-> 0]
    /\ life = [p \in Process |-> IF p = desktop THEN "running" ELSE "free"]
    /\ table = [p \in Process |-> IF p = desktop THEN Connected ELSE NoHandles]
    /\ slots = 0
    /\ pc = [p \in Process |-> "user"]
    /\ local = [p \in Process |-> [x \in Local |-> None]]
    /\ array = [p \in Process |-> NoHandles]
    /\ pair = [p \in Process |-> [x \in {"first", "second"} |-> None]]
    /\ spawning = [p \in Process |-> None]
    /\ dying = [p \in Process |-> None]
    /\ freeing = [p \in Process |-> None]

-----------------------------------------------------------------------------
(* object.c and channel.c                                                  *)

\* The process is at this step of its call, and no destroy is still to run.
At(p, step) ==
    /\ life[p] = "running"
    /\ pc[p] = step
    /\ dying[p] = None
    /\ freeing[p] = None

Goto(p, step) == pc' = [pc EXCEPT ![p] = step]

\* kernel_object_retain into a local variable; static objects are not counted.
Retain(p, object, x) ==
    /\ local' = [local EXCEPT ![p][x] = object]
    /\ refs' = IF object \in Endpoint THEN [refs EXCEPT ![object] = @ + 1] ELSE refs

\* Whether kernel_object_retain succeeds
Retainable(object) == object = console \/ (object \in Endpoint /\ refs[object] # 0)

\* kernel_object_release: whoever takes the count to zero calls destroy.
Release(p, object) ==
    IF object \in Endpoint /\ refs[object] # 0
    THEN /\ refs' = [refs EXCEPT ![object] = @ - 1]
         /\ dying' = [dying EXCEPT ![p] = IF refs[object] = 1 THEN object ELSE None]
    ELSE UNCHANGED <<refs, dying>>

\* Release what a local variable points to and go on.
Drop(p, step, x, next) ==
    /\ At(p, step)
    /\ Release(p, local[p][x])
    /\ local' = [local EXCEPT ![p][x] = None]
    /\ Goto(p, next)
    /\ UNCHANGED <<allocated, open, life, table, slots, array, pair, spawning, freeing>>

\* Mutant: each endpoint frees the channel as it closes.
DestroyAlone(p) ==
    /\ dying[p] # None
    /\ open' = [open EXCEPT ![dying[p]] = FALSE]
    /\ freeing' = [freeing EXCEPT ![p] = dying[p][1]]
    /\ dying' = [dying EXCEPT ![p] = None]
    /\ UNCHANGED <<allocated, refs, life, table, slots, pc, callVars>>

\* channel_destroy up to its unlock
ChannelDestroy(p) ==
    /\ dying[p] # None
    /\ LET c == dying[p][1] IN
       /\ open' = [open EXCEPT ![dying[p]] = FALSE]
       /\ freeing' = [freeing EXCEPT ![p] =
                         IF \A s \in Side : ~ open'[<<c, s>>] THEN c ELSE None]
    /\ dying' = [dying EXCEPT ![p] = None]
    /\ UNCHANGED <<allocated, refs, life, table, slots, pc, callVars>>

\* Its kfree
FreeChannel(p) ==
    /\ freeing[p] # None
    /\ allocated' = [allocated EXCEPT ![freeing[p]] = FALSE]
    /\ freeing' = [freeing EXCEPT ![p] = None]
    /\ UNCHANGED <<open, refs, life, table, slots, pc, callVars, dying>>

-----------------------------------------------------------------------------
(* syscall_handle_channel_create                                           *)

\* kernel_channel_create_pair; when kcalloc fails the call changes nothing.
CreatePair(p) ==
    /\ At(p, "user")
    /\ \E c \in Channel :
         /\ ~ allocated[c]
         /\ allocated' = [allocated EXCEPT ![c] = TRUE]
         /\ open' = [e \in Endpoint |-> e[1] = c \/ open[e]]
         /\ refs' = [e \in Endpoint |-> IF e[1] = c THEN 1 ELSE refs[e]]
         /\ local' = [local EXCEPT ![p].first = <<c, 0>>, ![p].second = <<c, 1>>]
    /\ pair' = [pair EXCEPT ![p] = [x \in {"first", "second"} |-> None]]
    /\ Goto(p, "retain_first")
    /\ UNCHANGED <<life, table, slots, array, spawning, calleeVars>>

\* The table's reference, taken before the lock
RetainEntry(p, step, x, next) ==
    /\ At(p, step)
    /\ Retain(p, local[p][x], "entry")
    /\ Goto(p, next)
    /\ UNCHANGED <<allocated, open, life, table, slots, array, pair, spawning, calleeVars>>

FreeHandle(p) == {h \in Handle : h >= FirstDynamic /\ table[p][h] = None}

\* kernel_process_handle_allocate's locked part: the lowest free handle
PutEntry(p, step, x, next) ==
    /\ At(p, step)
    /\ IF FreeHandle(p) = {}
       THEN /\ Goto(p, "drop_entry")
            /\ UNCHANGED <<table, local, pair>>
       ELSE \E h \in FreeHandle(p) :
              /\ \A g \in FreeHandle(p) : h <= g
              /\ table' = [table EXCEPT ![p][h] = local[p].entry]
              /\ local' = [local EXCEPT ![p].entry = None]
              /\ pair' = [pair EXCEPT ![p][x] = h]
              /\ Goto(p, next)
    /\ UNCHANGED <<objectVars, life, slots, array, spawning, calleeVars>>

\* kernel_process_handle_close's locked part: the entry moves to a local.
TakeEntry(p, h) ==
    /\ local' = [local EXCEPT ![p].object = table[p][h]]
    /\ table' = [table EXCEPT ![p][h] = None]
    /\ UNCHANGED <<objectVars, life, slots, array, pair, spawning, calleeVars>>

\* An allocation failed: release the entry, then undo what was published.
DropEntry(p) ==
    Drop(p, "drop_entry", "entry", IF pair[p].first = None THEN "drop_first" ELSE "close_first")

CloseFirst(p) ==
    /\ At(p, "close_first")
    /\ TakeEntry(p, pair[p].first)
    /\ Goto(p, "drop_closed")

\* The creation's own references go when the tables hold theirs, or in the end.
DropFirst(p)  == Drop(p, "drop_first", "first", "drop_second")
DropSecond(p) == Drop(p, "drop_second", "second",
                      IF pair[p].second = None THEN "user" ELSE "copy_out")

\* copy_to_user may fail although the buffer was validated before.
CopyOut(p) ==
    /\ At(p, "copy_out")
    /\ \E next \in {"user", "uncopy_first"} : Goto(p, next)
    /\ UNCHANGED <<objectVars, life, table, slots, callVars, calleeVars>>

UncopyFirst(p) ==
    /\ At(p, "uncopy_first")
    /\ TakeEntry(p, pair[p].first)
    /\ Goto(p, "drop_uncopied")

UncopySecond(p) ==
    /\ At(p, "uncopy_second")
    /\ TakeEntry(p, pair[p].second)
    /\ Goto(p, "drop_object")

ChannelCreate(p) ==
    \/ CreatePair(p)
    \/ RetainEntry(p, "retain_first", "first", "put_first")
    \/ PutEntry(p, "put_first", "first", "retain_second")
    \/ RetainEntry(p, "retain_second", "second", "put_second")
    \/ PutEntry(p, "put_second", "second", "drop_first")
    \/ DropEntry(p)
    \/ CloseFirst(p)
    \/ Drop(p, "drop_closed", "object", "drop_first")
    \/ DropFirst(p) \/ DropSecond(p) \/ CopyOut(p)
    \/ UncopyFirst(p)
    \/ Drop(p, "drop_uncopied", "object", "uncopy_second")
    \/ UncopySecond(p)

-----------------------------------------------------------------------------
(* The calls that use or close a handle                                    *)

\* Mutant: the entry is used without a reference of the caller's own.
BorrowEntry(p, h, next) ==
    /\ Retainable(table[p][h])
    /\ local' = [local EXCEPT ![p].object = table[p][h]]
    /\ Goto(p, next)
    /\ UNCHANGED <<allocated, open, refs, life, table, slots, array, pair, spawning, calleeVars>>

\* kernel_process_handle_acquire
Acquire(p, h, next) ==
    /\ Retainable(table[p][h])
    /\ Retain(p, table[p][h], "object")
    /\ Goto(p, next)
    /\ UNCHANGED <<allocated, open, life, table, slots, array, pair, spawning, calleeVars>>

\* The object's read, write, ioctl, map or unmap
UseObject(p) ==
    /\ At(p, "use")
    /\ Goto(p, "drop_object")
    /\ UNCHANGED <<objectVars, life, table, slots, callVars, calleeVars>>

\* read, write, channel_send and channel_receive
Transfer(p) ==
    \/ At(p, "user") /\ \E h \in Handle : Acquire(p, h, "use")
    \/ UseObject(p)
    \/ Drop(p, "drop_object", "object", "user")

\* syscall_handle_close
Close(p) ==
    /\ At(p, "user")
    /\ \E h \in Handle : table[p][h] # None /\ TakeEntry(p, h)
    /\ Goto(p, "drop_object")

\* syscall_handle_exit: the thread ends; the process keeps its handles, its
\* runtime slot and its place in the process list for good.
Exit(p) ==
    /\ At(p, "user")
    /\ life' = [life EXCEPT ![p] = "exited"]
    /\ UNCHANGED <<objectVars, table, slots, pc, callVars, calleeVars>>

-----------------------------------------------------------------------------
(* user_application_spawn                                                  *)

\* user_application_runtime_allocate
TakeSlot(p) ==
    /\ At(p, "user")
    /\ slots < SlotCount
    /\ slots' = slots + 1
    /\ Goto(p, "create")
    /\ UNCHANGED <<objectVars, life, table, callVars, calleeVars>>

\* kernel_process_create and serial_console_attach_standard_handles
CreateChild(p) ==
    /\ At(p, "create")
    /\ \/ Goto(p, "free_slot") /\ UNCHANGED <<life, table, spawning>>
       \/ \E c \in Process, connected \in BOOLEAN :
            /\ life[c] = "free"
            /\ life' = [life EXCEPT ![c] = "new"]
            /\ table' = [table EXCEPT ![c] = IF connected THEN Connected ELSE NoHandles]
            /\ spawning' = [spawning EXCEPT ![p] = c]
            /\ \E next \in {"inherit", "load"} :
                 Goto(p, IF connected THEN next ELSE "destroy")
    /\ UNCHANGED <<objectVars, slots, local, array, pair, calleeVars>>

\* kernel_process_handle_duplicate: acquire in the parent with the rights to
\* read and write, which the standard handles do not carry, then
Inherit(p) ==
    /\ At(p, "inherit")
    /\ \E h \in Handle :
         \/ table[p][h] \in Endpoint /\ Acquire(p, h, "retain_child")
         \/ /\ table[p][h] \notin Endpoint \/ ~ Retainable(table[p][h])
            /\ Goto(p, "destroy")
            /\ UNCHANGED <<objectVars, life, table, slots, callVars, calleeVars>>

\* ... install in the child, which fails when the handle is taken.
PutChild(p) ==
    /\ At(p, "put_child")
    /\ \E h \in Handle :
         IF table[spawning[p]][h] = None
         THEN /\ table' = [table EXCEPT ![spawning[p]][h] = local[p].entry]
              /\ local' = [local EXCEPT ![p].entry = None]
              /\ Goto(p, "drop_inherited")
         ELSE /\ Goto(p, "unput_child")
              /\ UNCHANGED <<table, local>>
    /\ UNCHANGED <<objectVars, life, slots, array, pair, spawning, calleeVars>>

\* elf64_load, the user stack and kernel_thread_create_user: all or nothing
Load(p) ==
    /\ At(p, "load")
    /\ \/ /\ life' = [life EXCEPT ![spawning[p]] = "running"]
          /\ spawning' = [spawning EXCEPT ![p] = None]
          /\ Goto(p, "user")
       \/ /\ Goto(p, "destroy")
          /\ UNCHANGED <<life, spawning>>
    /\ UNCHANGED <<objectVars, table, slots, local, array, pair, calleeVars>>

\* Mutant: destruction forgets the references of the handle table.
ForgetTable(p) ==
    /\ At(p, "destroy")
    /\ life' = [life EXCEPT ![spawning[p]] = "terminated"]
    /\ table' = [table EXCEPT ![spawning[p]] = NoHandles]
    /\ Goto(p, "drop_array")
    /\ UNCHANGED <<objectVars, slots, local, array, pair, spawning, calleeVars>>

\* kernel_process_destroy's locked part: the handle table moves to an array.
DestroyChild(p) ==
    /\ At(p, "destroy")
    /\ life' = [life EXCEPT ![spawning[p]] = "terminated"]
    /\ array' = [array EXCEPT ![p] = table[spawning[p]]]
    /\ table' = [table EXCEPT ![spawning[p]] = NoHandles]
    /\ Goto(p, "drop_array")
    /\ UNCHANGED <<objectVars, slots, local, pair, spawning, calleeVars>>

\* Its releases, one by one, outside the lock
DropArray(p) ==
    /\ At(p, "drop_array")
    /\ IF array[p] = NoHandles
       THEN /\ Goto(p, "free_process")
            /\ UNCHANGED <<refs, dying, array>>
       ELSE \E h \in Handle :
              /\ array[p][h] # None
              /\ \A g \in 0..(h - 1) : array[p][g] = None
              /\ Release(p, array[p][h])
              /\ array' = [array EXCEPT ![p][h] = None]
              /\ UNCHANGED pc
    /\ UNCHANGED <<allocated, open, life, table, slots, local, pair, spawning, freeing>>

\* Its kfree
FreeProcess(p) ==
    /\ At(p, "free_process")
    /\ life' = [life EXCEPT ![spawning[p]] = "free"]
    /\ spawning' = [spawning EXCEPT ![p] = None]
    /\ Goto(p, "free_slot")
    /\ UNCHANGED <<objectVars, table, slots, local, array, pair, calleeVars>>

\* Mutant: the failure path keeps the runtime slot.
KeepSlot(p) ==
    /\ At(p, "free_slot")
    /\ Goto(p, "user")
    /\ UNCHANGED <<objectVars, life, table, slots, callVars, calleeVars>>

\* runtime->occupied = false at the end of the failure path
FreeSlot(p) ==
    /\ At(p, "free_slot")
    /\ slots' = slots - 1
    /\ Goto(p, "user")
    /\ UNCHANGED <<objectVars, life, table, callVars, calleeVars>>

Spawn(p) ==
    \/ TakeSlot(p) \/ CreateChild(p) \/ Inherit(p)
    \/ RetainEntry(p, "retain_child", "object", "put_child")
    \/ PutChild(p)
    \/ Drop(p, "drop_inherited", "object", "load")
    \/ Drop(p, "unput_child", "entry", "drop_refused")
    \/ Drop(p, "drop_refused", "object", "destroy")
    \/ Load(p)
    \/ DestroyChild(p) \/ DropArray(p) \/ FreeProcess(p) \/ FreeSlot(p)

Continue(p) == ChannelDestroy(p) \/ FreeChannel(p)

Next ==
    \E p \in Process :
        ChannelCreate(p) \/ Transfer(p) \/ Close(p) \/ Exit(p) \/ Spawn(p) \/ Continue(p)

Spec == Init /\ [][Next]_vars

-----------------------------------------------------------------------------
(* Properties                                                              *)

\* The places that own a reference to e
Places(f, D, e) == {x \in Process \X D : f[x[1]][x[2]] = e}

InTables(e) == Places(table, Handle, e)
InLocals(e) == Places(local, Local, e)
InArrays(e) == Places(array, Handle, e)

Held(e) == InTables(e) # {} \/ InLocals(e) # {} \/ InArrays(e) # {}

\* Every reference is counted exactly once: by a handle table, a local variable
\* of a call, or the array of a process destruction.
RefsExact ==
    /\ TypeOK
    /\ \A e \in Endpoint : allocated[e[1]] =>
         refs[e] = Cardinality(InTables(e)) + Cardinality(InLocals(e)) + Cardinality(InArrays(e))

\* No use after free: whatever a table or a call can reach is an open endpoint
\* of an allocated channel, and a pending destroy or kfree finds its channel
\* allocated and is the only one for it.
NoUseAfterFree ==
    /\ \A e \in Endpoint : Held(e) => allocated[e[1]] /\ open[e]
    /\ \A p \in Process :
         /\ dying[p] # None => allocated[dying[p][1]] /\ open[dying[p]] /\ ~ Held(dying[p])
         /\ freeing[p] # None => allocated[freeing[p]] /\ \A s \in Side : ~ open[<<freeing[p], s>>]
    /\ \A p, q \in Process : p # q =>
         /\ dying[p] # None => dying[p] # dying[q]
         /\ freeing[p] # None => freeing[p] # freeing[q]

\* No leak: an open endpoint is reachable or about to be destroyed, and an
\* allocated channel has an open endpoint or is about to be freed.  Each child in
\* the making belongs to one spawn, and a call that is over keeps no reference in
\* its local variables.
NoLeak ==
    /\ \A e \in Endpoint : open[e] => Held(e) \/ \E p \in Process : dying[p] = e
    /\ \A c \in Channel : allocated[c] =>
         \/ \E s \in Side : open[<<c, s>>]
         \/ \E p \in Process : freeing[p] = c
    /\ \A p \in Process : life[p] \in {"new", "terminated"} =>
         Cardinality({q \in Process : spawning[q] = p}) = 1
    /\ \A p \in Process : pc[p] = "user" =>
         /\ array[p] = NoHandles
         /\ spawning[p] = None
         /\ \A x \in Local : local[p][x] = None

\* The runtime slots are those of the applications that ever ran and of the
\* spawns under way: a failed spawn gives its slot back.
SlotsExact ==
    slots = Cardinality({p \in Process \ {desktop} : life[p] \in {"running", "exited"}})
          + Cardinality({p \in Process : pc[p] \in SpawnSteps})
=============================================================================
