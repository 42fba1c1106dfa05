------------------------------ MODULE Scheduler ------------------------------
(***************************************************************************)
(* The preemptive thread scheduler of task/thread.c together with the part *)
(* of task/process.c that a thread's life touches: attach, detach, create  *)
(* and destroy.                                                            *)
(*                                                                         *)
(* There is one CPU.  Every action except the timer interrupt is a step of *)
(* the thread that occupies it, and one action is one critical section     *)
(* (spinlock_lock_irqsave ... unlock) or one call between two of them, so  *)
(* the timer can preempt a kernel thread between any two actions.  System  *)
(* calls enter through an interrupt gate: a user thread inside the kernel  *)
(* runs with interrupts masked until it returns or switches.               *)
(*                                                                         *)
(* The circular run queue is a sequence that starts at run_queue_head;     *)
(* RunQueue.tla refines it to the linked structure.                        *)
(***************************************************************************)
EXTENDS SequencesExt

CONSTANTS
    Thread,       \* addresses kcalloc can return for a struct kernel_thread
    boot_thread,  \* the statically allocated boot thread
    Process,      \* addresses kcalloc can return for a struct kernel_process
    Kernel,       \* the statically allocated kernel process (PID 0)
    None,         \* the null pointer
    SliceTicks,   \* KERNEL_THREAD_TIME_SLICE_TICKS
    ReleaseFails  \* whether kernel_pages_release may fail: under kernel_stack_release,
                  \* and under kfree when it gives back an emptied heap arena

ASSUME NamesAssumption ==
    /\ boot_thread \notin Thread
    /\ Kernel \notin Process
    /\ None \notin Thread \cup Process \cup {boot_thread, Kernel}

ASSUME BoundsAssumption ==
    /\ IsFiniteSet(Thread)
    /\ IsFiniteSet(Process)
    /\ SliceTicks \in Nat \ {0}
    /\ ReleaseFails \in BOOLEAN

AnyThread  == Thread \cup {boot_thread}
AnyProcess == Process \cup {Kernel}

VARIABLES
    queue,        \* the run queue from run_queue_head to run_queue_tail
    current,      \* current_thread
    state,        \* thread->state; FREE and UNLINKED precede publication
    process,      \* thread->process
    kind,         \* "user" when created by kernel_thread_create_user
    stack,        \* whether the thread's kernel stack is allocated
    interruptible, \* RFLAGS.IF of the thread outside the kernel's critical sections
    zombies,      \* zombie_list
    live,         \* live_thread_count
    slice,        \* scheduler_slice_ticks
    preemption,   \* scheduler_preemption_enabled
    faulted,      \* scheduler_faulted
    cr3,          \* the process whose address space is active
    rsp0,         \* the thread whose ring-0 stack TSS.RSP0 names
    registered,   \* the life of each struct kernel_process
    thread_count, \* process->thread_count
    pc,           \* where the thread stands in the kernel code it executes
    reaping,      \* local list of reap_terminated_threads
    subject,      \* thread struct a creation or a reap has in hand
    target        \* process a creation or a destruction has in hand

threadVars  == <<state, process, kind, stack, interruptible, live>>
cpuVars     == <<queue, current, cr3, rsp0, faulted>>
timerVars   == <<slice, preemption>>
processVars == <<registered, thread_count>>
localVars   == <<pc, reaping, subject, target>>
vars == <<threadVars, cpuVars, timerVars, processVars, localVars, zombies>>

QueuedStates == {"READY", "RUNNING", "BLOCKED"}
ThreadStates == QueuedStates \cup {"TERMINATED", "UNLINKED", "FREE"}

CreateSteps == {"alloc", "stack", "publish", "drop", "cancel"}
ReapSteps   == {"reap", "release", "detach", "free"}
Steps       == {"run", "dead", "freeproc"} \cup CreateSteps \cup ReapSteps

TypeOK ==
    /\ queue \in Seq(AnyThread)
    /\ current \in AnyThread
    /\ state \in [AnyThread -> ThreadStates]
    /\ process \in [AnyThread -> AnyProcess \cup {None}]
    /\ kind \in [AnyThread -> {"kernel", "user"}]
    /\ stack \in [AnyThread -> BOOLEAN]
    /\ interruptible \in [AnyThread -> BOOLEAN]
    /\ zombies \subseteq Thread
    /\ live \in Int
    /\ slice \in 0..(SliceTicks - 1)
    /\ preemption \in BOOLEAN
    /\ faulted \in BOOLEAN
    /\ cr3 \in AnyProcess
    /\ rsp0 \in AnyThread
    /\ registered \in [AnyProcess -> {"free", "alive", "terminated"}]
    /\ thread_count \in [AnyProcess -> Int]
    /\ pc \in [AnyThread -> Steps]
    /\ reaping \in [AnyThread -> SUBSET Thread]
    /\ subject \in [AnyThread -> Thread \cup {None}]
    /\ target \in [AnyThread -> AnyProcess \cup {None}]

\* kernel_thread_system_init: the boot thread alone, attached to PID 0.  main.c
\* enables its interrupts before it enables preemption.
Init ==
    /\ queue = <<boot_thread>>
    /\ current = boot_thread
    /\ state = [t \in AnyThread |-> IF t = boot_thread THEN "RUNNING" ELSE "FREE"]
    /\ process = [t \in AnyThread |-> IF t = boot_thread THEN Kernel ELSE None]
    /\ kind = [t \in AnyThread |-> "kernel"]
    /\ stack = [t \in AnyThread |-> t = boot_thread]
    /\ interruptible = [t \in AnyThread |-> t = boot_thread]
    /\ zombies = {}
    /\ live = 0
    /\ slice = 0
    /\ preemption = FALSE
    /\ faulted = FALSE
    /\ cr3 = Kernel
    /\ rsp0 = boot_thread
    /\ registered = [p \in AnyProcess |-> IF p = Kernel THEN "alive" ELSE "free"]
    /\ thread_count = [p \in AnyProcess |-> IF p = Kernel THEN 1 ELSE 0]
    /\ pc = [t \in AnyThread |-> IF t = boot_thread THEN "run" ELSE "dead"]
    /\ reaping = [t \in AnyThread |-> {}]
    /\ subject = [t \in AnyThread |-> None]
    /\ target = [t \in AnyThread |-> None]

-----------------------------------------------------------------------------
(* Selecting the next thread                                               *)

\* Interrupts are masked in a thread that began with IF clear, and while a user
\* thread executes kernel code.
Masked(t) == ~ interruptible[t] \/ (kind[t] = "user" /\ pc[t] # "run")

\* Mutant: the search always starts at run_queue_head.
ScanFromHead(q, prev) == q

\* The order in which schedule_locked visits the queue: after the previous
\* thread, or from the head when that thread has left the queue.
ScanOrder(q, prev) ==
    IF \E i \in DOMAIN q : q[i] = prev
    THEN LET i == CHOOSE i \in DOMAIN q : q[i] = prev
         IN  SubSeq(q, i + 1, Len(q)) \o SubSeq(q, 1, i)
    ELSE q

\* i is the first position of the scan whose thread is READY.
FirstReady(scan, st, i) ==
    /\ st[scan[i]] = "READY"
    /\ \A j \in 1..(i - 1) : st[scan[j]] # "READY"

\* Mutant: the search stops one node early.
NoneReadyShort(scan, st) == \A i \in 1..(Len(scan) - 1) : st[scan[i]] # "READY"

NoneReady(scan, st) == \A i \in DOMAIN scan : st[scan[i]] # "READY"

\* Mutant: CR3 is left alone when the incoming thread belongs to the kernel.
SwitchLazily(next, st, prev) ==
    /\ rsp0' = next
    /\ cr3' = IF process[next] = Kernel THEN cr3 ELSE process[next]
    /\ state' = [st EXCEPT ![prev] = IF @ = "RUNNING" THEN "READY" ELSE @,
                           ![next] = "RUNNING"]
    /\ current' = next
    /\ UNCHANGED faulted

\* Make next the running thread: TSS.RSP0, CR3, both states, current_thread.
SwitchTo(next, st, prev) ==
    /\ rsp0' = next
    /\ cr3' = process[next]
    /\ state' = [st EXCEPT ![prev] = IF @ = "RUNNING" THEN "READY" ELSE @,
                           ![next] = "RUNNING"]
    /\ current' = next
    /\ UNCHANGED faulted

\* Return to the interrupted thread, recording a fault if it may not run.
StayOn(st, fault) ==
    /\ faulted' = (faulted \/ fault)
    /\ state' = st
    /\ UNCHANGED <<rsp0, cr3, current>>

HasSpace(t) == process[t] # None /\ registered[process[t]] = "alive"

\* schedule_locked, entered with run queue q and thread states st.
Schedule(q, st, prev) ==
    LET scan == ScanOrder(q, prev) IN
    \/ /\ NoneReady(scan, st)
       /\ StayOn(st, st[prev] # "RUNNING")
    \/ \E i \in DOMAIN scan :
         /\ FirstReady(scan, st, i)
         /\ IF HasSpace(scan[i]) THEN SwitchTo(scan[i], st, prev)
                                 ELSE StayOn(st, TRUE)

-----------------------------------------------------------------------------
(* Timer and voluntary switches                                            *)

\* The tick count after this tick, reset when the slice is used up.
NextSlice == IF slice + 1 < SliceTicks THEN slice + 1 ELSE 0

\* kernel_thread_timer_interrupt
TimerInterrupt ==
    /\ ~ Masked(current)
    /\ pc[current] # "dead"
    /\ preemption
    /\ slice' = NextSlice
    /\ IF NextSlice = 0 THEN Schedule(queue, state, current)
       ELSE UNCHANGED <<state, current, cr3, rsp0, faulted>>
    /\ UNCHANGED <<queue, process, kind, stack, interruptible, live, preemption,
                   zombies, processVars, localVars>>

\* kernel_thread_enable_preemption, called by the boot thread
EnablePreemption ==
    /\ current = boot_thread
    /\ pc[current] = "run"
    /\ ~ preemption
    /\ preemption' = TRUE
    /\ slice' = 0
    /\ UNCHANGED <<threadVars, cpuVars, processVars, localVars, zombies>>

\* kernel_thread_yield: switch, then reap on the way out
Yield(t) ==
    /\ pc[t] = "run"
    /\ pc' = [pc EXCEPT ![t] = "reap"]
    /\ Schedule(queue, state, t)
    /\ UNCHANGED <<queue, process, kind, stack, interruptible, live, timerVars,
                   processVars, reaping, subject, target, zombies>>

\* kernel_thread_preemption_point: reap without switching
PreemptionPoint(t) ==
    /\ pc[t] = "run"
    /\ kind[t] = "kernel"
    /\ pc' = [pc EXCEPT ![t] = "reap"]
    /\ UNCHANGED <<threadVars, cpuVars, timerVars, processVars, reaping, subject,
                   target, zombies>>

\* kernel_thread_block, called by kernel threads.  Interrupts stay off from the
\* change of state to the switch, so both are one step.
Block(t) ==
    /\ pc[t] = "run"
    /\ kind[t] = "kernel"
    /\ t # boot_thread
    /\ state[t] = "RUNNING"
    /\ ~ NoneReady(ScanOrder(queue, t), state)
    /\ pc' = [pc EXCEPT ![t] = "reap"]
    /\ Schedule(queue, [state EXCEPT ![t] = "BLOCKED"], t)
    /\ UNCHANGED <<queue, process, kind, stack, interruptible, live, timerVars,
                   processVars, reaping, subject, target, zombies>>

\* Mutant: any thread that is not running becomes READY, on the queue or not.
WakeAny(t, u) ==
    /\ pc[t] = "run"
    /\ kind[t] = "kernel"
    /\ state[u] \in {"BLOCKED", "TERMINATED"}
    /\ state' = [state EXCEPT ![u] = "READY"]
    /\ UNCHANGED <<process, kind, stack, interruptible, live, cpuVars, timerVars,
                   processVars, localVars, zombies>>

\* kernel_thread_wake, called by kernel threads
Wake(t, u) ==
    /\ pc[t] = "run"
    /\ kind[t] = "kernel"
    /\ u \in ToSet(queue)
    /\ state[u] = "BLOCKED"
    /\ state' = [state EXCEPT ![u] = "READY"]
    /\ UNCHANGED <<process, kind, stack, interruptible, live, cpuVars, timerVars,
                   processVars, localVars, zombies>>

\* kernel_thread_exit: leave the queue, become a zombie, switch away for good.
\* Interrupts stay off throughout, and the thread never goes back to ring 3.
Exit(t) ==
    /\ pc[t] = "run"
    /\ t # boot_thread
    /\ \E i \in DOMAIN queue :
         /\ queue[i] = t
         /\ queue' = RemoveAt(queue, i)
         /\ Schedule(RemoveAt(queue, i), [state EXCEPT ![t] = "TERMINATED"], t)
    /\ zombies' = zombies \cup {t}
    /\ live' = live - 1
    /\ interruptible' = [interruptible EXCEPT ![t] = FALSE]
    /\ kind' = [kind EXCEPT ![t] = "kernel"]
    /\ pc' = [pc EXCEPT ![t] = "dead"]
    /\ UNCHANGED <<process, stack, timerVars, processVars, reaping, subject, target>>

-----------------------------------------------------------------------------
(* reap_terminated_threads                                                 *)

\* Mutant: the loop ends after one element.
ReapOne(rest) == "run"

\* Where the loop over the detached list goes next.
ReapNext(rest) == IF rest = {} THEN "run" ELSE "release"

\* Mutant: zombie_list is read but not cleared.
CopyZombies(t) ==
    /\ pc[t] = "reap"
    /\ reaping' = [reaping EXCEPT ![t] = zombies]
    /\ pc' = [pc EXCEPT ![t] = ReapNext(zombies)]
    /\ UNCHANGED <<threadVars, cpuVars, timerVars, processVars, subject, target, zombies>>

\* Detach zombie_list under the scheduler lock.
DetachZombies(t) ==
    /\ pc[t] = "reap"
    /\ reaping' = [reaping EXCEPT ![t] = zombies]
    /\ zombies' = {}
    /\ pc' = [pc EXCEPT ![t] = ReapNext(zombies)]
    /\ UNCHANGED <<threadVars, cpuVars, timerVars, processVars, subject, target>>

\* kernel_stack_release(&list->stack); on failure the struct is abandoned.
ReleaseStack(t) ==
    /\ pc[t] = "release"
    /\ \E z \in reaping[t] :
         /\ reaping' = [reaping EXCEPT ![t] = @ \ {z}]
         /\ \/ /\ stack' = [stack EXCEPT ![z] = FALSE]
               /\ subject' = [subject EXCEPT ![t] = z]
               /\ pc' = [pc EXCEPT ![t] = "detach"]
               /\ UNCHANGED faulted
            \/ /\ ReleaseFails
               /\ faulted' = TRUE
               /\ pc' = [pc EXCEPT ![t] = ReapNext(reaping[t] \ {z})]
               /\ UNCHANGED <<stack, subject>>
    /\ UNCHANGED <<state, process, kind, interruptible, live, queue, current, cr3,
                   rsp0, timerVars, processVars, target, zombies>>

\* kernel_process_detach_thread succeeds for a registered process in use.
CanDetach(p) == p # None /\ registered[p] = "alive" /\ thread_count[p] > 0

\* Give back the thread's reference to its process.
DetachProcess(t) ==
    LET z == subject[t]
        p == process[z] IN
    /\ pc[t] = "detach"
    /\ \/ /\ CanDetach(p)
          /\ thread_count' = [thread_count EXCEPT ![p] = @ - 1]
          /\ process' = [process EXCEPT ![z] = None]
          /\ pc' = [pc EXCEPT ![t] = "free"]
          /\ UNCHANGED <<faulted, subject>>
       \/ /\ ~ CanDetach(p)
          /\ faulted' = TRUE
          /\ subject' = [subject EXCEPT ![t] = None]
          /\ pc' = [pc EXCEPT ![t] = ReapNext(reaping[t])]
          /\ UNCHANGED <<thread_count, process>>
    /\ UNCHANGED <<state, kind, stack, interruptible, live, queue, current, cr3,
                   rsp0, timerVars, registered, reaping, target, zombies>>

\* kfree(list); on failure the struct is abandoned.
FreeThread(t) ==
    /\ pc[t] = "free"
    /\ \/ /\ state' = [state EXCEPT ![subject[t]] = "FREE"]
          /\ UNCHANGED faulted
       \/ /\ ReleaseFails
          /\ faulted' = TRUE
          /\ UNCHANGED state
    /\ subject' = [subject EXCEPT ![t] = None]
    /\ pc' = [pc EXCEPT ![t] = ReapNext(reaping[t])]
    /\ UNCHANGED <<process, kind, stack, interruptible, live, queue, current, cr3,
                   rsp0, timerVars, processVars, reaping, target, zombies>>

-----------------------------------------------------------------------------
(* kernel_thread_create_for_process and kernel_thread_create_user          *)

\* Take the process reference before anything is allocated.
AttachProcess(t, p) ==
    /\ pc[t] = "run"
    /\ registered[p] = "alive"
    /\ thread_count' = [thread_count EXCEPT ![p] = @ + 1]
    /\ target' = [target EXCEPT ![t] = p]
    /\ pc' = [pc EXCEPT ![t] = "alloc"]
    /\ UNCHANGED <<threadVars, cpuVars, timerVars, registered, reaping, subject,
                   zombies>>

\* kcalloc returns an unused address or NULL.
AllocateThread(t) ==
    /\ pc[t] = "alloc"
    /\ \/ \E u \in Thread :
            /\ state[u] = "FREE"
            /\ state' = [state EXCEPT ![u] = "UNLINKED"]
            /\ subject' = [subject EXCEPT ![t] = u]
            /\ pc' = [pc EXCEPT ![t] = "stack"]
       \/ /\ pc' = [pc EXCEPT ![t] = "cancel"]
          /\ UNCHANGED <<state, subject>>
    /\ UNCHANGED <<process, kind, stack, interruptible, live, cpuVars, timerVars,
                   processVars, reaping, target, zombies>>

\* kernel_stack_allocate
AllocateStack(t) ==
    /\ pc[t] = "stack"
    /\ \/ /\ stack' = [stack EXCEPT ![subject[t]] = TRUE]
          /\ pc' = [pc EXCEPT ![t] = "publish"]
       \/ /\ pc' = [pc EXCEPT ![t] = "drop"]
          /\ UNCHANGED stack
    /\ UNCHANGED <<state, process, kind, interruptible, live, cpuVars, timerVars,
                   processVars, reaping, subject, target, zombies>>

\* initialize_thread_context or initialize_user_thread_context fails; nobody looks
\* at the result of the kernel_stack_release that follows.
RejectContext(t) ==
    /\ pc[t] = "publish"
    /\ \/ stack' = [stack EXCEPT ![subject[t]] = FALSE]
       \/ ReleaseFails /\ UNCHANGED stack
    /\ pc' = [pc EXCEPT ![t] = "drop"]
    /\ UNCHANGED <<state, process, kind, interruptible, live, cpuVars, timerVars,
                   processVars, reaping, subject, target, zombies>>

\* Write the initial frame, with IF set if preemption is enabled by now, and link the
\* thread at the tail of the run queue.  A kernel thread starts in
\* kernel_thread_bootstrap, which reaps first; a user thread starts in ring 3.
Publish(t, k) ==
    LET u == subject[t] IN
    /\ pc[t] = "publish"
    /\ queue' = Append(queue, u)
    /\ live' = live + 1
    /\ state' = [state EXCEPT ![u] = "READY"]
    /\ process' = [process EXCEPT ![u] = target[t]]
    /\ kind' = [kind EXCEPT ![u] = k]
    /\ interruptible' = [interruptible EXCEPT ![u] = preemption]
    /\ pc' = [pc EXCEPT ![t] = "run", ![u] = IF k = "user" THEN "run" ELSE "reap"]
    /\ subject' = [subject EXCEPT ![t] = None]
    /\ target' = [target EXCEPT ![t] = None]
    /\ UNCHANGED <<stack, current, cr3, rsp0, faulted, timerVars, processVars,
                   reaping, zombies>>

\* Unwind: free the struct, which no longer names a stack; nobody looks at the
\* result of kfree, and a struct it does not take is abandoned.
DropThread(t) ==
    LET u == subject[t] IN
    /\ pc[t] = "drop"
    /\ \/ /\ state' = [state EXCEPT ![u] = "FREE"]
          /\ stack' = [stack EXCEPT ![u] = FALSE]
       \/ ReleaseFails /\ UNCHANGED <<state, stack>>
    /\ subject' = [subject EXCEPT ![t] = None]
    /\ pc' = [pc EXCEPT ![t] = "cancel"]
    /\ UNCHANGED <<process, kind, interruptible, live, cpuVars, timerVars,
                   processVars, reaping, target, zombies>>

\* Mutant: a failed creation keeps its process reference.
KeepReference(t) ==
    /\ pc[t] = "cancel"
    /\ target' = [target EXCEPT ![t] = None]
    /\ pc' = [pc EXCEPT ![t] = "run"]
    /\ UNCHANGED <<threadVars, cpuVars, timerVars, processVars, reaping, subject,
                   zombies>>

\* Then give back the process reference.
CancelCreate(t) ==
    LET p == target[t] IN
    /\ pc[t] = "cancel"
    /\ thread_count' = [thread_count EXCEPT ![p] = IF CanDetach(p) THEN @ - 1 ELSE @]
    /\ target' = [target EXCEPT ![t] = None]
    /\ pc' = [pc EXCEPT ![t] = "run"]
    /\ UNCHANGED <<threadVars, cpuVars, timerVars, registered, reaping, subject,
                   zombies>>

-----------------------------------------------------------------------------
(* Process creation and destruction                                        *)

\* kernel_process_create: the struct is private until it is linked.
CreateProcess(t, p) ==
    /\ pc[t] = "run"
    /\ registered[p] = "free"
    /\ registered' = [registered EXCEPT ![p] = "alive"]
    /\ thread_count' = [thread_count EXCEPT ![p] = 0]
    /\ UNCHANGED <<threadVars, cpuVars, timerVars, localVars, zombies>>

\* kernel_process_destroy under process_lock; vmm_address_space_destroy refuses
\* the active address space.
DestroyProcess(t, p) ==
    /\ pc[t] = "run"
    /\ p # Kernel
    /\ registered[p] = "alive"
    /\ thread_count[p] = 0
    /\ cr3 # p
    /\ registered' = [registered EXCEPT ![p] = "terminated"]
    /\ target' = [target EXCEPT ![t] = p]
    /\ pc' = [pc EXCEPT ![t] = "freeproc"]
    /\ UNCHANGED <<threadVars, cpuVars, timerVars, thread_count, reaping, subject,
                   zombies>>

\* kfree(process), after the handles are released outside the lock; on failure the
\* struct is abandoned.
FreeProcess(t) ==
    /\ pc[t] = "freeproc"
    /\ \/ registered' = [registered EXCEPT ![target[t]] = "free"]
       \/ ReleaseFails /\ UNCHANGED registered
    /\ target' = [target EXCEPT ![t] = None]
    /\ pc' = [pc EXCEPT ![t] = "run"]
    /\ UNCHANGED <<threadVars, cpuVars, timerVars, thread_count, reaping, subject,
                   zombies>>

-----------------------------------------------------------------------------
\* What the thread on the CPU chooses to do.
Call(t) ==
    \/ Yield(t)
    \/ PreemptionPoint(t)
    \/ Block(t)
    \/ \E u \in Thread : Wake(t, u)
    \/ Exit(t)
    \/ \E p \in AnyProcess : AttachProcess(t, p)
    \/ \E p \in Process : CreateProcess(t, p)
    \/ \E p \in Process : DestroyProcess(t, p)

\* What it must do to finish the call it is in.
Reap(t)   == DetachZombies(t) \/ ReleaseStack(t) \/ DetachProcess(t) \/ FreeThread(t)
Create(t) == \/ AllocateThread(t)
             \/ AllocateStack(t)
             \/ RejectContext(t)
             \/ \E k \in {"kernel", "user"} : Publish(t, k)
             \/ DropThread(t)
             \/ CancelCreate(t)
Continue(t) == Reap(t) \/ Create(t) \/ FreeProcess(t)

Next ==
    \/ TimerInterrupt
    \/ EnablePreemption
    \/ Call(current)
    \/ Continue(current)

Spec == Init /\ [][Next]_vars

-----------------------------------------------------------------------------
(* Safety                                                                  *)

Creating(t) == pc[t] \in CreateSteps
InHand(t)   == IF pc[t] \in {"detach", "free"} THEN {subject[t]} ELSE {}

\* Who holds a reference to process p.
Users(p)     == {t \in AnyThread : process[t] = p}
Attachers(p) == {t \in AnyThread : Creating(t) /\ target[t] = p}

\* The ring holds the boot thread first and every live thread exactly once,
\* whatever creations, exits and preemptions interleave; live_thread_count
\* counts the others (thread.c: the two linking sites and the exit unlinking).
RunQueueExact ==
    /\ IsInjective(queue)
    /\ queue # <<>> /\ queue[1] = boot_thread
    /\ ToSet(queue) = {t \in AnyThread : state[t] \in QueuedStates}
    /\ live = Len(queue) - 1

\* Exactly the thread on the CPU is RUNNING.
OneRunning ==
    /\ state[current] = "RUNNING"
    /\ \A t \in AnyThread : state[t] = "RUNNING" => t = current

\* The CPU never runs on a released kernel stack, with another thread's
\* TSS.RSP0, or in an address space that is not its own process's live one.
CpuMatchesThread ==
    /\ stack[current]
    /\ rsp0 = current
    /\ cr3 = process[current]
    /\ registered[cr3] = "alive"

\* A terminated thread is in at most one place: the zombie list, the local list
\* of one reaper, or in that reaper's hand; so nothing is released twice.
ReapedOnce ==
    /\ \A z \in zombies : state[z] = "TERMINATED" /\ stack[z]
    /\ \A t \in AnyThread :
         /\ \A z \in reaping[t] : state[z] = "TERMINATED" /\ stack[z]
         /\ InHand(t) \cap (zombies \cup reaping[t]) = {}
         /\ reaping[t] \cap zombies = {}
    /\ \A t, u \in AnyThread :
         t # u => (reaping[t] \cup InHand(t)) \cap (reaping[u] \cup InHand(u)) = {}

\* thread_count is the number of threads that name the process, live, zombie,
\* half reaped or leaked, plus the creations that have attached to it.
ReferencesCounted ==
    \A p \in AnyProcess : registered[p] = "alive" =>
        thread_count[p] = Cardinality(Users(p)) + Cardinality(Attachers(p))

\* A process that any thread or creation still refers to is registered, so
\* schedule_locked always finds an address space to load.
ReferencedProcessAlive ==
    /\ \A t \in AnyThread : process[t] # None => registered[process[t]] = "alive"
    /\ \A t \in AnyThread : Creating(t) => registered[target[t]] = "alive"

\* As long as kernel_pages_release succeeds, for stacks and under kfree, the
\* scheduler never faults: there is always a thread to switch to and every detach
\* finds its process.
NeverFaulted == ~ ReleaseFails => ~ faulted

\* A terminated thread nobody can free any more: its stack could not be released,
\* or its struct could not be freed, so the reaper left it (thread.c,
\* reap_terminated_threads).
Leaked(t) ==
    /\ state[t] = "TERMINATED"
    /\ faulted
    /\ t \notin zombies
    /\ \A u \in AnyThread : t \notin reaping[u] \cup InHand(u)

\* Only a failed release, of a stack or of a struct, makes the scheduler fault, and
\* it leaks that thread: there is always a thread to switch to and every detach
\* finds its process.
FaultsOnlyOnLeak == faulted => \E t \in Thread : Leaked(t)

\* A process leaves the registry only when no thread, zombie, leaked thread or
\* creation in progress names it (process.c: kernel_process_destroy).
DestroyedOnlyUnreferenced ==
    [][\A p \in AnyProcess : registered[p] = "alive" /\ registered'[p] # "alive" =>
         Users(p) \cup Attachers(p) = {}]_vars

-----------------------------------------------------------------------------
(* Liveness                                                                *)

\* The APIC latches a timer interrupt until interrupts are enabled, so it is
\* delivered if it is infinitely often deliverable; a thread dispatched again
\* and again gets through the kernel call it is in.
SchedulingFairness ==
    /\ SF_vars(TimerInterrupt)
    /\ \A t \in AnyThread : SF_vars(t = current /\ Continue(t))

\* main.c's final loop: the boot thread yields and reaps for ever.
BootLoop == current = boot_thread /\ (Yield(boot_thread) \/ PreemptionPoint(boot_thread))

\* Preemption is enabled and no live thread is left that began before it was: such
\* a thread runs with IF clear, so it keeps the CPU until it gives it up.  main.c
\* ends the threads of its tests before it enables preemption.
AllPreemptible ==
    /\ preemption
    /\ \A t \in AnyThread : state[t] \in QueuedStates => interruptible[t]

\* Every READY thread runs, even when the others never yield.
ReadyThreadRuns ==
    \A t \in AnyThread : (state[t] = "READY" /\ AllPreemptible) ~> (state[t] # "READY")

\* Every terminated thread is eventually given back to the heap, but one whose
\* stack or struct could not be released.
ZombieIsReaped ==
    \A t \in Thread :
        (state[t] = "TERMINATED" /\ AllPreemptible) ~> (state[t] # "TERMINATED" \/ Leaked(t))

=============================================================================
