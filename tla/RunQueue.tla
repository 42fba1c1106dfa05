------------------------------ MODULE RunQueue ------------------------------
(***************************************************************************)
(* The pointers behind Scheduler.tla's queue: one link field per thread    *)
(* threads the circular run queue while the thread is live and the zombie  *)
(* list afterwards.  Each action is one critical section of task/thread.c. *)
(* A thread that is reaping does nothing else until its list is empty, but *)
(* may be preempted between two elements.                                  *)
(***************************************************************************)
EXTENDS SequencesExt

CONSTANTS Thread, boot_thread, NULL

ASSUME NamesAssumption ==
    /\ boot_thread \notin Thread
    /\ NULL \notin Thread \cup {boot_thread}
    /\ IsFiniteSet(Thread)

AnyThread == Thread \cup {boot_thread}

VARIABLES
    run_queue_head, run_queue_tail, current_thread, zombie_list,
    next,   \* thread->next
    state,  \* thread->state, "FREE" while the struct is not allocated
    list    \* the reaper's local list, per thread executing the reap

queueVars == <<run_queue_head, run_queue_tail, current_thread, zombie_list, next, state, list>>

Pointer == AnyThread \cup {NULL}

QueueTypeOK ==
    /\ {run_queue_head, run_queue_tail, current_thread} \subseteq AnyThread
    /\ zombie_list \in Pointer
    /\ next \in [AnyThread -> Pointer]
    /\ state \in [AnyThread -> {"READY", "RUNNING", "BLOCKED", "TERMINATED", "FREE"}]
    /\ list \in [AnyThread -> Pointer]

QueueInit ==
    /\ run_queue_head = boot_thread
    /\ run_queue_tail = boot_thread
    /\ current_thread = boot_thread
    /\ zombie_list = NULL
    /\ next = [t \in AnyThread |-> IF t = boot_thread THEN boot_thread ELSE NULL]
    /\ state = [t \in AnyThread |-> IF t = boot_thread THEN "RUNNING" ELSE "FREE"]
    /\ list = [t \in AnyThread |-> NULL]

-----------------------------------------------------------------------------
(* Walking the links                                                       *)

\* The nodes a walk from p visits under links nx, enough of them to go round
\* any ring of threads; NULL once the walk falls off a list.
Walk(nx, p) ==
    LET at[n \in 0..Cardinality(AnyThread)] ==
            IF n = 0 THEN p ELSE IF at[n - 1] = NULL THEN NULL ELSE nx[at[n - 1]]
    IN  [i \in 1..Cardinality(AnyThread) + 1 |-> at[i - 1]]

\* The walk up to, and not including, its return to the start or its end.
Chain(nx, p) ==
    LET w == Walk(nx, p)
        back == {i \in 2..Len(w) : w[i] = p \/ w[i] = NULL}
    IN  IF p = NULL THEN <<>>
        ELSE SubSeq(w, 1, IF back = {} THEN Len(w) ELSE Min(back) - 1)

\* thread_is_queued_locked
Queued(t) == Contains(Chain(next, run_queue_head), t)

\* The candidate loop of schedule_locked: the first READY node from start, or
\* start itself when the loop comes back to it without finding one.
Candidate(nx, st, start) ==
    LET c == Chain(nx, start)
        r == {i \in DOMAIN c : st[c[i]] = "READY"}
    IN  IF r = {} THEN start ELSE c[Min(r)]

\* schedule_locked with links nx, states st and head hd.
Schedule(nx, st, hd) ==
    LET previous  == current_thread
        start     == IF st[previous] = "TERMINATED" THEN hd ELSE nx[previous]
        candidate == Candidate(nx, st, start)
    IN  IF st[candidate] = "READY"
        THEN /\ state' = [st EXCEPT ![previous] = IF @ = "RUNNING" THEN "READY" ELSE @,
                                    ![candidate] = "RUNNING"]
             /\ current_thread' = candidate
        ELSE state' = st /\ UNCHANGED current_thread

Idle == list[current_thread] = NULL

-----------------------------------------------------------------------------
\* Mutant: the new tail is not linked back to the head.
LinkOpen(thread) ==
    /\ Idle
    /\ state[thread] = "FREE"
    /\ state' = [state EXCEPT ![thread] = "READY"]
    /\ next' = [next EXCEPT ![run_queue_tail] = thread]
    /\ run_queue_tail' = thread
    /\ UNCHANGED <<run_queue_head, current_thread, zombie_list, list>>

\* The linking at the end of kernel_thread_create_for_process and _create_user
Link(thread) ==
    /\ Idle
    /\ state[thread] = "FREE"
    /\ state' = [state EXCEPT ![thread] = "READY"]
    /\ next' = [[next EXCEPT ![thread] = run_queue_head] EXCEPT ![run_queue_tail] = thread]
    /\ run_queue_tail' = thread
    /\ UNCHANGED <<run_queue_head, current_thread, zombie_list, list>>

\* kernel_thread_reschedule_interrupt, for a yield or at the end of a slice
Reschedule ==
    /\ Schedule(next, state, run_queue_head)
    /\ UNCHANGED <<run_queue_head, run_queue_tail, zombie_list, next, list>>

\* kernel_thread_block
Block ==
    LET previous == current_thread IN
    /\ Idle
    /\ previous # boot_thread
    /\ \E i \in DOMAIN Chain(next, previous) : state[Chain(next, previous)[i]] = "READY"
    /\ Schedule(next, [state EXCEPT ![previous] = "BLOCKED"], run_queue_head)
    /\ UNCHANGED <<run_queue_head, run_queue_tail, zombie_list, next, list>>

\* kernel_thread_wake
Wake(thread) ==
    /\ Idle
    /\ Queued(thread)
    /\ state[thread] = "BLOCKED"
    /\ state' = [state EXCEPT ![thread] = "READY"]
    /\ UNCHANGED <<run_queue_head, run_queue_tail, current_thread, zombie_list, next, list>>

\* kernel_thread_exit: unlink, push on the zombie list through the same link
\* field, switch.
Exit ==
    LET previous    == current_thread
        ring        == Chain(next, run_queue_head)
        predecessor == ring[SelectInSeq(ring, LAMBDA t : next[t] = previous)]
        after       == next[previous]
        head        == IF run_queue_head = previous THEN after ELSE run_queue_head
        tail        == IF run_queue_tail = previous THEN predecessor ELSE run_queue_tail
        unlinked    == [[next EXCEPT ![predecessor] = after] EXCEPT ![tail] = head]
        links       == [unlinked EXCEPT ![previous] = zombie_list]
    IN
    /\ Idle
    /\ previous # boot_thread
    /\ next' = links
    /\ run_queue_head' = head
    /\ run_queue_tail' = tail
    /\ zombie_list' = previous
    /\ Schedule(links, [state EXCEPT ![previous] = "TERMINATED"], head)
    /\ UNCHANGED list

\* reap_terminated_threads: detach the list, then free it one by one, reading
\* each link before the struct is freed; kcalloc clears a reused struct.
TakeZombies ==
    /\ Idle
    /\ list' = [list EXCEPT ![current_thread] = zombie_list]
    /\ zombie_list' = NULL
    /\ UNCHANGED <<run_queue_head, run_queue_tail, current_thread, next, state>>

\* Mutant: the link is read after the struct was freed and cleared.
FreeThenRead ==
    LET thread == list[current_thread] IN
    /\ thread # NULL
    /\ next' = [next EXCEPT ![thread] = NULL]
    /\ list' = [list EXCEPT ![current_thread] = next'[thread]]
    /\ state' = [state EXCEPT ![thread] = "FREE"]
    /\ UNCHANGED <<run_queue_head, run_queue_tail, current_thread, zombie_list>>

\* The reap of one element ends with its struct back in the heap ...
FreeZombie ==
    LET thread == list[current_thread] IN
    /\ thread # NULL
    /\ list' = [list EXCEPT ![current_thread] = next[thread]]
    /\ state' = [state EXCEPT ![thread] = "FREE"]
    /\ next' = [next EXCEPT ![thread] = NULL]
    /\ UNCHANGED <<run_queue_head, run_queue_tail, current_thread, zombie_list>>

\* ... or, when the stack release, the detach or kfree fails, with the struct left as
\* it is: the loop goes on with the link it read before.
AbandonZombie ==
    LET thread == list[current_thread] IN
    /\ thread # NULL
    /\ list' = [list EXCEPT ![current_thread] = next[thread]]
    /\ UNCHANGED <<run_queue_head, run_queue_tail, current_thread, zombie_list, next, state>>

QueueNext ==
    \/ \E thread \in Thread : Link(thread) \/ Wake(thread)
    \/ Reschedule \/ Block \/ Exit
    \/ TakeZombies \/ FreeZombie \/ AbandonZombie

QueueSpec == QueueInit /\ [][QueueNext]_queueVars

-----------------------------------------------------------------------------
\* The ring is one cycle: from every live thread the links lead to every other,
\* the tail's link is the head, and no terminated thread is on it.  Exits that
\* reuse the link for the zombie list must leave it so (thread.c, kernel_thread_exit).
OneRing ==
    LET live == {t \in AnyThread : state[t] \in {"READY", "RUNNING", "BLOCKED"}} IN
    /\ QueueTypeOK
    /\ next[run_queue_tail] = run_queue_head
    /\ \A t \in live : ToSet(Chain(next, t)) = live

\* The links implement the queue and the zombie stack of RunQueueSpec.
Abstract == INSTANCE RunQueueSpec WITH
    queue   <- Chain(next, run_queue_head),
    zombies <- Chain(next, zombie_list),
    taken   <- [t \in AnyThread |-> Chain(next, list[t])],
    ready   <- {t \in AnyThread : state[t] = "READY"},
    current <- current_thread

ImplementsQueue == Abstract!Spec

=============================================================================
