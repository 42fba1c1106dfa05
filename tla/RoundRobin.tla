----------------------------- MODULE RoundRobin -----------------------------
(***************************************************************************)
(* Scheduler.tla with the history that bounded overtaking needs: the       *)
(* threads dispatched since each thread last became READY or a thread last *)
(* exited.  An exit starts the round again: schedule_locked then searches  *)
(* from run_queue_head, not from the place of the thread that left.        *)
(***************************************************************************)
EXTENDS Scheduler

VARIABLE passed

RRInit == Init /\ passed = [t \in AnyThread |-> {}]

Dispatched == current' # current
Exited     == Len(queue') < Len(queue)

RRNext ==
    /\ Next
    /\ passed' = [t \in AnyThread |->
         IF state[t] # "READY" \/ state'[t] # "READY" THEN {}
         ELSE (IF Exited THEN {} ELSE passed[t]) \cup (IF Dispatched THEN {current'} ELSE {})]

RRSpec ==
    RRInit /\ [][RRNext]_<<vars, passed>> /\ SchedulingFairness /\ SF_vars(BootLoop)

\* Round robin (thread.c's self tests expect the trace 1,2,1,2): between two
\* exits, while a thread waits READY, no other thread is dispatched twice,
\* however often the others yield, block, wake or are preempted and wherever
\* new threads are linked.
BoundedOvertaking ==
    [][\A t \in AnyThread :
         Dispatched /\ ~ Exited /\ state'[t] = "READY" => current' \notin passed[t]]_<<vars, passed>>

=============================================================================
