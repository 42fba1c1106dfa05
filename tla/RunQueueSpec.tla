---------------------------- MODULE RunQueueSpec ----------------------------
(***************************************************************************)
(* What the scheduler's two linked structures promise: a queue of live     *)
(* threads scanned in order from the current one, and a stack of zombies   *)
(* that each reaper takes over whole.                                      *)
(***************************************************************************)
EXTENDS SequencesExt

CONSTANTS Thread, boot_thread

VARIABLES queue, zombies, taken, ready, current

vars == <<queue, zombies, taken, ready, current>>

AnyThread == Thread \cup {boot_thread}

Init ==
    /\ queue = <<boot_thread>>
    /\ zombies = <<>>
    /\ taken = [t \in AnyThread |-> <<>>]
    /\ ready = {}
    /\ current = boot_thread

\* The first ready thread after position i of q, wrapping round once.
NextReady(q, r, i) ==
    LET scan == SubSeq(q, i + 1, Len(q)) \o SubSeq(q, 1, i)
    IN  scan[SelectInSeq(scan, LAMBDA t : t \in r)]

Somewhere(t) ==
    t \in ToSet(queue) \cup ToSet(zombies) \cup UNION {ToSet(taken[u]) : u \in AnyThread}

Link(u) ==
    /\ ~ Somewhere(u)
    /\ queue' = Append(queue, u)
    /\ ready' = ready \cup {u}
    /\ UNCHANGED <<zombies, taken, current>>

\* Leave the CPU, remaining ready or not.
Switch(stillReady) ==
    \E i \in DOMAIN queue :
        /\ queue[i] = current
        /\ IF ready = {} THEN UNCHANGED <<current, ready>>
           ELSE LET next == NextReady(queue, ready, i) IN
                /\ current' = next
                /\ ready' = (ready \ {next}) \cup (IF stillReady THEN {current} ELSE {})
        /\ UNCHANGED <<queue, zombies, taken>>

Block == current # boot_thread /\ ready # {} /\ Switch(FALSE)

Wake(u) ==
    /\ u \in ToSet(queue) /\ u # current
    /\ ready' = ready \cup {u}
    /\ UNCHANGED <<queue, zombies, taken, current>>

Exit ==
    /\ current # boot_thread
    /\ \E i \in DOMAIN queue :
         /\ queue[i] = current
         /\ queue' = RemoveAt(queue, i)
         /\ current' = NextReady(queue', ready, 0)
    /\ ready' = ready \ {current'}
    /\ zombies' = <<current>> \o zombies
    /\ UNCHANGED taken

Take ==
    /\ taken[current] = <<>>
    /\ taken' = [taken EXCEPT ![current] = zombies]
    /\ zombies' = <<>>
    /\ UNCHANGED <<queue, ready, current>>

\* The next of the zombies taken over is freed or given up; either way it is gone.
Free ==
    /\ taken[current] # <<>>
    /\ taken' = [taken EXCEPT ![current] = Tail(@)]
    /\ UNCHANGED <<queue, zombies, ready, current>>

Next ==
    \/ \E u \in Thread : Link(u) \/ Wake(u)
    \/ Switch(TRUE) \/ Block \/ Exit \/ Take \/ Free

Spec == Init /\ [][Next]_vars

=============================================================================
