--------------------------- MODULE SchedulerProofs ---------------------------
(***************************************************************************)
(* Proofs about Scheduler.tla and its history RoundRobin.tla, for any sets *)
(* of threads and processes, any slice length, and releases that may or    *)
(* may not fail.                                                           *)
(***************************************************************************)
EXTENDS RoundRobin, FiniteSetTheorems, SequenceTheorems, TLAPS

\* The boot thread is never BLOCKED nor TERMINATED: it is the fallback.
BootRunnable == state[boot_thread] \in {"READY", "RUNNING"}

\* The processor's registers name the current thread.
CpuInv ==
    /\ rsp0 = current
    /\ cr3 = process[current]

\* What a struct kernel_thread holds in each state.
ThreadInv == \A t \in AnyThread :
    /\ state[t] \in QueuedStates => stack[t] /\ process[t] # None
    /\ state[t] \in {"UNLINKED", "FREE"} => process[t] = None
    /\ state[t] \notin QueuedStates => pc[t] \in {"run", "dead"}
    /\ pc[t] \notin {"release", "detach", "free"} => reaping[t] = {}

\* What a thread in the middle of a creation or a destruction has in hand.
CreateInv ==
    /\ \A t \in AnyThread :
         /\ pc[t] \in {"stack", "publish", "drop"} =>
                subject[t] \in Thread /\ state[subject[t]] = "UNLINKED"
         /\ pc[t] = "publish" => stack[subject[t]]
         /\ pc[t] \in CreateSteps => target[t] \in AnyProcess
         /\ pc[t] = "freeproc" =>
                target[t] \in Process /\ registered[target[t]] = "terminated"
    /\ \A t, u \in AnyThread :
         /\ t # u
         /\ pc[t] \in {"stack", "publish", "drop"}
         /\ pc[u] \in {"stack", "publish", "drop"}
         => subject[t] # subject[u]
    /\ \A t, u \in AnyThread :
         t # u /\ pc[t] = "freeproc" /\ pc[u] = "freeproc" => target[t] # target[u]

\* What a reaper has in hand and still on its list, and what awaits one.
ReapInv ==
    /\ \A z \in zombies : process[z] # None
    /\ \A t \in AnyThread :
         /\ \A z \in reaping[t] : process[z] # None
         /\ pc[t] \in {"detach", "free"} =>
                subject[t] \in Thread /\ state[subject[t]] = "TERMINATED"
         /\ pc[t] = "detach" => process[subject[t]] # None
         /\ pc[t] = "free" => process[subject[t]] = None

IInv ==
    /\ TypeOK
    /\ RunQueueExact
    /\ OneRunning
    /\ BootRunnable
    /\ CpuInv
    /\ ThreadInv
    /\ CreateInv
    /\ ReapInv
    /\ ReapedOnce
    /\ ReferencesCounted
    /\ ReferencedProcessAlive
    /\ NeverFaulted

-----------------------------------------------------------------------------
(* Facts about the sequence that holds the ring                            *)

\* Linking at the tail keeps the head and adds one element.
LEMMA AppendRing ==
    ASSUME NEW S, NEW q \in Seq(S), NEW x \in S, IsInjective(q), x \notin ToSet(q),
           q # <<>>
    PROVE  /\ Append(q, x) \in Seq(S)
           /\ Len(Append(q, x)) = Len(q) + 1
           /\ Append(q, x) # <<>>
           /\ Append(q, x)[1] = q[1]
           /\ ToSet(Append(q, x)) = ToSet(q) \cup {x}
           /\ IsInjective(Append(q, x))
<1>1. \A i \in DOMAIN q : Append(q, x)[i] = q[i] /\ i \in DOMAIN Append(q, x)
  OBVIOUS
<1>2. /\ Append(q, x)[Len(q) + 1] = x
      /\ DOMAIN Append(q, x) = DOMAIN q \cup {Len(q) + 1}
  OBVIOUS
<1>3. ToSet(Append(q, x)) = ToSet(q) \cup {x}
  BY <1>1, <1>2 DEF ToSet
<1>4. IsInjective(Append(q, x))
  BY <1>1, <1>2 DEF IsInjective, ToSet
<1>5. QED
  BY <1>3, <1>4

\* Unlinking any node but the head keeps the head and removes that node only.
LEMMA RemoveFromRing ==
    ASSUME NEW S, NEW q \in Seq(S), IsInjective(q), NEW i \in DOMAIN q, i # 1
    PROVE  /\ RemoveAt(q, i) \in Seq(S)
           /\ Len(RemoveAt(q, i)) = Len(q) - 1
           /\ RemoveAt(q, i) # <<>>
           /\ RemoveAt(q, i)[1] = q[1]
           /\ ToSet(RemoveAt(q, i)) = ToSet(q) \ {q[i]}
           /\ IsInjective(RemoveAt(q, i))
<1> DEFINE r == RemoveAt(q, i)
<1>1. /\ r \in Seq(S)
      /\ Len(r) = Len(q) - 1
      /\ \A j \in 1..(i - 1) : r[j] = q[j]
      /\ \A j \in i..(Len(q) - 1) : r[j] = q[j + 1]
  <2> DEFINE a == SubSeq(q, 1, i - 1)
             b == SubSeq(q, i + 1, Len(q))
  <2>1. /\ a \in Seq(S)
        /\ Len(a) = i - 1
        /\ \A j \in 1..(i - 1) : a[j] = q[j]
    BY SubSeqProperties
  <2>2. /\ b \in Seq(S)
        /\ Len(b) = Len(q) - i
        /\ \A j \in 1..(Len(q) - i) : b[j] = q[i + j]
    BY SubSeqProperties
  <2>3. r = a \o b
    BY DEF RemoveAt
  <2> HIDE DEF a, b, r
  <2>4. /\ r \in Seq(S)
        /\ Len(r) = Len(a) + Len(b)
        /\ \A j \in 1..Len(a) + Len(b) :
               r[j] = IF j <= Len(a) THEN a[j] ELSE b[j - Len(a)]
    BY <2>1, <2>2, <2>3, ConcatProperties
  <2>5. Len(q) \in Nat /\ i \in 1..Len(q)
    BY LenProperties
  <2>6. Len(r) = Len(q) - 1
    BY <2>1, <2>2, <2>4, <2>5
  <2>7. ASSUME NEW j \in 1..(i - 1)
        PROVE  r[j] = q[j]
    <3>1. j \in 1..Len(a) + Len(b) /\ j <= Len(a)
      BY <2>1, <2>2, <2>5, <2>7
    <3>2. QED
      BY <3>1, <2>1, <2>4
  <2>8. ASSUME NEW j \in i..(Len(q) - 1)
        PROVE  r[j] = q[j + 1]
    <3>1. j \in 1..Len(a) + Len(b) /\ ~ (j <= Len(a)) /\ j - Len(a) \in 1..(Len(q) - i)
      BY <2>1, <2>2, <2>5, <2>8
    <3>2. r[j] = b[j - Len(a)]
      BY <3>1, <2>4
    <3>3. b[j - Len(a)] = q[i + (j - Len(a))]
      BY <3>1, <2>2
    <3>4. i + (j - Len(a)) = j + 1
      BY <2>1, <2>5, <2>8
    <3>5. QED
      BY <3>2, <3>3, <3>4
  <2>9. QED
    BY <2>4, <2>6, <2>7, <2>8
<1> HIDE DEF r
<1>2. DOMAIN r = 1..(Len(q) - 1) /\ DOMAIN q = 1..Len(q)
  BY <1>1
<1>3. \A j \in DOMAIN r : r[j] = q[IF j < i THEN j ELSE j + 1]
  BY <1>1, <1>2
<1>4. ToSet(r) = ToSet(q) \ {q[i]}
  <2>1. ASSUME NEW j \in DOMAIN r
        PROVE  r[j] \in ToSet(q) \ {q[i]}
    BY <1>2, <1>3 DEF ToSet, IsInjective
  <2>2. ASSUME NEW k \in DOMAIN q, q[k] # q[i]
        PROVE  q[k] \in ToSet(r)
    <3>1. CASE k < i
      BY <3>1, <1>2, <1>3 DEF ToSet
    <3>2. CASE k > i
      <4>1. k - 1 \in DOMAIN r /\ r[k - 1] = q[k]
        BY <3>2, <1>2, <1>3
      <4>2. QED
        BY <4>1 DEF ToSet
    <3>3. QED
      BY <3>1, <3>2, <2>2, <1>2
  <2>3. QED
    BY <2>1, <2>2 DEF ToSet
<1>5. IsInjective(r)
  BY <1>2, <1>3 DEF IsInjective
<1>6. r # <<>> /\ r[1] = q[1]
  BY <1>1, <1>2
<1>7. QED
  BY <1>1, <1>4, <1>5, <1>6 DEF r

\* The ring from behind its node k round to that node.
From(q, k) == SubSeq(q, k + 1, Len(q)) \o SubSeq(q, 1, k)

\* Where the ring's nodes stand in it.
LEMMA ScanElements ==
    ASSUME NEW S, NEW q \in Seq(S), NEW k \in 1..Len(q)
    PROVE  /\ From(q, k) \in Seq(S)
           /\ Len(From(q, k)) = Len(q)
           /\ \A i \in 1..(Len(q) - k) : From(q, k)[i] = q[k + i]
           /\ \A i \in (Len(q) - k + 1)..Len(q) : From(q, k)[i] = q[i - (Len(q) - k)]
<1> DEFINE s == From(q, k)
           a == SubSeq(q, k + 1, Len(q))
           b == SubSeq(q, 1, k)
<1>1. /\ a \in Seq(S)
      /\ Len(a) = Len(q) - k
      /\ \A j \in 1..(Len(q) - k) : a[j] = q[k + j]
  BY SubSeqProperties
<1>2. /\ b \in Seq(S)
      /\ Len(b) = k
      /\ \A j \in 1..k : b[j] = q[j]
  BY SubSeqProperties
<1>3. s = a \o b
  BY DEF From
<1> HIDE DEF a, b, s
<1>4. /\ s \in Seq(S)
      /\ Len(s) = Len(a) + Len(b)
      /\ \A j \in 1..Len(a) + Len(b) :
             s[j] = IF j <= Len(a) THEN a[j] ELSE b[j - Len(a)]
  BY <1>1, <1>2, <1>3, ConcatProperties
<1>5. Len(q) \in Nat /\ Len(s) = Len(q)
  BY <1>1, <1>2, <1>4, LenProperties
<1>6. ASSUME NEW i \in 1..(Len(q) - k)
      PROVE  s[i] = q[k + i]
  <2>1. i \in 1..Len(a) + Len(b) /\ i <= Len(a)
    BY <1>1, <1>2, <1>5, <1>6
  <2>2. QED
    BY <2>1, <1>1, <1>4
<1>7. ASSUME NEW i \in (Len(q) - k + 1)..Len(q)
      PROVE  s[i] = q[i - (Len(q) - k)]
  <2>1. /\ i \in 1..Len(a) + Len(b)
        /\ ~ (i <= Len(a))
        /\ i - Len(a) \in 1..k
        /\ i - Len(a) = i - (Len(q) - k)
    BY <1>1, <1>2, <1>5, <1>7
  <2>2. s[i] = b[i - Len(a)]
    BY <2>1, <1>4
  <2>3. QED
    BY <2>1, <2>2, <1>2
<1>8. QED
  BY <1>4, <1>5, <1>6, <1>7 DEF s

\* The scan of schedule_locked visits exactly the threads on the queue.
LEMMA ScanVisitsQueue ==
    ASSUME NEW S, NEW q \in Seq(S), NEW prev
    PROVE  /\ \A i \in DOMAIN ScanOrder(q, prev) : ScanOrder(q, prev)[i] \in ToSet(q)
           /\ \A x \in ToSet(q) : \E i \in DOMAIN ScanOrder(q, prev) :
                  ScanOrder(q, prev)[i] = x
<1>1. CASE \E i \in DOMAIN q : q[i] = prev
  <2> DEFINE k == CHOOSE i \in DOMAIN q : q[i] = prev
             s == From(q, k)
  <2>1. k \in 1..Len(q)
    BY <1>1
  <2>2. ScanOrder(q, prev) = s
    BY <1>1 DEF ScanOrder, From
  <2> HIDE DEF k
  <2>3. /\ s \in Seq(S)
        /\ Len(s) = Len(q)
        /\ \A i \in 1..(Len(q) - k) : s[i] = q[k + i]
        /\ \A i \in (Len(q) - k + 1)..Len(q) : s[i] = q[i - (Len(q) - k)]
    BY <2>1, ScanElements
  <2> HIDE DEF s
  <2>4. ASSUME NEW i \in DOMAIN s
        PROVE  s[i] \in ToSet(q)
    <3>1. i \in 1..Len(q)
      BY <2>3, <2>4
    <3>2. CASE i <= Len(q) - k
      <4>1. k + i \in 1..Len(q) /\ s[i] = q[k + i]
        BY <3>1, <3>2, <2>1, <2>3
      <4>2. QED
        BY <4>1 DEF ToSet
    <3>3. CASE i > Len(q) - k
      <4>1. i - (Len(q) - k) \in 1..Len(q) /\ s[i] = q[i - (Len(q) - k)]
        BY <3>1, <3>3, <2>1, <2>3
      <4>2. QED
        BY <4>1 DEF ToSet
    <3>4. QED
      BY <3>1, <3>2, <3>3, <2>1
  <2>5. ASSUME NEW j \in 1..Len(q)
        PROVE  \E i \in DOMAIN s : s[i] = q[j]
    <3>1. CASE j > k
      <4>1. j - k \in DOMAIN s /\ s[j - k] = q[j]
        BY <3>1, <2>1, <2>3
      <4>2. QED
        BY <4>1
    <3>2. CASE j <= k
      <4> DEFINE m == j + (Len(q) - k)
      <4>1. m \in (Len(q) - k + 1)..Len(q) /\ m \in DOMAIN s /\ m - (Len(q) - k) = j
        BY <3>2, <2>1, <2>3, <2>5
      <4> HIDE DEF m
      <4>3. s[m] = q[j]
        BY <4>1, <2>3
      <4>2. QED
        BY <4>1, <4>3
    <3>3. QED
      BY <3>1, <3>2, <2>1, <2>5
  <2>6. QED
    BY <2>2, <2>4, <2>5 DEF ToSet
<1>2. CASE ~ \E i \in DOMAIN q : q[i] = prev
  BY <1>2 DEF ScanOrder, ToSet
<1>3. QED
  BY <1>1, <1>2

\* A call of schedule_locked either finds no READY thread on the queue and
\* stays, or picks one.
LEMMA ScheduleOutcome ==
    ASSUME NEW q \in Seq(AnyThread), NEW st, NEW prev, Schedule(q, st, prev)
    PROVE  \/ /\ \A x \in ToSet(q) : st[x] # "READY"
              /\ StayOn(st, st[prev] # "RUNNING")
           \/ \E n \in ToSet(q) :
                /\ st[n] = "READY"
                /\ IF HasSpace(n) THEN SwitchTo(n, st, prev) ELSE StayOn(st, TRUE)
<1> DEFINE scan == ScanOrder(q, prev)
<1>1. /\ \A i \in DOMAIN scan : scan[i] \in ToSet(q)
      /\ \A x \in ToSet(q) : \E i \in DOMAIN scan : scan[i] = x
  BY ScanVisitsQueue
<1>2. \/ NoneReady(scan, st) /\ StayOn(st, st[prev] # "RUNNING")
      \/ \E i \in DOMAIN scan :
           /\ FirstReady(scan, st, i)
           /\ IF HasSpace(scan[i]) THEN SwitchTo(scan[i], st, prev) ELSE StayOn(st, TRUE)
  BY DEF Schedule
<1> HIDE DEF scan
<1>3. CASE NoneReady(scan, st) /\ StayOn(st, st[prev] # "RUNNING")
  BY <1>1, <1>3 DEF NoneReady
<1>4. CASE \E i \in DOMAIN scan :
              /\ FirstReady(scan, st, i)
              /\ IF HasSpace(scan[i]) THEN SwitchTo(scan[i], st, prev) ELSE StayOn(st, TRUE)
  BY <1>1, <1>4 DEF FirstReady
<1>5. QED
  BY <1>2, <1>3, <1>4
-----------------------------------------------------------------------------
(* Facts about the sets of references                                      *)

\* The references to a process can be counted.
LEMMA ReferencesFinite ==
    ASSUME NEW p
    PROVE  /\ IsFiniteSet(Users(p)) /\ Cardinality(Users(p)) \in Nat
           /\ IsFiniteSet(Attachers(p)) /\ Cardinality(Attachers(p)) \in Nat
<1>1. IsFiniteSet(AnyThread)
  BY BoundsAssumption, FS_AddElement DEF AnyThread
<1>2. Users(p) \in SUBSET AnyThread /\ Attachers(p) \in SUBSET AnyThread
  BY DEF Users, Attachers
<1>3. IsFiniteSet(Users(p)) /\ IsFiniteSet(Attachers(p))
  BY <1>1, <1>2, FS_Subset
<1>4. QED
  BY <1>3, FS_CardinalityType

\* The process a thread names has at least that reference.
LEMMA UserPositive ==
    ASSUME NEW z \in AnyThread
    PROVE  Cardinality(Users(process[z])) \in Nat \ {0}
<1>1. z \in Users(process[z])
  BY DEF Users
<1>2. QED
  BY <1>1, ReferencesFinite, FS_EmptySet

\* A creation in progress is one of the references of its process.
LEMMA AttacherPositive ==
    ASSUME NEW p, NEW t \in Attachers(p)
    PROVE  Cardinality(Attachers(p)) \in Nat \ {0}
BY ReferencesFinite, FS_EmptySet

\* A step that settles one process's count and leaves the others alone.
LEMMA CountsPreserved ==
    ASSUME ReferencesCounted, NEW q \in AnyProcess,
           \A r \in AnyProcess : r # q =>
               /\ Users(r)' = Users(r)
               /\ Attachers(r)' = Attachers(r)
               /\ thread_count'[r] = thread_count[r]
               /\ registered'[r] = registered[r],
           thread_count'[q] = Cardinality(Users(q)') + Cardinality(Attachers(q)')
    PROVE  ReferencesCounted'
<1> SUFFICES ASSUME NEW r \in AnyProcess, registered'[r] = "alive"
             PROVE  thread_count'[r] = Cardinality(Users(r)') + Cardinality(Attachers(r)')
  BY DEF ReferencesCounted
<1>1. CASE r = q
  BY <1>1
<1>2. CASE r # q
  BY <1>2 DEF ReferencesCounted
<1>3. QED
  BY <1>1, <1>2

-----------------------------------------------------------------------------
(* Every step preserves the invariant                                      *)

\* Arming the timer moves no thread.
LEMMA EnablePreemptionStep == ASSUME IInv, EnablePreemption PROVE IInv'
<1> USE DEF QueuedStates, ThreadStates, CreateSteps, ReapSteps, Steps, AnyThread, AnyProcess
<1> USE DEF threadVars, cpuVars, timerVars, processVars, localVars, ReapNext, CanDetach
<1>1. TypeOK'
  BY NamesAssumption, BoundsAssumption DEF IInv, TypeOK, OneRunning, ThreadInv, CreateInv, ReapInv, EnablePreemption
<1>2. RunQueueExact'
  BY NamesAssumption, BoundsAssumption DEF IInv, TypeOK, OneRunning, ThreadInv, CreateInv, ReapInv, RunQueueExact, EnablePreemption
<1>3. OneRunning'
  BY NamesAssumption, BoundsAssumption DEF IInv, TypeOK, OneRunning, ThreadInv, CreateInv, ReapInv, EnablePreemption
<1>4. BootRunnable'
  BY NamesAssumption, BoundsAssumption DEF IInv, TypeOK, OneRunning, ThreadInv, CreateInv, ReapInv, BootRunnable, EnablePreemption
<1>5. CpuInv'
  BY NamesAssumption, BoundsAssumption DEF IInv, TypeOK, OneRunning, ThreadInv, CreateInv, ReapInv, CpuInv, EnablePreemption
<1>6. ThreadInv'
  BY NamesAssumption, BoundsAssumption DEF IInv, TypeOK, OneRunning, ThreadInv, CreateInv, ReapInv, EnablePreemption
<1>7. CreateInv'
  BY NamesAssumption, BoundsAssumption DEF IInv, TypeOK, OneRunning, ThreadInv, CreateInv, ReapInv, EnablePreemption
<1>8. ReapInv'
  BY NamesAssumption, BoundsAssumption DEF IInv, TypeOK, OneRunning, ThreadInv, CreateInv, ReapInv, EnablePreemption, ReapedOnce, InHand
<1>9. ReapedOnce'
  BY NamesAssumption, BoundsAssumption DEF IInv, TypeOK, OneRunning, ThreadInv, CreateInv, ReapInv, ReapedOnce, EnablePreemption, InHand
<1>10. ReferencesCounted'
  <2>1. \A q \in AnyProcess : Users(q)' = Users(q) /\ Attachers(q)' = Attachers(q)
    BY DEF IInv, TypeOK, OneRunning, ThreadInv, CreateInv, ReapInv, Users, Attachers, Creating, EnablePreemption
  <2>2. QED BY <2>1, NamesAssumption DEF IInv, TypeOK, ReferencesCounted, EnablePreemption
<1>11. ReferencedProcessAlive'
  BY NamesAssumption, BoundsAssumption DEF IInv, TypeOK, OneRunning, ThreadInv, CreateInv, ReapInv, ReferencedProcessAlive, EnablePreemption, Creating
<1>12. NeverFaulted'
  BY NamesAssumption, BoundsAssumption DEF IInv, TypeOK, OneRunning, ThreadInv, CreateInv, ReapInv, NeverFaulted, EnablePreemption
<1>13. QED
  BY <1>1, <1>2, <1>3, <1>4, <1>5, <1>6, <1>7, <1>8, <1>9, <1>10, <1>11, <1>12 DEF IInv

\* A preemption point only sends its caller to the reaper.
LEMMA PreemptionPointStep == ASSUME IInv, PreemptionPoint(current) PROVE IInv'
<1> USE DEF QueuedStates, ThreadStates, CreateSteps, ReapSteps, Steps, AnyThread, AnyProcess
<1> USE DEF threadVars, cpuVars, timerVars, processVars, localVars, ReapNext, CanDetach
<1>1. TypeOK'
  BY NamesAssumption, BoundsAssumption DEF IInv, TypeOK, OneRunning, ThreadInv, CreateInv, ReapInv, PreemptionPoint
<1>2. RunQueueExact'
  BY NamesAssumption, BoundsAssumption DEF IInv, TypeOK, OneRunning, ThreadInv, CreateInv, ReapInv, RunQueueExact, PreemptionPoint
<1>3. OneRunning'
  BY NamesAssumption, BoundsAssumption DEF IInv, TypeOK, OneRunning, ThreadInv, CreateInv, ReapInv, PreemptionPoint
<1>4. BootRunnable'
  BY NamesAssumption, BoundsAssumption DEF IInv, TypeOK, OneRunning, ThreadInv, CreateInv, ReapInv, BootRunnable, PreemptionPoint
<1>5. CpuInv'
  BY NamesAssumption, BoundsAssumption DEF IInv, TypeOK, OneRunning, ThreadInv, CreateInv, ReapInv, CpuInv, PreemptionPoint
<1>6. ThreadInv'
  BY NamesAssumption, BoundsAssumption DEF IInv, TypeOK, OneRunning, ThreadInv, CreateInv, ReapInv, PreemptionPoint
<1>7. CreateInv'
  BY NamesAssumption, BoundsAssumption DEF IInv, TypeOK, OneRunning, ThreadInv, CreateInv, ReapInv, PreemptionPoint
<1>8. ReapInv'
  BY NamesAssumption, BoundsAssumption DEF IInv, TypeOK, OneRunning, ThreadInv, CreateInv, ReapInv, PreemptionPoint, ReapedOnce, InHand
<1>9. ReapedOnce'
  BY NamesAssumption, BoundsAssumption DEF IInv, TypeOK, OneRunning, ThreadInv, CreateInv, ReapInv, ReapedOnce, PreemptionPoint, InHand
<1>10. ReferencesCounted'
  <2>1. \A q \in AnyProcess : Users(q)' = Users(q) /\ Attachers(q)' = Attachers(q)
    BY DEF IInv, TypeOK, OneRunning, ThreadInv, CreateInv, ReapInv, Users, Attachers, Creating, PreemptionPoint
  <2>2. QED BY <2>1, NamesAssumption DEF IInv, TypeOK, ReferencesCounted, PreemptionPoint
<1>11. ReferencedProcessAlive'
  BY NamesAssumption, BoundsAssumption DEF IInv, TypeOK, OneRunning, ThreadInv, CreateInv, ReapInv, ReferencedProcessAlive, PreemptionPoint, Creating
<1>12. NeverFaulted'
  BY NamesAssumption, BoundsAssumption DEF IInv, TypeOK, OneRunning, ThreadInv, CreateInv, ReapInv, NeverFaulted, PreemptionPoint
<1>13. QED
  BY <1>1, <1>2, <1>3, <1>4, <1>5, <1>6, <1>7, <1>8, <1>9, <1>10, <1>11, <1>12 DEF IInv

\* Waking a blocked thread keeps it on the queue it never left.
LEMMA WakeStep == ASSUME IInv, NEW u \in Thread, Wake(current, u) PROVE IInv'
<1> USE DEF QueuedStates, ThreadStates, CreateSteps, ReapSteps, Steps, AnyThread, AnyProcess
<1> USE DEF threadVars, cpuVars, timerVars, processVars, localVars, ReapNext, CanDetach
<1>1. TypeOK'
  BY NamesAssumption, BoundsAssumption DEF IInv, TypeOK, OneRunning, ThreadInv, CreateInv, ReapInv, Wake
<1>2. RunQueueExact'
  BY NamesAssumption, BoundsAssumption DEF IInv, TypeOK, OneRunning, ThreadInv, CreateInv, ReapInv, RunQueueExact, Wake
<1>3. OneRunning'
  BY NamesAssumption, BoundsAssumption DEF IInv, TypeOK, OneRunning, ThreadInv, CreateInv, ReapInv, Wake
<1>4. BootRunnable'
  BY NamesAssumption, BoundsAssumption DEF IInv, TypeOK, OneRunning, ThreadInv, CreateInv, ReapInv, BootRunnable, Wake
<1>5. CpuInv'
  BY NamesAssumption, BoundsAssumption DEF IInv, TypeOK, OneRunning, ThreadInv, CreateInv, ReapInv, CpuInv, Wake
<1>6. ThreadInv'
  BY NamesAssumption, BoundsAssumption DEF IInv, TypeOK, OneRunning, ThreadInv, CreateInv, ReapInv, Wake
<1>7. CreateInv'
  BY NamesAssumption, BoundsAssumption DEF IInv, TypeOK, OneRunning, ThreadInv, CreateInv, ReapInv, Wake
<1>8. ReapInv'
  BY NamesAssumption, BoundsAssumption DEF IInv, TypeOK, OneRunning, ThreadInv, CreateInv, ReapInv, Wake, ReapedOnce, InHand
<1>9. ReapedOnce'
  BY NamesAssumption, BoundsAssumption DEF IInv, TypeOK, OneRunning, ThreadInv, CreateInv, ReapInv, ReapedOnce, Wake, InHand
<1>10. ReferencesCounted'
  <2>1. \A q \in AnyProcess : Users(q)' = Users(q) /\ Attachers(q)' = Attachers(q)
    BY DEF IInv, TypeOK, OneRunning, ThreadInv, CreateInv, ReapInv, Users, Attachers, Creating, Wake
  <2>2. QED BY <2>1, NamesAssumption DEF IInv, TypeOK, ReferencesCounted, Wake
<1>11. ReferencedProcessAlive'
  BY NamesAssumption, BoundsAssumption DEF IInv, TypeOK, OneRunning, ThreadInv, CreateInv, ReapInv, ReferencedProcessAlive, Wake, Creating
<1>12. NeverFaulted'
  BY NamesAssumption, BoundsAssumption DEF IInv, TypeOK, OneRunning, ThreadInv, CreateInv, ReapInv, NeverFaulted, Wake
<1>13. QED
  BY <1>1, <1>2, <1>3, <1>4, <1>5, <1>6, <1>7, <1>8, <1>9, <1>10, <1>11, <1>12 DEF IInv

\* A reaper takes the zombie list as a whole and leaves it empty.
LEMMA DetachZombiesStep == ASSUME IInv, DetachZombies(current) PROVE IInv'
<1> USE DEF QueuedStates, ThreadStates, CreateSteps, ReapSteps, Steps, AnyThread, AnyProcess
<1> USE DEF threadVars, cpuVars, timerVars, processVars, localVars, ReapNext, CanDetach
<1>1. TypeOK'
  BY NamesAssumption, BoundsAssumption DEF IInv, TypeOK, OneRunning, ThreadInv, CreateInv, ReapInv, DetachZombies
<1>2. RunQueueExact'
  BY NamesAssumption, BoundsAssumption DEF IInv, TypeOK, OneRunning, ThreadInv, CreateInv, ReapInv, RunQueueExact, DetachZombies
<1>3. OneRunning'
  BY NamesAssumption, BoundsAssumption DEF IInv, TypeOK, OneRunning, ThreadInv, CreateInv, ReapInv, DetachZombies
<1>4. BootRunnable'
  BY NamesAssumption, BoundsAssumption DEF IInv, TypeOK, OneRunning, ThreadInv, CreateInv, ReapInv, BootRunnable, DetachZombies
<1>5. CpuInv'
  BY NamesAssumption, BoundsAssumption DEF IInv, TypeOK, OneRunning, ThreadInv, CreateInv, ReapInv, CpuInv, DetachZombies
<1>6. ThreadInv'
  BY NamesAssumption, BoundsAssumption DEF IInv, TypeOK, OneRunning, ThreadInv, CreateInv, ReapInv, DetachZombies
<1>7. CreateInv'
  BY NamesAssumption, BoundsAssumption DEF IInv, TypeOK, OneRunning, ThreadInv, CreateInv, ReapInv, DetachZombies
<1>8. ReapInv'
  BY NamesAssumption, BoundsAssumption DEF IInv, TypeOK, OneRunning, ThreadInv, CreateInv, ReapInv, DetachZombies, ReapedOnce, InHand
<1>9. ReapedOnce'
  BY NamesAssumption, BoundsAssumption DEF IInv, TypeOK, OneRunning, ThreadInv, CreateInv, ReapInv, ReapedOnce, DetachZombies, InHand
<1>10. ReferencesCounted'
  <2>1. \A q \in AnyProcess : Users(q)' = Users(q) /\ Attachers(q)' = Attachers(q)
    BY DEF IInv, TypeOK, OneRunning, ThreadInv, CreateInv, ReapInv, Users, Attachers, Creating, DetachZombies
  <2>2. QED BY <2>1, NamesAssumption DEF IInv, TypeOK, ReferencesCounted, DetachZombies
<1>11. ReferencedProcessAlive'
  BY NamesAssumption, BoundsAssumption DEF IInv, TypeOK, OneRunning, ThreadInv, CreateInv, ReapInv, ReferencedProcessAlive, DetachZombies, Creating
<1>12. NeverFaulted'
  BY NamesAssumption, BoundsAssumption DEF IInv, TypeOK, OneRunning, ThreadInv, CreateInv, ReapInv, NeverFaulted, DetachZombies
<1>13. QED
  BY <1>1, <1>2, <1>3, <1>4, <1>5, <1>6, <1>7, <1>8, <1>9, <1>10, <1>11, <1>12 DEF IInv

\* A reaper takes one zombie in hand, or leaks it when its stack cannot be
\* released.
LEMMA ReleaseStackStep == ASSUME IInv, ReleaseStack(current) PROVE IInv'
<1> USE DEF QueuedStates, ThreadStates, CreateSteps, ReapSteps, Steps, AnyThread, AnyProcess
<1> USE DEF threadVars, cpuVars, timerVars, processVars, localVars, ReapNext, CanDetach
<1>a. PICK z \in reaping[current] :
         /\ reaping' = [reaping EXCEPT ![current] = @ \ {z}]
         /\ \/ /\ stack' = [stack EXCEPT ![z] = FALSE]
               /\ subject' = [subject EXCEPT ![current] = z]
               /\ pc' = [pc EXCEPT ![current] = "detach"]
               /\ UNCHANGED faulted
            \/ /\ ReleaseFails
               /\ faulted' = TRUE
               /\ pc' = [pc EXCEPT ![current] = ReapNext(reaping[current] \ {z})]
               /\ UNCHANGED <<stack, subject>>
  BY DEF ReleaseStack
<1>b. /\ pc[current] = "release"
      /\ UNCHANGED <<state, process, kind, interruptible, live, queue, current, cr3, rsp0,
                     timerVars, processVars, target, zombies>>
  BY DEF ReleaseStack
<1>c. /\ current \in AnyThread
      /\ state[current] = "RUNNING"
      /\ z \in Thread /\ z \in AnyThread
      /\ state[z] = "TERMINATED"
      /\ stack[z]
      /\ process[z] # None
      /\ pc[z] \in {"run", "dead"}
      /\ z \notin zombies
  BY DEF IInv, TypeOK, OneRunning, ThreadInv, ReapInv, ReapedOnce
<1>d. /\ \A t \in AnyThread : t # current =>
            pc'[t] = pc[t] /\ subject'[t] = subject[t] /\ reaping'[t] = reaping[t]
      /\ \A t \in AnyThread : t # z => stack'[t] = stack[t]
      /\ reaping'[current] = reaping[current] \ {z}
      /\ \/ pc'[current] = "detach" /\ subject'[current] = z
         \/ pc'[current] = "release" /\ stack' = stack
         \/ pc'[current] = "run" /\ stack' = stack /\ reaping'[current] = {}
  <2>1. /\ pc \in [AnyThread -> Steps]
        /\ subject \in [AnyThread -> Thread \cup {None}]
        /\ reaping \in [AnyThread -> SUBSET Thread]
        /\ stack \in [AnyThread -> BOOLEAN]
    BY DEF IInv, TypeOK
  <2>2. /\ \A t \in AnyThread : t # current => reaping'[t] = reaping[t]
        /\ reaping'[current] = reaping[current] \ {z}
    BY <1>a, <1>c, <2>1
  <2>3. \A t \in AnyThread : t # current => pc'[t] = pc[t] /\ subject'[t] = subject[t]
    BY <1>a, <1>c, <2>1
  <2>4. \A t \in AnyThread : t # z => stack'[t] = stack[t]
    BY <1>a, <1>c, <2>1
  <2>5. CASE pc' = [pc EXCEPT ![current] = "detach"] /\ subject' = [subject EXCEPT ![current] = z]
    BY <1>c, <2>1, <2>2, <2>3, <2>4, <2>5
  <2>6. CASE pc' = [pc EXCEPT ![current] = ReapNext(reaping[current] \ {z})] /\ stack' = stack
    BY <1>c, <2>1, <2>2, <2>3, <2>4, <2>6
  <2>7. QED
    BY <1>a, <2>5, <2>6
<1>1. TypeOK'
  <2>1. /\ pc' \in [AnyThread -> Steps]
        /\ stack' \in [AnyThread -> BOOLEAN]
    <3>1. /\ pc \in [AnyThread -> Steps]
          /\ stack \in [AnyThread -> BOOLEAN]
          /\ ReapNext(reaping[current] \ {z}) \in Steps
      BY DEF IInv, TypeOK
    <3>2. stack' \in [AnyThread -> BOOLEAN]
      BY <1>a, <1>c, <3>1
    <3>3. pc' \in [AnyThread -> Steps]
      <4> HIDE DEF ReapNext
      <4>1. \E s \in Steps : pc' = [pc EXCEPT ![current] = s]
        BY <1>a, <3>1
      <4>2. QED
        BY <3>1, <4>1
    <3>4. QED
      BY <3>2, <3>3
  <2>2. /\ subject' \in [AnyThread -> Thread \cup {None}]
        /\ faulted' \in BOOLEAN
    <3>1. /\ subject \in [AnyThread -> Thread \cup {None}]
          /\ faulted \in BOOLEAN
      BY DEF IInv, TypeOK
    <3>2. \/ subject' = subject
          \/ subject' = [subject EXCEPT ![current] = z]
      BY <1>a
    <3>3. subject' \in [AnyThread -> Thread \cup {None}]
      BY <1>c, <3>1, <3>2
    <3>4. faulted' \in BOOLEAN
      BY <1>a, <3>1
    <3>5. QED
      BY <3>3, <3>4
  <2>3. reaping' \in [AnyThread -> SUBSET Thread]
    <3>1. reaping \in [AnyThread -> SUBSET Thread] /\ reaping[current] \ {z} \in SUBSET Thread
      BY <1>c DEF IInv, TypeOK
    <3>2. QED
      BY <1>a, <3>1
  <2>4. QED
    BY <1>b, <2>1, <2>2, <2>3 DEF IInv, TypeOK
<1>2. RunQueueExact'
  BY <1>a, <1>b, <1>c, NamesAssumption, BoundsAssumption DEF IInv, TypeOK, OneRunning, ThreadInv, CreateInv, ReapInv, RunQueueExact
<1>3. OneRunning'
  BY <1>a, <1>b, <1>c, NamesAssumption, BoundsAssumption DEF IInv, TypeOK, OneRunning, ThreadInv, CreateInv, ReapInv
<1>4. BootRunnable'
  BY <1>a, <1>b, <1>c, NamesAssumption, BoundsAssumption DEF IInv, TypeOK, OneRunning, ThreadInv, CreateInv, ReapInv, BootRunnable
<1>5. CpuInv'
  BY <1>a, <1>b, <1>c, NamesAssumption, BoundsAssumption DEF IInv, TypeOK, OneRunning, ThreadInv, CreateInv, ReapInv, CpuInv
<1>6. ThreadInv'
  BY <1>b, <1>c, <1>d DEF IInv, ThreadInv
<1>7. CreateInv'
  <2>1. \A t \in AnyThread :
          /\ pc'[t] \in CreateSteps \cup {"freeproc"} <=> pc[t] \in CreateSteps \cup {"freeproc"}
          /\ pc[t] \in CreateSteps \cup {"freeproc"} =>
                 pc'[t] = pc[t] /\ subject'[t] = subject[t]
    BY <1>b, <1>c, <1>d
  <2>2. \A t \in AnyThread : pc'[t] = "publish" => stack'[subject'[t]]
    <3>1. \A t \in AnyThread : pc[t] = "publish" =>
            subject[t] \in AnyThread /\ subject[t] # z /\ stack[subject[t]]
      BY <1>c DEF IInv, CreateInv
    <3>2. QED
      BY <1>d, <2>1, <3>1
  <2>3. QED
    BY <1>b, <2>1, <2>2 DEF IInv, CreateInv
<1>8. ReapInv'
  BY <1>a, <1>b, <1>c, NamesAssumption, BoundsAssumption DEF IInv, TypeOK, OneRunning, ThreadInv, CreateInv, ReapInv, ReapedOnce, InHand
<1>9. ReapedOnce'
  <2>1. /\ zombies \subseteq Thread
        /\ \A t \in AnyThread : reaping[t] \subseteq Thread
    BY DEF IInv, TypeOK
  <2>2. \A t \in AnyThread : t # current => z \notin reaping[t] /\ z \notin InHand(t)
    BY <1>c DEF IInv, ReapedOnce
  <2>3. /\ \A t \in AnyThread : t # current => InHand(t)' = InHand(t)
        /\ InHand(current)' \subseteq {z}
        /\ InHand(current) = {}
    BY <1>b, <1>c, <1>d DEF InHand
  <2>4. /\ \A x \in zombies : state[x] = "TERMINATED" /\ stack'[x]
        /\ \A t \in AnyThread : \A x \in reaping'[t] : state[x] = "TERMINATED" /\ stack'[x]
    BY <1>c, <1>d, <2>1, <2>2 DEF IInv, ReapedOnce
  <2>5. \A t \in AnyThread : /\ InHand(t)' \cap (zombies \cup reaping'[t]) = {}
                             /\ reaping'[t] \cap zombies = {}
    <3>1. \A t \in AnyThread : /\ InHand(t) \cap (zombies \cup reaping[t]) = {}
                               /\ reaping[t] \cap zombies = {}
      BY DEF IInv, ReapedOnce
    <3>2. \A t \in AnyThread : t # current =>
            InHand(t)' = InHand(t) /\ reaping'[t] = reaping[t]
      BY <1>d, <2>3
    <3>3. /\ InHand(current)' \cap (zombies \cup reaping'[current]) = {}
          /\ reaping'[current] \cap zombies = {}
      BY <1>c, <1>d, <2>3, <3>1
    <3>4. ASSUME NEW t \in AnyThread
          PROVE  /\ InHand(t)' \cap (zombies \cup reaping'[t]) = {}
                 /\ reaping'[t] \cap zombies = {}
      <4>1. CASE t = current
        BY <1>b, <3>3, <4>1
      <4>2. CASE t # current
        BY <3>1, <3>2, <4>2
      <4>3. QED
        BY <4>1, <4>2
    <3>5. QED
      BY <3>4
  <2>6. \A t, u \in AnyThread :
          t # u => (reaping'[t] \cup InHand(t)') \cap (reaping'[u] \cup InHand(u)') = {}
    <3>1. \A t, u \in AnyThread :
            t # u => (reaping[t] \cup InHand(t)) \cap (reaping[u] \cup InHand(u)) = {}
      BY DEF IInv, ReapedOnce
    <3>2. \A t \in AnyThread : t # current =>
            reaping'[t] \cup InHand(t)' = reaping[t] \cup InHand(t)
      BY <1>d, <2>3
    <3>3. reaping'[current] \cup InHand(current)' \subseteq reaping[current] \cup InHand(current)
      BY <1>d, <2>3
    <3>4. \A t \in AnyThread : reaping'[t] \cup InHand(t)' \subseteq reaping[t] \cup InHand(t)
      <4> SUFFICES ASSUME NEW t \in AnyThread
                   PROVE  reaping'[t] \cup InHand(t)' \subseteq reaping[t] \cup InHand(t)
        OBVIOUS
      <4>1. CASE t = current
        BY <1>b, <3>3, <4>1
      <4>2. CASE t # current
        BY <3>2, <4>2
      <4>3. QED
        BY <4>1, <4>2
    <3>5. QED
      BY <3>1, <3>4
  <2>7. QED
    BY <1>b, <2>4, <2>5, <2>6 DEF ReapedOnce
<1>10. ReferencesCounted'
  <2>1. \A q \in AnyProcess : Users(q)' = Users(q)
    BY <1>b DEF Users
  <2>2. \A q \in AnyProcess : Attachers(q)' = Attachers(q)
    BY <1>a, <1>b, <1>c DEF IInv, TypeOK, Attachers, Creating
  <2>3. QED
    BY <1>b, <2>1, <2>2 DEF IInv, ReferencesCounted
<1>11. ReferencedProcessAlive'
  BY <1>a, <1>b, <1>c, NamesAssumption, BoundsAssumption DEF IInv, TypeOK, OneRunning, ThreadInv, CreateInv, ReapInv, ReferencedProcessAlive, Creating
<1>12. NeverFaulted'
  BY <1>a, <1>b, <1>c, NamesAssumption, BoundsAssumption DEF IInv, TypeOK, OneRunning, ThreadInv, CreateInv, ReapInv, NeverFaulted
<1>13. QED
  BY <1>1, <1>2, <1>3, <1>4, <1>5, <1>6, <1>7, <1>8, <1>9, <1>10, <1>11, <1>12 DEF IInv

\* The reference given back is one that was counted.
LEMMA DetachProcessStep == ASSUME IInv, DetachProcess(current) PROVE IInv'
<1> USE DEF QueuedStates, ThreadStates, CreateSteps, ReapSteps, Steps, AnyThread, AnyProcess
<1> USE DEF threadVars, cpuVars, timerVars, processVars, localVars, ReapNext, CanDetach
<1>z. PICK z \in AnyThread, q \in AnyProcess : z = subject[current] /\ q = process[z]
  BY DEF IInv, TypeOK, ReapInv, DetachProcess
<1>a. /\ z = subject[current] /\ q = process[z]
      /\ current \in AnyThread /\ pc[current] = "detach"
      /\ z \in Thread /\ z \in AnyThread
      /\ state[z] = "TERMINATED"
      /\ z # current
      /\ q \in AnyProcess /\ registered[q] = "alive"
  BY <1>z DEF IInv, TypeOK, OneRunning, ReapInv, ReferencedProcessAlive, DetachProcess
<1>b. /\ IsFiniteSet(Users(q)) /\ IsFiniteSet(Attachers(q))
      /\ Cardinality(Users(q)) \in Nat \ {0}
      /\ Cardinality(Attachers(q)) \in Nat
  BY <1>a, UserPositive, ReferencesFinite
<1>c. thread_count[q] = Cardinality(Users(q)) + Cardinality(Attachers(q))
  BY <1>a DEF IInv, ReferencesCounted
<1>d. CanDetach(q)
  BY <1>a, <1>b, <1>c, NamesAssumption
<1>e. /\ thread_count' = [thread_count EXCEPT ![q] = @ - 1]
      /\ process' = [process EXCEPT ![z] = None]
      /\ pc' = [pc EXCEPT ![current] = "free"]
      /\ UNCHANGED <<faulted, subject, state, kind, stack, interruptible, live, queue, current, cr3,
                     rsp0, timerVars, registered, reaping, target, zombies>>
  BY <1>a, <1>d DEF DetachProcess
<1> HIDE DEF CanDetach
<1>1. TypeOK'
  BY <1>a, <1>e, NamesAssumption, BoundsAssumption DEF IInv, TypeOK, OneRunning, ThreadInv, CreateInv, ReapInv
<1>2. RunQueueExact'
  BY <1>a, <1>e, NamesAssumption, BoundsAssumption DEF IInv, TypeOK, OneRunning, ThreadInv, CreateInv, ReapInv, RunQueueExact
<1>3. OneRunning'
  BY <1>a, <1>e, NamesAssumption, BoundsAssumption DEF IInv, TypeOK, OneRunning, ThreadInv, CreateInv, ReapInv
<1>4. BootRunnable'
  BY <1>a, <1>e, NamesAssumption, BoundsAssumption DEF IInv, TypeOK, OneRunning, ThreadInv, CreateInv, ReapInv, BootRunnable
<1>5. CpuInv'
  BY <1>a, <1>e, NamesAssumption, BoundsAssumption DEF IInv, TypeOK, OneRunning, ThreadInv, CreateInv, ReapInv, CpuInv
<1>6. ThreadInv'
  BY <1>a, <1>e, NamesAssumption, BoundsAssumption DEF IInv, TypeOK, OneRunning, ThreadInv, CreateInv, ReapInv
<1>7. CreateInv'
  BY <1>a, <1>e, NamesAssumption, BoundsAssumption DEF IInv, TypeOK, OneRunning, ThreadInv, CreateInv, ReapInv
<1>8. ReapInv'
  BY <1>a, <1>e, NamesAssumption, BoundsAssumption DEF IInv, TypeOK, OneRunning, ThreadInv, CreateInv, ReapInv, ReapedOnce, InHand
<1>9. ReapedOnce'
  BY <1>a, <1>e, NamesAssumption, BoundsAssumption DEF IInv, TypeOK, OneRunning, ThreadInv, CreateInv, ReapInv, ReapedOnce, InHand
<1>10. ReferencesCounted'
  <2>1. /\ Users(q)' = Users(q) \ {z}
        /\ z \in Users(q)
        /\ \A r \in AnyProcess : r # q => Users(r)' = Users(r)
        /\ \A r \in AnyProcess : Attachers(r)' = Attachers(r)
    <3>1. /\ Users(q)' = Users(q) \ {z}
          /\ z \in Users(q)
          /\ \A r \in AnyProcess : r # q => Users(r)' = Users(r)
      BY <1>a, <1>e, NamesAssumption DEF IInv, TypeOK, Users
    <3>2. \A r \in AnyProcess : Attachers(r)' = Attachers(r)
      BY <1>a, <1>e DEF IInv, TypeOK, Attachers, Creating
    <3>3. QED
      BY <3>1, <3>2
  <2>2. Cardinality(Users(q) \ {z}) = Cardinality(Users(q)) - 1
    BY <1>b, <2>1, FS_RemoveElement
  <2>3. thread_count'[q] = Cardinality(Users(q) \ {z}) + Cardinality(Attachers(q))
    BY <1>a, <1>b, <1>c, <1>e, <2>2 DEF IInv, TypeOK
  <2>4. QED
    <3>1. \A r \in AnyProcess : r # q =>
              thread_count'[r] = thread_count[r] /\ registered'[r] = registered[r]
      BY <1>a, <1>e DEF IInv, TypeOK
    <3>2. QED
      BY <1>a, <2>1, <2>3, <3>1, CountsPreserved DEF IInv
<1>11. ReferencedProcessAlive'
  BY <1>a, <1>e, NamesAssumption, BoundsAssumption DEF IInv, TypeOK, OneRunning, ThreadInv, CreateInv, ReapInv, ReferencedProcessAlive, Creating
<1>12. NeverFaulted'
  BY <1>a, <1>e, NamesAssumption, BoundsAssumption DEF IInv, TypeOK, OneRunning, ThreadInv, CreateInv, ReapInv, NeverFaulted
<1>13. QED
  BY <1>1, <1>2, <1>3, <1>4, <1>5, <1>6, <1>7, <1>8, <1>9, <1>10, <1>11, <1>12 DEF IInv

\* A freed struct is in no list, so no other reaper holds it.
LEMMA FreeThreadStep == ASSUME IInv, FreeThread(current) PROVE IInv'
<1> USE DEF QueuedStates, ThreadStates, CreateSteps, ReapSteps, Steps, AnyThread, AnyProcess
<1> USE DEF threadVars, cpuVars, timerVars, processVars, localVars, ReapNext, CanDetach
<1>1. TypeOK'
  <2>1. /\ state \in [AnyThread -> ThreadStates]
        /\ pc \in [AnyThread -> Steps]
        /\ subject \in [AnyThread -> Thread \cup {None}]
        /\ faulted \in BOOLEAN
    BY DEF IInv, TypeOK
  <2>2. state' \in [AnyThread -> ThreadStates]
    BY <2>1 DEF FreeThread
  <2>3. pc' \in [AnyThread -> Steps] /\ subject' \in [AnyThread -> Thread \cup {None}]
    BY <2>1 DEF FreeThread
  <2>4. faulted' \in BOOLEAN
    BY <2>1 DEF FreeThread
  <2>5. QED
    BY <2>2, <2>3, <2>4 DEF IInv, TypeOK, FreeThread
<1>2. RunQueueExact'
  BY NamesAssumption, BoundsAssumption DEF IInv, TypeOK, OneRunning, ThreadInv, CreateInv, ReapInv, RunQueueExact, FreeThread
<1>3. OneRunning'
  BY NamesAssumption, BoundsAssumption DEF IInv, TypeOK, OneRunning, ThreadInv, CreateInv, ReapInv, FreeThread
<1>4. BootRunnable'
  BY NamesAssumption, BoundsAssumption DEF IInv, TypeOK, OneRunning, ThreadInv, CreateInv, ReapInv, BootRunnable, FreeThread
<1>5. CpuInv'
  BY NamesAssumption, BoundsAssumption DEF IInv, TypeOK, OneRunning, ThreadInv, CreateInv, ReapInv, CpuInv, FreeThread
<1>6. ThreadInv'
  BY NamesAssumption, BoundsAssumption DEF IInv, TypeOK, OneRunning, ThreadInv, CreateInv, ReapInv, FreeThread
<1>7. CreateInv'
  BY NamesAssumption, BoundsAssumption DEF IInv, TypeOK, OneRunning, ThreadInv, CreateInv, ReapInv, FreeThread
<1>8. ReapInv'
  BY NamesAssumption, BoundsAssumption DEF IInv, TypeOK, OneRunning, ThreadInv, CreateInv, ReapInv, FreeThread, ReapedOnce, InHand
<1>9. ReapedOnce'
  BY NamesAssumption, BoundsAssumption DEF IInv, TypeOK, OneRunning, ThreadInv, CreateInv, ReapInv, ReapedOnce, FreeThread, InHand
<1>10. ReferencesCounted'
  <2>1. \A q \in AnyProcess : Users(q)' = Users(q) /\ Attachers(q)' = Attachers(q)
    BY DEF IInv, TypeOK, OneRunning, ThreadInv, CreateInv, ReapInv, Users, Attachers, Creating, FreeThread
  <2>2. QED BY <2>1, NamesAssumption DEF IInv, TypeOK, ReferencesCounted, FreeThread
<1>11. ReferencedProcessAlive'
  BY NamesAssumption, BoundsAssumption DEF IInv, TypeOK, OneRunning, ThreadInv, CreateInv, ReapInv, ReferencedProcessAlive, FreeThread, Creating
<1>12. NeverFaulted'
  BY NamesAssumption, BoundsAssumption DEF IInv, TypeOK, OneRunning, ThreadInv, CreateInv, ReapInv, NeverFaulted, FreeThread
<1>13. QED
  BY <1>1, <1>2, <1>3, <1>4, <1>5, <1>6, <1>7, <1>8, <1>9, <1>10, <1>11, <1>12 DEF IInv

\* An attach counts the reference its creation will hold.
LEMMA AttachProcessStep == ASSUME IInv, NEW p \in AnyProcess, AttachProcess(current, p) PROVE IInv'
<1> USE DEF QueuedStates, ThreadStates, CreateSteps, ReapSteps, Steps, AnyThread, AnyProcess
<1> USE DEF threadVars, cpuVars, timerVars, processVars, localVars, ReapNext, CanDetach
<1>a. /\ current \in AnyThread /\ pc[current] = "run"
      /\ registered[p] = "alive"
      /\ thread_count[p] = Cardinality(Users(p)) + Cardinality(Attachers(p))
      /\ IsFiniteSet(Attachers(p))
      /\ Cardinality(Attachers(p)) \in Nat /\ Cardinality(Users(p)) \in Nat
  BY ReferencesFinite DEF IInv, TypeOK, ReferencesCounted, AttachProcess
<1>1. TypeOK'
  BY NamesAssumption, BoundsAssumption DEF IInv, TypeOK, OneRunning, ThreadInv, CreateInv, ReapInv, AttachProcess
<1>2. RunQueueExact'
  BY NamesAssumption, BoundsAssumption DEF IInv, TypeOK, OneRunning, ThreadInv, CreateInv, ReapInv, RunQueueExact, AttachProcess
<1>3. OneRunning'
  BY NamesAssumption, BoundsAssumption DEF IInv, TypeOK, OneRunning, ThreadInv, CreateInv, ReapInv, AttachProcess
<1>4. BootRunnable'
  BY NamesAssumption, BoundsAssumption DEF IInv, TypeOK, OneRunning, ThreadInv, CreateInv, ReapInv, BootRunnable, AttachProcess
<1>5. CpuInv'
  BY NamesAssumption, BoundsAssumption DEF IInv, TypeOK, OneRunning, ThreadInv, CreateInv, ReapInv, CpuInv, AttachProcess
<1>6. ThreadInv'
  BY NamesAssumption, BoundsAssumption DEF IInv, TypeOK, OneRunning, ThreadInv, CreateInv, ReapInv, AttachProcess
<1>7. CreateInv'
  BY NamesAssumption, BoundsAssumption DEF IInv, TypeOK, OneRunning, ThreadInv, CreateInv, ReapInv, AttachProcess
<1>8. ReapInv'
  BY NamesAssumption, BoundsAssumption DEF IInv, TypeOK, OneRunning, ThreadInv, CreateInv, ReapInv, AttachProcess, ReapedOnce, InHand
<1>9. ReapedOnce'
  BY NamesAssumption, BoundsAssumption DEF IInv, TypeOK, OneRunning, ThreadInv, CreateInv, ReapInv, ReapedOnce, AttachProcess, InHand
<1>10. ReferencesCounted'
  <2>1. /\ Attachers(p)' = Attachers(p) \cup {current}
        /\ current \notin Attachers(p)
        /\ \A q \in AnyProcess : Users(q)' = Users(q)
        /\ \A q \in AnyProcess : q # p => Attachers(q)' = Attachers(q)
    BY <1>a DEF IInv, TypeOK, Users, Attachers, Creating, AttachProcess
  <2>2. Cardinality(Attachers(p) \cup {current}) = Cardinality(Attachers(p)) + 1
    BY <1>a, <2>1, FS_AddElement
  <2>3. thread_count'[p] = Cardinality(Users(p)) + Cardinality(Attachers(p) \cup {current})
    BY <1>a, <2>2 DEF IInv, TypeOK, AttachProcess
  <2>4. QED
    <3>1. \A r \in AnyProcess : r # p =>
              thread_count'[r] = thread_count[r] /\ registered'[r] = registered[r]
      BY DEF IInv, TypeOK, AttachProcess
    <3>2. QED
      BY <2>1, <2>3, <3>1, CountsPreserved DEF IInv
<1>11. ReferencedProcessAlive'
  BY NamesAssumption, BoundsAssumption DEF IInv, TypeOK, OneRunning, ThreadInv, CreateInv, ReapInv, ReferencedProcessAlive, AttachProcess, Creating
<1>12. NeverFaulted'
  BY NamesAssumption, BoundsAssumption DEF IInv, TypeOK, OneRunning, ThreadInv, CreateInv, ReapInv, NeverFaulted, AttachProcess
<1>13. QED
  BY <1>1, <1>2, <1>3, <1>4, <1>5, <1>6, <1>7, <1>8, <1>9, <1>10, <1>11, <1>12 DEF IInv

\* The struct kcalloc returns is unlinked and in no other creation's hand.
LEMMA AllocateThreadStep == ASSUME IInv, AllocateThread(current) PROVE IInv'
<1> USE DEF QueuedStates, ThreadStates, CreateSteps, ReapSteps, Steps, AnyThread, AnyProcess
<1> USE DEF threadVars, cpuVars, timerVars, processVars, localVars, ReapNext, CanDetach
<1>a. /\ current \in AnyThread /\ state[current] = "RUNNING" /\ pc[current] = "alloc"
      /\ \/ \E v \in Thread :
               /\ state[v] = "FREE"
               /\ state' = [state EXCEPT ![v] = "UNLINKED"]
               /\ subject' = [subject EXCEPT ![current] = v]
               /\ pc' = [pc EXCEPT ![current] = "stack"]
         \/ /\ pc' = [pc EXCEPT ![current] = "cancel"]
            /\ UNCHANGED <<state, subject>>
  BY DEF IInv, TypeOK, OneRunning, AllocateThread
<1>1. TypeOK'
  <2>1. state' \in [AnyThread -> ThreadStates]
    BY <1>a DEF IInv, TypeOK
  <2>2. pc' \in [AnyThread -> Steps] /\ subject' \in [AnyThread -> Thread \cup {None}]
    BY <1>a DEF IInv, TypeOK
  <2>3. QED
    BY <2>1, <2>2 DEF IInv, TypeOK, AllocateThread
<1>2. RunQueueExact'
  BY NamesAssumption, BoundsAssumption DEF IInv, TypeOK, OneRunning, ThreadInv, CreateInv, ReapInv, RunQueueExact, AllocateThread
<1>3. OneRunning'
  BY NamesAssumption, BoundsAssumption DEF IInv, TypeOK, OneRunning, ThreadInv, CreateInv, ReapInv, AllocateThread
<1>4. BootRunnable'
  BY NamesAssumption, BoundsAssumption DEF IInv, TypeOK, OneRunning, ThreadInv, CreateInv, ReapInv, BootRunnable, AllocateThread
<1>5. CpuInv'
  BY NamesAssumption, BoundsAssumption DEF IInv, TypeOK, OneRunning, ThreadInv, CreateInv, ReapInv, CpuInv, AllocateThread
<1>6. ThreadInv'
  <2>1. \A t \in AnyThread : /\ state'[t] # "READY" => state'[t] \in {state[t], "UNLINKED"}
                             /\ state'[t] = "UNLINKED" => state[t] \in {"UNLINKED", "FREE"}
                             /\ state'[t] # "UNLINKED" => state'[t] = state[t]
                             /\ t # current => pc'[t] = pc[t]
    BY <1>a DEF IInv, TypeOK
  <2>2. /\ pc'[current] \in {"stack", "cancel"} /\ state'[current] = "RUNNING"
        /\ UNCHANGED <<stack, process, reaping>>
    BY <1>a DEF IInv, TypeOK, AllocateThread
  <2>3. QED
    BY <1>a, <2>1, <2>2 DEF IInv, TypeOK, ThreadInv
<1>7. CreateInv'
  <2>1. /\ \A t \in AnyThread : t # current => pc'[t] = pc[t] /\ subject'[t] = subject[t]
        /\ UNCHANGED <<stack, target, registered>>
    BY <1>a DEF IInv, TypeOK, AllocateThread
  <2>2. CASE \E v \in Thread :
                /\ state[v] = "FREE"
                /\ state' = [state EXCEPT ![v] = "UNLINKED"]
                /\ subject' = [subject EXCEPT ![current] = v]
                /\ pc' = [pc EXCEPT ![current] = "stack"]
    <3>1. PICK v \in Thread : /\ state[v] = "FREE" /\ state'[v] = "UNLINKED"
                               /\ subject'[current] = v /\ pc'[current] = "stack"
                               /\ \A u \in AnyThread : u # v => state'[u] = state[u]
      BY <2>2 DEF IInv, TypeOK
    <3>2. \A t \in AnyThread : pc[t] \in {"stack", "publish", "drop"} => subject[t] # v
      BY <3>1 DEF IInv, CreateInv
    <3>3. QED
      BY <1>a, <2>1, <3>1, <3>2 DEF IInv, CreateInv
  <2>3. CASE pc' = [pc EXCEPT ![current] = "cancel"] /\ UNCHANGED <<state, subject>>
    <3>1. pc'[current] = "cancel"
      BY <1>a, <2>3 DEF IInv, TypeOK
    <3>2. QED
      BY <1>a, <2>1, <2>3, <3>1 DEF IInv, CreateInv
  <2>4. QED
    BY <1>a, <2>2, <2>3
<1>8. ReapInv'
  <2>1. \A t \in AnyThread : /\ state[t] = "TERMINATED" => state'[t] = "TERMINATED"
                             /\ t # current => pc'[t] = pc[t] /\ subject'[t] = subject[t]
    BY <1>a DEF IInv, TypeOK
  <2>2. /\ pc'[current] \in {"stack", "cancel"}
        /\ UNCHANGED <<process, zombies, reaping>>
    BY <1>a DEF IInv, TypeOK, AllocateThread
  <2>3. QED
    BY <2>1, <2>2 DEF IInv, ReapInv
<1>9. ReapedOnce'
  BY NamesAssumption, BoundsAssumption DEF IInv, TypeOK, OneRunning, ThreadInv, CreateInv, ReapInv, ReapedOnce, AllocateThread, InHand
<1>10. ReferencesCounted'
  <2>1. \A q \in AnyProcess : Users(q)' = Users(q) /\ Attachers(q)' = Attachers(q)
    BY DEF IInv, TypeOK, OneRunning, ThreadInv, CreateInv, ReapInv, Users, Attachers, Creating, AllocateThread
  <2>2. QED BY <2>1, NamesAssumption DEF IInv, TypeOK, ReferencesCounted, AllocateThread
<1>11. ReferencedProcessAlive'
  BY NamesAssumption, BoundsAssumption DEF IInv, TypeOK, OneRunning, ThreadInv, CreateInv, ReapInv, ReferencedProcessAlive, AllocateThread, Creating
<1>12. NeverFaulted'
  BY NamesAssumption, BoundsAssumption DEF IInv, TypeOK, OneRunning, ThreadInv, CreateInv, ReapInv, NeverFaulted, AllocateThread
<1>13. QED
  BY <1>1, <1>2, <1>3, <1>4, <1>5, <1>6, <1>7, <1>8, <1>9, <1>10, <1>11, <1>12 DEF IInv

\* A stack is given to an unlinked thread only.
LEMMA AllocateStackStep == ASSUME IInv, AllocateStack(current) PROVE IInv'
<1> USE DEF QueuedStates, ThreadStates, CreateSteps, ReapSteps, Steps, AnyThread, AnyProcess
<1> USE DEF threadVars, cpuVars, timerVars, processVars, localVars, ReapNext, CanDetach
<1>v. PICK v \in AnyThread : v = subject[current]
  BY DEF IInv, CreateInv, TypeOK, AllocateStack
<1>a. /\ v = subject[current]
      /\ current \in AnyThread /\ pc[current] = "stack"
      /\ state[current] = "RUNNING"
      /\ v \in Thread /\ v \in AnyThread /\ v # current
      /\ state[v] = "UNLINKED"
  BY <1>v DEF IInv, TypeOK, OneRunning, CreateInv, AllocateStack
<1>b. /\ \/ /\ stack' = [stack EXCEPT ![v] = TRUE]
            /\ pc' = [pc EXCEPT ![current] = "publish"]
         \/ /\ pc' = [pc EXCEPT ![current] = "drop"]
            /\ UNCHANGED stack
      /\ UNCHANGED <<state, process, kind, interruptible, live, cpuVars, timerVars,
                     processVars, reaping, subject, target, zombies>>
  BY <1>a DEF AllocateStack
<1>1. TypeOK'
  <2>1. stack' \in [AnyThread -> BOOLEAN]
    BY <1>a, <1>b DEF IInv, TypeOK
  <2>2. pc' \in [AnyThread -> Steps]
    BY <1>a, <1>b DEF IInv, TypeOK
  <2>3. QED
    BY <1>b, <2>1, <2>2 DEF IInv, TypeOK
<1>2. RunQueueExact'
  BY <1>a, <1>b, NamesAssumption, BoundsAssumption DEF IInv, TypeOK, OneRunning, ThreadInv, CreateInv, ReapInv, RunQueueExact
<1>3. OneRunning'
  BY <1>a, <1>b, NamesAssumption, BoundsAssumption DEF IInv, TypeOK, OneRunning, ThreadInv, CreateInv, ReapInv
<1>4. BootRunnable'
  BY <1>a, <1>b, NamesAssumption, BoundsAssumption DEF IInv, TypeOK, OneRunning, ThreadInv, CreateInv, ReapInv, BootRunnable
<1>5. CpuInv'
  BY <1>a, <1>b, NamesAssumption, BoundsAssumption DEF IInv, TypeOK, OneRunning, ThreadInv, CreateInv, ReapInv, CpuInv
<1>6. ThreadInv'
  <2>1. \A t \in AnyThread : /\ stack[t] => stack'[t]
                             /\ t # current => pc'[t] = pc[t]
    BY <1>a, <1>b DEF IInv, TypeOK
  <2>2. pc'[current] \in {"publish", "drop"}
    BY <1>a, <1>b DEF IInv, TypeOK
  <2>3. QED
    BY <1>a, <1>b, <2>1, <2>2 DEF IInv, ThreadInv
<1>7. CreateInv'
  <2>1. \A t \in AnyThread :
          /\ pc'[t] \in {"stack", "publish", "drop"} <=> pc[t] \in {"stack", "publish", "drop"}
          /\ pc'[t] \in CreateSteps <=> pc[t] \in CreateSteps
          /\ pc'[t] = "freeproc" <=> pc[t] = "freeproc"
    BY <1>a, <1>b DEF IInv, TypeOK
  <2>2. \A t \in AnyThread : pc'[t] = "publish" => stack'[subject[t]]
    BY <1>a, <1>b DEF IInv, TypeOK, CreateInv
  <2>3. QED
    BY <1>b, <2>1, <2>2 DEF IInv, CreateInv
<1>8. ReapInv'
  BY <1>a, <1>b, NamesAssumption, BoundsAssumption DEF IInv, TypeOK, OneRunning, ThreadInv, CreateInv, ReapInv, ReapedOnce, InHand
<1>9. ReapedOnce'
  <2>1. \A t \in AnyThread : /\ InHand(t)' = InHand(t)
                             /\ stack[t] => stack'[t]
    BY <1>a, <1>b DEF IInv, TypeOK, InHand
  <2>2. QED
    BY <1>b, <2>1 DEF IInv, TypeOK, ReapedOnce
<1>10. ReferencesCounted'
  <2>1. \A q \in AnyProcess : Users(q)' = Users(q) /\ Attachers(q)' = Attachers(q)
    BY <1>a, <1>b DEF IInv, TypeOK, Users, Attachers, Creating
  <2>2. QED
    BY <1>b, <2>1 DEF IInv, ReferencesCounted
<1>11. ReferencedProcessAlive'
  BY <1>a, <1>b, NamesAssumption, BoundsAssumption DEF IInv, TypeOK, OneRunning, ThreadInv, CreateInv, ReapInv, ReferencedProcessAlive, Creating
<1>12. NeverFaulted'
  BY <1>a, <1>b, NamesAssumption, BoundsAssumption DEF IInv, TypeOK, OneRunning, ThreadInv, CreateInv, ReapInv, NeverFaulted
<1>13. QED
  BY <1>1, <1>2, <1>3, <1>4, <1>5, <1>6, <1>7, <1>8, <1>9, <1>10, <1>11, <1>12 DEF IInv

\* A context that cannot be built gives back the stack of a thread nobody has seen.
LEMMA RejectContextStep == ASSUME IInv, RejectContext(current) PROVE IInv'
<1> USE DEF QueuedStates, ThreadStates, CreateSteps, ReapSteps, Steps, AnyThread, AnyProcess
<1> USE DEF threadVars, cpuVars, timerVars, processVars, localVars, ReapNext, CanDetach
<1>v. PICK v \in AnyThread : v = subject[current]
  BY DEF IInv, CreateInv, TypeOK, RejectContext
<1>a. /\ v = subject[current]
      /\ current \in AnyThread /\ pc[current] = "publish"
      /\ state[current] = "RUNNING"
      /\ v \in Thread /\ v \in AnyThread /\ v # current
      /\ state[v] = "UNLINKED"
  BY <1>v DEF IInv, TypeOK, OneRunning, CreateInv, RejectContext
<1>b. /\ \/ stack' = [stack EXCEPT ![v] = FALSE]
         \/ UNCHANGED stack
      /\ pc' = [pc EXCEPT ![current] = "drop"]
      /\ UNCHANGED <<state, process, kind, interruptible, live, cpuVars, timerVars,
                     processVars, reaping, subject, target, zombies>>
  BY <1>a DEF RejectContext
<1>1. TypeOK'
  <2>1. stack' \in [AnyThread -> BOOLEAN]
    BY <1>a, <1>b DEF IInv, TypeOK
  <2>2. pc' \in [AnyThread -> Steps]
    BY <1>a, <1>b DEF IInv, TypeOK
  <2>3. QED
    BY <1>b, <2>1, <2>2 DEF IInv, TypeOK
<1>2. RunQueueExact'
  BY <1>a, <1>b, NamesAssumption, BoundsAssumption DEF IInv, TypeOK, OneRunning, ThreadInv, CreateInv, ReapInv, RunQueueExact
<1>3. OneRunning'
  BY <1>a, <1>b, NamesAssumption, BoundsAssumption DEF IInv, TypeOK, OneRunning, ThreadInv, CreateInv, ReapInv
<1>4. BootRunnable'
  BY <1>a, <1>b, NamesAssumption, BoundsAssumption DEF IInv, TypeOK, OneRunning, ThreadInv, CreateInv, ReapInv, BootRunnable
<1>5. CpuInv'
  BY <1>a, <1>b, NamesAssumption, BoundsAssumption DEF IInv, TypeOK, OneRunning, ThreadInv, CreateInv, ReapInv, CpuInv
<1>6. ThreadInv'
  <2>1. \A t \in AnyThread : /\ t # v => stack'[t] = stack[t]
                             /\ t # current => pc'[t] = pc[t]
    BY <1>a, <1>b DEF IInv, TypeOK
  <2>2. pc'[current] = "drop"
    BY <1>a, <1>b DEF IInv, TypeOK
  <2>3. QED
    BY <1>a, <1>b, <2>1, <2>2 DEF IInv, ThreadInv
<1>7. CreateInv'
  <2>1. \A t \in AnyThread :
          /\ pc'[t] \in {"stack", "publish", "drop"} <=> pc[t] \in {"stack", "publish", "drop"}
          /\ pc'[t] \in CreateSteps <=> pc[t] \in CreateSteps
          /\ pc'[t] = "freeproc" <=> pc[t] = "freeproc"
    BY <1>a, <1>b DEF IInv, TypeOK
  <2>2. ASSUME NEW t \in AnyThread, pc'[t] = "publish"
        PROVE  stack'[subject[t]]
    <3>1. t # current /\ pc[t] = "publish"
      BY <1>a, <1>b, <2>2 DEF IInv, TypeOK
    <3>2. subject[t] \in AnyThread /\ subject[t] # v /\ stack[subject[t]]
      BY <1>a, <3>1 DEF IInv, CreateInv
    <3>3. \A x \in AnyThread : x # v => stack'[x] = stack[x]
      BY <1>a, <1>b DEF IInv, TypeOK
    <3>4. QED
      BY <3>2, <3>3
  <2>3. QED
    BY <1>b, <2>1, <2>2 DEF IInv, CreateInv
<1>8. ReapInv'
  BY <1>a, <1>b, NamesAssumption, BoundsAssumption DEF IInv, TypeOK, OneRunning, ThreadInv, CreateInv, ReapInv, ReapedOnce, InHand
<1>9. ReapedOnce'
  <2>1. \A t \in AnyThread : /\ InHand(t)' = InHand(t)
                             /\ state[t] = "TERMINATED" => stack'[t] = stack[t]
    BY <1>a, <1>b DEF IInv, TypeOK, InHand
  <2>2. /\ zombies \subseteq AnyThread
        /\ \A t \in AnyThread : reaping[t] \subseteq AnyThread
    BY DEF IInv, TypeOK
  <2>3. /\ \A z \in zombies : state[z] = "TERMINATED" /\ stack'[z]
        /\ \A t \in AnyThread : \A z \in reaping[t] : state[z] = "TERMINATED" /\ stack'[z]
    BY <2>1, <2>2 DEF IInv, ReapedOnce
  <2>4. QED
    BY <1>b, <2>1, <2>3 DEF IInv, ReapedOnce
<1>10. ReferencesCounted'
  <2>1. \A q \in AnyProcess : Users(q)' = Users(q) /\ Attachers(q)' = Attachers(q)
    BY <1>a, <1>b DEF IInv, TypeOK, Users, Attachers, Creating
  <2>2. QED
    BY <1>b, <2>1 DEF IInv, ReferencesCounted
<1>11. ReferencedProcessAlive'
  BY <1>a, <1>b, NamesAssumption, BoundsAssumption DEF IInv, TypeOK, OneRunning, ThreadInv, CreateInv, ReapInv, ReferencedProcessAlive, Creating
<1>12. NeverFaulted'
  BY <1>a, <1>b, NamesAssumption, BoundsAssumption DEF IInv, TypeOK, OneRunning, ThreadInv, CreateInv, ReapInv, NeverFaulted
<1>13. QED
  BY <1>1, <1>2, <1>3, <1>4, <1>5, <1>6, <1>7, <1>8, <1>9, <1>10, <1>11, <1>12 DEF IInv

\* Unwinding frees a struct that was never linked.
LEMMA DropThreadStep == ASSUME IInv, DropThread(current) PROVE IInv'
<1> USE DEF QueuedStates, ThreadStates, CreateSteps, ReapSteps, Steps, AnyThread, AnyProcess
<1> USE DEF threadVars, cpuVars, timerVars, processVars, localVars, ReapNext, CanDetach
<1>1. TypeOK'
  <2>1. /\ state \in [AnyThread -> ThreadStates]
        /\ stack \in [AnyThread -> BOOLEAN]
        /\ pc \in [AnyThread -> Steps]
        /\ subject \in [AnyThread -> Thread \cup {None}]
    BY DEF IInv, TypeOK
  <2>2. state' \in [AnyThread -> ThreadStates] /\ stack' \in [AnyThread -> BOOLEAN]
    BY <2>1 DEF DropThread
  <2>3. pc' \in [AnyThread -> Steps] /\ subject' \in [AnyThread -> Thread \cup {None}]
    BY <2>1 DEF DropThread
  <2>4. QED
    BY <2>2, <2>3 DEF IInv, TypeOK, DropThread
<1>2. RunQueueExact'
  BY NamesAssumption, BoundsAssumption DEF IInv, TypeOK, OneRunning, ThreadInv, CreateInv, ReapInv, RunQueueExact, DropThread
<1>3. OneRunning'
  BY NamesAssumption, BoundsAssumption DEF IInv, TypeOK, OneRunning, ThreadInv, CreateInv, ReapInv, DropThread
<1>4. BootRunnable'
  BY NamesAssumption, BoundsAssumption DEF IInv, TypeOK, OneRunning, ThreadInv, CreateInv, ReapInv, BootRunnable, DropThread
<1>5. CpuInv'
  BY NamesAssumption, BoundsAssumption DEF IInv, TypeOK, OneRunning, ThreadInv, CreateInv, ReapInv, CpuInv, DropThread
<1>6. ThreadInv'
  BY NamesAssumption, BoundsAssumption DEF IInv, TypeOK, OneRunning, ThreadInv, CreateInv, ReapInv, DropThread
<1>7. CreateInv'
  BY NamesAssumption, BoundsAssumption DEF IInv, TypeOK, OneRunning, ThreadInv, CreateInv, ReapInv, DropThread
<1>8. ReapInv'
  BY NamesAssumption, BoundsAssumption DEF IInv, TypeOK, OneRunning, ThreadInv, CreateInv, ReapInv, DropThread, ReapedOnce, InHand
<1>9. ReapedOnce'
  BY NamesAssumption, BoundsAssumption DEF IInv, TypeOK, OneRunning, ThreadInv, CreateInv, ReapInv, ReapedOnce, DropThread, InHand
<1>10. ReferencesCounted'
  <2>1. \A q \in AnyProcess : Users(q)' = Users(q) /\ Attachers(q)' = Attachers(q)
    BY DEF IInv, TypeOK, OneRunning, ThreadInv, CreateInv, ReapInv, Users, Attachers, Creating, DropThread
  <2>2. QED BY <2>1, NamesAssumption DEF IInv, TypeOK, ReferencesCounted, DropThread
<1>11. ReferencedProcessAlive'
  BY NamesAssumption, BoundsAssumption DEF IInv, TypeOK, OneRunning, ThreadInv, CreateInv, ReapInv, ReferencedProcessAlive, DropThread, Creating
<1>12. NeverFaulted'
  BY NamesAssumption, BoundsAssumption DEF IInv, TypeOK, OneRunning, ThreadInv, CreateInv, ReapInv, NeverFaulted, DropThread
<1>13. QED
  BY <1>1, <1>2, <1>3, <1>4, <1>5, <1>6, <1>7, <1>8, <1>9, <1>10, <1>11, <1>12 DEF IInv

\* Unwinding gives back the reference the creation counted.
LEMMA CancelCreateStep == ASSUME IInv, CancelCreate(current) PROVE IInv'
<1> USE DEF QueuedStates, ThreadStates, CreateSteps, ReapSteps, Steps, AnyThread, AnyProcess
<1> USE DEF threadVars, cpuVars, timerVars, processVars, localVars, ReapNext, CanDetach
<1>q. PICK q \in AnyProcess : q = target[current]
  BY DEF IInv, CreateInv, TypeOK, CancelCreate
<1>a. /\ q = target[current]
      /\ current \in AnyThread /\ pc[current] = "cancel"
      /\ q \in AnyProcess /\ registered[q] = "alive"
      /\ current \in Attachers(q)
  BY <1>q DEF IInv, TypeOK, OneRunning, CreateInv, ReferencedProcessAlive, CancelCreate, Creating, Attachers
<1>b. /\ IsFiniteSet(Users(q)) /\ IsFiniteSet(Attachers(q))
      /\ Cardinality(Users(q)) \in Nat
      /\ Cardinality(Attachers(q)) \in Nat \ {0}
  BY <1>a, AttacherPositive, ReferencesFinite
<1>c. thread_count[q] = Cardinality(Users(q)) + Cardinality(Attachers(q))
  BY <1>a DEF IInv, ReferencesCounted
<1>d. CanDetach(q)
  BY <1>a, <1>b, <1>c, NamesAssumption
<1>e. thread_count' = [thread_count EXCEPT ![q] = @ - 1]
  BY <1>a, <1>d DEF CancelCreate
<1> HIDE DEF CanDetach
<1>1. TypeOK'
  BY NamesAssumption, BoundsAssumption DEF IInv, TypeOK, OneRunning, ThreadInv, CreateInv, ReapInv, CancelCreate
<1>2. RunQueueExact'
  BY NamesAssumption, BoundsAssumption DEF IInv, TypeOK, OneRunning, ThreadInv, CreateInv, ReapInv, RunQueueExact, CancelCreate
<1>3. OneRunning'
  BY NamesAssumption, BoundsAssumption DEF IInv, TypeOK, OneRunning, ThreadInv, CreateInv, ReapInv, CancelCreate
<1>4. BootRunnable'
  BY NamesAssumption, BoundsAssumption DEF IInv, TypeOK, OneRunning, ThreadInv, CreateInv, ReapInv, BootRunnable, CancelCreate
<1>5. CpuInv'
  BY NamesAssumption, BoundsAssumption DEF IInv, TypeOK, OneRunning, ThreadInv, CreateInv, ReapInv, CpuInv, CancelCreate
<1>6. ThreadInv'
  BY NamesAssumption, BoundsAssumption DEF IInv, TypeOK, OneRunning, ThreadInv, CreateInv, ReapInv, CancelCreate
<1>7. CreateInv'
  BY NamesAssumption, BoundsAssumption DEF IInv, TypeOK, OneRunning, ThreadInv, CreateInv, ReapInv, CancelCreate
<1>8. ReapInv'
  BY NamesAssumption, BoundsAssumption DEF IInv, TypeOK, OneRunning, ThreadInv, CreateInv, ReapInv, CancelCreate, ReapedOnce, InHand
<1>9. ReapedOnce'
  BY NamesAssumption, BoundsAssumption DEF IInv, TypeOK, OneRunning, ThreadInv, CreateInv, ReapInv, ReapedOnce, CancelCreate, InHand
<1>10. ReferencesCounted'
  <2>1. /\ Attachers(q)' = Attachers(q) \ {current}
        /\ \A r \in AnyProcess : Users(r)' = Users(r)
        /\ \A r \in AnyProcess : r # q => Attachers(r)' = Attachers(r)
    <3>1. \A r \in AnyProcess : Users(r)' = Users(r)
      BY DEF Users, CancelCreate
    <3>2. /\ Attachers(q)' = Attachers(q) \ {current}
          /\ \A r \in AnyProcess : r # q => Attachers(r)' = Attachers(r)
      BY <1>a DEF IInv, TypeOK, Attachers, Creating, CancelCreate
    <3>3. QED
      BY <3>1, <3>2
  <2>2. Cardinality(Attachers(q) \ {current}) = Cardinality(Attachers(q)) - 1
    BY <1>a, <1>b, FS_RemoveElement
  <2>3. thread_count'[q] = Cardinality(Users(q)) + Cardinality(Attachers(q) \ {current})
    BY <1>a, <1>b, <1>c, <1>e, <2>2 DEF IInv, TypeOK
  <2>4. QED
    <3>1. \A r \in AnyProcess : r # q =>
              thread_count'[r] = thread_count[r] /\ registered'[r] = registered[r]
      BY <1>a, <1>e DEF IInv, TypeOK, CancelCreate
    <3>2. QED
      BY <1>a, <2>1, <2>3, <3>1, CountsPreserved DEF IInv
<1>11. ReferencedProcessAlive'
  BY NamesAssumption, BoundsAssumption DEF IInv, TypeOK, OneRunning, ThreadInv, CreateInv, ReapInv, ReferencedProcessAlive, CancelCreate, Creating
<1>12. NeverFaulted'
  BY NamesAssumption, BoundsAssumption DEF IInv, TypeOK, OneRunning, ThreadInv, CreateInv, ReapInv, NeverFaulted, CancelCreate
<1>13. QED
  BY <1>1, <1>2, <1>3, <1>4, <1>5, <1>6, <1>7, <1>8, <1>9, <1>10, <1>11, <1>12 DEF IInv

\* A new process has no references.
LEMMA CreateProcessStep == ASSUME IInv, NEW p \in Process, CreateProcess(current, p) PROVE IInv'
<1> USE DEF QueuedStates, ThreadStates, CreateSteps, ReapSteps, Steps, AnyThread, AnyProcess
<1> USE DEF threadVars, cpuVars, timerVars, processVars, localVars, ReapNext, CanDetach
<1>1. TypeOK'
  BY NamesAssumption, BoundsAssumption DEF IInv, TypeOK, OneRunning, ThreadInv, CreateInv, ReapInv, CreateProcess
<1>2. RunQueueExact'
  BY NamesAssumption, BoundsAssumption DEF IInv, TypeOK, OneRunning, ThreadInv, CreateInv, ReapInv, RunQueueExact, CreateProcess
<1>3. OneRunning'
  BY NamesAssumption, BoundsAssumption DEF IInv, TypeOK, OneRunning, ThreadInv, CreateInv, ReapInv, CreateProcess
<1>4. BootRunnable'
  BY NamesAssumption, BoundsAssumption DEF IInv, TypeOK, OneRunning, ThreadInv, CreateInv, ReapInv, BootRunnable, CreateProcess
<1>5. CpuInv'
  BY NamesAssumption, BoundsAssumption DEF IInv, TypeOK, OneRunning, ThreadInv, CreateInv, ReapInv, CpuInv, CreateProcess
<1>6. ThreadInv'
  BY NamesAssumption, BoundsAssumption DEF IInv, TypeOK, OneRunning, ThreadInv, CreateInv, ReapInv, CreateProcess
<1>7. CreateInv'
  BY NamesAssumption, BoundsAssumption DEF IInv, TypeOK, OneRunning, ThreadInv, CreateInv, ReapInv, CreateProcess
<1>8. ReapInv'
  BY NamesAssumption, BoundsAssumption DEF IInv, TypeOK, OneRunning, ThreadInv, CreateInv, ReapInv, CreateProcess, ReapedOnce, InHand
<1>9. ReapedOnce'
  BY NamesAssumption, BoundsAssumption DEF IInv, TypeOK, OneRunning, ThreadInv, CreateInv, ReapInv, ReapedOnce, CreateProcess, InHand
<1>10. ReferencesCounted'
  <2>1. \A q \in AnyProcess : Users(q)' = Users(q) /\ Attachers(q)' = Attachers(q)
    BY DEF Users, Attachers, Creating, CreateProcess
  <2>2. Users(p) = {} /\ Attachers(p) = {}
    BY NamesAssumption DEF IInv, TypeOK, ReferencedProcessAlive, Users, Attachers, CreateProcess
  <2>3. thread_count'[p] = Cardinality(Users(p)) + Cardinality(Attachers(p))
    BY <2>2, FS_EmptySet DEF IInv, TypeOK, CreateProcess
  <2>4. QED
    BY <2>1, <2>3 DEF IInv, TypeOK, ReferencesCounted, CreateProcess
<1>11. ReferencedProcessAlive'
  BY NamesAssumption, BoundsAssumption DEF IInv, TypeOK, OneRunning, ThreadInv, CreateInv, ReapInv, ReferencedProcessAlive, CreateProcess, Creating
<1>12. NeverFaulted'
  BY NamesAssumption, BoundsAssumption DEF IInv, TypeOK, OneRunning, ThreadInv, CreateInv, ReapInv, NeverFaulted, CreateProcess
<1>13. QED
  BY <1>1, <1>2, <1>3, <1>4, <1>5, <1>6, <1>7, <1>8, <1>9, <1>10, <1>11, <1>12 DEF IInv

\* Only a process without references leaves the registry.
LEMMA DestroyProcessStep == ASSUME IInv, NEW p \in Process, DestroyProcess(current, p) PROVE IInv'
<1> USE DEF QueuedStates, ThreadStates, CreateSteps, ReapSteps, Steps, AnyThread, AnyProcess
<1> USE DEF threadVars, cpuVars, timerVars, processVars, localVars, ReapNext, CanDetach
<1>1. TypeOK'
  BY NamesAssumption, BoundsAssumption DEF IInv, TypeOK, OneRunning, ThreadInv, CreateInv, ReapInv, DestroyProcess
<1>2. RunQueueExact'
  BY NamesAssumption, BoundsAssumption DEF IInv, TypeOK, OneRunning, ThreadInv, CreateInv, ReapInv, RunQueueExact, DestroyProcess
<1>3. OneRunning'
  BY NamesAssumption, BoundsAssumption DEF IInv, TypeOK, OneRunning, ThreadInv, CreateInv, ReapInv, DestroyProcess
<1>4. BootRunnable'
  BY NamesAssumption, BoundsAssumption DEF IInv, TypeOK, OneRunning, ThreadInv, CreateInv, ReapInv, BootRunnable, DestroyProcess
<1>5. CpuInv'
  BY NamesAssumption, BoundsAssumption DEF IInv, TypeOK, OneRunning, ThreadInv, CreateInv, ReapInv, CpuInv, DestroyProcess
<1>6. ThreadInv'
  BY NamesAssumption, BoundsAssumption DEF IInv, TypeOK, OneRunning, ThreadInv, CreateInv, ReapInv, DestroyProcess
<1>7. CreateInv'
  BY NamesAssumption, BoundsAssumption DEF IInv, TypeOK, OneRunning, ThreadInv, CreateInv, ReapInv, DestroyProcess
<1>8. ReapInv'
  BY NamesAssumption, BoundsAssumption DEF IInv, TypeOK, OneRunning, ThreadInv, CreateInv, ReapInv, DestroyProcess, ReapedOnce, InHand
<1>9. ReapedOnce'
  BY NamesAssumption, BoundsAssumption DEF IInv, TypeOK, OneRunning, ThreadInv, CreateInv, ReapInv, ReapedOnce, DestroyProcess, InHand
<1>10. ReferencesCounted'
  <2>1. \A q \in AnyProcess : Users(q)' = Users(q) /\ Attachers(q)' = Attachers(q)
    BY DEF IInv, TypeOK, OneRunning, ThreadInv, CreateInv, ReapInv, Users, Attachers, Creating, DestroyProcess
  <2>2. QED BY <2>1, NamesAssumption DEF IInv, TypeOK, ReferencesCounted, DestroyProcess
<1>11. ReferencedProcessAlive'
  <2>1. /\ p \in AnyProcess /\ registered[p] = "alive" /\ thread_count[p] = 0
        /\ IsFiniteSet(Users(p)) /\ IsFiniteSet(Attachers(p))
        /\ Cardinality(Users(p)) \in Nat /\ Cardinality(Attachers(p)) \in Nat
    BY ReferencesFinite DEF IInv, DestroyProcess
  <2>2. Users(p) = {} /\ Attachers(p) = {}
    <3>1. Cardinality(Users(p)) = 0 /\ Cardinality(Attachers(p)) = 0
      BY <2>1 DEF IInv, ReferencesCounted
    <3>2. QED
      BY <2>1, <3>1, FS_EmptySet
  <2>3. \A u \in AnyThread : process[u] # p /\ ~ (Creating(u) /\ target[u] = p)
    BY <2>2 DEF Users, Attachers
  <2>4. QED
    BY <2>1, <2>3 DEF IInv, TypeOK, OneRunning, ReferencedProcessAlive, DestroyProcess, Creating
<1>12. NeverFaulted'
  BY NamesAssumption, BoundsAssumption DEF IInv, TypeOK, OneRunning, ThreadInv, CreateInv, ReapInv, NeverFaulted, DestroyProcess
<1>13. QED
  BY <1>1, <1>2, <1>3, <1>4, <1>5, <1>6, <1>7, <1>8, <1>9, <1>10, <1>11, <1>12 DEF IInv

\* The struct that is freed was already out of the registry.
LEMMA FreeProcessStep == ASSUME IInv, FreeProcess(current) PROVE IInv'
<1> USE DEF QueuedStates, ThreadStates, CreateSteps, ReapSteps, Steps, AnyThread, AnyProcess
<1> USE DEF threadVars, cpuVars, timerVars, processVars, localVars, ReapNext, CanDetach
<1>1. TypeOK'
  <2>1. /\ registered \in [AnyProcess -> {"free", "alive", "terminated"}]
        /\ target \in [AnyThread -> AnyProcess \cup {None}]
        /\ pc \in [AnyThread -> Steps]
    BY DEF IInv, TypeOK
  <2>2. registered' \in [AnyProcess -> {"free", "alive", "terminated"}]
    BY <2>1 DEF FreeProcess
  <2>3. target' \in [AnyThread -> AnyProcess \cup {None}] /\ pc' \in [AnyThread -> Steps]
    BY <2>1 DEF FreeProcess
  <2>4. QED
    BY <2>2, <2>3 DEF IInv, TypeOK, FreeProcess
<1>2. RunQueueExact'
  BY NamesAssumption, BoundsAssumption DEF IInv, TypeOK, OneRunning, ThreadInv, CreateInv, ReapInv, RunQueueExact, FreeProcess
<1>3. OneRunning'
  BY NamesAssumption, BoundsAssumption DEF IInv, TypeOK, OneRunning, ThreadInv, CreateInv, ReapInv, FreeProcess
<1>4. BootRunnable'
  BY NamesAssumption, BoundsAssumption DEF IInv, TypeOK, OneRunning, ThreadInv, CreateInv, ReapInv, BootRunnable, FreeProcess
<1>5. CpuInv'
  BY NamesAssumption, BoundsAssumption DEF IInv, TypeOK, OneRunning, ThreadInv, CreateInv, ReapInv, CpuInv, FreeProcess
<1>6. ThreadInv'
  BY NamesAssumption, BoundsAssumption DEF IInv, TypeOK, OneRunning, ThreadInv, CreateInv, ReapInv, FreeProcess
<1>7. CreateInv'
  BY NamesAssumption, BoundsAssumption DEF IInv, TypeOK, OneRunning, ThreadInv, CreateInv, ReapInv, FreeProcess
<1>8. ReapInv'
  BY NamesAssumption, BoundsAssumption DEF IInv, TypeOK, OneRunning, ThreadInv, CreateInv, ReapInv, FreeProcess, ReapedOnce, InHand
<1>9. ReapedOnce'
  BY NamesAssumption, BoundsAssumption DEF IInv, TypeOK, OneRunning, ThreadInv, CreateInv, ReapInv, ReapedOnce, FreeProcess, InHand
<1>10. ReferencesCounted'
  <2>1. \A q \in AnyProcess : Users(q)' = Users(q) /\ Attachers(q)' = Attachers(q)
    BY DEF IInv, TypeOK, OneRunning, ThreadInv, CreateInv, ReapInv, Users, Attachers, Creating, FreeProcess
  <2>2. QED BY <2>1, NamesAssumption DEF IInv, TypeOK, ReferencesCounted, FreeProcess
<1>11. ReferencedProcessAlive'
  BY NamesAssumption, BoundsAssumption DEF IInv, TypeOK, OneRunning, ThreadInv, CreateInv, ReapInv, ReferencedProcessAlive, FreeProcess, Creating
<1>12. NeverFaulted'
  BY NamesAssumption, BoundsAssumption DEF IInv, TypeOK, OneRunning, ThreadInv, CreateInv, ReapInv, NeverFaulted, FreeProcess
<1>13. QED
  BY <1>1, <1>2, <1>3, <1>4, <1>5, <1>6, <1>7, <1>8, <1>9, <1>10, <1>11, <1>12 DEF IInv

\* Linking a new thread turns the creation's reference into the thread's.
LEMMA PublishStep == ASSUME IInv, NEW k \in {"kernel", "user"}, Publish(current, k) PROVE IInv'
<1> USE DEF QueuedStates, ThreadStates, CreateSteps, ReapSteps, Steps, AnyThread, AnyProcess
<1> USE DEF threadVars, cpuVars, timerVars, processVars, localVars, ReapNext, CanDetach
<1>v. PICK v \in AnyThread, q \in AnyProcess : v = subject[current] /\ q = target[current]
  BY DEF IInv, CreateInv, TypeOK, Publish
<1>a. /\ v = subject[current] /\ q = target[current]
      /\ current \in AnyThread /\ pc[current] = "publish"
      /\ state[current] = "RUNNING"
      /\ v \in Thread /\ v \in AnyThread /\ v # current
      /\ state[v] = "UNLINKED" /\ stack[v] /\ process[v] = None
      /\ pc[v] \in {"run", "dead"}
      /\ q \in AnyProcess /\ registered[q] = "alive"
  BY <1>v DEF IInv, TypeOK, OneRunning, ThreadInv, CreateInv, ReferencedProcessAlive, Creating, Publish
<1>1. TypeOK'
  <2>1. state' \in [AnyThread -> ThreadStates] /\ kind' \in [AnyThread -> {"kernel", "user"}]
    BY <1>a DEF IInv, TypeOK, Publish
  <2>2. process' \in [AnyThread -> AnyProcess \cup {None}]
    BY <1>a DEF IInv, TypeOK, Publish
  <2>3. pc' \in [AnyThread -> Steps]
    BY <1>a DEF IInv, TypeOK, Publish
  <2>4. /\ subject' \in [AnyThread -> Thread \cup {None}]
        /\ target' \in [AnyThread -> AnyProcess \cup {None}]
    BY <1>a DEF IInv, TypeOK, Publish
  <2>5. queue' \in Seq(AnyThread) /\ live' \in Int
    BY <1>a DEF IInv, TypeOK, Publish
  <2>6. QED
    BY <2>1, <2>2, <2>3, <2>4, <2>5 DEF IInv, TypeOK, Publish
<1>2. RunQueueExact'
  <2>1. /\ queue \in Seq(AnyThread) /\ queue # <<>> /\ IsInjective(queue)
        /\ v \notin ToSet(queue)
    BY <1>a DEF IInv, TypeOK, RunQueueExact
  <2>2. /\ Append(queue, v) \in Seq(AnyThread)
        /\ Len(Append(queue, v)) = Len(queue) + 1
        /\ Append(queue, v) # <<>>
        /\ Append(queue, v)[1] = queue[1]
        /\ ToSet(Append(queue, v)) = ToSet(queue) \cup {v}
        /\ IsInjective(Append(queue, v))
    BY <1>a, <2>1, AppendRing
  <2>3. queue' = Append(queue, v) /\ live' = live + 1 /\ state' = [state EXCEPT ![v] = "READY"]
    BY <1>a DEF Publish
  <2>4. live' = Len(queue') - 1
    BY <2>2, <2>3 DEF IInv, RunQueueExact, TypeOK
  <2>5. ToSet(queue') = {u \in AnyThread : state'[u] \in QueuedStates}
    BY <1>a, <2>2, <2>3 DEF IInv, RunQueueExact, TypeOK
  <2>6. QED
    BY <2>2, <2>3, <2>4, <2>5 DEF IInv, RunQueueExact
<1>3. OneRunning'
  BY <1>a, NamesAssumption, BoundsAssumption DEF IInv, TypeOK, OneRunning, ThreadInv, CreateInv, ReapInv, Publish
<1>4. BootRunnable'
  BY <1>a, NamesAssumption, BoundsAssumption DEF IInv, TypeOK, OneRunning, ThreadInv, CreateInv, ReapInv, BootRunnable, Publish
<1>5. CpuInv'
  BY <1>a, NamesAssumption, BoundsAssumption DEF IInv, TypeOK, OneRunning, ThreadInv, CreateInv, ReapInv, CpuInv, Publish
<1>6. ThreadInv'
  <2>1. \A t \in AnyThread : t # v =>
          /\ state'[t] = state[t] /\ process'[t] = process[t]
          /\ t # current => pc'[t] = pc[t]
    BY <1>a DEF IInv, TypeOK, Publish
  <2>2. /\ state'[v] = "READY" /\ process'[v] # None /\ pc'[v] \in {"run", "reap"}
        /\ pc'[current] = "run"
        /\ UNCHANGED <<stack, reaping>>
    BY <1>a, NamesAssumption DEF IInv, TypeOK, Publish
  <2>3. reaping[v] = {} /\ reaping[current] = {}
    BY <1>a DEF IInv, ThreadInv
  <2>4. QED
    BY <1>a, <2>1, <2>2, <2>3 DEF IInv, ThreadInv
<1>7. CreateInv'
  BY <1>a, NamesAssumption, BoundsAssumption DEF IInv, TypeOK, OneRunning, ThreadInv, CreateInv, ReapInv, Publish
<1>8. ReapInv'
  BY <1>a, NamesAssumption, BoundsAssumption DEF IInv, TypeOK, OneRunning, ThreadInv, CreateInv, ReapInv, Publish, ReapedOnce, InHand
<1>9. ReapedOnce'
  BY <1>a, NamesAssumption, BoundsAssumption DEF IInv, TypeOK, OneRunning, ThreadInv, CreateInv, ReapInv, ReapedOnce, Publish, InHand
<1>10. ReferencesCounted'
  <2>1. /\ Users(q)' = Users(q) \cup {v}
        /\ v \notin Users(q)
        /\ Attachers(q)' = Attachers(q) \ {current}
        /\ current \in Attachers(q)
    <3>1. Users(q)' = Users(q) \cup {v} /\ v \notin Users(q)
      BY <1>a, NamesAssumption DEF IInv, TypeOK, Users, Publish
    <3>2. Attachers(q)' = Attachers(q) \ {current} /\ current \in Attachers(q)
      BY <1>a, NamesAssumption DEF IInv, TypeOK, Attachers, Creating, Publish
    <3>3. QED
      BY <3>1, <3>2
  <2>2. \A r \in AnyProcess : r # q => Users(r)' = Users(r)
    BY <1>a, NamesAssumption DEF IInv, TypeOK, Users, Publish
  <2>3. \A r \in AnyProcess : r # q => Attachers(r)' = Attachers(r)
    BY <1>a, NamesAssumption DEF IInv, TypeOK, Attachers, Creating, Publish
  <2>4. /\ IsFiniteSet(Users(q)) /\ IsFiniteSet(Attachers(q))
        /\ Cardinality(Users(q)) \in Nat /\ Cardinality(Attachers(q)) \in Nat
    BY ReferencesFinite
  <2>5. /\ Cardinality(Users(q) \cup {v}) = Cardinality(Users(q)) + 1
        /\ Cardinality(Attachers(q) \ {current}) = Cardinality(Attachers(q)) - 1
    BY <2>1, <2>4, FS_AddElement, FS_RemoveElement
  <2>6. thread_count[q] = Cardinality(Users(q) \cup {v}) + Cardinality(Attachers(q) \ {current})
    BY <1>a, <2>4, <2>5 DEF IInv, ReferencesCounted
  <2>7. QED
    BY <1>a, <2>1, <2>2, <2>3, <2>6, CountsPreserved DEF IInv, Publish
<1>11. ReferencedProcessAlive'
  BY <1>a, NamesAssumption, BoundsAssumption DEF IInv, TypeOK, OneRunning, ThreadInv, CreateInv, ReapInv, ReferencedProcessAlive, Publish, Creating
<1>12. NeverFaulted'
  BY <1>a, NamesAssumption, BoundsAssumption DEF IInv, TypeOK, OneRunning, ThreadInv, CreateInv, ReapInv, NeverFaulted, Publish
<1>13. QED
  BY <1>1, <1>2, <1>3, <1>4, <1>5, <1>6, <1>7, <1>8, <1>9, <1>10, <1>11, <1>12 DEF IInv
-----------------------------------------------------------------------------
(* The actions that switch                                                 *)

\* schedule_locked always finds an address space for the thread it picks.
LEMMA ScheduleSwitches ==
    ASSUME IInv, NEW q \in Seq(AnyThread), ToSet(q) \subseteq ToSet(queue),
           NEW st \in [AnyThread -> ThreadStates],
           \A x \in AnyThread : x # current => st[x] = state[x],
           st[current] # "READY",
           Schedule(q, st, current)
    PROVE  \/ /\ \A x \in ToSet(q) : st[x] # "READY"
              /\ StayOn(st, st[current] # "RUNNING")
           \/ \E n \in AnyThread :
                /\ n # current
                /\ state[n] = "READY"
                /\ SwitchTo(n, st, current)
<1>1. CASE /\ \A x \in ToSet(q) : st[x] # "READY"
           /\ StayOn(st, st[current] # "RUNNING")
  BY <1>1
<1>2. CASE \E n \in ToSet(q) :
             /\ st[n] = "READY"
             /\ IF HasSpace(n) THEN SwitchTo(n, st, current) ELSE StayOn(st, TRUE)
  <2>1. PICK n \in ToSet(q) :
             /\ st[n] = "READY"
             /\ IF HasSpace(n) THEN SwitchTo(n, st, current) ELSE StayOn(st, TRUE)
    BY <1>2
  <2>2. n \in AnyThread /\ n # current /\ state[n] = "READY"
    BY <2>1 DEF IInv, RunQueueExact
  <2>3. HasSpace(n)
    BY <2>2 DEF IInv, ThreadInv, ReferencedProcessAlive, HasSpace, QueuedStates
  <2>4. QED
    BY <2>1, <2>2, <2>3
<1>3. QED
  BY <1>1, <1>2, ScheduleOutcome

\* The effect of a timer interrupt, a yield or a block on the invariant: the
\* current thread stays, or leaves the CPU READY or BLOCKED to a READY thread.
LEMMA DispatchStep ==
    ASSUME IInv, NEW n \in AnyThread, NEW left \in {"READY", "BLOCKED"},
           current' = n, rsp0' = n, cr3' = process[n],
           \/ n = current /\ state' = state
           \/ /\ n # current /\ state[n] = "READY"
              /\ state' = [state EXCEPT ![current] = left, ![n] = "RUNNING"],
           current = boot_thread => left = "READY",
           \/ pc' = pc
           \/ pc[current] = "run" /\ pc' = [pc EXCEPT ![current] = "reap"],
           slice' \in 0..(SliceTicks - 1),
           UNCHANGED <<queue, process, kind, stack, interruptible, live, preemption, faulted, zombies,
                       processVars, reaping, subject, target>>
    PROVE  IInv'
<1> USE DEF QueuedStates, ThreadStates, CreateSteps, ReapSteps, Steps, AnyThread,
            AnyProcess, processVars
<1>a. /\ current \in AnyThread /\ state[current] = "RUNNING"
      /\ \A t \in AnyThread : t # current /\ t # n => state'[t] = state[t]
      /\ \A t \in AnyThread : state'[t] \in QueuedStates <=> state[t] \in QueuedStates
      /\ \A t \in AnyThread : state'[t] \notin QueuedStates => state'[t] = state[t]
      /\ \A t \in AnyThread : state[t] \notin QueuedStates => state'[t] = state[t]
  BY DEF IInv, TypeOK, OneRunning
<1>b. \A t \in AnyThread :
        /\ t # current => pc'[t] = pc[t]
        /\ pc'[t] \in CreateSteps <=> pc[t] \in CreateSteps
        /\ pc'[t] \in {"stack", "publish", "drop"} <=> pc[t] \in {"stack", "publish", "drop"}
        /\ pc'[t] \in {"release", "detach", "free"} <=> pc[t] \in {"release", "detach", "free"}
        /\ pc'[t] \in {"detach", "free"} <=> pc[t] \in {"detach", "free"}
        /\ pc'[t] \in {"publish", "freeproc", "detach", "free"} => pc'[t] = pc[t]
  BY <1>a DEF IInv, TypeOK
<1>1. TypeOK'
  <2>1. state' \in [AnyThread -> ThreadStates]
    BY <1>a DEF IInv, TypeOK
  <2>2. pc' \in [AnyThread -> Steps]
    BY <1>a DEF IInv, TypeOK
  <2>3. cr3' \in AnyProcess /\ rsp0' \in AnyThread /\ current' \in AnyThread
    BY <1>a DEF IInv, TypeOK, ThreadInv
  <2>4. QED
    BY <2>1, <2>2, <2>3 DEF IInv, TypeOK
<1>2. RunQueueExact'
  <2>1. {t \in AnyThread : state'[t] \in QueuedStates} = {t \in AnyThread : state[t] \in QueuedStates}
    BY <1>a
  <2>2. QED
    BY <2>1 DEF IInv, RunQueueExact
<1>3. OneRunning'
  BY <1>a DEF IInv, TypeOK, OneRunning
<1>4. BootRunnable'
  BY <1>a DEF IInv, TypeOK, BootRunnable, OneRunning
<1>5. CpuInv'
  BY DEF CpuInv
<1>6. ThreadInv'
  BY <1>a, <1>b DEF IInv, ThreadInv
<1>7. CreateInv'
  <2>1. \A t \in AnyThread : pc'[t] \in {"stack", "publish", "drop"} =>
          subject[t] \in Thread /\ state'[subject[t]] = "UNLINKED"
    BY <1>a, <1>b DEF IInv, CreateInv
  <2>2. QED
    BY <1>b, <2>1 DEF IInv, CreateInv
<1>8. ReapInv'
  <2>1. \A t \in AnyThread : pc'[t] \in {"detach", "free"} =>
          subject[t] \in Thread /\ state'[subject[t]] = "TERMINATED"
    BY <1>a, <1>b DEF IInv, ReapInv
  <2>2. QED
    BY <1>b, <2>1 DEF IInv, ReapInv
<1>9. ReapedOnce'
  <2>1. \A t \in AnyThread : InHand(t)' = InHand(t)
    BY <1>b DEF InHand
  <2>2. \A z \in Thread : state[z] = "TERMINATED" => state'[z] = "TERMINATED"
    BY <1>a
  <2>3. /\ zombies \subseteq Thread
        /\ \A t \in AnyThread : reaping[t] \subseteq Thread
    BY DEF IInv, TypeOK
  <2>4. /\ \A z \in zombies : state'[z] = "TERMINATED" /\ stack[z]
        /\ \A t \in AnyThread : \A z \in reaping[t] : state'[z] = "TERMINATED" /\ stack[z]
    BY <2>2, <2>3 DEF IInv, ReapedOnce
  <2>5. UNCHANGED <<zombies, reaping, stack>>
    OBVIOUS
  <2>6. QED
    BY <2>1, <2>4, <2>5 DEF IInv, ReapedOnce
<1>10. ReferencesCounted'
  <2>1. \A q \in AnyProcess : Users(q)' = Users(q) /\ Attachers(q)' = Attachers(q)
    BY <1>b DEF Users, Attachers, Creating
  <2>2. QED
    BY <2>1 DEF IInv, ReferencesCounted
<1>11. ReferencedProcessAlive'
  BY <1>b DEF IInv, ReferencedProcessAlive, Creating
<1>12. NeverFaulted'
  BY DEF IInv, NeverFaulted
<1>13. QED
  BY <1>1, <1>2, <1>3, <1>4, <1>5, <1>6, <1>7, <1>8, <1>9, <1>10, <1>11, <1>12 DEF IInv

\* What a schedule from the unchanged queue and states amounts to.
LEMMA RescheduleResult ==
    ASSUME IInv, Schedule(queue, state, current)
    PROVE  /\ UNCHANGED faulted
           /\ \E n \in AnyThread :
                /\ current' = n /\ rsp0' = n /\ cr3' = process[n]
                /\ \/ n = current /\ state' = state
                   \/ /\ n # current /\ state[n] = "READY"
                      /\ state' = [state EXCEPT ![current] = "READY", ![n] = "RUNNING"]
<1>1. /\ current \in AnyThread /\ state[current] = "RUNNING"
      /\ queue \in Seq(AnyThread)
      /\ state \in [AnyThread -> ThreadStates]
      /\ faulted \in BOOLEAN
      /\ rsp0 = current /\ cr3 = process[current]
  BY DEF IInv, TypeOK, OneRunning, CpuInv
<1>2. CASE StayOn(state, state[current] # "RUNNING")
  BY <1>1, <1>2 DEF StayOn
<1>3. CASE \E n \in AnyThread :
             n # current /\ state[n] = "READY" /\ SwitchTo(n, state, current)
  BY <1>1, <1>3 DEF SwitchTo
<1>4. QED
  BY <1>1, <1>2, <1>3, ScheduleSwitches

\* A yield is a dispatch that sends its caller to the reaper.
LEMMA YieldStep == ASSUME IInv, Yield(current) PROVE IInv'
<1>1. Schedule(queue, state, current)
  BY DEF Yield
<1>2. /\ pc[current] = "run" /\ pc' = [pc EXCEPT ![current] = "reap"]
      /\ slice' \in 0..(SliceTicks - 1)
      /\ UNCHANGED <<queue, process, kind, stack, interruptible, live, preemption, zombies, processVars,
                     reaping, subject, target>>
  BY DEF Yield, timerVars, IInv, TypeOK
<1>3. QED
  BY <1>1, <1>2, RescheduleResult, DispatchStep

\* A timer interrupt counts a tick or dispatches.
LEMMA TimerInterruptStep == ASSUME IInv, TimerInterrupt PROVE IInv'
<1>1. UNCHANGED <<queue, process, kind, stack, interruptible, live, preemption, zombies, processVars,
                  pc, reaping, subject, target>>
  BY DEF TimerInterrupt, localVars
<1>2. slice' \in 0..(SliceTicks - 1)
  BY BoundsAssumption DEF TimerInterrupt, NextSlice, IInv, TypeOK
<1>3. CASE UNCHANGED <<state, current, cr3, rsp0, faulted>>
  <2>1. current \in AnyThread /\ rsp0 = current /\ cr3 = process[current]
    BY DEF IInv, TypeOK, CpuInv
  <2>2. QED
    BY <1>1, <1>2, <1>3, <2>1, DispatchStep
<1>4. CASE Schedule(queue, state, current)
  BY <1>1, <1>2, <1>4, RescheduleResult, DispatchStep
<1>5. QED
  BY <1>3, <1>4 DEF TimerInterrupt

\* A block is a dispatch that leaves its caller BLOCKED.
LEMMA BlockStep == ASSUME IInv, Block(current) PROVE IInv'
<1> DEFINE st == [state EXCEPT ![current] = "BLOCKED"]
<1>1. /\ current \in AnyThread /\ current # boot_thread /\ state[current] = "RUNNING"
      /\ queue \in Seq(AnyThread)
      /\ st \in [AnyThread -> ThreadStates]
      /\ st[current] = "BLOCKED"
      /\ \A x \in AnyThread : x # current => st[x] = state[x]
  BY DEF IInv, TypeOK, Block, ThreadStates, QueuedStates
<1>2. ~ \A x \in ToSet(queue) : st[x] # "READY"
  <2>1. PICK i \in DOMAIN ScanOrder(queue, current) :
            state[ScanOrder(queue, current)[i]] = "READY"
    BY DEF Block, NoneReady
  <2>2. ScanOrder(queue, current)[i] \in ToSet(queue)
    BY <1>1, ScanVisitsQueue
  <2>3. ToSet(queue) \subseteq AnyThread
    BY DEF IInv, RunQueueExact
  <2>4. QED
    BY <1>1, <2>1, <2>2, <2>3
<1>3. Schedule(queue, st, current)
  BY DEF Block
<1>4. PICK n \in AnyThread : n # current /\ state[n] = "READY" /\ SwitchTo(n, st, current)
  BY <1>1, <1>2, <1>3, ScheduleSwitches
<1>5. /\ current' = n /\ rsp0' = n /\ cr3' = process[n]
      /\ state' = [state EXCEPT ![current] = "BLOCKED", ![n] = "RUNNING"]
      /\ UNCHANGED faulted
  BY <1>1, <1>4 DEF SwitchTo, IInv, TypeOK
<1>6. /\ pc[current] = "run" /\ pc' = [pc EXCEPT ![current] = "reap"]
      /\ slice' \in 0..(SliceTicks - 1)
      /\ UNCHANGED <<queue, process, kind, stack, interruptible, live, preemption, zombies, processVars,
                     reaping, subject, target>>
  BY DEF Block, timerVars, IInv, TypeOK
<1>7. QED
  BY <1>1, <1>4, <1>5, <1>6, DispatchStep

\* An exit unlinks its caller, which becomes a zombie nobody reaps yet, and
\* always finds a thread to switch to: the boot thread, if no other.
LEMMA ExitStep == ASSUME IInv, Exit(current) PROVE IInv'
<1> USE DEF QueuedStates, ThreadStates, CreateSteps, ReapSteps, Steps, AnyThread,
            AnyProcess, processVars, timerVars
<1> DEFINE st == [state EXCEPT ![current] = "TERMINATED"]
<1>a. PICK i \in DOMAIN queue :
        /\ queue[i] = current
        /\ queue' = RemoveAt(queue, i)
        /\ Schedule(RemoveAt(queue, i), st, current)
  BY DEF Exit
<1>b. /\ pc[current] = "run" /\ current # boot_thread
      /\ zombies' = zombies \cup {current}
      /\ live' = live - 1
      /\ pc' = [pc EXCEPT ![current] = "dead"]
      /\ UNCHANGED <<process, stack, slice, preemption, processVars, reaping, subject, target>>
      /\ kind' = [kind EXCEPT ![current] = "kernel"]
      /\ interruptible' = [interruptible EXCEPT ![current] = FALSE]
  BY DEF Exit
<1>c. /\ current \in AnyThread /\ current \in Thread /\ state[current] = "RUNNING"
      /\ queue \in Seq(AnyThread) /\ IsInjective(queue)
      /\ queue[1] = boot_thread /\ i # 1
      /\ st \in [AnyThread -> ThreadStates]
      /\ st[current] = "TERMINATED"
      /\ \A x \in AnyThread : x # current => st[x] = state[x]
      /\ current \notin zombies
      /\ \A t \in AnyThread : current \notin reaping[t]
      /\ stack[current] /\ process[current] # None
  BY <1>a, <1>b DEF IInv, TypeOK, OneRunning, RunQueueExact, ReapedOnce, ThreadInv
<1>d. PICK q : q = RemoveAt(queue, i)
  OBVIOUS
<1>e. /\ q \in Seq(AnyThread) /\ queue' = q
      /\ Len(q) = Len(queue) - 1
      /\ q # <<>> /\ q[1] = boot_thread
      /\ ToSet(q) = ToSet(queue) \ {current}
      /\ IsInjective(q)
  BY <1>a, <1>c, <1>d, RemoveFromRing
<1>f. PICK n \in AnyThread : n # current /\ state[n] = "READY" /\ SwitchTo(n, st, current)
  <2>1. boot_thread \in ToSet(q) /\ st[boot_thread] = "READY"
    <3>1. boot_thread \in ToSet(queue)
      BY DEF IInv, RunQueueExact, BootRunnable
    <3>2. state[boot_thread] = "READY"
      BY <1>b DEF IInv, BootRunnable, OneRunning
    <3>3. QED
      BY <1>b, <1>c, <1>e, <3>1, <3>2
  <2>2. Schedule(q, st, current)
    BY <1>a, <1>d
  <2>3. QED
    BY <1>c, <1>e, <2>1, <2>2, ScheduleSwitches
<1>g. /\ current' = n /\ rsp0' = n /\ cr3' = process[n]
      /\ state' = [state EXCEPT ![current] = "TERMINATED", ![n] = "RUNNING"]
      /\ UNCHANGED faulted
  BY <1>c, <1>f DEF SwitchTo, IInv, TypeOK
<1>h. /\ state' \in [AnyThread -> ThreadStates]
      /\ state'[current] = "TERMINATED" /\ state'[n] = "RUNNING"
      /\ \A t \in AnyThread : t # current /\ t # n => state'[t] = state[t]
      /\ pc' \in [AnyThread -> Steps]
      /\ pc'[current] = "dead"
      /\ \A t \in AnyThread : t # current => pc'[t] = pc[t]
  BY <1>b, <1>c, <1>f, <1>g DEF IInv, TypeOK
<1>1. TypeOK'
  <2>1. zombies' \subseteq Thread /\ live' \in Int
    BY <1>b, <1>c DEF IInv, TypeOK
  <2>2. cr3' \in AnyProcess /\ rsp0' \in AnyThread /\ current' \in AnyThread
    BY <1>f, <1>g DEF IInv, TypeOK, ThreadInv
  <2>3. /\ kind' \in [AnyThread -> {"kernel", "user"}]
        /\ interruptible' \in [AnyThread -> BOOLEAN]
    BY <1>b DEF IInv, TypeOK
  <2>4. QED
    BY <1>b, <1>e, <1>g, <1>h, <2>1, <2>2, <2>3 DEF IInv, TypeOK
<1>2. RunQueueExact'
  <2>1. ToSet(q) = {t \in AnyThread : state'[t] \in QueuedStates}
    <3>1. ToSet(queue) = {t \in AnyThread : state[t] \in QueuedStates}
      BY DEF IInv, RunQueueExact
    <3>2. QED
      BY <1>c, <1>e, <1>f, <1>h, <3>1
  <2>2. Len(queue) \in Nat /\ live' = Len(q) - 1
    BY <1>b, <1>c, <1>e, LenProperties DEF IInv, RunQueueExact
  <2>3. QED
    BY <1>e, <2>1, <2>2 DEF RunQueueExact
<1>3. OneRunning'
  BY <1>f, <1>g, <1>h DEF IInv, OneRunning
<1>4. BootRunnable'
  BY <1>b, <1>h DEF IInv, BootRunnable
<1>5. CpuInv'
  BY <1>b, <1>g DEF CpuInv
<1>6. ThreadInv'
  BY <1>b, <1>c, <1>f, <1>h DEF IInv, ThreadInv
<1>7. CreateInv'
  BY <1>b, <1>c, <1>f, <1>h DEF IInv, TypeOK, CreateInv
<1>8. ReapInv'
  <2>1. \A z \in zombies' : process'[z] # None
    BY <1>b, <1>c DEF IInv, ReapInv
  <2>2. \A t \in AnyThread : \A z \in reaping'[t] : process'[z] # None
    BY <1>b DEF IInv, ReapInv
  <2>3. \A t \in AnyThread : pc'[t] \in {"detach", "free"} =>
            /\ pc'[t] = pc[t]
            /\ subject'[t] \in Thread /\ state[subject'[t]] = "TERMINATED"
    BY <1>b, <1>h DEF IInv, ReapInv
  <2>4. \A t \in AnyThread : pc'[t] \in {"detach", "free"} =>
            state'[subject'[t]] = "TERMINATED"
    BY <1>f, <1>h, <2>3
  <2>5. QED
    BY <1>b, <2>1, <2>2, <2>3, <2>4 DEF IInv, ReapInv
<1>9. ReapedOnce'
  <2>1. \A t \in AnyThread : InHand(t)' = InHand(t)
    BY <1>b, <1>h DEF InHand
  <2>2. \A t \in AnyThread : current \notin InHand(t)
    BY <1>c DEF IInv, ReapInv, InHand
  <2>3. \A z \in Thread : state[z] = "TERMINATED" => state'[z] = "TERMINATED"
    BY <1>f, <1>h
  <2>4. /\ zombies \subseteq Thread
        /\ \A t \in AnyThread : reaping[t] \subseteq Thread
    BY DEF IInv, TypeOK
  <2>5. /\ \A z \in zombies' : state'[z] = "TERMINATED" /\ stack[z]
        /\ \A t \in AnyThread : \A z \in reaping[t] : state'[z] = "TERMINATED" /\ stack[z]
    BY <1>b, <1>c, <1>h, <2>3, <2>4 DEF IInv, ReapedOnce
  <2>6. \A t \in AnyThread : /\ InHand(t) \cap (zombies' \cup reaping[t]) = {}
                             /\ reaping[t] \cap zombies' = {}
    BY <1>b, <1>c, <2>2 DEF IInv, ReapedOnce
  <2>7. QED
    BY <1>b, <2>1, <2>5, <2>6 DEF IInv, ReapedOnce
<1>10. ReferencesCounted'
  <2>1. \A p \in AnyProcess : Users(p)' = Users(p) /\ Attachers(p)' = Attachers(p)
    BY <1>b, <1>c, <1>h DEF Users, Attachers, Creating
  <2>2. QED
    BY <1>b, <2>1 DEF IInv, ReferencesCounted
<1>11. ReferencedProcessAlive'
  BY <1>b, <1>h DEF IInv, ReferencedProcessAlive, Creating
<1>12. NeverFaulted'
  BY <1>g DEF IInv, NeverFaulted
<1>13. QED
  BY <1>1, <1>2, <1>3, <1>4, <1>5, <1>6, <1>7, <1>8, <1>9, <1>10, <1>11, <1>12 DEF IInv

-----------------------------------------------------------------------------
(* The invariant                                                           *)

\* kernel_thread_system_init establishes the invariant.
LEMMA InitIInv == Init => IInv
<1> SUFFICES ASSUME Init PROVE IInv
  OBVIOUS
<1> USE NamesAssumption, BoundsAssumption
<1> USE DEF Init, QueuedStates, ThreadStates, CreateSteps, ReapSteps, Steps, AnyThread,
            AnyProcess
<1>1. TypeOK
  <2>1. queue \in Seq(AnyThread) /\ current \in AnyThread /\ rsp0 \in AnyThread
    OBVIOUS
  <2>2. /\ state \in [AnyThread -> ThreadStates]
        /\ process \in [AnyThread -> AnyProcess \cup {None}]
        /\ kind \in [AnyThread -> {"kernel", "user"}]
        /\ stack \in [AnyThread -> BOOLEAN]
        /\ interruptible \in [AnyThread -> BOOLEAN]
    OBVIOUS
  <2>3. /\ registered \in [AnyProcess -> {"free", "alive", "terminated"}]
        /\ thread_count \in [AnyProcess -> Int]
    OBVIOUS
  <2>4. /\ pc \in [AnyThread -> Steps]
        /\ reaping \in [AnyThread -> SUBSET Thread]
        /\ subject \in [AnyThread -> Thread \cup {None}]
        /\ target \in [AnyThread -> AnyProcess \cup {None}]
    OBVIOUS
  <2>5. zombies \subseteq Thread /\ live \in Int /\ slice \in 0..(SliceTicks - 1)
    OBVIOUS
  <2>6. preemption \in BOOLEAN /\ faulted \in BOOLEAN
    BY Zenon
  <2>7. cr3 \in AnyProcess
    OBVIOUS
  <2>8. QED
    BY <2>1, <2>2, <2>3, <2>4, <2>5, <2>6, <2>7 DEF TypeOK
<1>2. RunQueueExact
  <2>1. /\ IsInjective(queue)
        /\ Len(queue) = 1 /\ queue # <<>> /\ queue[1] = boot_thread
    BY DEF IsInjective
  <2>2. ToSet(queue) = {boot_thread}
    BY DEF ToSet
  <2>3. {t \in AnyThread : state[t] \in QueuedStates} = {boot_thread}
    OBVIOUS
  <2>4. QED
    BY <2>1, <2>2, <2>3 DEF RunQueueExact
<1>3. OneRunning /\ BootRunnable /\ CpuInv /\ NeverFaulted
  BY DEF OneRunning, BootRunnable, CpuInv, NeverFaulted
<1>4. ThreadInv /\ CreateInv /\ ReapInv
  BY DEF ThreadInv, CreateInv, ReapInv
<1>5. ReapedOnce
  BY DEF ReapedOnce, InHand
<1>6. ReferencesCounted
  <2> SUFFICES ASSUME NEW p \in AnyProcess, registered[p] = "alive"
               PROVE  thread_count[p] = Cardinality(Users(p)) + Cardinality(Attachers(p))
    BY DEF ReferencesCounted
  <2>1. p = Kernel /\ thread_count[p] = 1
    OBVIOUS
  <2>2. Users(p) = {boot_thread}
    BY <2>1 DEF Users
  <2>3. Attachers(p) = {}
    BY DEF Attachers, Creating
  <2>4. Cardinality(Users(p)) = 1 /\ Cardinality(Attachers(p)) = 0
    BY <2>2, <2>3, FS_Singleton, FS_EmptySet
  <2>5. QED
    BY <2>1, <2>4
<1>7. ReferencedProcessAlive
  BY DEF ReferencedProcessAlive, Creating
<1>8. QED
  BY <1>1, <1>2, <1>3, <1>4, <1>5, <1>6, <1>7 DEF IInv

\* Every step of the scheduler, and every stutter, preserves the invariant.
LEMMA NextIInv == ASSUME IInv, [Next]_vars PROVE IInv'
<1>1. CASE TimerInterrupt \/ EnablePreemption
  BY <1>1, TimerInterruptStep, EnablePreemptionStep
<1>2. CASE Call(current)
  BY <1>2, YieldStep, PreemptionPointStep, BlockStep, WakeStep, ExitStep,
     AttachProcessStep, CreateProcessStep, DestroyProcessStep DEF Call
<1>3. CASE Continue(current)
  BY <1>3, DetachZombiesStep, ReleaseStackStep, DetachProcessStep, FreeThreadStep,
     AllocateThreadStep, AllocateStackStep, RejectContextStep, PublishStep,
     DropThreadStep, CancelCreateStep, FreeProcessStep DEF Continue, Reap, Create
<1>4. CASE UNCHANGED vars
  <2>1. /\ UNCHANGED <<state, process, kind, stack, interruptible, live>>
        /\ UNCHANGED <<queue, current, cr3, rsp0, faulted, slice, preemption>>
        /\ UNCHANGED <<registered, thread_count, pc, reaping, subject, target, zombies>>
    BY <1>4 DEF vars, threadVars, cpuVars, timerVars, processVars, localVars
  <2>2. TypeOK'
    BY <2>1 DEF IInv, TypeOK
  <2>3. /\ RunQueueExact' /\ OneRunning' /\ BootRunnable' /\ CpuInv' /\ NeverFaulted'
    BY <2>1 DEF IInv, RunQueueExact, OneRunning, BootRunnable, CpuInv, NeverFaulted
  <2>4. ThreadInv' /\ CreateInv' /\ ReapInv'
    BY <2>1 DEF IInv, ThreadInv, CreateInv, ReapInv
  <2>5. ReapedOnce'
    BY <2>1 DEF IInv, ReapedOnce, InHand
  <2>6. ReferencesCounted' /\ ReferencedProcessAlive'
    BY <2>1 DEF IInv, ReferencesCounted, ReferencedProcessAlive, Users, Attachers, Creating
  <2>7. QED
    BY <2>2, <2>3, <2>4, <2>5, <2>6 DEF IInv
<1>5. QED
  BY <1>1, <1>2, <1>3, <1>4 DEF Next

\* The inductive invariant holds in every reachable state.
THEOREM Invariance == Spec => []IInv
<1>1. QED
  BY InitIInv, NextIInv, PTL DEF Spec

\* Every variable of the scheduler keeps its type.
THEOREM TypeCorrect == Spec => []TypeOK
<1>1. IInv => TypeOK
  BY DEF IInv
<1>2. QED
  BY <1>1, Invariance, PTL

\* The run queue holds the boot thread first and every live thread exactly
\* once, and live_thread_count counts it, for any number of threads.
THEOREM QueueCorrect == Spec => []RunQueueExact
<1>1. IInv => RunQueueExact
  BY DEF IInv
<1>2. QED
  BY <1>1, Invariance, PTL

\* Exactly the thread on the CPU is RUNNING.
THEOREM SingleRunner == Spec => []OneRunning
<1>1. IInv => OneRunning
  BY DEF IInv
<1>2. QED
  BY <1>1, Invariance, PTL

\* The CPU always runs on a live stack of the current thread, in the registered
\* address space of that thread's process.
THEOREM CpuCorrect == Spec => []CpuMatchesThread
<1>1. IInv => CpuMatchesThread
  BY DEF IInv, TypeOK, CpuInv, ThreadInv, OneRunning, ReferencedProcessAlive,
     CpuMatchesThread, QueuedStates
<1>2. QED
  BY <1>1, Invariance, PTL

\* No thread is released by two reapers or twice by one, even when reapers are
\* preempted between any two of their steps or a release fails.
THEOREM SingleReaper == Spec => []ReapedOnce
<1>1. IInv => ReapedOnce
  BY DEF IInv
<1>2. QED
  BY <1>1, Invariance, PTL

\* thread_count is exact: the threads that name a process plus the creations
\* attached to it.
THEOREM CountsCorrect == Spec => []ReferencesCounted
<1>1. IInv => ReferencesCounted
  BY DEF IInv
<1>2. QED
  BY <1>1, Invariance, PTL

\* A process some thread or creation refers to is never unregistered.
THEOREM ReferencesAlive == Spec => []ReferencedProcessAlive
<1>1. IInv => ReferencedProcessAlive
  BY DEF IInv
<1>2. QED
  BY <1>1, Invariance, PTL

\* While no release fails, of a stack or under kfree, scheduler_faulted is never set.
THEOREM SchedulerNeverFaults == Spec => []NeverFaulted
<1>1. IInv => NeverFaulted
  BY DEF IInv
<1>2. QED
  BY <1>1, Invariance, PTL

\* kernel_process_destroy only takes a process no thread, zombie or creation
\* refers to out of the registry.
THEOREM DestructionSafe == Spec => DestroyedOnlyUnreferenced
<1> DEFINE A == \A p \in AnyProcess : registered[p] = "alive" /\ registered'[p] # "alive" =>
                  Users(p) \cup Attachers(p) = {}
<1>1. ASSUME IInv, [Next]_vars PROVE [A]_vars
  <2> SUFFICES ASSUME NEW p \in AnyProcess, registered[p] = "alive",
                      registered'[p] # "alive"
               PROVE  Users(p) \cup Attachers(p) = {}
    OBVIOUS
  <2>1. \/ \E d \in Process : DestroyProcess(current, d)
        \/ \E d \in Process : CreateProcess(current, d)
        \/ FreeProcess(current)
        \/ UNCHANGED registered
    BY <1>1 DEF Next, Call, Continue, Reap, Create, TimerInterrupt, EnablePreemption,
       Yield, PreemptionPoint, Block, Wake, Exit, AttachProcess, DetachZombies,
       ReleaseStack, DetachProcess, FreeThread, AllocateThread, AllocateStack, RejectContext,
       Publish,
       DropThread, CancelCreate, vars, processVars
  <2>2. registered \in [AnyProcess -> {"free", "alive", "terminated"}]
    BY <1>1 DEF IInv, TypeOK
  <2>3. CASE \E d \in Process : CreateProcess(current, d)
    BY <2>2, <2>3 DEF CreateProcess
  <2>4. CASE FreeProcess(current)
    BY <1>1, <2>2, <2>4 DEF FreeProcess, IInv, TypeOK, OneRunning, CreateInv
  <2>5. CASE \E d \in Process : DestroyProcess(current, d)
    <3>1. thread_count[p] = 0
      BY <2>2, <2>5 DEF DestroyProcess
    <3>2. Cardinality(Users(p)) = 0 /\ Cardinality(Attachers(p)) = 0
      BY <1>1, <3>1, ReferencesFinite DEF IInv, ReferencesCounted
    <3>3. QED
      BY <3>2, ReferencesFinite, FS_EmptySet
  <2>6. QED
    BY <2>1, <2>3, <2>4, <2>5
<1>2. QED
  BY <1>1, Invariance, PTL DEF Spec, DestroyedOnlyUnreferenced

-----------------------------------------------------------------------------
(* Faults and the threads they leak                                        *)

\* Neither schedule_locked nor a thread's own change of state touches another
\* terminated thread, and the scheduler faults there only without a thread to run.
LEMMA TerminatedKept ==
    ASSUME IInv, NEW q \in Seq(AnyThread), ToSet(q) \subseteq ToSet(queue),
           NEW st \in [AnyThread -> ThreadStates],
           \A x \in AnyThread : x # current => st[x] = state[x],
           st[current] # "READY",
           Schedule(q, st, current),
           NEW z \in Thread, state[z] = "TERMINATED"
    PROVE  state'[z] = "TERMINATED"
<1>1. z \in AnyThread /\ z # current /\ st[z] = "TERMINATED"
  BY DEF IInv, OneRunning, AnyThread
<1>2. CASE StayOn(st, st[current] # "RUNNING")
  BY <1>1, <1>2 DEF StayOn
<1>3. CASE \E n \in AnyThread :
             n # current /\ state[n] = "READY" /\ SwitchTo(n, st, current)
  BY <1>1, <1>3 DEF SwitchTo
<1>4. QED
  BY <1>2, <1>3, ScheduleSwitches

\* What a thread that leaves the CPU by blocking or exiting amounts to: there is
\* another one to run, so nothing faults.
LEMMA LeaveWithoutFault ==
    ASSUME IInv, Block(current) \/ Exit(current)
    PROVE  /\ UNCHANGED faulted
           /\ \A z \in Thread : state[z] = "TERMINATED" => state'[z] = "TERMINATED"
<1>1. CASE Block(current)
  <2> DEFINE st == [state EXCEPT ![current] = "BLOCKED"]
  <2>1. /\ current \in AnyThread /\ current # boot_thread /\ state[current] = "RUNNING"
        /\ queue \in Seq(AnyThread)
        /\ st \in [AnyThread -> ThreadStates]
        /\ st[current] = "BLOCKED"
        /\ \A x \in AnyThread : x # current => st[x] = state[x]
    BY <1>1 DEF IInv, TypeOK, OneRunning, Block, ThreadStates, QueuedStates
  <2>2. ~ \A x \in ToSet(queue) : st[x] # "READY"
    <3>1. PICK i \in DOMAIN ScanOrder(queue, current) :
              state[ScanOrder(queue, current)[i]] = "READY"
      BY <1>1 DEF Block, NoneReady
    <3>2. ScanOrder(queue, current)[i] \in ToSet(queue)
      BY <2>1, ScanVisitsQueue
    <3>3. ToSet(queue) \subseteq AnyThread
      BY DEF IInv, RunQueueExact
    <3>4. QED
      BY <2>1, <3>1, <3>2, <3>3
  <2>3. Schedule(queue, st, current)
    BY <1>1 DEF Block
  <2>4. \E n \in AnyThread : n # current /\ state[n] = "READY" /\ SwitchTo(n, st, current)
    BY <2>1, <2>2, <2>3, ScheduleSwitches
  <2>5. UNCHANGED faulted
    BY <2>4 DEF SwitchTo
  <2>6. \A z \in Thread : state[z] = "TERMINATED" => state'[z] = "TERMINATED"
    BY <2>1, <2>3, TerminatedKept
  <2>7. QED
    BY <2>5, <2>6
<1>2. CASE Exit(current)
  <2> DEFINE st == [state EXCEPT ![current] = "TERMINATED"]
  <2>1. PICK i \in DOMAIN queue :
          /\ queue[i] = current
          /\ queue' = RemoveAt(queue, i)
          /\ Schedule(RemoveAt(queue, i), st, current)
    BY <1>2 DEF Exit
  <2>2. /\ current \in AnyThread /\ current # boot_thread /\ state[current] = "RUNNING"
        /\ queue \in Seq(AnyThread) /\ IsInjective(queue)
        /\ queue[1] = boot_thread /\ i # 1
        /\ st \in [AnyThread -> ThreadStates]
        /\ st[current] = "TERMINATED"
        /\ \A x \in AnyThread : x # current => st[x] = state[x]
    BY <1>2, <2>1 DEF IInv, TypeOK, OneRunning, RunQueueExact, Exit, ThreadStates, QueuedStates
  <2>3. PICK q : q = RemoveAt(queue, i)
    OBVIOUS
  <2>4. /\ q \in Seq(AnyThread)
        /\ ToSet(q) = ToSet(queue) \ {current}
    BY <2>1, <2>2, <2>3, RemoveFromRing
  <2>5. boot_thread \in ToSet(q) /\ st[boot_thread] = "READY"
    <3>1. boot_thread \in ToSet(queue)
      BY DEF IInv, RunQueueExact, BootRunnable, QueuedStates, AnyThread
    <3>2. boot_thread \in AnyThread /\ state[boot_thread] = "READY"
      BY <2>2 DEF IInv, BootRunnable, OneRunning, AnyThread
    <3>3. QED
      BY <2>2, <2>4, <3>1, <3>2
  <2>6. Schedule(q, st, current) /\ ToSet(q) \subseteq ToSet(queue)
    BY <2>1, <2>3, <2>4
  <2>7. \E n \in AnyThread : n # current /\ state[n] = "READY" /\ SwitchTo(n, st, current)
    BY <2>2, <2>4, <2>5, <2>6, ScheduleSwitches
  <2>8. UNCHANGED faulted
    BY <2>7 DEF SwitchTo
  <2>9. \A z \in Thread : state[z] = "TERMINATED" => state'[z] = "TERMINATED"
    BY <2>2, <2>4, <2>6, TerminatedKept
  <2>10. QED
    BY <2>8, <2>9
<1>3. QED
  BY <1>1, <1>2

\* The scheduler faults where the reaper cannot release a stack or free a struct, and
\* nowhere else.
LEMMA FaultOnRelease ==
    ASSUME IInv, Next
    PROVE  faulted' = faulted \/ ReleaseStack(current) \/ FreeThread(current)
<1> USE DEF cpuVars
<1>1. CASE TimerInterrupt \/ EnablePreemption
  BY <1>1, RescheduleResult DEF TimerInterrupt, EnablePreemption
<1>2. CASE Yield(current)
  BY <1>2, RescheduleResult DEF Yield
<1>3. CASE Block(current) \/ Exit(current)
  BY <1>3, LeaveWithoutFault
<1>4. CASE DetachProcess(current)
  <2>1. PICK z \in Thread, q \in AnyProcess : z = subject[current] /\ q = process[z]
    BY <1>4 DEF IInv, TypeOK, ReapInv, DetachProcess, AnyThread
  <2>2. z \in AnyThread /\ registered[q] = "alive" /\ q # None
    BY <1>4, <2>1, NamesAssumption DEF IInv, ReapInv, ReferencedProcessAlive, DetachProcess, AnyThread, AnyProcess
  <2>3. /\ Cardinality(Users(q)) \in Nat \ {0}
        /\ Cardinality(Attachers(q)) \in Nat
    BY <2>1, <2>2, UserPositive, ReferencesFinite
  <2>4. thread_count[q] = Cardinality(Users(q)) + Cardinality(Attachers(q))
    BY <2>2 DEF IInv, ReferencesCounted
  <2>5. CanDetach(process[subject[current]])
    BY <2>1, <2>2, <2>3, <2>4 DEF CanDetach
  <2>6. QED
    BY <1>4, <2>5 DEF DetachProcess
<1>5. CASE /\ Continue(current)
            /\ ~ DetachProcess(current) /\ ~ ReleaseStack(current) /\ ~ FreeThread(current)
  BY <1>5 DEF Continue, Reap, Create, DetachZombies, AllocateThread, AllocateStack,
     RejectContext, Publish, DropThread, CancelCreate, FreeProcess
<1>6. CASE Call(current) /\ ~ Yield(current) /\ ~ Block(current) /\ ~ Exit(current)
  BY <1>6 DEF Call, PreemptionPoint, Wake, AttachProcess, CreateProcess, DestroyProcess
<1>7. QED
  BY <1>1, <1>2, <1>3, <1>4, <1>5, <1>6 DEF Next

\* A thread no list and no reaper names stays terminated.
LEMMA LeakedForGood ==
    ASSUME IInv, Next, NEW z \in Thread, Leaked(z)
    PROVE  Leaked(z)'
<1>1. /\ z \in AnyThread /\ z # current /\ current \in AnyThread
      /\ state[z] = "TERMINATED" /\ faulted
      /\ z \notin zombies
      /\ \A u \in AnyThread : z \notin reaping[u] \cup InHand(u)
  BY DEF IInv, TypeOK, OneRunning, Leaked, AnyThread
<1>2. faulted'
  BY <1>1, FaultOnRelease DEF ReleaseStack, FreeThread
<1>3. state'[z] = "TERMINATED"
  <2>1. CASE TimerInterrupt \/ Yield(current)
    BY <1>1, <2>1, RescheduleResult DEF TimerInterrupt, Yield, IInv, TypeOK
  <2>2. CASE Block(current) \/ Exit(current)
    BY <1>1, <2>2, LeaveWithoutFault
  <2>3. CASE FreeThread(current)
    BY <1>1, <2>3 DEF FreeThread, InHand, IInv, TypeOK
  <2>a. state \in [AnyThread -> ThreadStates]
    BY DEF IInv, TypeOK
  <2>4. CASE AllocateThread(current) \/ \E u \in Thread : Wake(current, u)
    BY <1>1, <2>4, <2>a DEF AllocateThread, Wake
  <2>b. ASSUME NEW s, pc[current] \in {"publish", "drop"},
               state' = [state EXCEPT ![subject[current]] = s]
        PROVE  state'[z] = "TERMINATED"
    BY <1>1, <2>a, <2>b DEF IInv, CreateInv
  <2>c. CASE DropThread(current) \/ \E k \in {"kernel", "user"} : Publish(current, k)
    <3>1. /\ pc[current] \in {"publish", "drop"}
          /\ \/ state' = [state EXCEPT ![subject[current]] = "FREE"]
             \/ state' = [state EXCEPT ![subject[current]] = "READY"]
             \/ state' = state
      BY <2>c DEF DropThread, Publish
    <3>2. QED
      BY <1>1, <2>b, <3>1
  <2>5. CASE UNCHANGED state
    BY <1>1, <2>5
  <2>6. QED
    BY <2>1, <2>2, <2>3, <2>4, <2>5, <2>c DEF Next, Call, Continue, Reap, Create, EnablePreemption,
       PreemptionPoint, AttachProcess, CreateProcess, DestroyProcess, DetachZombies, ReleaseStack,
       DetachProcess, AllocateStack, RejectContext, CancelCreate, FreeProcess, threadVars
<1>4. /\ z \notin zombies'
      /\ \A u \in AnyThread : z \notin reaping'[u]
  <2>1. CASE DetachZombies(current)
    BY <1>1, <2>1 DEF DetachZombies, IInv, TypeOK
  <2>2. CASE Exit(current)
    BY <1>1, <2>2 DEF Exit
  <2>3. CASE ReleaseStack(current)
    BY <1>1, <2>3 DEF ReleaseStack, IInv, TypeOK
  <2>4. CASE UNCHANGED <<zombies, reaping>>
    BY <1>1, <2>4
  <2>5. QED
    BY <2>1, <2>2, <2>3, <2>4 DEF Next, Call, Continue, Reap, Create, EnablePreemption,
       TimerInterrupt, Yield, Block, Wake, PreemptionPoint, AttachProcess, CreateProcess,
       DestroyProcess, DetachProcess, FreeThread, AllocateThread, AllocateStack, RejectContext,
       Publish, DropThread, CancelCreate, FreeProcess, localVars
<1>5. \A u \in AnyThread : z \notin InHand(u)'
  <2> SUFFICES ASSUME NEW u \in AnyThread, pc'[u] \in {"detach", "free"}, subject'[u] = z
               PROVE  FALSE
    BY DEF InHand
  <2>1. pc \in [AnyThread -> Steps] /\ subject \in [AnyThread -> Thread \cup {None}]
    BY DEF IInv, TypeOK
  <2>2. CASE ReleaseStack(current)
    BY <1>1, <2>1, <2>2 DEF ReleaseStack, ReapNext, InHand
  <2>3. CASE DetachProcess(current)
    BY <1>1, <2>1, <2>3 DEF DetachProcess, ReapNext, InHand
  <2>4. CASE Exit(current) \/ Yield(current) \/ PreemptionPoint(current) \/ Block(current)
    BY <1>1, <2>1, <2>4 DEF Exit, Yield, PreemptionPoint, Block, InHand
  <2>5. CASE DetachZombies(current) \/ FreeThread(current)
    BY <1>1, <2>1, <2>5 DEF DetachZombies, FreeThread, ReapNext, InHand
  <2>6. CASE \/ AllocateThread(current) \/ AllocateStack(current) \/ RejectContext(current)
             \/ DropThread(current) \/ CancelCreate(current)
    BY <1>1, <2>1, <2>6 DEF AllocateThread, AllocateStack, RejectContext, DropThread,
       CancelCreate, InHand
  <2>7. CASE \E k \in {"kernel", "user"} : Publish(current, k)
    BY <1>1, <2>1, <2>7 DEF Publish, InHand, IInv, CreateInv
  <2>8. CASE FreeProcess(current)
              \/ (\E p \in AnyProcess : AttachProcess(current, p))
              \/ (\E p \in Process : DestroyProcess(current, p))
    BY <1>1, <2>1, <2>8 DEF FreeProcess, AttachProcess, DestroyProcess, InHand
  <2>9. CASE UNCHANGED <<pc, subject>>
    BY <1>1, <2>9 DEF InHand
  <2>10. QED
    BY <2>2, <2>3, <2>4, <2>5, <2>6, <2>7, <2>8, <2>9 DEF Next, Call, Continue, Reap, Create,
       EnablePreemption, TimerInterrupt, Wake, CreateProcess, localVars
<1>6. QED
  BY <1>2, <1>3, <1>4, <1>5 DEF Leaked

\* The thread whose stack cannot be released, or whose struct cannot be freed, is on
\* no list afterwards.
LEMMA FaultLeaks ==
    ASSUME IInv, ReleaseStack(current) \/ FreeThread(current), faulted' # faulted
    PROVE  \E z \in Thread : Leaked(z)'
<1>1. /\ current \in AnyThread
      /\ reaping \in [AnyThread -> SUBSET Thread]
      /\ pc \in [AnyThread -> Steps]
      /\ subject \in [AnyThread -> Thread \cup {None}]
  BY DEF IInv, TypeOK
<1>2. CASE ReleaseStack(current)
  <2>1. PICK z \in reaping[current] :
           /\ reaping' = [reaping EXCEPT ![current] = @ \ {z}]
           /\ faulted' = TRUE
           /\ pc' = [pc EXCEPT ![current] = ReapNext(reaping[current] \ {z})]
           /\ UNCHANGED subject
    BY <1>2 DEF ReleaseStack
  <2>2. pc[current] = "release" /\ UNCHANGED <<state, zombies>>
    BY <1>2 DEF ReleaseStack
  <2>3. z \in Thread /\ z \in AnyThread
    BY <1>1, <2>1 DEF AnyThread
  <2>4. state[z] = "TERMINATED" /\ z \notin zombies
    BY <1>1, <2>1 DEF IInv, ReapedOnce
  <2>5. \A u \in AnyThread : u # current => z \notin reaping[u] \cup InHand(u)
    BY <1>1, <2>1 DEF IInv, ReapedOnce
  <2>6. \A u \in AnyThread : z \notin reaping'[u]
    BY <1>1, <2>1, <2>5
  <2>7. \A u \in AnyThread : z \notin InHand(u)'
    BY <1>1, <2>1, <2>5 DEF InHand, ReapNext
  <2>8. Leaked(z)'
    BY <2>1, <2>2, <2>4, <2>6, <2>7 DEF Leaked
  <2>9. QED
    BY <2>3, <2>8
<1>3. CASE FreeThread(current)
  <2>1. PICK z : z = subject[current]
    OBVIOUS
  <2>2. /\ pc[current] = "free"
        /\ faulted' = TRUE
        /\ subject' = [subject EXCEPT ![current] = None]
        /\ pc' = [pc EXCEPT ![current] = ReapNext(reaping[current])]
        /\ UNCHANGED <<state, zombies, reaping>>
    BY <1>3 DEF FreeThread
  <2>3. z \in Thread /\ z \in AnyThread /\ state[z] = "TERMINATED" /\ z \in InHand(current)
    BY <1>1, <2>1, <2>2 DEF IInv, ReapInv, InHand, AnyThread
  <2>4. z \notin zombies /\ z \notin reaping[current]
    BY <1>1, <2>3 DEF IInv, ReapedOnce
  <2>5. \A u \in AnyThread : u # current => z \notin reaping[u] \cup InHand(u)
    BY <1>1, <2>3 DEF IInv, ReapedOnce
  <2>6. \A u \in AnyThread : z \notin InHand(u)'
    BY <1>1, <2>2, <2>5 DEF InHand, ReapNext
  <2>7. Leaked(z)'
    BY <2>2, <2>3, <2>4, <2>5, <2>6 DEF Leaked
  <2>8. QED
    BY <2>3, <2>7
<1>4. QED
  BY <1>2, <1>3

\* A fault always comes with a leaked thread: the reaper faults when a stack release or
\* a kfree fails and nowhere else, and what it leaks nobody frees afterwards.
THEOREM FaultsLeak == Spec => []FaultsOnlyOnLeak
<1>1. Init => FaultsOnlyOnLeak
  BY DEF Init, FaultsOnlyOnLeak
<1>2. ASSUME IInv, FaultsOnlyOnLeak, [Next]_vars PROVE FaultsOnlyOnLeak'
  <2>1. CASE UNCHANGED vars
    BY <1>2, <2>1 DEF vars, threadVars, cpuVars, localVars, FaultsOnlyOnLeak, Leaked, InHand
  <2>2. CASE Next /\ faulted
    BY <1>2, <2>2, LeakedForGood DEF FaultsOnlyOnLeak
  <2>3. CASE Next /\ ~ faulted
    BY <1>2, <2>3, FaultOnRelease, FaultLeaks DEF FaultsOnlyOnLeak
  <2>4. QED
    BY <1>2, <2>1, <2>2, <2>3
<1>3. QED
  BY <1>1, <1>2, Invariance, PTL DEF Spec

-----------------------------------------------------------------------------
(* Round robin                                                             *)

\* The ring is searched from i to j before it is searched at k; k may be i itself,
\* where the search ends.
Ahead(i, j, k) == (i < j /\ j < k) \/ (j < k /\ k <= i) \/ (k <= i /\ i < j)

\* A thread dispatched while t waits stands behind t, seen from the current thread.
RoundInv ==
    /\ passed \in [AnyThread -> SUBSET AnyThread]
    /\ \A t \in AnyThread : state[t] # "READY" => passed[t] = {}
    /\ \A t \in AnyThread : passed[t] \subseteq ToSet(queue)
    /\ \A t \in AnyThread : \A u \in passed[t] : \A i, j, k \in DOMAIN queue :
         queue[i] = current /\ queue[j] = t /\ queue[k] = u => Ahead(i, j, k)

\* The first READY thread of the scan is ahead of every other READY thread.
LEMMA ScanNearest ==
    ASSUME NEW q \in Seq(AnyThread), IsInjective(q), NEW i \in DOMAIN q, NEW st,
           NEW x \in DOMAIN ScanOrder(q, q[i]), FirstReady(ScanOrder(q, q[i]), st, x)
    PROVE  \E m \in DOMAIN q :
             /\ q[m] = ScanOrder(q, q[i])[x]
             /\ st[q[m]] = "READY"
             /\ \A j \in DOMAIN q : j # m /\ st[q[j]] = "READY" => Ahead(i, m, j)
<1>1. PICK n \in Nat : n = Len(q) /\ DOMAIN q = 1..n /\ i \in 1..n
  BY LenProperties
<1>2. PICK s : s = ScanOrder(q, q[i])
  OBVIOUS
<1>3. s = From(q, i)
  <2>1. i = CHOOSE h \in DOMAIN q : q[h] = q[i]
    BY DEF IsInjective
  <2>2. QED
    BY <1>2, <2>1 DEF ScanOrder, From
<1>4. /\ s \in Seq(AnyThread)
      /\ Len(s) = n
      /\ \A h \in 1..(n - i) : s[h] = q[i + h]
      /\ \A h \in (n - i + 1)..n : s[h] = q[h - (n - i)]
  <2>1. i \in 1..Len(q)
    BY <1>1
  <2>2. /\ From(q, i) \in Seq(AnyThread)
        /\ Len(From(q, i)) = Len(q)
        /\ \A h \in 1..(Len(q) - i) : From(q, i)[h] = q[i + h]
        /\ \A h \in (Len(q) - i + 1)..Len(q) : From(q, i)[h] = q[h - (Len(q) - i)]
    BY <2>1, ScanElements
  <2>3. QED
    BY <1>1, <1>3, <2>2
<1>5. /\ x \in 1..n
      /\ st[s[x]] = "READY"
      /\ \A h \in 1..(x - 1) : st[s[h]] # "READY"
  BY <1>1, <1>2, <1>4 DEF FirstReady
<1>6. PICK m \in 1..n : \/ x \in 1..(n - i) /\ m = i + x
                        \/ x \in (n - i + 1)..n /\ m = x - (n - i)
  <2>1. CASE x <= n - i
    <3>1. x \in 1..(n - i) /\ i + x \in 1..n
      BY <1>1, <1>5, <2>1
    <3>2. QED
      BY <3>1
  <2>2. CASE x > n - i
    <3>1. x \in (n - i + 1)..n /\ x - (n - i) \in 1..n
      BY <1>1, <1>5, <2>2
    <3>2. QED
      BY <3>1
  <2>3. QED
    BY <1>1, <1>5, <2>1, <2>2
<1>7. q[m] = s[x]
  BY <1>4, <1>6
<1>8. ASSUME NEW j \in 1..n, j # m, st[q[j]] = "READY"
      PROVE  Ahead(i, m, j)
  <2>1. PICK y \in 1..n : \/ y \in 1..(n - i) /\ j = i + y
                          \/ y \in (n - i + 1)..n /\ j = y - (n - i)
    <3>1. CASE j > i
      <4>1. j - i \in 1..n /\ j - i \in 1..(n - i) /\ j = i + (j - i)
        BY <1>1, <1>8, <3>1
      <4>2. QED
        BY <4>1
    <3>2. CASE j <= i
      <4>1. /\ j + (n - i) \in 1..n
            /\ j + (n - i) \in (n - i + 1)..n
            /\ j = (j + (n - i)) - (n - i)
        BY <1>1, <1>8, <3>2
      <4>2. QED
        BY <4>1
    <3>3. QED
      BY <1>1, <1>8, <3>1, <3>2
  <2>2. s[y] = q[j]
    BY <1>4, <2>1
  <2>3. ~ (y < x)
    BY <1>5, <1>8, <2>2
  <2>4. y > x
    BY <1>1, <1>5, <1>6, <1>8, <2>1, <2>3
  <2>5. QED
    BY <1>1, <1>5, <1>6, <1>8, <2>1, <2>4 DEF Ahead
<1>9. QED
  BY <1>1, <1>2, <1>5, <1>7, <1>8

\* The order round the ring is strict and seen alike from a node in between.
LEMMA AheadOrder ==
    ASSUME NEW i \in Int, NEW m \in Int, NEW j \in Int, NEW k \in Int, m # j
    PROVE  /\ Ahead(i, m, j) => ~ Ahead(i, j, m)
           /\ Ahead(i, m, j) /\ Ahead(i, j, k) => Ahead(m, j, k)
           /\ Ahead(m, j, m)
BY DEF Ahead

\* What a timer interrupt, a yield or a block dispatches is the nearest READY thread.
LEMMA DispatchNearest ==
    ASSUME IInv, NEW st,
           \A x \in AnyThread : x # current => st[x] = state[x],
           Schedule(queue, st, current), current' # current
    PROVE  \E m \in DOMAIN queue :
             /\ current' = queue[m]
             /\ \A i, j \in DOMAIN queue :
                  queue[i] = current /\ j # m /\ state[queue[j]] = "READY" => Ahead(i, m, j)
<1>1. /\ queue \in Seq(AnyThread) /\ IsInjective(queue)
      /\ state[current] = "RUNNING"
      /\ \E i \in DOMAIN queue : queue[i] = current
  BY DEF IInv, TypeOK, RunQueueExact, OneRunning, ToSet, QueuedStates
<1>2. PICK i \in DOMAIN queue : queue[i] = current
  BY <1>1
<1>3. PICK x \in DOMAIN ScanOrder(queue, queue[i]) :
        /\ FirstReady(ScanOrder(queue, queue[i]), st, x)
        /\ current' = ScanOrder(queue, queue[i])[x]
  BY <1>2 DEF Schedule, StayOn, SwitchTo
<1>4. PICK m \in DOMAIN queue :
        /\ queue[m] = current'
        /\ \A j \in DOMAIN queue : j # m /\ st[queue[j]] = "READY" => Ahead(i, m, j)
  BY <1>1, <1>3, ScanNearest
<1>5. ASSUME NEW h \in DOMAIN queue, NEW j \in DOMAIN queue,
             queue[h] = current, j # m, state[queue[j]] = "READY"
      PROVE  Ahead(h, m, j)
  <2>1. h = i
    BY <1>1, <1>2, <1>5 DEF IsInjective
  <2>2. queue[j] \in AnyThread /\ queue[j] # current
    BY <1>1, <1>5
  <2>3. st[queue[j]] = "READY"
    BY <1>5, <2>2
  <2>4. QED
    BY <1>4, <1>5, <2>1, <2>3
<1>6. QED
  BY <1>4, <1>5

\* What a step does to the ring: nothing, link a thread that was not in it, move on
\* to the nearest READY thread, or unlink the thread that exits.
LEMMA RingStep ==
    ASSUME IInv, Next
    PROVE  \/ UNCHANGED <<queue, current>>
           \/ /\ current' = current
              /\ \E u \in AnyThread : u \notin ToSet(queue) /\ queue' = Append(queue, u)
           \/ /\ queue' = queue
              /\ \E m \in DOMAIN queue :
                   /\ current' = queue[m]
                   /\ \A i, j \in DOMAIN queue :
                        queue[i] = current /\ j # m /\ state[queue[j]] = "READY" => Ahead(i, m, j)
           \/ Exited
<1> USE DEF cpuVars
<1>1. CASE TimerInterrupt
  <2>1. queue' = queue /\ (current' = current \/ Schedule(queue, state, current))
    BY <1>1 DEF TimerInterrupt
  <2>2. QED
    BY <2>1, DispatchNearest
<1>2. CASE Yield(current)
  <2>1. queue' = queue /\ Schedule(queue, state, current)
    BY <1>2 DEF Yield
  <2>2. QED
    BY <2>1, DispatchNearest
<1>3. CASE Block(current)
  <2>1. PICK st : st = [state EXCEPT ![current] = "BLOCKED"]
    OBVIOUS
  <2>2. queue' = queue /\ Schedule(queue, st, current)
    BY <1>3, <2>1 DEF Block
  <2>3. \A x \in AnyThread : x # current => st[x] = state[x]
    BY <2>1 DEF IInv, TypeOK
  <2>4. QED
    BY <2>2, <2>3, DispatchNearest
<1>4. CASE Exit(current)
  <2>1. PICK i \in DOMAIN queue : queue[i] = current /\ queue' = RemoveAt(queue, i)
    BY <1>4 DEF Exit
  <2>2. queue \in Seq(AnyThread) /\ IsInjective(queue) /\ queue[1] = boot_thread /\ current # boot_thread
    BY <1>4 DEF IInv, TypeOK, RunQueueExact, Exit
  <2>3. Len(queue') = Len(queue) - 1 /\ Len(queue) \in Nat
    BY <2>1, <2>2, RemoveFromRing, LenProperties
  <2>4. QED
    BY <2>3 DEF Exited
<1>5. CASE \E k \in {"kernel", "user"} : Publish(current, k)
  <2>1. PICK u : u = subject[current]
    OBVIOUS
  <2>2. current' = current /\ queue' = Append(queue, u) /\ pc[current] = "publish"
    BY <1>5, <2>1 DEF Publish
  <2>3. u \in Thread /\ state[u] = "UNLINKED"
    BY <2>1, <2>2 DEF IInv, TypeOK, CreateInv
  <2>4. u \in AnyThread /\ u \notin ToSet(queue)
    BY <2>3 DEF IInv, RunQueueExact, QueuedStates, AnyThread
  <2>5. QED
    BY <2>2, <2>4
<1>6. CASE UNCHANGED <<queue, current>>
  BY <1>6
<1>7. QED
  BY <1>1, <1>2, <1>3, <1>4, <1>5, <1>6 DEF Next, Call, Continue, Reap, Create, EnablePreemption,
     Wake, PreemptionPoint, AttachProcess, CreateProcess, DestroyProcess, DetachZombies,
     ReleaseStack, DetachProcess, FreeThread, AllocateThread, AllocateStack, RejectContext,
     DropThread,
     CancelCreate, FreeProcess

\* A thread already dispatched while t waits is not the one dispatched next.
LEMMA NotAgain ==
    ASSUME IInv, RoundInv, Next, Dispatched, ~ Exited,
           NEW t \in AnyThread, state[t] = "READY", state'[t] = "READY", IInv'
    PROVE  current' \notin passed[t]
<1>1. PICK m \in DOMAIN queue :
        /\ current' = queue[m]
        /\ \A i, j \in DOMAIN queue :
             queue[i] = current /\ j # m /\ state[queue[j]] = "READY" => Ahead(i, m, j)
  BY RingStep DEF Dispatched
<1>2. PICK i \in DOMAIN queue, j \in DOMAIN queue : queue[i] = current /\ queue[j] = t
  BY DEF IInv, RunQueueExact, OneRunning, TypeOK, QueuedStates, ToSet
<1>3. j # m
  BY <1>1, <1>2 DEF IInv, OneRunning
<1>4. Ahead(i, m, j) /\ i \in Int /\ j \in Int /\ m \in Int
  BY <1>1, <1>2, <1>3 DEF IInv, TypeOK
<1>5. ~ Ahead(i, j, m)
  BY <1>3, <1>4, AheadOrder
<1>6. QED
  BY <1>1, <1>2, <1>5 DEF RoundInv

\* Every step keeps the threads that went first behind those that wait.
LEMMA RoundStep == ASSUME IInv, RoundInv, RRNext, IInv' PROVE RoundInv'
<1>1. /\ Next
      /\ queue \in Seq(AnyThread) /\ current \in AnyThread /\ IsInjective(queue)
      /\ queue' \in Seq(AnyThread) /\ current' \in AnyThread /\ IsInjective(queue')
      /\ current' \in ToSet(queue')
      /\ \A t \in AnyThread : state'[t] = "READY" => t # current'
      /\ passed \in [AnyThread -> SUBSET AnyThread]
  BY DEF IInv, TypeOK, OneRunning, RunQueueExact, QueuedStates, RoundInv, RRNext
<1>2. \A t \in AnyThread :
        /\ state[t] # "READY" \/ state'[t] # "READY" => passed'[t] = {}
        /\ passed'[t] \subseteq passed[t] \cup {current'}
        /\ ~ Dispatched => passed'[t] \subseteq passed[t]
        /\ Exited => passed'[t] \subseteq {current'}
  BY DEF RRNext
<1>3. passed' \in [AnyThread -> SUBSET AnyThread]
  BY <1>1, <1>2 DEF RRNext
<1>4. ASSUME NEW t \in AnyThread, NEW u \in passed'[t]
      PROVE  /\ u \in ToSet(queue')
             /\ \A i, j, k \in DOMAIN queue' :
                  queue'[i] = current' /\ queue'[j] = t /\ queue'[k] = u => Ahead(i, j, k)
  <2>1. state[t] = "READY" /\ state'[t] = "READY" /\ t # current'
    BY <1>1, <1>2, <1>4
  <2>2. CASE u = current'
    <3>1. ASSUME NEW i \in DOMAIN queue', NEW j \in DOMAIN queue', NEW k \in DOMAIN queue',
                 queue'[i] = current', queue'[j] = t, queue'[k] = u
          PROVE  Ahead(i, j, k)
      <4>1. k = i /\ j # i /\ i \in Int /\ j \in Int
        BY <1>1, <2>1, <2>2, <3>1 DEF IsInjective
      <4>2. QED
        BY <4>1, AheadOrder
    <3>2. QED
      BY <1>1, <2>2, <3>1
  <2>3. CASE u # current' /\ ~ Exited
    <3>1. u \in passed[t] /\ u \in ToSet(queue)
      BY <1>2, <1>4, <2>3 DEF RoundInv
    <3>2. \A i, j, k \in DOMAIN queue :
            queue[i] = current /\ queue[j] = t /\ queue[k] = u => Ahead(i, j, k)
      BY <3>1 DEF RoundInv
    <3>3. CASE UNCHANGED <<queue, current>>
      BY <3>1, <3>2, <3>3
    <3>4. CASE current' = current /\ \E w \in AnyThread : w \notin ToSet(queue) /\ queue' = Append(queue, w)
      <4>1. PICK w \in AnyThread : w \notin ToSet(queue) /\ queue' = Append(queue, w)
        BY <3>4
      <4>2. /\ current \in ToSet(queue) /\ t \in ToSet(queue) /\ u \in ToSet(queue)
        BY <2>1, <3>1 DEF IInv, RunQueueExact, OneRunning, TypeOK, QueuedStates
      <4>3. /\ \A h \in DOMAIN queue : queue'[h] = queue[h] /\ h \in DOMAIN queue'
            /\ queue'[Len(queue) + 1] = w
            /\ DOMAIN queue' = DOMAIN queue \cup {Len(queue) + 1}
        BY <1>1, <4>1
      <4>4. \A h \in DOMAIN queue' : queue'[h] \in ToSet(queue) => h \in DOMAIN queue
        BY <4>1, <4>3
      <4>5. u \in ToSet(queue')
        BY <4>2, <4>3 DEF ToSet
      <4>6. QED
        BY <3>2, <3>4, <4>2, <4>3, <4>4, <4>5
    <3>5. CASE /\ queue' = queue
               /\ current' # current
               /\ \E m \in DOMAIN queue :
                   /\ current' = queue[m]
                   /\ \A i, j \in DOMAIN queue :
                        queue[i] = current /\ j # m /\ state[queue[j]] = "READY" => Ahead(i, m, j)
      <4>1. PICK m \in DOMAIN queue :
                   /\ current' = queue[m]
                   /\ \A i, j \in DOMAIN queue :
                        queue[i] = current /\ j # m /\ state[queue[j]] = "READY" => Ahead(i, m, j)
        BY <3>5
      <4>2. PICK i \in DOMAIN queue : queue[i] = current
        BY DEF IInv, RunQueueExact, OneRunning, TypeOK, QueuedStates, ToSet
      <4>3. ASSUME NEW h \in DOMAIN queue, NEW j \in DOMAIN queue, NEW k \in DOMAIN queue,
                   queue[h] = current', queue[j] = t, queue[k] = u
            PROVE  Ahead(h, j, k)
        <5>1. h = m /\ j # m
          BY <1>1, <2>1, <4>1, <4>3 DEF IsInjective
        <5>2. Ahead(i, m, j) /\ Ahead(i, j, k)
          BY <2>1, <3>2, <4>1, <4>2, <4>3, <5>1
        <5>3. i \in Int /\ m \in Int /\ j \in Int /\ k \in Int
          BY <1>1
        <5>4. QED
          BY <5>1, <5>2, <5>3, AheadOrder
      <4>4. QED
        BY <3>1, <3>5, <4>3
    <3>6. QED
      BY <1>1, <2>3, <3>3, <3>4, <3>5, RingStep
  <2>4. QED
    BY <1>2, <1>4, <2>2, <2>3
<1>5. QED
  BY <1>2, <1>3, <1>4 DEF RoundInv

\* Between two exits nobody is dispatched twice while another thread waits READY,
\* for any number of threads.
THEOREM Overtaking == RRSpec => BoundedOvertaking
<1>1. RRInit => IInv /\ RoundInv
  <2>1. Init => IInv
    BY InitIInv
  <2>2. RRInit => RoundInv
    BY DEF RRInit, RoundInv
  <2>3. QED
    BY <2>1, <2>2 DEF RRInit
<1>2. ASSUME IInv, RoundInv, [RRNext]_<<vars, passed>>
      PROVE  IInv' /\ RoundInv'
  <2>1. CASE RRNext
    <3>1. IInv'
      BY <1>2, <2>1, NextIInv DEF RRNext
    <3>2. QED
      BY <1>2, <2>1, <3>1, RoundStep
  <2>2. CASE UNCHANGED <<vars, passed>>
    <3>1. IInv'
      BY <1>2, <2>2, NextIInv
    <3>2. QED
      BY <1>2, <2>2, <3>1 DEF RoundInv, vars, threadVars, cpuVars
  <2>3. QED
    BY <1>2, <2>1, <2>2
<1>3. ASSUME IInv, RoundInv, IInv', [RRNext]_<<vars, passed>>
      PROVE  [\A t \in AnyThread :
                Dispatched /\ ~ Exited /\ state'[t] = "READY" => current' \notin passed[t]]_<<vars, passed>>
  <2> SUFFICES ASSUME RRNext, NEW t \in AnyThread, Dispatched, ~ Exited, state'[t] = "READY"
               PROVE  current' \notin passed[t]
    BY <1>3
  <2>1. CASE state[t] = "READY"
    BY <1>3, <2>1, NotAgain DEF RRNext
  <2>2. CASE state[t] # "READY"
    BY <1>3, <2>2 DEF RoundInv
  <2>3. QED
    BY <2>1, <2>2
<1>4. QED
  BY <1>1, <1>2, <1>3, PTL DEF RRSpec, BoundedOvertaking

=============================================================================
