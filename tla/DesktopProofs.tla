---------------------------- MODULE DesktopProofs ----------------------------
(***************************************************************************)
(* What the desktop lives on: the protocol of TerminalSession.tla, the     *)
(* input devices of Ps2.tla and the channels of Channel.tla.               *)
(*                                                                         *)
(* First the protocol between desktop, terminal and VENU, for queues of    *)
(* any capacity, lines of any length and commands that print any amount.   *)
(*                                                                         *)
(* Then the bytes of mouse and keyboard and the two drivers, for a         *)
(* controller of any size, any movements and any keys.                     *)
(*                                                                         *)
(* Last the rings, which implement the FIFOs of ChannelSpec for every      *)
(* capacity, message size limit and set of messages.                       *)
(***************************************************************************)
EXTENDS TerminalSession, Ps2, Channel, SequenceTheorems, FiniteSetTheorems, TLAPS

-----------------------------------------------------------------------------
(* Sequences of messages.                                                   *)

\* The rest of a sequence.
LEMMA Rest ==
    ASSUME NEW S, NEW s \in Seq(S), s # <<>>
    PROVE  /\ Head(s) = s[1] /\ Head(s) \in S /\ Tail(s) \in Seq(S)
           /\ Len(s) \in Nat \ {0} /\ Len(Tail(s)) = Len(s) - 1
           /\ DOMAIN s = 1..Len(s) /\ DOMAIN Tail(s) = 1..(Len(s) - 1)
           /\ \A i \in 1..(Len(s) - 1) : Tail(s)[i] = s[i + 1]
<1>1. Len(s) \in Nat /\ Len(s) # 0 /\ DOMAIN s = 1..Len(s)
  BY EmptySeq, LenProperties
<1>2. Tail(s) \in Seq(S) /\ Len(Tail(s)) = Len(s) - 1 /\ \A i \in 1..Len(Tail(s)) : Tail(s)[i] = s[i + 1]
  BY HeadTailProperties
<1>3. Head(s) = s[1] /\ Head(s) \in S
  BY HeadTailProperties
<1>4. DOMAIN Tail(s) = 1..(Len(s) - 1)
  BY <1>2, LenProperties
<1>5. QED
  BY <1>1, <1>2, <1>3, <1>4

LEMMA AsFunction ==
    ASSUME NEW S, NEW s \in Seq(S)
    PROVE  s = [i \in 1..Len(s) |-> s[i]]
BY SeqDef

LEMMA Single ==
    ASSUME NEW S, NEW m \in S
    PROVE  <<m>> \in Seq(S)
OBVIOUS

\* A sequence with one more.
LEMMA More ==
    ASSUME NEW S, NEW s \in Seq(S), NEW m \in S
    PROVE  /\ Append(s, m) \in Seq(S) /\ Len(s) \in Nat /\ Len(Append(s, m)) = Len(s) + 1
           /\ DOMAIN s = 1..Len(s) /\ DOMAIN Append(s, m) = 1..(Len(s) + 1)
           /\ Append(s, m)[Len(s) + 1] = m
           /\ \A i \in 1..Len(s) : Append(s, m)[i] = s[i]
           /\ Append(s, m) # <<>>
BY AppendProperties, LenProperties, EmptySeq

\* Counting what is left of 1..n without 1.
LEMMA CountShift ==
    ASSUME NEW n \in Nat \ {0}, NEW I \in SUBSET (1..n), NEW J,
           \A i : i \in J <=> i \in 1..(n - 1) /\ i + 1 \in I
    PROVE  /\ 1 \in I => Cardinality(I) = Cardinality(J) + 1
           /\ 1 \notin I => Cardinality(I) = Cardinality(J)
           /\ Cardinality(I) \in Nat /\ Cardinality(J) \in Nat
<1>1. IsFiniteSet(I) /\ Cardinality(I) \in Nat
  <2>1. IsFiniteSet(1..n)
    BY FS_Interval
  <2>2. QED
    BY <2>1, FS_Subset, FS_CardinalityType
<1>2. IsFiniteSet(J) /\ Cardinality(J) \in Nat
  <2>1. 1 \in Int /\ n - 1 \in Int
    OBVIOUS
  <2>2. IsFiniteSet(1..(n - 1))
    BY <2>1, FS_Interval
  <2>3. J \subseteq 1..(n - 1)
    OBVIOUS
  <2>4. QED
    BY <2>2, <2>3, FS_Subset, FS_CardinalityType
<1>3. Cardinality(J) = Cardinality(I \ {1})
  <2> DEFINE f == [i \in J |-> i + 1]
             K == I \ {1}
  <2>1. f \in [J -> K]
    OBVIOUS
  <2>2. \A i, j \in J : f[i] = f[j] => i = j
    OBVIOUS
  <2>3. \A k \in K : \E i \in J : f[i] = k
    <3> TAKE k \in K
    <3>1. k - 1 \in J /\ f[k - 1] = k
      OBVIOUS
    <3>2. QED
      BY <3>1
  <2> HIDE DEF f, K
  <2>4. f \in Bijection(J, K)
    BY <2>1, <2>2, <2>3 DEF Bijection, Injection, Surjection, IsInjective
  <2>5. Cardinality(K) = Cardinality(J)
    BY <1>2, <2>4, FS_Bijection DEF ExistsBijection
  <2>6. QED
    BY <2>5 DEF K
<1>4. CASE 1 \in I
  <2>1. Cardinality(I \ {1}) = Cardinality(I) - 1
    BY <1>1, <1>4, FS_RemoveElement
  <2>2. QED
    BY <1>1, <1>2, <1>3, <1>4, <2>1
<1>5. CASE 1 \notin I
  <2>1. I \ {1} = I
    BY <1>5
  <2>2. QED
    BY <1>1, <1>2, <1>3, <1>5, <2>1
<1>6. QED
  BY <1>4, <1>5

LEMMA CountTail ==
    ASSUME NEW S, NEW s \in Seq(S), s # <<>>, NEW type
    PROVE  /\ Count(s, type) = Count(Tail(s), type) + (IF Head(s).type = type THEN 1 ELSE 0)
           /\ Count(s, type) \in Nat /\ Count(Tail(s), type) \in Nat
<1> DEFINE n == Len(s)
           I == {i \in DOMAIN s : s[i].type = type}
           J == {i \in DOMAIN Tail(s) : Tail(s)[i].type = type}
<1>1. n \in Nat \ {0} /\ I \in SUBSET (1..n) /\ \A i : i \in J <=> i \in 1..(n - 1) /\ i + 1 \in I
  BY Rest
<1>2. 1 \in I <=> Head(s).type = type
  BY Rest
<1> HIDE DEF n, I, J
<1>3. /\ 1 \in I => Cardinality(I) = Cardinality(J) + 1
      /\ 1 \notin I => Cardinality(I) = Cardinality(J)
      /\ Cardinality(I) \in Nat /\ Cardinality(J) \in Nat
  BY <1>1, CountShift, Zenon
<1>4. Cardinality(I) = Cardinality(J) + (IF Head(s).type = type THEN 1 ELSE 0)
  BY <1>2, <1>3
<1>5. QED
  BY <1>3, <1>4 DEF Count, I, J

LEMMA CountAppend ==
    ASSUME NEW S, NEW s \in Seq(S), NEW m \in S, NEW type
    PROVE  /\ Count(Append(s, m), type) = Count(s, type) + (IF m.type = type THEN 1 ELSE 0)
           /\ Count(s, type) \in Nat
<1> DEFINE n == Len(s)
           I == {i \in DOMAIN s : s[i].type = type}
           J == {i \in DOMAIN Append(s, m) : Append(s, m)[i].type = type}
<1>1. n \in Nat /\ I \in SUBSET (1..n) /\ J = I \cup (IF m.type = type THEN {n + 1} ELSE {})
  <2>1. n \in Nat /\ I \in SUBSET (1..n)
    BY More
  <2>2. \A i : i \in J <=> i \in I \/ (i = n + 1 /\ m.type = type)
    BY More
  <2>3. QED
    BY <2>1, <2>2
<1> HIDE DEF I, J
<1>2. IsFiniteSet(I) /\ Cardinality(I) \in Nat
  <2>1. IsFiniteSet(1..n)
    BY <1>1, FS_Interval
  <2>2. QED
    BY <1>1, <2>1, FS_Subset, FS_CardinalityType
<1>3. n + 1 \notin I
  BY <1>1
<1>4. Cardinality(I \cup {n + 1}) = Cardinality(I) + 1
  BY <1>2, <1>3, FS_AddElement
<1>5. Cardinality(J) = Cardinality(I) + (IF m.type = type THEN 1 ELSE 0)
  <2>1. CASE m.type = type
    BY <1>1, <1>4, <2>1
  <2>2. CASE m.type # type
    <3>1. J = I
      BY <1>1, <2>2
    <3>2. QED
      BY <1>2, <2>2, <3>1
  <2>3. QED
    BY <2>1, <2>2
<1>6. QED
  BY <1>2, <1>5 DEF Count, I, J

LEMMA CountZero ==
    ASSUME NEW S, NEW s \in Seq(S), NEW type
    PROVE  /\ Count(s, type) \in Nat
           /\ Count(s, type) = 0 <=> \A i \in DOMAIN s : s[i].type # type
<1> DEFINE I == {i \in DOMAIN s : s[i].type = type}
<1>1. IsFiniteSet(I)
  <2>1. Len(s) \in Nat /\ DOMAIN s = 1..Len(s)
    BY LenProperties
  <2>2. IsFiniteSet(1..Len(s))
    BY <2>1, FS_Interval
  <2>3. QED
    BY <2>1, <2>2, FS_Subset
<1>2. Cardinality(I) \in Nat /\ (Cardinality(I) = 0 <=> I = {})
  <2> HIDE DEF I
  <2>1. QED
    BY <1>1, FS_CardinalityType, FS_EmptySet
<1>3. QED
  BY <1>2 DEF Count

\* A whole command is answered with one COMPLETE.
LEMMA AnswerComplete ==
    ASSUME NEW results \in Seq(Plain({"OUTPUT", "CLEAR"}))
    PROVE  /\ Answer(results) \in Seq(FromVenu) /\ Len(Answer(results)) = Len(results) + 1
           /\ DOMAIN Answer(results) = 1..(Len(results) + 1) /\ Len(results) \in Nat
           /\ \A i \in 1..Len(results) : Answer(results)[i].type # "COMPLETE"
           /\ Answer(results)[Len(results) + 1].type = "COMPLETE"
           /\ Count(Answer(results), "COMPLETE") = 1
<1> DEFINE P == Plain({"OUTPUT", "CLEAR"})
           c == Msg("COMPLETE")
<1>1. c \in FromVenu /\ c.type = "COMPLETE" /\ P \subseteq FromVenu /\ \A m \in P : m.type # "COMPLETE"
  BY DEF Msg, FromVenu, Plain
<1> HIDE DEF P, c
<1>2. results \in Seq(FromVenu) /\ \A i \in DOMAIN results : results[i] \in P
  <2>1. \A i \in 1..Len(results) : results[i] \in P
    BY ElementOfSeq DEF P
  <2>2. Len(results) \in Nat /\ DOMAIN results = 1..Len(results)
    BY LenProperties
  <2>3. QED
    BY <1>1, <2>1, <2>2, SeqDef
<1>3. /\ Append(results, c) \in Seq(FromVenu) /\ Len(results) \in Nat
      /\ Len(Append(results, c)) = Len(results) + 1
      /\ DOMAIN results = 1..Len(results) /\ DOMAIN Append(results, c) = 1..(Len(results) + 1)
      /\ Append(results, c)[Len(results) + 1] = c
      /\ \A i \in 1..Len(results) : Append(results, c)[i] = results[i]
  BY <1>1, <1>2, More
<1>4. Count(results, "COMPLETE") = 0
  BY <1>1, <1>2, CountZero
<1>5. Count(Append(results, c), "COMPLETE") = 1
  BY <1>1, <1>2, <1>4, CountAppend
<1>6. Answer(results) = Append(results, c)
  BY DEF Answer, c
<1>7. QED
  BY <1>1, <1>2, <1>3, <1>5, <1>6

-----------------------------------------------------------------------------
(* The invariant.                                                           *)

\* Neither the terminal nor the shell runs, and nothing has been sent to VENU or
\* to the desktop.
Silent ==
    /\ venu_pc = "unborn" /\ ~ greeted
    /\ ~ shell_ready /\ input_length = 0 /\ terminal_outbox = <<>>
    /\ ~ shown_ready /\ shown_input = 0
    /\ to_desktop = <<>> /\ to_venu = <<>> /\ from_venu = <<>> /\ venu_outbox = <<>>

Phases ==
    /\ desktop_pc = "spawn" => terminal_pc = "unborn"
    /\ terminal_pc \in {"unborn", "start", "exited"} => Silent
    /\ terminal_pc \in {"desktop", "shell"} => venu_pc = "running"

\* VENU is pinged once.
PingedOnce ==
    greeted =>
        /\ \A i \in DOMAIN to_venu : to_venu[i].type # "PING"
        /\ \A i \in DOMAIN terminal_outbox :
              terminal_outbox[i].to = "venu" => terminal_outbox[i].message.type # "PING"

Value(m) == IF m.type = "READY" THEN m.ready ELSE m.length

Places(s, type) == {i \in DOMAIN s : s[i].type = type}

\* Who saw v, of this type, and reads s ends up seeing r.
Shows(s, type, v, r) ==
    \/ Places(s, type) = {} /\ v = r
    \/ \E i \in Places(s, type) : Value(s[i]) = r /\ \A j \in Places(s, type) : j <= i

Messages(outbox) == [i \in DOMAIN outbox |-> outbox[i].message]

\* The desktop will see r once it has read all that the terminal has sent or has
\* yet to send.
WillSee(type, v, r) ==
    \E w : Shows(to_desktop, type, v, w) /\ Shows(Messages(terminal_outbox), type, w, r)

ViewFollows == WillSee("READY", shown_ready, shell_ready) /\ WillSee("STATE", shown_input, input_length)

Printing == {"OUTPUT", "CLEAR"}

\* What a command prints is followed by its COMPLETE.
CompleteLast ==
    /\ \A i \in DOMAIN venu_outbox :
          venu_outbox[i].type \in Printing =>
              \E j \in DOMAIN venu_outbox : j > i /\ venu_outbox[j].type = "COMPLETE"
    /\ \A i \in DOMAIN from_venu :
          from_venu[i].type \in Printing =>
              \/ \E j \in DOMAIN from_venu : j > i /\ from_venu[j].type = "COMPLETE"
              \/ \E j \in DOMAIN venu_outbox : venu_outbox[j].type = "COMPLETE"

Inv == OneCommandAtATime /\ Phases /\ PingedOnce /\ ViewFollows /\ CompleteLast
-----------------------------------------------------------------------------
(* What a reader will see.                                                  *)

LEMMA ShowsNothing ==
    ASSUME NEW type, NEW v, NEW r
    PROVE  Shows(<<>>, type, v, r) <=> v = r
BY DEF Shows, Places

LEMMA ShowsTail ==
    ASSUME NEW S, NEW s \in Seq(S), s # <<>>, NEW type, NEW v, NEW r, Shows(s, type, v, r)
    PROVE  Shows(Tail(s), type, IF Head(s).type = type THEN Value(Head(s)) ELSE v, r)
<1> DEFINE n == Len(s)
           I == Places(s, type)
           J == Places(Tail(s), type)
           w == IF Head(s).type = type THEN Value(Head(s)) ELSE v
<1>1. n \in Nat \ {0} /\ I \subseteq 1..n /\ J = {i \in 1..(n - 1) : i + 1 \in I}
      /\ \A i \in J : Tail(s)[i] = s[i + 1]
  BY Rest DEF Places
<1>2. (1 \in I <=> Head(s).type = type) /\ Head(s) = s[1]
  BY Rest DEF Places
<1>3. \/ I = {} /\ v = r
      \/ \E i \in I : Value(s[i]) = r /\ \A j \in I : j <= i
  BY DEF Shows
<1> SUFFICES \/ J = {} /\ w = r
             \/ \E i \in J : Value(Tail(s)[i]) = r /\ \A j \in J : j <= i
  BY DEF Shows
<1> HIDE DEF n, I, J
<1>4. CASE I = {} /\ v = r
  BY <1>1, <1>2, <1>4
<1>5. ASSUME NEW i \in I, Value(s[i]) = r, \A j \in I : j <= i
      PROVE  \/ J = {} /\ w = r
             \/ \E k \in J : Value(Tail(s)[k]) = r /\ \A j \in J : j <= k
  <2>1. CASE i = 1
    <3>1. J = {}
      BY <1>1, <1>5, <2>1
    <3>2. w = r
      BY <1>2, <1>5, <2>1
    <3>3. QED
      BY <3>1, <3>2
  <2>2. CASE i # 1
    <3>1. i - 1 \in 1..(n - 1) /\ (i - 1) + 1 = i
      BY <1>1, <2>2
    <3>2. i - 1 \in J /\ Tail(s)[i - 1] = s[i]
      BY <1>1, <3>1
    <3>3. \A j \in J : j <= i - 1
      BY <1>1, <1>5
    <3>4. QED
      BY <1>5, <3>2, <3>3
  <2>3. QED
    BY <2>1, <2>2
<1>6. QED
  BY <1>3, <1>4, <1>5

LEMMA ShowsAppend ==
    ASSUME NEW S, NEW s \in Seq(S), NEW m \in S, NEW type, NEW v, NEW r, Shows(s, type, v, r)
    PROVE  Shows(Append(s, m), type, v, IF m.type = type THEN Value(m) ELSE r)
<1> DEFINE n == Len(s)
           t == Append(s, m)
           I == Places(s, type)
           J == Places(t, type)
           w == IF m.type = type THEN Value(m) ELSE r
<1>1. n \in Nat /\ I \subseteq 1..n /\ (\A i \in I : t[i] = s[i]) /\ t[n + 1] = m
  BY More DEF Places
<1>2. \A i : i \in J <=> i \in I \/ (i = n + 1 /\ m.type = type)
  BY More DEF Places
<1>3. \/ I = {} /\ v = r
      \/ \E i \in I : Value(s[i]) = r /\ \A j \in I : j <= i
  BY DEF Shows
<1> SUFFICES \/ J = {} /\ v = w
             \/ \E i \in J : Value(t[i]) = w /\ \A j \in J : j <= i
  BY DEF Shows
<1> HIDE DEF n, I, J, t
<1>4. CASE m.type = type
  <2>1. n + 1 \in J /\ Value(t[n + 1]) = w
    BY <1>1, <1>2, <1>4
  <2>2. ASSUME NEW j \in J PROVE j <= n + 1
    <3>1. j \in 1..n \/ j = n + 1
      BY <1>1, <1>2
    <3>2. QED
      BY <1>1, <3>1
  <2>3. QED
    BY <2>1, <2>2
<1>5. CASE m.type # type
  BY <1>1, <1>2, <1>3, <1>5
<1>6. QED
  BY <1>4, <1>5

Envelope == [to : {"desktop"}, message : ToDesktop] \cup [to : {"venu"}, message : ToVenu]

LEMMA EnvelopeType ==
    ASSUME NEW e \in Envelope
    PROVE  /\ e.to \in {"desktop", "venu"}
           /\ e.to = "desktop" => e.message \in ToDesktop
           /\ e.to = "venu" => e.message \in ToVenu
BY DEF Envelope

LEMMA MessageTypes ==
    /\ \A m \in ToVenu : m.type \in {"PING", "LINE"}
    /\ \A m \in FromVenu : m.type \in {"PONG", "OUTPUT", "CLEAR", "COMPLETE"}
    /\ \A m \in ToDesktop : /\ m.type = "STATE" => m.length \in 0..(LineCapacity - 1)
                            /\ m.type = "READY" => m.ready \in BOOLEAN
                            /\ m.type # "PING" /\ m.type # "LINE"
    /\ \A m \in ToTerminal : m.type \in {"PING", "KEY"} /\ (m.type = "KEY" => m.key \in Keys)
BY DEF ToVenu, FromVenu, ToDesktop, ToTerminal, Plain, View, KeyMessage

\* The messages of the terminal's outbox.
LEMMA MessagesOf ==
    ASSUME NEW o \in Seq(Envelope)
    PROVE  /\ Messages(o) \in Seq(ToDesktop \cup ToVenu)
           /\ o # <<>> => /\ Messages(o) # <<>> /\ Head(Messages(o)) = Head(o).message
                          /\ Tail(Messages(o)) = Messages(Tail(o))
           /\ o = <<>> => Messages(o) = <<>>
<1> DEFINE M == Messages(o)
           n == Len(o)
           T == ToDesktop \cup ToVenu
<1>1. n \in Nat /\ DOMAIN o = 1..n /\ \A i \in 1..n : o[i] \in Envelope
  BY LenProperties, ElementOfSeq
<1>2. M = [i \in 1..n |-> o[i].message] /\ \A i \in 1..n : o[i].message \in T
  BY <1>1, EnvelopeType DEF Messages
<1>3. M \in Seq(T) /\ Len(M) = n
  <2> HIDE DEF T
  <2>1. M \in [1..n -> T]
    BY <1>2
  <2>2. QED
    BY <1>1, <2>1
<1>4. ASSUME o # <<>> PROVE M # <<>> /\ Head(M) = Head(o).message /\ Tail(M) = Messages(Tail(o))
  <2>1. /\ n \in Nat \ {0} /\ Head(o) = o[1] /\ Tail(o) \in Seq(Envelope)
        /\ DOMAIN Tail(o) = 1..(n - 1) /\ \A i \in 1..(n - 1) : Tail(o)[i] = o[i + 1]
    BY <1>4, Rest
  <2> HIDE DEF n, M, T
  <2>2. M # <<>>
    BY <1>3, <2>1, EmptySeq
  <2>3. /\ Head(M) = M[1] /\ Tail(M) \in Seq(T) /\ Len(Tail(M)) = n - 1
        /\ DOMAIN Tail(M) = 1..(n - 1) /\ \A i \in 1..(n - 1) : Tail(M)[i] = M[i + 1]
    BY <1>3, <2>2, Rest
  <2>4. M[1] = o[1].message /\ \A i \in 1..(n - 1) : M[i + 1] = o[i + 1].message
    BY <1>2, <2>1
  <2>5. Messages(Tail(o)) = [i \in 1..(n - 1) |-> o[i + 1].message]
    BY <2>1 DEF Messages
  <2>6. Tail(M) = [i \in 1..(n - 1) |-> Tail(M)[i]]
    BY <2>3, AsFunction
  <2>7. Tail(M) = Messages(Tail(o))
    BY <2>3, <2>4, <2>5, <2>6
  <2>8. QED
    BY <2>1, <2>2, <2>3, <2>4, <2>7
<1>5. ASSUME o = <<>> PROVE M = <<>>
  BY <1>5 DEF Messages
<1>6. QED
  BY <1>3, <1>4, <1>5

\* How many of a sequence of envelopes are for VENU.
Owed(o) == Cardinality({i \in DOMAIN o : o[i].to = "venu"})

LEMMA OwedTail ==
    ASSUME NEW o \in Seq(Envelope), o # <<>>
    PROVE  /\ Owed(o) = Owed(Tail(o)) + (IF Head(o).to = "venu" THEN 1 ELSE 0)
           /\ Owed(o) \in Nat /\ Owed(Tail(o)) \in Nat
<1> DEFINE n == Len(o)
           I == {i \in DOMAIN o : o[i].to = "venu"}
           J == {i \in DOMAIN Tail(o) : Tail(o)[i].to = "venu"}
<1>1. n \in Nat \ {0} /\ I \in SUBSET (1..n) /\ \A i : i \in J <=> i \in 1..(n - 1) /\ i + 1 \in I
  BY Rest
<1>2. 1 \in I <=> Head(o).to = "venu"
  BY Rest
<1> HIDE DEF n, I, J
<1>3. /\ 1 \in I => Cardinality(I) = Cardinality(J) + 1
      /\ 1 \notin I => Cardinality(I) = Cardinality(J)
      /\ Cardinality(I) \in Nat /\ Cardinality(J) \in Nat
  BY <1>1, CountShift, Zenon
<1>4. Cardinality(I) = Cardinality(J) + (IF Head(o).to = "venu" THEN 1 ELSE 0)
  BY <1>2, <1>3
<1>5. QED
  BY <1>3, <1>4 DEF Owed, I, J

\* What is told to the desktop.
LEMMA Told ==
    ASSUME NEW sent \in Seq(ToDesktop)
    PROVE  /\ Addressed("desktop", sent) \in Seq(Envelope)
           /\ Messages(Addressed("desktop", sent)) = sent
           /\ \A i \in DOMAIN Addressed("desktop", sent) : Addressed("desktop", sent)[i].to = "desktop"
           /\ Owed(Addressed("desktop", sent)) = 0
<1> DEFINE n == Len(sent)
           o == Addressed("desktop", sent)
<1>1. n \in Nat /\ DOMAIN sent = 1..n /\ \A i \in 1..n : sent[i] \in ToDesktop
  BY LenProperties, ElementOfSeq
<1>2. o = [i \in 1..n |-> [to |-> "desktop", message |-> sent[i]]]
  BY <1>1 DEF Addressed
<1>3. o \in Seq(Envelope)
  <2>1. \A i \in 1..n : [to |-> "desktop", message |-> sent[i]] \in Envelope
    BY <1>1 DEF Envelope
  <2>2. o \in [1..n -> Envelope]
    BY <1>2, <2>1
  <2>3. QED
    BY <1>1, <2>2
<1>4. \A i \in 1..n : o[i].to = "desktop" /\ o[i].message = sent[i]
  BY <1>2
<1>5. Messages(o) = sent
  <2>1. Messages(o) = [i \in 1..n |-> sent[i]]
    BY <1>2, <1>4 DEF Messages
  <2>2. sent = [i \in 1..n |-> sent[i]]
    BY <1>1, SeqDef
  <2>3. QED
    BY <2>1, <2>2
<1>6. {i \in DOMAIN o : o[i].to = "venu"} = {}
  BY <1>2, <1>4
<1>7. QED
  BY <1>2, <1>3, <1>4, <1>5, <1>6, FS_EmptySet DEF Owed

-----------------------------------------------------------------------------
(* Steps that leave a part of it alone.                                     *)

Counted ==
    venu_pc = "running" =>
        Owed(terminal_outbox) + Len(to_venu) + Count(venu_outbox, "COMPLETE") + Count(from_venu, "COMPLETE")
        = IF shell_ready THEN 0 ELSE 1

LEMMA InvParts ==
    Inv <=> TypeOK /\ Counted /\ Phases /\ PingedOnce /\ ViewFollows /\ CompleteLast
BY DEF Inv, OneCommandAtATime, Counted, Unsent, Owed

LEMMA InvPartsNext ==
    Inv' <=> TypeOK' /\ Counted' /\ Phases' /\ PingedOnce' /\ ViewFollows' /\ CompleteLast'
BY InvParts, PTL

LEMMA Amounts ==
    ASSUME TypeOK
    PROVE  /\ Owed(terminal_outbox) \in Nat /\ Len(to_venu) \in Nat
           /\ Count(venu_outbox, "COMPLETE") \in Nat /\ Count(from_venu, "COMPLETE") \in Nat
           /\ Owed(<<>>) = 0 /\ Count(<<>>, "COMPLETE") = 0 /\ Len(<<>>) = 0
<1>1. terminal_outbox \in Seq(Envelope) /\ to_venu \in Seq(ToVenu) /\ venu_outbox \in Seq(FromVenu) /\ from_venu \in Seq(FromVenu)
  BY DEF TypeOK, Envelope
<1>2. Count(venu_outbox, "COMPLETE") \in Nat /\ Count(from_venu, "COMPLETE") \in Nat /\ Len(to_venu) \in Nat
  BY <1>1, CountZero, LenProperties
<1>3. {i \in DOMAIN <<>> : <<>>[i].to = "venu"} = {} /\ {i \in DOMAIN <<>> : <<>>[i].type = "COMPLETE"} = {} /\ Len(<<>>) = 0
  OBVIOUS
<1>4. Owed(<<>>) = 0 /\ Count(<<>>, "COMPLETE") = 0 /\ Len(<<>>) = 0
  BY <1>3, FS_EmptySet, Zenon DEF Owed, Count
<1>5. Owed(terminal_outbox) \in Nat
  BY <1>1, <1>4, OwedTail
<1>6. QED
  BY <1>2, <1>4, <1>5

LEMMA Keeps ==
    ASSUME Inv
    PROVE  /\ UNCHANGED <<venu_pc, terminal_outbox, to_venu, venu_outbox, from_venu, shell_ready>> => Counted'
           /\ UNCHANGED <<to_desktop, terminal_outbox, shown_ready, shown_input, shell_ready, input_length>> => ViewFollows'
           /\ UNCHANGED <<greeted, to_venu, terminal_outbox>> => PingedOnce'
           /\ UNCHANGED <<venu_outbox, from_venu>> => CompleteLast'
           /\ UNCHANGED <<venuVars, to_desktop, to_venu, from_venu, terminal_outbox, shown_ready, shown_input,
                          shell_ready, input_length>> => (Silent => Silent')
<1>1. Counted /\ ViewFollows /\ PingedOnce /\ CompleteLast
  BY InvParts
<1>2. UNCHANGED <<venu_pc, terminal_outbox, to_venu, venu_outbox, from_venu, shell_ready>> => Counted'
  BY <1>1 DEF Counted
<1>3. UNCHANGED <<to_desktop, terminal_outbox, shown_ready, shown_input, shell_ready, input_length>> => ViewFollows'
  BY <1>1 DEF ViewFollows, WillSee
<1>4. UNCHANGED <<greeted, to_venu, terminal_outbox>> => PingedOnce'
  BY <1>1 DEF PingedOnce
<1>5. UNCHANGED <<venu_outbox, from_venu>> => CompleteLast'
  BY <1>1 DEF CompleteLast
<1>6. ASSUME UNCHANGED <<venuVars, to_desktop, to_venu, from_venu, terminal_outbox, shown_ready, shown_input,
                         shell_ready, input_length>>, Silent
      PROVE  Silent'
  BY <1>6 DEF Silent, venuVars
<1>7. QED
  BY <1>2, <1>3, <1>4, <1>5, <1>6

\* The desktop moves on, and not to start the terminal.
LEMMA KeepsPhases ==
    ASSUME Phases, desktop_pc' # "spawn",
           UNCHANGED <<shown_input, shown_ready, terminalVars, venuVars, to_desktop, to_venu, from_venu>>
    PROVE  Phases'
<1>1. /\ UNCHANGED <<venu_pc, greeted, venu_outbox, terminal_pc, input_length, shell_ready, terminal_outbox>>
      /\ UNCHANGED <<shown_input, shown_ready, to_desktop, to_venu, from_venu>>
  BY DEF venuVars, terminalVars
<1>2. Silent => Silent'
  BY <1>1 DEF Silent
<1>3. QED
  BY <1>1, <1>2 DEF Phases

LEMMA InitInv == Init => Inv
<1> SUFFICES ASSUME Init PROVE Inv
  OBVIOUS
<1>1. /\ terminal_pc = "unborn" /\ desktop_pc = "mouse" /\ Silent /\ to_terminal = <<>>
      /\ terminal_open = FALSE
  BY DEF Init, Silent
<1>2. TypeOK
  <2>1. 0 \in 0..(LineCapacity - 1) /\ Len(<<>>) <= Capacity
    BY BoundsAssumption
  <2>2. <<>> \in Seq(Envelope) /\ <<>> \in Seq(FromVenu) /\ <<>> \in Seq(ToTerminal)
        /\ <<>> \in Seq(ToDesktop) /\ <<>> \in Seq(ToVenu)
    BY EmptySeq
  <2>3. QED
    BY <2>1, <2>2, Zenon DEF Init, TypeOK, Envelope
<1>3. Counted /\ Phases /\ PingedOnce
  BY <1>1 DEF Counted, Phases, PingedOnce, Silent
<1>4. Messages(<<>>) = <<>>
  BY DEF Messages
<1>5. ViewFollows
  <2>1. Shows(<<>>, "READY", FALSE, FALSE) /\ Shows(<<>>, "STATE", 0, 0)
    BY ShowsNothing
  <2>2. WillSee("READY", shown_ready, shell_ready)
    <3>1. shown_ready = FALSE /\ shell_ready = FALSE
      BY <1>1 DEF Init, Silent
    <3>2. QED
      BY <1>1, <1>4, <2>1, <3>1 DEF WillSee, Silent
  <2>3. WillSee("STATE", shown_input, input_length)
    BY <1>1, <1>4, <2>1 DEF WillSee, Silent
  <2>4. QED
    BY <2>2, <2>3 DEF ViewFollows
<1>6. CompleteLast
  BY <1>1 DEF CompleteLast, Silent
<1>7. QED
  BY <1>2, <1>3, <1>5, <1>6, InvParts

-----------------------------------------------------------------------------
(* The desktop.                                                             *)

LEMMA ReadMouseInv == ASSUME Inv, ReadMouse PROVE Inv'
<1>1. UNCHANGED <<shown_input, shown_ready, terminalVars, venuVars, queues>>
  BY DEF ReadMouse
<1>2. TypeOK /\ Phases
  BY InvParts
<1>3. desktop_pc' \in {"keyboard", "spawn"} /\ terminal_open' \in BOOLEAN /\ (desktop_pc' = "spawn" => terminal_pc = "unborn")
  BY <1>2 DEF ReadMouse, DesktopGoto, Spawned, TypeOK
<1>4. TypeOK' /\ Phases'
  <2>1. TypeOK'
    BY <1>1, <1>2, <1>3 DEF TypeOK, terminalVars, venuVars, queues
  <2>2. Phases'
    BY <1>1, <1>2, <1>3, Keeps DEF Phases, terminalVars, venuVars, queues
  <2>3. QED
    BY <2>1, <2>2
<1>5. Counted' /\ ViewFollows' /\ PingedOnce' /\ CompleteLast'
  BY <1>1, Keeps DEF terminalVars, venuVars, queues
<1>6. QED
  BY <1>4, <1>5, InvPartsNext

LEMMA SpawnTerminalInv == ASSUME Inv, SpawnTerminal PROVE Inv'
<1>1. UNCHANGED <<terminal_open, shown_input, shown_ready, input_length, shell_ready, terminal_outbox, venuVars, queues>>
  BY DEF SpawnTerminal
<1>2. TypeOK /\ Phases
  BY InvParts
<1>3. terminal_pc = "unborn" /\ Silent
  BY <1>2 DEF SpawnTerminal, DesktopAt, Phases
<1>4. terminal_pc' \in {"unborn", "start"} /\ desktop_pc' \in {"ping", "exited"}
  BY <1>3 DEF SpawnTerminal, DesktopGoto
<1>5. TypeOK'
  BY <1>1, <1>2, <1>4 DEF TypeOK, venuVars, queues
<1>6. Phases'
  BY <1>1, <1>3, <1>4, Keeps DEF Phases, venuVars, queues
<1>7. Counted' /\ ViewFollows' /\ PingedOnce' /\ CompleteLast'
  BY <1>1, Keeps DEF venuVars, queues
<1>8. QED
  BY <1>5, <1>6, <1>7, InvPartsNext

\* One more message for the terminal.
LEMMA ForTerminal ==
    ASSUME TypeOK, NEW m \in ToTerminal, HasRoom(to_terminal)
    PROVE  Append(to_terminal, m) \in Seq(ToTerminal) /\ Len(Append(to_terminal, m)) <= Capacity
BY More, BoundsAssumption DEF TypeOK, HasRoom

LEMMA PingTerminalInv == ASSUME Inv, PingTerminal PROVE Inv'
<1>1. /\ HasRoom(to_terminal) /\ to_terminal' = Append(to_terminal, Msg("PING")) /\ desktop_pc' = "keyboard"
      /\ UNCHANGED <<terminal_open, shown_input, shown_ready, terminalVars, venuVars, to_desktop, to_venu, from_venu>>
  BY DEF PingTerminal, DesktopGoto
<1>2. TypeOK /\ Phases
  BY InvParts
<1>3. Msg("PING") \in ToTerminal
  BY DEF Msg, ToTerminal, Plain
<1>4. TypeOK'
  BY <1>1, <1>2, <1>3, ForTerminal DEF TypeOK, terminalVars, venuVars
<1>5. Phases'
  BY <1>1, <1>2, KeepsPhases
<1>6. Counted' /\ ViewFollows' /\ PingedOnce' /\ CompleteLast'
  BY <1>1, Keeps DEF terminalVars, venuVars
<1>7. QED
  BY <1>4, <1>5, <1>6, InvPartsNext

LEMMA ReadKeyboardInv == ASSUME Inv, ReadKeyboard PROVE Inv'
<1>1. /\ desktop_pc' \in {"drain", "mouse"}
      /\ UNCHANGED <<shown_input, shown_ready, terminalVars, venuVars, to_desktop, to_venu, from_venu>>
  BY DEF ReadKeyboard, DesktopGoto
<1>2. TypeOK /\ Phases
  BY InvParts
<1>3. terminal_open' \in BOOLEAN /\ to_terminal' \in Seq(ToTerminal) /\ Len(to_terminal') <= Capacity
  <2>1. CASE UNCHANGED to_terminal
    BY <1>2, <2>1 DEF ReadKeyboard, TypeOK
  <2>2. CASE to_terminal' # to_terminal
    <3>1. PICK key \in Keys : /\ to_terminal' = IF HasRoom(to_terminal)
                                                THEN Append(to_terminal, [type |-> "KEY", key |-> key])
                                                ELSE to_terminal
                              /\ terminal_open' = terminal_open
      BY <2>2 DEF ReadKeyboard
    <3>2. [type |-> "KEY", key |-> key] \in ToTerminal
      BY DEF ToTerminal, KeyMessage
    <3>3. HasRoom(to_terminal)
      BY <2>2, <3>1
    <3>4. QED
      BY <1>2, <3>1, <3>2, <3>3, ForTerminal DEF TypeOK
  <2>3. QED
    BY <2>1, <2>2
<1>4. TypeOK'
  BY <1>1, <1>2, <1>3 DEF TypeOK, terminalVars, venuVars
<1>5. Phases'
  BY <1>1, <1>2, KeepsPhases
<1>6. Counted' /\ ViewFollows' /\ PingedOnce' /\ CompleteLast'
  BY <1>1, Keeps DEF terminalVars, venuVars
<1>7. QED
  BY <1>4, <1>5, <1>6, InvPartsNext

LEMMA DrainTerminalInv == ASSUME Inv, DrainTerminal PROVE Inv'
<1>1. UNCHANGED <<terminal_open, terminalVars, venuVars, to_terminal, to_venu, from_venu>>
  BY DEF DrainTerminal
<1>2. TypeOK /\ Phases /\ ViewFollows
  BY InvParts
<1>3. Counted' /\ PingedOnce' /\ CompleteLast'
  BY <1>1, Keeps DEF terminalVars, venuVars
<1>4. CASE to_desktop = <<>>
  <2>1. desktop_pc' = "mouse" /\ UNCHANGED <<to_desktop, shown_input, shown_ready>>
    BY <1>4 DEF DrainTerminal, DesktopGoto
  <2>2. TypeOK'
    BY <1>1, <1>2, <2>1 DEF TypeOK, terminalVars, venuVars
  <2>3. Phases'
    BY <1>1, <1>2, <2>1, KeepsPhases
  <2>4. ViewFollows'
    BY <1>1, <2>1, Keeps DEF terminalVars
  <2>5. QED
    BY <1>3, <2>2, <2>3, <2>4, InvPartsNext
<1>5. CASE to_desktop # <<>>
  <2> PICK m : m = Head(to_desktop)
    OBVIOUS
  <2>1. /\ to_desktop' = Tail(to_desktop)
        /\ shown_input' = IF m.type = "STATE" THEN m.length ELSE shown_input
        /\ shown_ready' = IF m.type = "READY" THEN m.ready ELSE shown_ready
        /\ desktop_pc' = desktop_pc
    BY <1>5 DEF DrainTerminal
  <2>2. /\ m \in ToDesktop /\ to_desktop \in Seq(ToDesktop)
        /\ Tail(to_desktop) \in Seq(ToDesktop) /\ Len(Tail(to_desktop)) <= Capacity
    BY <1>2, <1>5, Rest, BoundsAssumption DEF TypeOK
  <2>3. shown_input' \in 0..(LineCapacity - 1) /\ shown_ready' \in BOOLEAN
    BY <1>2, <2>1, <2>2, MessageTypes DEF TypeOK
  <2>4. TypeOK'
    BY <1>1, <1>2, <2>1, <2>2, <2>3 DEF TypeOK, terminalVars, venuVars
  <2>5. Phases'
    <3>1. terminal_pc \in {"desktop", "shell"}
      BY <1>2, <1>5 DEF Phases, Silent, TypeOK
    <3>2. QED
      BY <1>1, <1>2, <2>1, <3>1 DEF Phases, terminalVars, venuVars
  <2>6. ViewFollows'
    <3>1. PICK w : Shows(to_desktop, "READY", shown_ready, w) /\ Shows(Messages(terminal_outbox), "READY", w, shell_ready)
      BY <1>2 DEF ViewFollows, WillSee
    <3>2. Shows(Tail(to_desktop), "READY", shown_ready', w)
      <4>1. Shows(Tail(to_desktop), "READY", IF m.type = "READY" THEN Value(m) ELSE shown_ready, w)
        BY <1>5, <2>2, <3>1, ShowsTail
      <4>2. shown_ready' = IF m.type = "READY" THEN Value(m) ELSE shown_ready
        BY <2>1 DEF Value
      <4>3. QED
        BY <4>1, <4>2
    <3>3. WillSee("READY", shown_ready, shell_ready)'
      BY <1>1, <2>1, <3>1, <3>2 DEF WillSee, terminalVars
    <3>4. PICK x : Shows(to_desktop, "STATE", shown_input, x) /\ Shows(Messages(terminal_outbox), "STATE", x, input_length)
      BY <1>2 DEF ViewFollows, WillSee
    <3>5. Shows(Tail(to_desktop), "STATE", shown_input', x)
      <4>1. Shows(Tail(to_desktop), "STATE", IF m.type = "STATE" THEN Value(m) ELSE shown_input, x)
        BY <1>5, <2>2, <3>4, ShowsTail
      <4>2. shown_input' = IF m.type = "STATE" THEN Value(m) ELSE shown_input
        BY <2>1 DEF Value
      <4>3. QED
        BY <4>1, <4>2
    <3>6. WillSee("STATE", shown_input, input_length)'
      BY <1>1, <2>1, <3>4, <3>5 DEF WillSee, terminalVars
    <3>7. QED
      BY <3>3, <3>6 DEF ViewFollows
  <2>7. QED
    BY <1>3, <2>4, <2>5, <2>6, InvPartsNext
<1>6. QED
  BY <1>4, <1>5


-----------------------------------------------------------------------------
(* The terminal.                                                            *)

\* A terminal that runs keeps running, with its shell.
LEMMA KeepsRunning ==
    ASSUME TypeOK, Phases, terminal_pc \in {"desktop", "shell"}, terminal_pc' \in {"desktop", "shell"},
           UNCHANGED <<desktop_pc, venu_pc>>
    PROVE  Phases'
BY DEF TypeOK, Phases

\* A line or a ping is one message for VENU.
LEMMA ForVenu ==
    ASSUME NEW m \in ToVenu
    PROVE  /\ Addressed("venu", <<m>>) \in Seq(Envelope)
           /\ Messages(Addressed("venu", <<m>>)) = <<m>>
           /\ Owed(Addressed("venu", <<m>>)) = 1
<1> DEFINE e == [to |-> "venu", message |-> m]
           o == Addressed("venu", <<m>>)
<1>1. o = <<e>> /\ e \in Envelope /\ e.to = "venu" /\ e.message = m
  <2>1. e \in Envelope
    BY DEF Envelope
  <2>2. o = [i \in 1..1 |-> e]
    BY DEF Addressed
  <2>3. QED
    BY <2>1, <2>2
<1> HIDE DEF e, o
<1>2. <<e>> \in Seq(Envelope)
  BY <1>1
<1>3. {i \in DOMAIN <<e>> : <<e>>[i].to = "venu"} = {1}
  BY <1>1
<1>4. Messages(<<e>>) = <<m>>
  <2>1. Messages(<<e>>) = [i \in 1..1 |-> m]
    BY <1>1 DEF Messages
  <2>2. QED
    BY <2>1
<1>5. Owed(<<e>>) = 1
  BY <1>3, FS_Singleton DEF Owed
<1>6. QED
  BY <1>1, <1>2, <1>4, <1>5 DEF o

\* The messages the terminal sends, and what their reader sees.
LEMMA Announced ==
    ASSUME NEW v, NEW r, NEW l
    PROVE  /\ LET s == <<Msg("PONG"), State(l), Ready(r)>> IN
              Shows(s, "READY", v, r) /\ Shows(s, "STATE", v, l)
           /\ LET s == <<State(l)>> IN
              Shows(s, "READY", v, v) /\ Shows(s, "STATE", v, l)
           /\ LET s == <<Ready(r)>> IN
              Shows(s, "READY", v, r) /\ Shows(s, "STATE", v, v)
           /\ LET s == <<Output, Ready(r), Msg("LINE"), State(l)>> IN
              Shows(s, "READY", v, r) /\ Shows(s, "STATE", v, l)
           /\ \A type \in {"PING", "OUTPUT", "CLEAR"} :
              Shows(<<Msg(type)>>, "READY", v, v) /\ Shows(<<Msg(type)>>, "STATE", v, v)
<1>1. ASSUME NEW s, s = <<Msg("PONG"), State(l), Ready(r)>>
      PROVE  Shows(s, "READY", v, r) /\ Shows(s, "STATE", v, l)
  <2>1. Places(s, "READY") = {3} /\ Places(s, "STATE") = {2}
    BY <1>1 DEF Places, Msg, State, Ready
  <2>2. Value(s[3]) = r /\ Value(s[2]) = l
    BY <1>1 DEF Value, Ready, State
  <2>3. QED
    BY <2>1, <2>2 DEF Shows
<1>2. ASSUME NEW s, s = <<State(l)>>
      PROVE  Shows(s, "READY", v, v) /\ Shows(s, "STATE", v, l)
  <2>1. Places(s, "READY") = {} /\ Places(s, "STATE") = {1} /\ Value(s[1]) = l
    BY <1>2 DEF Places, State, Value
  <2>2. QED
    BY <2>1 DEF Shows
<1>3. ASSUME NEW s, s = <<Ready(r)>>
      PROVE  Shows(s, "READY", v, r) /\ Shows(s, "STATE", v, v)
  <2>1. Places(s, "STATE") = {} /\ Places(s, "READY") = {1} /\ Value(s[1]) = r
    BY <1>3 DEF Places, Ready, Value
  <2>2. QED
    BY <2>1 DEF Shows
<1>4. ASSUME NEW s, s = <<Output, Ready(r), Msg("LINE"), State(l)>>
      PROVE  Shows(s, "READY", v, r) /\ Shows(s, "STATE", v, l)
  <2>1. Places(s, "READY") = {2} /\ Places(s, "STATE") = {4}
    BY <1>4 DEF Places, Output, Msg, State, Ready
  <2>2. Value(s[2]) = r /\ Value(s[4]) = l
    BY <1>4 DEF Value, Ready, State
  <2>3. QED
    BY <2>1, <2>2 DEF Shows
<1>5. ASSUME NEW type \in {"PING", "OUTPUT", "CLEAR"}
      PROVE  Shows(<<Msg(type)>>, "READY", v, v) /\ Shows(<<Msg(type)>>, "STATE", v, v)
  <2>1. Places(<<Msg(type)>>, "READY") = {} /\ Places(<<Msg(type)>>, "STATE") = {}
    BY DEF Places, Msg
  <2>2. QED
    BY <2>1 DEF Shows
<1>6. QED
  BY <1>1, <1>2, <1>3, <1>4, <1>5

\* The terminal, with nothing left to send, changes its line or its prompt and
\* tells the desktop so.
LEMMA Announces ==
    ASSUME Inv, terminal_outbox = <<>>, UNCHANGED <<to_desktop, shown_input, shown_ready>>,
           Shows(Messages(terminal_outbox)', "READY", shell_ready, shell_ready'),
           Shows(Messages(terminal_outbox)', "STATE", input_length, input_length')
    PROVE  ViewFollows'
<1>1. ViewFollows /\ Messages(terminal_outbox) = <<>>
  BY InvParts DEF Messages
<1>2. Shows(to_desktop, "READY", shown_ready, shell_ready)
  BY <1>1, ShowsNothing DEF ViewFollows, WillSee
<1>3. Shows(to_desktop, "STATE", shown_input, input_length)
  BY <1>1, ShowsNothing DEF ViewFollows, WillSee
<1>4. WillSee("READY", shown_ready, shell_ready)'
  BY <1>2 DEF WillSee
<1>5. WillSee("STATE", shown_input, input_length)'
  BY <1>3 DEF WillSee
<1>6. QED
  BY <1>4, <1>5 DEF ViewFollows

LEMMA StartShellInv == ASSUME Inv, StartShell PROVE Inv'
<1>1. /\ terminal_pc = "start" /\ terminal_outbox = <<>>
      /\ UNCHANGED <<desktop_pc, terminal_open, shown_input, shown_ready, input_length, shell_ready>>
      /\ UNCHANGED <<greeted, venu_outbox, to_terminal, to_desktop, to_venu, from_venu>>
  BY DEF StartShell, TerminalAt, desktopVars, queues
<1>2. TypeOK /\ Phases /\ Silent
  BY <1>1, InvParts DEF Phases
<1>3. desktop_pc # "spawn"
  BY <1>1, <1>2 DEF Phases
<1>4. CompleteLast'
  BY <1>1, Keeps
<1>5. CASE terminal_pc' = "desktop"
  <2> PICK m : m = Msg("PING")
    OBVIOUS
  <2>1. venu_pc' = "running" /\ terminal_outbox' = Addressed("venu", <<m>>)
    BY <1>5 DEF StartShell
  <2>2. m \in ToVenu
    BY DEF Msg, ToVenu, Plain
  <2>3. terminal_outbox' \in Seq(Envelope) /\ Messages(terminal_outbox)' = <<m>> /\ Owed(terminal_outbox)' = 1
    BY <2>1, <2>2, ForVenu
  <2>4. TypeOK'
    BY <1>1, <1>2, <1>5, <2>1, <2>3 DEF TypeOK, Envelope
  <2>5. Phases' /\ PingedOnce'
    BY <1>1, <1>2, <1>3, <1>5, <2>1 DEF Phases, PingedOnce, Silent
  <2>6. Counted'
    <3>1. /\ Len(to_venu)' = 0 /\ Count(venu_outbox, "COMPLETE")' = 0
          /\ Count(from_venu, "COMPLETE")' = 0 /\ shell_ready' = FALSE
      BY <1>1, <1>2, Amounts DEF Silent
    <3>2. QED
      BY <2>3, <3>1 DEF Counted
  <2>7. ViewFollows'
    <3>1. Shows(<<m>>, "READY", shell_ready, shell_ready') /\ Shows(<<m>>, "STATE", input_length, input_length')
      BY <1>1, Announced
    <3>2. QED
      BY <1>1, <2>3, <3>1, Announces
  <2>8. QED
    BY <1>4, <2>4, <2>5, <2>6, <2>7, InvPartsNext
<1>6. CASE terminal_pc' = "exited"
  <2>1. UNCHANGED <<venu_pc, terminal_outbox>>
    BY <1>6 DEF StartShell
  <2>2. TypeOK'
    BY <1>1, <1>2, <1>6, <2>1 DEF TypeOK
  <2>3. Phases'
    BY <1>1, <1>2, <1>3, <1>6, <2>1 DEF Phases, Silent
  <2>4. Counted' /\ ViewFollows' /\ PingedOnce'
    BY <1>1, <2>1, Keeps
  <2>5. QED
    BY <1>4, <2>2, <2>3, <2>4, InvPartsNext
<1>7. QED
  BY <1>5, <1>6 DEF StartShell

\* A message leaves the terminal.
LEMMA Leaves ==
    ASSUME NEW q \in Seq(ToDesktop), NEW o \in Seq(Envelope), o # <<>>, NEW type, NEW v, NEW r,
           \E w : Shows(q, type, v, w) /\ Shows(Messages(o), type, w, r)
    PROVE  /\ Head(o).to = "desktop" =>
                 \E w : Shows(Append(q, Head(o).message), type, v, w) /\ Shows(Messages(Tail(o)), type, w, r)
           /\ Head(o).message.type # type =>
                 \E w : Shows(q, type, v, w) /\ Shows(Messages(Tail(o)), type, w, r)
<1> PICK m : m = Head(o).message
  OBVIOUS
<1>1. PICK w : Shows(q, type, v, w) /\ Shows(Messages(o), type, w, r)
  OBVIOUS
<1>2. Shows(Messages(Tail(o)), type, IF m.type = type THEN Value(m) ELSE w, r)
  <2>1. /\ Messages(o) \in Seq(ToDesktop \cup ToVenu) /\ Messages(o) # <<>>
        /\ Head(Messages(o)) = m /\ Tail(Messages(o)) = Messages(Tail(o))
    BY MessagesOf
  <2>2. Shows(Tail(Messages(o)), type, IF Head(Messages(o)).type = type THEN Value(Head(Messages(o))) ELSE w, r)
    BY <1>1, <2>1, ShowsTail
  <2>3. QED
    BY <2>1, <2>2
<1>3. ASSUME Head(o).to = "desktop"
      PROVE  Shows(Append(q, m), type, v, IF m.type = type THEN Value(m) ELSE w)
  <2>1. m \in ToDesktop
    BY <1>3, Rest, EnvelopeType
  <2>2. QED
    BY <1>1, <2>1, ShowsAppend
<1>4. ASSUME m.type # type
      PROVE  Shows(Messages(Tail(o)), type, w, r)
  BY <1>2, <1>4
<1>5. QED
  BY <1>1, <1>2, <1>3, <1>4

LEMMA TerminalSendInv == ASSUME Inv, TerminalSend PROVE Inv'
<1> PICK m : m = Head(terminal_outbox).message
  OBVIOUS
<1>1. /\ terminal_outbox # <<>> /\ terminal_outbox' = Tail(terminal_outbox)
      /\ UNCHANGED <<desktop_pc, terminal_open, shown_input, shown_ready, terminal_pc, input_length, shell_ready>>
      /\ UNCHANGED <<venu_pc, greeted, venu_outbox, to_terminal, from_venu>>
  BY DEF TerminalSend, desktopVars, venuVars
<1>2. TypeOK /\ Phases /\ Counted /\ PingedOnce /\ ViewFollows
  BY InvParts
<1>3. terminal_pc \in {"desktop", "shell"}
  BY <1>1, <1>2 DEF TypeOK, Phases, Silent
<1>4. Phases' /\ CompleteLast'
  BY <1>1, <1>2, <1>3, Keeps, KeepsRunning
<1>5. /\ terminal_outbox \in Seq(Envelope) /\ terminal_outbox' \in Seq(Envelope)
      /\ Head(terminal_outbox) \in Envelope /\ Head(terminal_outbox) = terminal_outbox[1]
      /\ to_desktop \in Seq(ToDesktop) /\ to_venu \in Seq(ToVenu)
      /\ Len(terminal_outbox) \in Nat \ {0} /\ DOMAIN terminal_outbox = 1..Len(terminal_outbox)
      /\ DOMAIN terminal_outbox' = 1..(Len(terminal_outbox) - 1)
      /\ \A i \in 1..(Len(terminal_outbox) - 1) : terminal_outbox'[i] = terminal_outbox[i + 1]
  <2>1. terminal_outbox \in Seq(Envelope) /\ to_desktop \in Seq(ToDesktop) /\ to_venu \in Seq(ToVenu)
    BY <1>2 DEF TypeOK, Envelope
  <2>2. QED
    BY <1>1, <2>1, Rest
<1>6. /\ Owed(terminal_outbox) = Owed(terminal_outbox)' + (IF Head(terminal_outbox).to = "venu" THEN 1 ELSE 0)
      /\ Owed(terminal_outbox) \in Nat /\ Owed(terminal_outbox)' \in Nat
      /\ Len(to_venu) \in Nat /\ Count(venu_outbox, "COMPLETE") \in Nat /\ Count(from_venu, "COMPLETE") \in Nat
  <2>1. /\ Owed(terminal_outbox) = Owed(Tail(terminal_outbox)) + (IF Head(terminal_outbox).to = "venu" THEN 1 ELSE 0)
        /\ Owed(Tail(terminal_outbox)) \in Nat
    BY <1>1, <1>5, OwedTail
  <2>2. QED
    BY <1>1, <1>2, <2>1, Amounts
<1>7. CASE Head(terminal_outbox).to = "desktop"
  <2>1. HasRoom(to_desktop) /\ to_desktop' = Append(to_desktop, m) /\ UNCHANGED to_venu
    BY <1>7 DEF TerminalSend
  <2>2. m \in ToDesktop
    BY <1>5, <1>7, EnvelopeType
  <2>3. to_desktop' \in Seq(ToDesktop) /\ Len(to_desktop') <= Capacity
    BY <1>5, <2>1, <2>2, More, BoundsAssumption DEF HasRoom
  <2>4. TypeOK'
    BY <1>1, <1>2, <1>5, <2>1, <2>3 DEF TypeOK, Envelope
  <2>5. Counted'
    BY <1>1, <1>2, <1>6, <1>7, <2>1 DEF Counted
  <2>6. PingedOnce'
    BY <1>1, <1>2, <1>5, <2>1 DEF PingedOnce
  <2>7. ViewFollows'
    BY <1>1, <1>2, <1>5, <1>7, <2>1, Leaves DEF ViewFollows, WillSee
  <2>8. QED
    BY <1>4, <2>4, <2>5, <2>6, <2>7, InvPartsNext
<1>8. CASE Head(terminal_outbox).to = "venu"
  <2>1. HasRoom(to_venu) /\ to_venu' = Append(to_venu, m) /\ UNCHANGED to_desktop
    BY <1>8 DEF TerminalSend
  <2>2. m \in ToVenu /\ m.type # "READY" /\ m.type # "STATE"
    <3>1. m \in ToVenu
      BY <1>5, <1>8, EnvelopeType
    <3>2. QED
      BY <3>1, MessageTypes
  <2>3. /\ to_venu' \in Seq(ToVenu) /\ Len(to_venu') = Len(to_venu) + 1 /\ Len(to_venu') <= Capacity
        /\ DOMAIN to_venu' = 1..(Len(to_venu) + 1) /\ to_venu'[Len(to_venu) + 1] = m
        /\ DOMAIN to_venu = 1..Len(to_venu) /\ Len(to_venu) \in Nat
        /\ \A i \in 1..Len(to_venu) : to_venu'[i] = to_venu[i]
    BY <1>5, <2>1, <2>2, More, BoundsAssumption DEF HasRoom
  <2>4. TypeOK'
    BY <1>1, <1>2, <1>5, <2>1, <2>3 DEF TypeOK, Envelope
  <2>5. Counted'
    BY <1>1, <1>2, <1>6, <1>8, <2>1, <2>3 DEF Counted
  <2>6. PingedOnce'
    <3> SUFFICES ASSUME greeted
                 PROVE  /\ \A i \in DOMAIN to_venu' : to_venu'[i].type # "PING"
                        /\ \A i \in DOMAIN terminal_outbox' :
                              terminal_outbox'[i].to = "venu" => terminal_outbox'[i].message.type # "PING"
      BY <1>1 DEF PingedOnce
    <3>1. /\ \A i \in DOMAIN to_venu : to_venu[i].type # "PING"
          /\ \A i \in DOMAIN terminal_outbox :
                terminal_outbox[i].to = "venu" => terminal_outbox[i].message.type # "PING"
      BY <1>2 DEF PingedOnce
    <3>2. m.type # "PING"
      BY <1>5, <1>8, <3>1
    <3>3. \A i \in DOMAIN to_venu' : to_venu'[i].type # "PING"
      BY <2>3, <3>1, <3>2
    <3>4. ASSUME NEW i \in DOMAIN terminal_outbox', terminal_outbox'[i].to = "venu"
          PROVE  terminal_outbox'[i].message.type # "PING"
      <4>1. i + 1 \in DOMAIN terminal_outbox /\ terminal_outbox'[i] = terminal_outbox[i + 1]
        BY <1>5
      <4>2. QED
        BY <3>1, <3>4, <4>1
    <3>5. QED
      BY <3>3, <3>4
  <2>7. ViewFollows'
    BY <1>1, <1>2, <1>5, <2>1, <2>2, Leaves DEF ViewFollows, WillSee
  <2>8. QED
    BY <1>4, <2>4, <2>5, <2>6, <2>7, InvPartsNext
<1>9. QED
  BY <1>5, <1>7, <1>8, EnvelopeType

\* What the terminal sends for a newline
LEMMA Submits ==
    ASSUME NEW o,
           o = Addressed("desktop", <<Output, Ready(FALSE)>>)
               \o Addressed("venu", <<Msg("LINE")>>) \o Addressed("desktop", <<State(0)>>)
    PROVE  /\ o \in Seq(Envelope) /\ Owed(o) = 1
           /\ Messages(o) = <<Output, Ready(FALSE), Msg("LINE"), State(0)>>
           /\ \A i \in DOMAIN o : o[i].message.type # "PING"
<1> DEFINE ToD(m) == [to |-> "desktop", message |-> m]
           ToV(m) == [to |-> "venu", message |-> m]
<1>1. /\ Output \in ToDesktop /\ Output.type = "OUTPUT"
      /\ Ready(FALSE) \in ToDesktop /\ Ready(FALSE).type = "READY"
      /\ Msg("LINE") \in ToVenu /\ Msg("LINE").type = "LINE"
      /\ State(0) \in ToDesktop /\ State(0).type = "STATE"
  BY BoundsAssumption DEF Output, Ready, Msg, State, ToDesktop, ToVenu, Plain, View
<1>2. PICK a, b, c, d : a = ToD(Output) /\ b = ToD(Ready(FALSE)) /\ c = ToV(Msg("LINE")) /\ d = ToD(State(0))
  OBVIOUS
<1>3. /\ a.to = "desktop" /\ a.message = Output
      /\ b.to = "desktop" /\ b.message = Ready(FALSE)
      /\ c.to = "venu" /\ c.message = Msg("LINE")
      /\ d.to = "desktop" /\ d.message = State(0)
  BY <1>2
<1>4. a \in Envelope /\ b \in Envelope /\ c \in Envelope /\ d \in Envelope
  BY <1>1, <1>2 DEF Envelope
<1>5. o = <<a, b>> \o <<c>> \o <<d>>
  <2>1. Addressed("desktop", <<Output, Ready(FALSE)>>) = <<a, b>>
    <3>1. Addressed("desktop", <<Output, Ready(FALSE)>>) = [i \in 1..2 |-> ToD(<<Output, Ready(FALSE)>>[i])]
      BY DEF Addressed
    <3>2. <<a, b>> = [i \in 1..2 |-> <<a, b>>[i]]
      OBVIOUS
    <3>3. \A i \in 1..2 : <<a, b>>[i] = ToD(<<Output, Ready(FALSE)>>[i])
      <4>1. <<a, b>>[1] = ToD(<<Output, Ready(FALSE)>>[1])
        BY <1>2
      <4>2. <<a, b>>[2] = ToD(<<Output, Ready(FALSE)>>[2])
        BY <1>2
      <4>3. \A i \in 1..2 : i = 1 \/ i = 2
        OBVIOUS
      <4> HIDE DEF ToD
      <4>4. QED
        BY <4>1, <4>2, <4>3
    <3>4. QED
      BY <3>1, <3>2, <3>3
  <2>2. Addressed("venu", <<Msg("LINE")>>) = <<c>>
    <3>1. Addressed("venu", <<Msg("LINE")>>) = [i \in 1..1 |-> ToV(Msg("LINE"))]
      BY DEF Addressed
    <3>2. QED
      BY <1>2, <3>1
  <2>3. Addressed("desktop", <<State(0)>>) = <<d>>
    <3>1. Addressed("desktop", <<State(0)>>) = [i \in 1..1 |-> ToD(State(0))]
      BY DEF Addressed
    <3>2. QED
      BY <1>2, <3>1
  <2>4. QED
    BY <2>1, <2>2, <2>3
<1> HIDE DEF ToD, ToV
<1>6. o \in Seq(Envelope) /\ DOMAIN o = 1..4 /\ o[1] = a /\ o[2] = b /\ o[3] = c /\ o[4] = d
  <2> PICK p : p = Append(<<a, b>>, c)
    OBVIOUS
  <2>1. <<a, b>> \in Seq(Envelope) /\ <<c>> \in Seq(Envelope) /\ <<d>> \in Seq(Envelope) /\ Len(<<a, b>>) = 2
    BY <1>4
  <2>2. p \in Seq(Envelope) /\ Len(p) = 3 /\ p[1] = a /\ p[2] = b /\ p[3] = c
    BY <1>4, <2>1, More
  <2>3. o = Append(p, d)
    <3>1. <<a, b>> \o <<c>> = p
      BY <1>4, <2>1, AppendIsConcat
    <3>2. p \o <<d>> = Append(p, d)
      BY <1>4, <2>2, AppendIsConcat
    <3>3. QED
      BY <1>5, <3>1, <3>2
  <2>4. o \in Seq(Envelope) /\ DOMAIN o = 1..4 /\ o[4] = d /\ \A i \in 1..3 : o[i] = p[i]
    <3> PICK q : q = Append(p, d)
      OBVIOUS
    <3>1. q \in Seq(Envelope) /\ DOMAIN q = 1..4 /\ q[4] = d /\ \A i \in 1..3 : q[i] = p[i]
      BY <1>4, <2>2, More
    <3>2. q = o
      BY <2>3
    <3>3. QED
      BY <3>1, <3>2, Zenon
  <2>5. 1 \in 1..3 /\ 2 \in 1..3 /\ 3 \in 1..3
    OBVIOUS
  <2>6. QED
    BY <2>2, <2>4, <2>5, Zenon
<1>7. Owed(o) = 1
  <2>1. {i \in DOMAIN o : o[i].to = "venu"} = {3}
    <3>1. \A i : i \in 1..4 <=> i = 1 \/ i = 2 \/ i = 3 \/ i = 4
      OBVIOUS
    <3>2. o[1].to # "venu" /\ o[2].to # "venu" /\ o[3].to = "venu" /\ o[4].to # "venu"
      BY <1>3, <1>6
    <3>3. \A i : i \in DOMAIN o /\ o[i].to = "venu" <=> i = 3
      BY <1>6, <3>1, <3>2
    <3>4. QED
      BY <3>3
  <2>2. QED
    BY <2>1, FS_Singleton DEF Owed
<1>8. Messages(o) = <<Output, Ready(FALSE), Msg("LINE"), State(0)>>
  <2> PICK s : s = <<Output, Ready(FALSE), Msg("LINE"), State(0)>>
    OBVIOUS
  <2>1. Messages(o) = [i \in 1..4 |-> o[i].message]
    BY <1>6 DEF Messages
  <2>2. s = [i \in 1..4 |-> s[i]]
    OBVIOUS
  <2>3. s[1] = Output /\ s[2] = Ready(FALSE) /\ s[3] = Msg("LINE") /\ s[4] = State(0)
    OBVIOUS
  <2>4. \A i \in 1..4 : o[i].message = s[i]
    <3>1. \A i \in 1..4 : i = 1 \/ i = 2 \/ i = 3 \/ i = 4
      OBVIOUS
    <3>2. QED
      BY <1>3, <1>6, <2>3, <3>1
  <2>5. QED
    BY <2>1, <2>2, <2>4
<1>9. \A i \in DOMAIN o : o[i].message.type # "PING"
  <2>1. \A i \in 1..4 : i = 1 \/ i = 2 \/ i = 3 \/ i = 4
    OBVIOUS
  <2>2. /\ o[1].message.type # "PING" /\ o[2].message.type # "PING"
        /\ o[3].message.type # "PING" /\ o[4].message.type # "PING"
    BY <1>1, <1>3, <1>6
  <2>3. QED
    BY <1>6, <2>1, <2>2
<1>10. QED
  BY <1>6, <1>7, <1>8, <1>9

\* The terminal tells the desktop.
LEMMA Tells ==
    ASSUME Inv, PingedOnce, NEW sent \in Seq(ToDesktop), terminal_outbox = <<>>,
           terminal_outbox' = Addressed("desktop", sent), UNCHANGED <<greeted, to_venu>>
    PROVE  /\ terminal_outbox' \in Seq(Envelope) /\ Owed(terminal_outbox)' = Owed(terminal_outbox)
           /\ Messages(terminal_outbox)' = sent
           /\ PingedOnce'
<1>1. /\ terminal_outbox' \in Seq(Envelope) /\ Messages(terminal_outbox') = sent
      /\ \A i \in DOMAIN terminal_outbox' : terminal_outbox'[i].to = "desktop"
      /\ Owed(terminal_outbox') = 0
  BY Told
<1>2. Owed(terminal_outbox) = 0
  BY InvParts, Amounts
<1>3. PingedOnce'
  BY <1>1 DEF PingedOnce
<1>4. QED
  BY <1>1, <1>2, <1>3

\* What the terminal makes of a key
LEMMA HandleKeyInv ==
    ASSUME Inv, NEW key \in Keys, terminal_outbox = <<>>, venu_pc = "running", HandleKey(key),
           UNCHANGED <<shown_input, shown_ready, venuVars, to_desktop, to_venu, from_venu>>
    PROVE  /\ terminal_outbox' \in Seq(Envelope) /\ shell_ready' \in BOOLEAN
           /\ input_length' \in 0..(LineCapacity - 1)
           /\ Counted' /\ PingedOnce' /\ ViewFollows'
<1>1. TypeOK /\ Counted /\ PingedOnce
  BY InvParts
<1>2. UNCHANGED <<venu_pc, greeted, venu_outbox, shown_input, shown_ready, to_desktop, to_venu, from_venu>>
  BY DEF venuVars
<1>3. /\ shell_ready \in BOOLEAN /\ input_length \in 0..(LineCapacity - 1) /\ terminal_outbox \in Seq(Envelope)
      /\ LineCapacity \in Nat \ {0}
  BY <1>1, BoundsAssumption DEF TypeOK, Envelope
<1>4. /\ Owed(terminal_outbox) = 0 /\ Len(to_venu) \in Nat
      /\ Count(venu_outbox, "COMPLETE") \in Nat /\ Count(from_venu, "COMPLETE") \in Nat
  BY <1>1, Amounts
<1>5. CASE shell_ready /\ SubmitLine
  <2> PICK s : s = <<Output, Ready(FALSE), Msg("LINE"), State(0)>>
    OBVIOUS
  <2>1. shell_ready' = FALSE /\ input_length' = 0
    BY <1>5 DEF SubmitLine
  <2>2. /\ terminal_outbox' \in Seq(Envelope) /\ Owed(terminal_outbox)' = 1
        /\ Messages(terminal_outbox)' = s
        /\ \A i \in DOMAIN terminal_outbox' : terminal_outbox'[i].message.type # "PING"
    BY <1>5, Submits, Zenon DEF SubmitLine
  <2>3. Len(to_venu) = 0 /\ Count(venu_outbox, "COMPLETE") = 0 /\ Count(from_venu, "COMPLETE") = 0
    BY <1>1, <1>4, <1>5 DEF Counted
  <2>4. Counted'
    BY <1>2, <2>1, <2>2, <2>3 DEF Counted
  <2>5. PingedOnce'
    BY <1>1, <1>2, <2>2 DEF PingedOnce
  <2>6. Shows(s, "READY", shell_ready, shell_ready') /\ Shows(s, "STATE", input_length, input_length')
    BY <2>1, Announced
  <2>7. ViewFollows'
    BY <1>2, <2>2, <2>6, Announces
  <2>8. QED
    BY <1>3, <2>1, <2>2, <2>4, <2>5, <2>7, 0 \in 0..(LineCapacity - 1)
<1>6. ASSUME NEW length \in 0..(LineCapacity - 1), EditLine(length)
      PROVE  /\ terminal_outbox' \in Seq(Envelope) /\ shell_ready' \in BOOLEAN
             /\ input_length' \in 0..(LineCapacity - 1)
             /\ Counted' /\ PingedOnce' /\ ViewFollows'
  <2> PICK s : s = <<State(length)>>
    OBVIOUS
  <2>1. input_length' = length /\ UNCHANGED shell_ready /\ terminal_outbox' = Addressed("desktop", s)
    BY <1>6 DEF EditLine, Tell
  <2>2. s \in Seq(ToDesktop)
    <3>1. State(length) \in ToDesktop
      BY DEF State, ToDesktop, View
    <3>2. QED
      BY <3>1
  <2>3. /\ terminal_outbox' \in Seq(Envelope) /\ Owed(terminal_outbox)' = Owed(terminal_outbox)
        /\ Messages(terminal_outbox)' = s /\ PingedOnce'
    BY <1>1, <1>2, <2>1, <2>2, Tells
  <2>4. Counted'
    BY <1>1, <1>2, <2>1, <2>3 DEF Counted
  <2>5. Shows(s, "READY", shell_ready, shell_ready') /\ Shows(s, "STATE", input_length, input_length')
    BY <2>1, Announced
  <2>6. ViewFollows'
    BY <1>2, <2>3, <2>5, Announces
  <2>7. QED
    BY <1>3, <2>1, <2>3, <2>4, <2>6
<1>7. CASE UNCHANGED <<input_length, shell_ready, terminal_outbox>>
  BY <1>2, <1>3, <1>7, Keeps
<1>8. \/ shell_ready /\ SubmitLine
      \/ input_length # 0 /\ EditLine(input_length - 1)
      \/ input_length < LineCapacity - 1 /\ EditLine(input_length + 1)
      \/ UNCHANGED <<input_length, shell_ready, terminal_outbox>>
  BY DEF HandleKey, AcceptsKeys
<1>9. CASE input_length # 0 /\ EditLine(input_length - 1)
  <2>1. input_length - 1 \in 0..(LineCapacity - 1)
    BY <1>3, <1>9
  <2>2. QED
    BY <1>6, <1>9, <2>1
<1>10. CASE input_length < LineCapacity - 1 /\ EditLine(input_length + 1)
  <2>1. input_length + 1 \in 0..(LineCapacity - 1)
    BY <1>3, <1>10
  <2>2. QED
    BY <1>6, <1>10, <2>1
<1>11. QED
  BY <1>5, <1>7, <1>8, <1>9, <1>10

LEMMA HandleDesktopMessageInv == ASSUME Inv, HandleDesktopMessage PROVE Inv'
<1>1. /\ terminal_pc = "desktop" /\ terminal_pc' = "shell" /\ terminal_outbox = <<>>
      /\ UNCHANGED <<desktop_pc, terminal_open, shown_input, shown_ready, to_desktop, to_venu, from_venu>>
      /\ UNCHANGED <<venu_pc, greeted, venu_outbox>> /\ UNCHANGED venuVars
  BY DEF HandleDesktopMessage, TerminalAt, desktopVars, venuVars
<1>2. TypeOK /\ Phases /\ Counted /\ PingedOnce /\ terminal_outbox \in Seq(Envelope)
  BY InvParts DEF TypeOK, Envelope
<1>3. Phases' /\ CompleteLast' /\ venu_pc = "running"
  BY <1>1, <1>2, Keeps, KeepsRunning DEF Phases
<1>4. /\ terminal_outbox' \in Seq(Envelope) /\ shell_ready' \in BOOLEAN
      /\ input_length' \in 0..(LineCapacity - 1)
      /\ to_terminal' \in Seq(ToTerminal) /\ Len(to_terminal') <= Capacity
      /\ Counted' /\ PingedOnce' /\ ViewFollows'
  <2>1. CASE to_terminal = <<>> /\ UNCHANGED <<to_terminal, input_length, shell_ready, terminal_outbox>>
    <3>1. Counted' /\ PingedOnce' /\ ViewFollows'
      BY <1>1, <2>1, Keeps
    <3>2. QED
      BY <1>2, <2>1, <3>1 DEF TypeOK
  <2>2. ASSUME to_terminal # <<>>, to_terminal' = Tail(to_terminal)
        PROVE  /\ Head(to_terminal) \in ToTerminal
               /\ to_terminal' \in Seq(ToTerminal) /\ Len(to_terminal') <= Capacity
    <3>1. to_terminal \in Seq(ToTerminal) /\ Len(to_terminal) <= Capacity
      BY <1>2 DEF TypeOK
    <3>2. QED
      BY <2>2, <3>1, Rest, BoundsAssumption
  <2>3. CASE /\ to_terminal # <<>> /\ to_terminal' = Tail(to_terminal)
             /\ Tell(<<Msg("PONG"), State(input_length), Ready(shell_ready)>>)
             /\ UNCHANGED <<input_length, shell_ready>>
    <3> PICK s : s = <<Msg("PONG"), State(input_length), Ready(shell_ready)>>
      OBVIOUS
    <3>1. s \in Seq(ToDesktop)
      <4>1. /\ Msg("PONG") \in ToDesktop /\ State(input_length) \in ToDesktop
            /\ Ready(shell_ready) \in ToDesktop
        BY <1>2 DEF TypeOK, Msg, State, Ready, ToDesktop, Plain, View
      <4>2. QED
        BY <4>1
    <3>2. /\ terminal_outbox' \in Seq(Envelope) /\ Owed(terminal_outbox)' = Owed(terminal_outbox)
          /\ Messages(terminal_outbox)' = s /\ PingedOnce'
      BY <1>1, <1>2, <2>3, <3>1, Tells DEF Tell
    <3>3. Counted'
      BY <1>1, <1>2, <2>3, <3>2 DEF Counted
    <3>4. Shows(s, "READY", shell_ready, shell_ready') /\ Shows(s, "STATE", input_length, input_length')
      BY <2>3, Announced
    <3>5. ViewFollows'
      BY <1>1, <3>2, <3>4, Announces
    <3>6. QED
      BY <1>2, <2>2, <2>3, <3>2, <3>3, <3>5 DEF TypeOK
  <2>4. CASE /\ to_terminal # <<>> /\ to_terminal' = Tail(to_terminal)
             /\ Head(to_terminal).type = "KEY" /\ HandleKey(Head(to_terminal).key)
    <3>1. Head(to_terminal).key \in Keys
      BY <2>2, <2>4, MessageTypes
    <3>2. /\ terminal_outbox' \in Seq(Envelope) /\ shell_ready' \in BOOLEAN
          /\ input_length' \in 0..(LineCapacity - 1)
          /\ Counted' /\ PingedOnce' /\ ViewFollows'
      BY <1>1, <1>3, <2>4, <3>1, HandleKeyInv
    <3>3. QED
      BY <2>2, <2>4, <3>2
  <2>5. QED
    BY <2>1, <2>3, <2>4 DEF HandleDesktopMessage
<1>5. TypeOK'
  BY <1>1, <1>2, <1>4 DEF TypeOK, Envelope
<1>6. QED
  BY <1>3, <1>4, <1>5, InvPartsNext

\* What is printed in s is followed in s, or is completed by what is yet to come.
Completed(s, coming) ==
    \A i \in DOMAIN s : s[i].type \in Printing =>
        coming \/ \E j \in DOMAIN s : j > i /\ s[j].type = "COMPLETE"

LEMMA CompleteParts ==
    CompleteLast <=> /\ Completed(venu_outbox, FALSE)
                     /\ Completed(from_venu, \E j \in DOMAIN venu_outbox : venu_outbox[j].type = "COMPLETE")
BY DEF CompleteLast, Completed

LEMMA CompletedTail ==
    ASSUME NEW S, NEW s \in Seq(S), s # <<>>, NEW coming \in BOOLEAN, Completed(s, coming)
    PROVE  Completed(Tail(s), coming)
<1>1. /\ Len(s) \in Nat \ {0} /\ DOMAIN s = 1..Len(s) /\ DOMAIN Tail(s) = 1..(Len(s) - 1)
      /\ \A i \in 1..(Len(s) - 1) : Tail(s)[i] = s[i + 1]
  BY Rest
<1> SUFFICES ASSUME NEW i \in DOMAIN Tail(s), Tail(s)[i].type \in Printing, ~ coming
             PROVE  \E j \in DOMAIN Tail(s) : j > i /\ Tail(s)[j].type = "COMPLETE"
  BY DEF Completed
<1>2. i \in 1..(Len(s) - 1) /\ i + 1 \in DOMAIN s /\ s[i + 1].type \in Printing
  BY <1>1
<1>3. PICK k \in DOMAIN s : k > i + 1 /\ s[k].type = "COMPLETE"
  BY <1>2 DEF Completed
<1>4. k - 1 \in DOMAIN Tail(s) /\ k - 1 > i /\ (k - 1) + 1 = k
  BY <1>1, <1>2, <1>3
<1>5. Tail(s)[k - 1].type = "COMPLETE"
  BY <1>1, <1>3, <1>4
<1>6. QED
  BY <1>4, <1>5

LEMMA HandleShellMessageInv == ASSUME Inv, HandleShellMessage PROVE Inv'
<1>1. /\ terminal_pc = "shell" /\ terminal_pc' = "desktop" /\ terminal_outbox = <<>>
      /\ UNCHANGED <<desktop_pc, terminal_open, shown_input, shown_ready, to_desktop, to_venu, to_terminal>>
      /\ UNCHANGED <<venu_pc, greeted, venu_outbox, input_length>>
  BY DEF HandleShellMessage, TerminalAt, desktopVars, venuVars
<1>2. /\ TypeOK /\ Phases /\ Counted /\ PingedOnce /\ CompleteLast
      /\ terminal_outbox \in Seq(Envelope) /\ from_venu \in Seq(FromVenu) /\ Len(from_venu) <= Capacity
  BY InvParts DEF TypeOK, Envelope
<1>3. Phases' /\ venu_pc = "running"
  BY <1>1, <1>2, KeepsRunning DEF Phases
<1>4. ASSUME terminal_outbox' \in Seq(Envelope), shell_ready' \in BOOLEAN,
             from_venu' \in Seq(FromVenu), Len(from_venu') <= Capacity
      PROVE  TypeOK'
  BY <1>1, <1>2, <1>4 DEF TypeOK, Envelope
<1>5. CASE from_venu = <<>>
  <2>1. UNCHANGED <<from_venu, shell_ready, terminal_outbox>>
    BY <1>5 DEF HandleShellMessage
  <2>2. TypeOK'
    BY <1>1, <1>2, <2>1 DEF TypeOK
  <2>3. Counted' /\ PingedOnce' /\ ViewFollows' /\ CompleteLast'
    BY <1>1, <2>1, Keeps
  <2>4. QED
    BY <1>3, <2>2, <2>3, InvPartsNext
<1>6. CASE from_venu # <<>>
  <2> PICK m : m = Head(from_venu)
    OBVIOUS
  <2>1. from_venu' = Tail(from_venu)
    BY <1>6 DEF HandleShellMessage
  <2>2. from_venu' \in Seq(FromVenu) /\ Len(from_venu') <= Capacity
    BY <1>2, <1>6, <2>1, Rest, BoundsAssumption
  <2>3. CompleteLast'
    <3>1. PICK coming \in BOOLEAN :
              coming <=> \E j \in DOMAIN venu_outbox : venu_outbox[j].type = "COMPLETE"
      OBVIOUS
    <3>2. Completed(venu_outbox, FALSE) /\ Completed(from_venu, coming)
      BY <1>2, <3>1 DEF CompleteLast, Completed
    <3>3. Completed(from_venu', coming)
      BY <1>2, <1>6, <2>1, <3>2, CompletedTail
    <3>4. QED
      BY <1>1, <3>1, <3>2, <3>3 DEF CompleteLast, Completed
  <2>4. /\ Count(from_venu, "COMPLETE") = Count(from_venu, "COMPLETE")' + (IF m.type = "COMPLETE" THEN 1 ELSE 0)
        /\ Count(from_venu, "COMPLETE") \in Nat /\ Count(from_venu, "COMPLETE")' \in Nat
    <3>1. /\ Count(from_venu, "COMPLETE")
             = Count(Tail(from_venu), "COMPLETE") + (IF m.type = "COMPLETE" THEN 1 ELSE 0)
          /\ Count(from_venu, "COMPLETE") \in Nat /\ Count(Tail(from_venu), "COMPLETE") \in Nat
      BY <1>2, <1>6, CountTail
    <3>2. Count(from_venu, "COMPLETE")' = Count(Tail(from_venu), "COMPLETE")
      BY <2>1 DEF Count
    <3>3. QED
      BY <3>1, <3>2
  <2>5. Owed(terminal_outbox) = 0 /\ Len(to_venu) \in Nat /\ Count(venu_outbox, "COMPLETE") \in Nat
    BY <1>1, <1>2, Amounts
  <2>6. CASE m.type = "PONG" /\ UNCHANGED <<shell_ready, terminal_outbox>>
    <3>1. TypeOK'
      BY <1>2, <1>4, <2>2, <2>6 DEF TypeOK
    <3>2. Counted'
      BY <1>1, <1>2, <2>4, <2>5, <2>6 DEF Counted
    <3>3. PingedOnce' /\ ViewFollows'
      BY <1>1, <2>6, Keeps
    <3>4. QED
      BY <1>3, <2>3, <3>1, <3>2, <3>3, InvPartsNext
  <2>7. CASE m.type \in {"CLEAR", "OUTPUT"} /\ Tell(<<Msg(m.type)>>) /\ UNCHANGED shell_ready
    <3>1. <<Msg(m.type)>> \in Seq(ToDesktop)
      <4> PICK x : x = Msg(m.type)
        OBVIOUS
      <4>1. x \in ToDesktop
        BY <2>7 DEF Msg, ToDesktop, Plain
      <4>2. <<x>> \in Seq(ToDesktop)
        BY <4>1, Single
      <4>3. QED
        BY <4>2
    <3>2. /\ terminal_outbox' \in Seq(Envelope) /\ Owed(terminal_outbox)' = Owed(terminal_outbox)
          /\ Messages(terminal_outbox)' = <<Msg(m.type)>> /\ PingedOnce'
      BY <1>1, <1>2, <2>7, <3>1, Tells DEF Tell
    <3>3. TypeOK'
      BY <1>2, <1>4, <2>2, <2>7, <3>2 DEF TypeOK
    <3>4. Counted'
      BY <1>1, <1>2, <2>4, <2>5, <2>7, <3>2 DEF Counted
    <3>5. /\ Shows(<<Msg(m.type)>>, "READY", shell_ready, shell_ready')
          /\ Shows(<<Msg(m.type)>>, "STATE", input_length, input_length')
      BY <1>1, <2>7, Announced
    <3>6. ViewFollows'
      BY <1>1, <3>2, <3>5, Announces
    <3>7. QED
      BY <1>3, <2>3, <3>2, <3>3, <3>4, <3>6, InvPartsNext
  <2>8. CASE m.type = "COMPLETE" /\ Complete
    <3> PICK s : s = <<Ready(TRUE)>>
      OBVIOUS
    <3>1. s \in Seq(ToDesktop)
      <4> PICK x : x = Ready(TRUE)
        OBVIOUS
      <4>1. x \in ToDesktop
        BY DEF Ready, ToDesktop, View
      <4>2. <<x>> \in Seq(ToDesktop)
        BY <4>1, Single
      <4>3. QED
        BY <4>2
    <3>2. shell_ready' = TRUE /\ terminal_outbox' = Addressed("desktop", s)
      BY <2>8 DEF Complete, Tell
    <3>3. /\ terminal_outbox' \in Seq(Envelope) /\ Owed(terminal_outbox)' = Owed(terminal_outbox)
          /\ Messages(terminal_outbox)' = s /\ PingedOnce'
      BY <1>1, <1>2, <3>1, <3>2, Tells
    <3>4. TypeOK'
      BY <1>4, <2>2, <3>2, <3>3
    <3>5. Counted'
      BY <1>1, <1>2, <1>3, <2>4, <2>5, <2>8, <3>2, <3>3 DEF Counted
    <3>6. Shows(s, "READY", shell_ready, shell_ready') /\ Shows(s, "STATE", input_length, input_length')
      BY <1>1, <3>2, Announced
    <3>7. ViewFollows'
      BY <1>1, <3>3, <3>6, Announces
    <3>8. QED
      BY <1>3, <2>3, <3>3, <3>4, <3>5, <3>7, InvPartsNext
  <2>9. QED
    BY <1>6, <2>6, <2>7, <2>8 DEF HandleShellMessage
<1>7. QED
  BY <1>5, <1>6

-----------------------------------------------------------------------------
(* The shell.                                                               *)

LEMMA VenuSendInv == ASSUME Inv, VenuSend PROVE Inv'
<1> PICK m : m = Head(venu_outbox)
  OBVIOUS
<1>1. /\ venu_outbox # <<>> /\ HasRoom(from_venu)
      /\ from_venu' = Append(from_venu, m) /\ venu_outbox' = Tail(venu_outbox)
      /\ UNCHANGED <<desktop_pc, terminal_open, shown_input, shown_ready>>
      /\ UNCHANGED <<terminal_pc, input_length, shell_ready, terminal_outbox>>
      /\ UNCHANGED <<venu_pc, greeted, to_terminal, to_desktop, to_venu>>
  BY DEF VenuSend, desktopVars, terminalVars
<1>2. /\ TypeOK /\ Phases /\ Counted /\ CompleteLast
      /\ venu_outbox \in Seq(FromVenu) /\ from_venu \in Seq(FromVenu)
  BY InvParts DEF TypeOK
<1>3. terminal_pc \in {"desktop", "shell"}
  BY <1>1, <1>2 DEF TypeOK, Phases, Silent
<1>4. /\ m \in FromVenu /\ m = venu_outbox[1] /\ venu_outbox' \in Seq(FromVenu)
      /\ Len(venu_outbox) \in Nat \ {0} /\ DOMAIN venu_outbox = 1..Len(venu_outbox)
      /\ DOMAIN venu_outbox' = 1..(Len(venu_outbox) - 1)
      /\ \A i \in 1..(Len(venu_outbox) - 1) : venu_outbox'[i] = venu_outbox[i + 1]
  BY <1>1, <1>2, Rest
<1>5. /\ from_venu' \in Seq(FromVenu) /\ Len(from_venu') = Len(from_venu) + 1 /\ Len(from_venu) \in Nat
      /\ DOMAIN from_venu = 1..Len(from_venu) /\ DOMAIN from_venu' = 1..(Len(from_venu) + 1)
      /\ from_venu'[Len(from_venu) + 1] = m /\ \A i \in 1..Len(from_venu) : from_venu'[i] = from_venu[i]
  BY <1>1, <1>2, <1>4, More
<1>6. TypeOK'
  <2>1. Len(from_venu') <= Capacity
    BY <1>1, <1>5, BoundsAssumption DEF HasRoom
  <2>2. QED
    BY <1>1, <1>2, <1>4, <1>5, <2>1 DEF TypeOK
<1>7. Phases' /\ PingedOnce' /\ ViewFollows'
  BY <1>1, <1>2, <1>3, Keeps, KeepsRunning
<1>8. Counted'
  <2>1. /\ Count(venu_outbox, "COMPLETE")
           = Count(Tail(venu_outbox), "COMPLETE") + (IF m.type = "COMPLETE" THEN 1 ELSE 0)
        /\ Count(Tail(venu_outbox), "COMPLETE") \in Nat
    BY <1>1, <1>2, CountTail
  <2>2. /\ Count(Append(from_venu, m), "COMPLETE")
           = Count(from_venu, "COMPLETE") + (IF m.type = "COMPLETE" THEN 1 ELSE 0)
        /\ Count(from_venu, "COMPLETE") \in Nat
    BY <1>2, <1>4, CountAppend
  <2>3. /\ Count(venu_outbox, "COMPLETE")' = Count(Tail(venu_outbox), "COMPLETE")
        /\ Count(from_venu, "COMPLETE")' = Count(Append(from_venu, m), "COMPLETE")
    BY <1>1 DEF Count
  <2>4. Owed(terminal_outbox)' = Owed(terminal_outbox) /\ Owed(terminal_outbox) \in Nat /\ Len(to_venu) \in Nat
    BY <1>1, <1>2, Amounts
  <2>5. QED
    BY <1>1, <1>2, <2>1, <2>2, <2>3, <2>4 DEF Counted
<1>9. CompleteLast'
  <2>1. Completed(venu_outbox', FALSE)
    BY <1>1, <1>2, CompleteParts, CompletedTail
  <2>2. ASSUME NEW i \in DOMAIN from_venu', from_venu'[i].type \in Printing
        PROVE  \/ \E j \in DOMAIN from_venu' : j > i /\ from_venu'[j].type = "COMPLETE"
               \/ \E j \in DOMAIN venu_outbox' : venu_outbox'[j].type = "COMPLETE"
    <3>1. ASSUME NEW j \in DOMAIN venu_outbox, venu_outbox[j].type = "COMPLETE", j # 1
          PROVE  \E k \in DOMAIN venu_outbox' : venu_outbox'[k].type = "COMPLETE"
      <4>1. j - 1 \in 1..(Len(venu_outbox) - 1) /\ (j - 1) + 1 = j
        BY <1>4, <3>1
      <4>2. QED
        BY <1>4, <3>1, <4>1
    <3>2. CASE i = Len(from_venu) + 1
      <4>1. venu_outbox[1].type \in Printing /\ 1 \in DOMAIN venu_outbox
        BY <1>4, <1>5, <2>2, <3>2
      <4>2. PICK j \in DOMAIN venu_outbox : j > 1 /\ venu_outbox[j].type = "COMPLETE"
        BY <1>2, <4>1 DEF CompleteLast
      <4>3. QED
        BY <1>4, <3>1, <4>2
    <3>3. CASE i \in DOMAIN from_venu
      <4>1. from_venu[i].type \in Printing
        BY <1>5, <2>2, <3>3
      <4>2. ASSUME NEW j \in DOMAIN from_venu, j > i, from_venu[j].type = "COMPLETE"
            PROVE  \E k \in DOMAIN from_venu' : k > i /\ from_venu'[k].type = "COMPLETE"
        BY <1>5, <4>2
      <4>3. ASSUME NEW j \in DOMAIN venu_outbox, venu_outbox[j].type = "COMPLETE"
            PROVE  \/ \E k \in DOMAIN from_venu' : k > i /\ from_venu'[k].type = "COMPLETE"
                   \/ \E k \in DOMAIN venu_outbox' : venu_outbox'[k].type = "COMPLETE"
        <5>1. CASE j = 1
          <6>1. Len(from_venu) + 1 \in DOMAIN from_venu' /\ Len(from_venu) + 1 > i
            BY <1>5, <3>3
          <6>2. from_venu'[Len(from_venu) + 1].type = "COMPLETE"
            BY <1>4, <1>5, <4>3, <5>1
          <6>3. QED
            BY <6>1, <6>2
        <5>2. CASE j # 1
          BY <3>1, <4>3, <5>2
        <5>3. QED
          BY <5>1, <5>2
      <4>4. QED
        BY <1>2, <3>3, <4>1, <4>2, <4>3 DEF CompleteLast
    <3>4. QED
      BY <1>5, <3>2, <3>3
  <2>3. QED
    BY <2>1, <2>2 DEF CompleteLast, Completed
<1>10. QED
  BY <1>6, <1>7, <1>8, <1>9, InvPartsNext

\* One command's answer, alone and after a PONG
LEMMA AnswerWhole ==
    ASSUME NEW results \in Seq(Plain({"OUTPUT", "CLEAR"})), NEW a, a = Answer(results)
    PROVE  a \in Seq(FromVenu) /\ Count(a, "COMPLETE") = 1 /\ Completed(a, FALSE)
<1>1. /\ a \in Seq(FromVenu) /\ Count(a, "COMPLETE") = 1
      /\ DOMAIN a = 1..(Len(results) + 1) /\ Len(results) \in Nat
      /\ a[Len(results) + 1].type = "COMPLETE"
  BY AnswerComplete
<1>2. ASSUME NEW i \in DOMAIN a, a[i].type \in Printing
      PROVE  \E j \in DOMAIN a : j > i /\ a[j].type = "COMPLETE"
  <2>1. i # Len(results) + 1
    BY <1>1, <1>2 DEF Printing
  <2>2. Len(results) + 1 \in DOMAIN a /\ Len(results) + 1 > i
    BY <1>1, <2>1
  <2>3. QED
    BY <1>1, <2>2
<1>3. QED
  BY <1>1, <1>2 DEF Completed

LEMMA AnswerAfterPong ==
    ASSUME NEW a \in Seq(FromVenu), Count(a, "COMPLETE") = 1, Completed(a, FALSE),
           NEW t, t = <<Msg("PONG")>> \o a
    PROVE  t \in Seq(FromVenu) /\ Count(t, "COMPLETE") = 1 /\ Completed(t, FALSE)
<1> PICK p : p = Msg("PONG")
  OBVIOUS
<1>1. p \in FromVenu /\ p.type = "PONG" /\ <<p>> \in Seq(FromVenu)
  BY DEF Msg, FromVenu, Plain
<1>2. Len(a) \in Nat /\ DOMAIN a = 1..Len(a) /\ <<p>>[1] = p /\ Len(<<p>>) = 1
  BY LenProperties
<1>3. t \in Seq(FromVenu) /\ Len(t) = 1 + Len(a) /\ t[1] = p /\ \A i \in 1..Len(a) : t[i + 1] = a[i]
  <2>1. /\ t \in Seq(FromVenu) /\ Len(t) = 1 + Len(a)
        /\ \A i \in 1..(1 + Len(a)) : t[i] = IF i <= 1 THEN <<p>>[i] ELSE a[i - 1]
    BY <1>1, <1>2, ConcatProperties
  <2>2. 1 \in 1..(1 + Len(a)) /\ \A i \in 1..Len(a) : i + 1 \in 1..(1 + Len(a)) /\ ~ (i + 1 <= 1) /\ (i + 1) - 1 = i
    BY <1>2
  <2>3. QED
    BY <1>2, <2>1, <2>2
<1>4. t # <<>> /\ DOMAIN t = 1..(1 + Len(a))
  BY <1>2, <1>3, LenProperties, EmptySeq
<1>5. Head(t) = p /\ Tail(t) = a
  <2>1. /\ Head(t) = t[1] /\ Tail(t) \in Seq(FromVenu) /\ Len(Tail(t)) = Len(a)
        /\ \A i \in 1..Len(a) : Tail(t)[i] = t[i + 1]
    <3>1. /\ Head(t) = t[1] /\ Tail(t) \in Seq(FromVenu) /\ Len(Tail(t)) = Len(t) - 1
          /\ \A i \in 1..(Len(t) - 1) : Tail(t)[i] = t[i + 1]
      BY <1>3, <1>4, Rest
    <3>2. Len(t) - 1 = Len(a)
      BY <1>2, <1>3
    <3>3. QED
      BY <3>1, <3>2
  <2>2. Tail(t) = [i \in 1..Len(a) |-> Tail(t)[i]] /\ a = [i \in 1..Len(a) |-> a[i]]
    BY <2>1, AsFunction
  <2>3. \A i \in 1..Len(a) : Tail(t)[i] = a[i]
    BY <1>3, <2>1
  <2>4. QED
    BY <1>3, <2>1, <2>2, <2>3
<1>6. Count(t, "COMPLETE") = 1
  <2>1. Count(t, "COMPLETE") = Count(Tail(t), "COMPLETE") + (IF Head(t).type = "COMPLETE" THEN 1 ELSE 0)
    BY <1>3, <1>4, CountTail
  <2>2. Head(t).type # "COMPLETE"
    BY <1>1, <1>5
  <2>3. Count(t, "COMPLETE") = 1 + 0
    BY <1>5, <2>1, <2>2, Zenon
  <2>4. QED
    BY <2>3
<1>7. ASSUME NEW i \in DOMAIN t, t[i].type \in Printing
      PROVE  \E j \in DOMAIN t : j > i /\ t[j].type = "COMPLETE"
  <2>1. i # 1
    BY <1>1, <1>3, <1>7 DEF Printing
  <2>2. i - 1 \in DOMAIN a /\ (i - 1) + 1 = i
    BY <1>2, <1>4, <2>1
  <2>3. a[i - 1].type \in Printing
    BY <1>2, <1>3, <1>7, <2>2
  <2>4. PICK k \in DOMAIN a : k > i - 1 /\ a[k].type = "COMPLETE"
    BY <2>2, <2>3 DEF Completed
  <2>5. k + 1 \in DOMAIN t /\ k + 1 > i /\ t[k + 1].type = "COMPLETE"
    BY <1>2, <1>3, <1>4, <2>2, <2>4
  <2>6. QED
    BY <2>5
<1>8. QED
  BY <1>3, <1>6, <1>7 DEF Completed

LEMMA VenuReceiveInv == ASSUME Inv, VenuReceive PROVE Inv'
<1>1. /\ venu_pc = "running" /\ venu_outbox = <<>> /\ to_venu # <<>> /\ to_venu' = Tail(to_venu)
      /\ UNCHANGED <<desktop_pc, terminal_open, shown_input, shown_ready>>
      /\ UNCHANGED <<terminal_pc, input_length, shell_ready, terminal_outbox>>
      /\ UNCHANGED <<venu_pc, to_terminal, to_desktop, from_venu>>
  BY DEF VenuReceive, desktopVars, terminalVars
<1>2. /\ TypeOK /\ Phases /\ Counted /\ PingedOnce /\ CompleteLast
      /\ to_venu \in Seq(ToVenu) /\ from_venu \in Seq(FromVenu) /\ Len(to_venu) <= Capacity
      /\ terminal_outbox \in Seq(Envelope)
  BY InvParts DEF TypeOK, Envelope
<1>3. terminal_pc \in {"desktop", "shell"}
  BY <1>1, <1>2 DEF TypeOK, Phases, Silent
<1>4. /\ Len(to_venu) \in Nat \ {0} /\ Head(to_venu) = to_venu[1] /\ Head(to_venu) \in ToVenu
      /\ DOMAIN to_venu = 1..Len(to_venu)
      /\ to_venu' \in Seq(ToVenu) /\ Len(to_venu') = Len(to_venu) - 1
      /\ DOMAIN to_venu' = 1..(Len(to_venu) - 1)
  BY <1>1, <1>2, Rest
<1>5. /\ shell_ready = FALSE /\ Owed(terminal_outbox) = 0 /\ Len(to_venu) = 1
      /\ Count(from_venu, "COMPLETE") = 0
  <2>1. /\ Owed(terminal_outbox) \in Nat /\ Count(venu_outbox, "COMPLETE") \in Nat
        /\ Count(from_venu, "COMPLETE") \in Nat
    BY <1>2, Amounts
  <2>2. Owed(terminal_outbox) + Len(to_venu) + Count(venu_outbox, "COMPLETE") + Count(from_venu, "COMPLETE")
        = IF shell_ready THEN 0 ELSE 1
    BY <1>1, <1>2 DEF Counted
  <2>3. ~ shell_ready
    BY <1>4, <2>1, <2>2
  <2>4. shell_ready = FALSE
    BY <1>2, <2>3 DEF TypeOK
  <2>5. QED
    BY <1>4, <2>1, <2>2, <2>4
<1>6. \A i \in DOMAIN terminal_outbox : terminal_outbox[i].to # "venu"
  <2> DEFINE I == {i \in DOMAIN terminal_outbox : terminal_outbox[i].to = "venu"}
  <2>1. IsFiniteSet(I)
    <3>1. Len(terminal_outbox) \in Nat /\ DOMAIN terminal_outbox = 1..Len(terminal_outbox)
      BY <1>2, LenProperties
    <3>2. IsFiniteSet(1..Len(terminal_outbox))
      BY <3>1, FS_Interval
    <3>3. QED
      BY <3>1, <3>2, FS_Subset
  <2>2. Cardinality(I) = 0
    BY <1>5 DEF Owed
  <2>3. I = {}
    <3> HIDE DEF I
    <3>1. QED
      BY <2>1, <2>2, FS_EmptySet
  <2>4. QED
    BY <2>3
<1>7. venu_outbox' \in Seq(FromVenu) /\ Count(venu_outbox', "COMPLETE") = 1 /\ Completed(venu_outbox', FALSE)
      /\ greeted' \in BOOLEAN
  <2>1. CASE /\ Head(to_venu).type = "PING"
             /\ venu_outbox' = <<Msg("PONG")>> \o (IF greeted THEN <<>> ELSE Answer(Greeting))
             /\ greeted' = TRUE
    <3>1. ~ greeted
      <4>1. 1 \in DOMAIN to_venu /\ to_venu[1].type = "PING"
        BY <1>4, <2>1
      <4>2. QED
        BY <1>2, <4>1 DEF PingedOnce
    <3>2. Greeting \in Seq(Plain({"OUTPUT", "CLEAR"}))
      <4>1. Output \in Plain({"OUTPUT", "CLEAR"})
        BY DEF Output, Msg, Plain
      <4>2. PICK n \in Nat : n = IF MaxOutput < 4 THEN MaxOutput ELSE 4
        BY BoundsAssumption
      <4>3. Greeting = [i \in 1..n |-> Output]
        BY <4>2 DEF Greeting
      <4>4. QED
        BY <4>1, <4>3
    <3> PICK a : a = Answer(Greeting)
      OBVIOUS
    <3>3. a \in Seq(FromVenu) /\ Count(a, "COMPLETE") = 1 /\ Completed(a, FALSE)
      BY <3>2, AnswerWhole
    <3>4. venu_outbox' = <<Msg("PONG")>> \o a
      BY <2>1, <3>1
    <3>5. QED
      BY <2>1, <3>3, <3>4, AnswerAfterPong
  <2>2. CASE /\ Head(to_venu).type = "LINE"
             /\ \E n \in 0..MaxOutput :
                  \E results \in [1..n -> Plain({"OUTPUT", "CLEAR"})] : venu_outbox' = Answer(results)
             /\ UNCHANGED greeted
    <3>. PICK n \in 0..MaxOutput :
             \E results \in [1..n -> Plain({"OUTPUT", "CLEAR"})] : venu_outbox' = Answer(results)
      BY <2>2
    <3>1. PICK results \in [1..n -> Plain({"OUTPUT", "CLEAR"})] : venu_outbox' = Answer(results)
      OBVIOUS
    <3>2. results \in Seq(Plain({"OUTPUT", "CLEAR"}))
      <4>1. n \in Nat
        BY BoundsAssumption
      <4>2. QED
        BY <4>1, SeqDef
    <3>3. greeted' \in BOOLEAN
      BY <1>2, <2>2 DEF TypeOK
    <3>4. QED
      BY <3>1, <3>2, <3>3, AnswerWhole
  <2>3. QED
    BY <2>1, <2>2 DEF VenuReceive
<1>8. TypeOK'
  <2>1. Len(to_venu') <= Capacity
    BY <1>2, <1>4, <1>5, BoundsAssumption
  <2>2. QED
    BY <1>1, <1>2, <1>4, <1>7, <2>1 DEF TypeOK
<1>9. Phases' /\ ViewFollows'
  BY <1>1, <1>2, <1>3, Keeps, KeepsRunning
<1>10. PingedOnce'
  BY <1>1, <1>4, <1>5, <1>6 DEF PingedOnce
<1>11. Counted'
  <2>1. Len(to_venu') = 0
    BY <1>4, <1>5
  <2>2. Owed(terminal_outbox)' = 0 /\ Count(from_venu, "COMPLETE")' = 0 /\ Count(venu_outbox, "COMPLETE")' = 1
    BY <1>1, <1>5, <1>7
  <2>3. QED
    <3>1. Owed(terminal_outbox)' + Len(to_venu)' + Count(venu_outbox, "COMPLETE")' + Count(from_venu, "COMPLETE")' = 1
      BY <2>1, <2>2
    <3>2. ~ shell_ready'
      BY <1>1, <1>5
    <3>3. QED
      BY <3>1, <3>2 DEF Counted
<1>12. CompleteLast'
  <2>1. \A i \in DOMAIN from_venu : from_venu[i].type # "COMPLETE"
    BY <1>2, <1>5, CountZero
  <2>2. \A i \in DOMAIN from_venu : from_venu[i].type \notin Printing
    BY <1>1, <1>2, <2>1 DEF CompleteLast
  <2>3. QED
    BY <1>1, <1>7, <2>2 DEF CompleteLast, Completed
<1>13. QED
  BY <1>8, <1>9, <1>10, <1>11, <1>12, InvPartsNext

-----------------------------------------------------------------------------
(* Every step, and what follows.                                            *)

LEMMA NextInv == Inv /\ [Next]_vars => Inv'
<1> SUFFICES ASSUME Inv, [Next]_vars PROVE Inv'
  OBVIOUS
<1>1. CASE Desktop
  BY <1>1, ReadMouseInv, SpawnTerminalInv, PingTerminalInv, ReadKeyboardInv, DrainTerminalInv DEF Desktop
<1>2. CASE Terminal
  BY <1>2, StartShellInv, TerminalSendInv, HandleDesktopMessageInv, HandleShellMessageInv DEF Terminal
<1>3. CASE Venu
  BY <1>3, VenuSendInv, VenuReceiveInv DEF Venu
<1>4. CASE UNCHANGED vars
  <2>1. /\ UNCHANGED <<desktop_pc, terminal_open, shown_input, shown_ready>>
        /\ UNCHANGED <<terminal_pc, input_length, shell_ready, terminal_outbox>>
        /\ UNCHANGED <<venu_pc, greeted, venu_outbox>> /\ UNCHANGED venuVars
        /\ UNCHANGED <<to_terminal, to_desktop, to_venu, from_venu>>
    BY <1>4 DEF vars, desktopVars, terminalVars, venuVars, queues
  <2>2. TypeOK /\ Phases
    BY InvParts
  <2>3. TypeOK'
    BY <2>1, <2>2 DEF TypeOK
  <2>4. Counted' /\ PingedOnce' /\ ViewFollows' /\ CompleteLast' /\ (Silent => Silent')
    BY <2>1, Keeps
  <2>5. Phases'
    BY <2>1, <2>2, <2>4 DEF Phases
  <2>6. QED
    BY <2>3, <2>4, <2>5, InvPartsNext
<1>5. QED
  BY <1>1, <1>2, <1>3, <1>4 DEF Next

\* The invariant holds of every execution, fair or not.
THEOREM Invariance == Spec => []Inv
BY InitInv, NextInv, PTL DEF Spec

\* One command at a time: while the terminal waits for VENU exactly one PING,
\* LINE or COMPLETE is under way between them, and none while it takes keys
\* (send_channel of the terminal, send_message of VENU).
THEOREM OneCommand == Spec => []OneCommandAtATime
<1>1. Inv => OneCommandAtATime
  BY DEF Inv
<1>2. QED
  BY <1>1, Invariance, PTL

\* Once the terminal has sent everything and the desktop has read it, the
\* desktop shows the terminal's line and prompt, whether keys were dropped,
\* the window was closed or the queue was full in between.
THEOREM ViewConvergence == Spec => []ViewConverges
<1>1. ASSUME Inv PROVE ViewConverges
  <2> SUFFICES ASSUME terminal_outbox = <<>>, to_desktop = <<>>
               PROVE  shown_ready = shell_ready /\ shown_input = input_length
    BY DEF ViewConverges
  <2>1. ViewFollows /\ Messages(terminal_outbox) = <<>>
    BY <1>1, InvParts DEF Messages
  <2>2. \E w : Shows(<<>>, "READY", shown_ready, w) /\ Shows(<<>>, "READY", w, shell_ready)
    BY <2>1 DEF ViewFollows, WillSee
  <2>3. \E w : Shows(<<>>, "STATE", shown_input, w) /\ Shows(<<>>, "STATE", w, input_length)
    BY <2>1 DEF ViewFollows, WillSee
  <2>4. QED
    BY <2>2, <2>3, ShowsNothing
<1>2. QED
  BY <1>1, Invariance, PTL

\* A prompt that stays on the screen comes after all the output of its command:
\* nothing VENU printed is still in its outbox or in its channel.
THEOREM PromptOutput == Spec => []PromptAfterOutput
<1>1. ASSUME Inv PROVE PromptAfterOutput
  <2> SUFFICES ASSUME shown_ready, ~ ReadyInFlight
               PROVE  \A type \in {"OUTPUT", "CLEAR"} : Count(venu_outbox, type) = 0 /\ Count(from_venu, type) = 0
    BY DEF PromptAfterOutput
  <2>1. TypeOK /\ Counted /\ Phases /\ ViewFollows /\ CompleteLast
    BY <1>1, InvParts
  <2>2. venu_outbox \in Seq(FromVenu) /\ from_venu \in Seq(FromVenu)
    BY <2>1 DEF TypeOK
  <2>3. Places(to_desktop, "READY") = {} /\ Places(Messages(terminal_outbox), "READY") = {}
    BY DEF ReadyInFlight, Places, Messages
  <2>4. PICK w : Shows(to_desktop, "READY", shown_ready, w) /\ Shows(Messages(terminal_outbox), "READY", w, shell_ready)
    BY <2>1 DEF ViewFollows, WillSee
  <2>5. shown_ready = w /\ w = shell_ready
    BY <2>3, <2>4 DEF Shows
  <2>6. shell_ready
    BY <2>5
  <2>7. venu_pc = "running"
    BY <2>1, <2>6 DEF TypeOK, Phases, Silent
  <2>8. Count(venu_outbox, "COMPLETE") = 0 /\ Count(from_venu, "COMPLETE") = 0
    <3>1. Owed(terminal_outbox) \in Nat /\ Len(to_venu) \in Nat
          /\ Count(venu_outbox, "COMPLETE") \in Nat /\ Count(from_venu, "COMPLETE") \in Nat
      BY <2>1, Amounts
    <3>2. Owed(terminal_outbox) + Len(to_venu) + Count(venu_outbox, "COMPLETE") + Count(from_venu, "COMPLETE") = 0
      BY <2>1, <2>6, <2>7 DEF Counted
    <3>3. QED
      BY <3>1, <3>2
  <2>9. /\ \A i \in DOMAIN venu_outbox : venu_outbox[i].type # "COMPLETE"
        /\ \A i \in DOMAIN from_venu : from_venu[i].type # "COMPLETE"
    BY <2>2, <2>8, CountZero
  <2>10. /\ \A i \in DOMAIN venu_outbox : venu_outbox[i].type \notin Printing
         /\ \A i \in DOMAIN from_venu : from_venu[i].type \notin Printing
    BY <2>1, <2>9 DEF CompleteLast
  <2>11. ASSUME NEW type \in {"OUTPUT", "CLEAR"}
         PROVE  Count(venu_outbox, type) = 0 /\ Count(from_venu, type) = 0
    <3>1. /\ \A i \in DOMAIN venu_outbox : venu_outbox[i].type # type
          /\ \A i \in DOMAIN from_venu : from_venu[i].type # type
      BY <2>10 DEF Printing
    <3>2. QED
      BY <2>2, <3>1, CountZero
  <2>12. QED
    BY <2>11
<1>2. QED
  BY <1>1, Invariance, PTL

-----------------------------------------------------------------------------
(* The devices' bytes.                                                      *)

MouseBytes == {Packet(m)[k] : m \in Movements, k \in 1..3}

ShiftKeys == {LeftShift, RightShift}

KeyBytes ==
    [device : {"keyboard"}, value : 0..255, kind : {"key", "shift", "prefix", "extended"}, shifted : BOOLEAN]

\* What a mouse sends of a movement: three bytes, numbered and in order.
LEMMA PacketBytes ==
    ASSUME NEW m \in Movements
    PROVE  /\ Packet(m) \in Seq(MouseBytes)
           /\ Len(Packet(m)) = 3
           /\ \A k \in 1..3 : /\ Packet(m)[k] \in MouseBytes
                              /\ Packet(m)[k].device = "mouse"
                              /\ Packet(m)[k].part = k
                              /\ Packet(m)[k].of = m
<1>1. PICK p : p = Packet(m)
  OBVIOUS
<1>2. \A k \in 1..3 : Packet(m)[k] \in MouseBytes
  BY DEF MouseBytes
<1>3. Len(p) = 3 /\ p = [k \in 1..3 |-> p[k]]
  BY <1>1 DEF Packet
<1>4. p \in Seq(MouseBytes)
  BY <1>1, <1>2, <1>3
<1>5. \A k \in 1..3 : p[k].device = "mouse" /\ p[k].part = k /\ p[k].of = m
  BY <1>1 DEF Packet, MouseByte
<1>6. QED
  BY <1>1, <1>2, <1>3, <1>4, <1>5

\* A byte of the mouse says what it is.
LEMMA MouseByteIs ==
    ASSUME NEW b \in MouseBytes
    PROVE  /\ IsMouse(b)
           /\ b.part \in 1..3
           /\ b.of \in Movements
           /\ b = Packet(b.of)[b.part]
<1>1. PICK m \in Movements, k \in 1..3 : b = Packet(m)[k]
  BY DEF MouseBytes
<1>2. QED
  BY <1>1, PacketBytes DEF IsMouse

\* The numbers of a report, one for each flag and each direction.
LEMMA Numbers ==
    ASSUME NEW m \in Movements
    PROVE  /\ m.dx \in -256..255 /\ m.dy \in -256..255
           /\ m.left \in BOOLEAN /\ m.overflow \in BOOLEAN
           /\ Packet(m)[2].value = m.dx % 256
           /\ Packet(m)[3].value = m.dy % 256
           /\ \E l \in 0..1, x \in 0..1, y \in 0..1, o \in 0..1 :
                /\ Packet(m)[1].value = 8 + l + 16 * x + 32 * y + 64 * o
                /\ m.left <=> l = 1
                /\ m.dx < 0 <=> x = 1
                /\ m.dy < 0 <=> y = 1
                /\ m.overflow <=> o = 1
<1>1. m.dx \in -256..255 /\ m.dy \in -256..255 /\ m.left \in BOOLEAN /\ m.overflow \in BOOLEAN
  BY ConstantsAssumption DEF ConstantsAssumption
<1>2. /\ Packet(m)[1].value = 8 + Flag(m.left, 1) + Flag(m.dx < 0, 16) + Flag(m.dy < 0, 32) + Flag(m.overflow, 64)
      /\ Packet(m)[2].value = m.dx % 256
      /\ Packet(m)[3].value = m.dy % 256
  BY DEF Packet, MouseByte
<1>3. PICK l \in 0..1 : Flag(m.left, 1) = l /\ (m.left <=> l = 1)
  <2>1. CASE m.left
    BY <2>1 DEF Flag
  <2>2. CASE ~ m.left
    BY <2>2 DEF Flag
  <2>3. QED
    BY <2>1, <2>2
<1>4. PICK x \in 0..1 : Flag(m.dx < 0, 16) = 16 * x /\ (m.dx < 0 <=> x = 1)
  <2>1. CASE m.dx < 0
    BY <2>1 DEF Flag
  <2>2. CASE ~ (m.dx < 0)
    BY <2>2 DEF Flag
  <2>3. QED
    BY <2>1, <2>2
<1>5. PICK y \in 0..1 : Flag(m.dy < 0, 32) = 32 * y /\ (m.dy < 0 <=> y = 1)
  <2>1. CASE m.dy < 0
    BY <2>1 DEF Flag
  <2>2. CASE ~ (m.dy < 0)
    BY <2>2 DEF Flag
  <2>3. QED
    BY <2>1, <2>2
<1>6. PICK o \in 0..1 : Flag(m.overflow, 64) = 64 * o /\ (m.overflow <=> o = 1)
  <2>1. CASE m.overflow
    BY <2>1 DEF Flag
  <2>2. CASE ~ m.overflow
    BY <2>2 DEF Flag
  <2>3. QED
    BY <2>1, <2>2
<1>7. Packet(m)[1].value = 8 + l + 16 * x + 32 * y + 64 * o
  BY <1>2, <1>3, <1>4, <1>5, <1>6
<1>8. QED
  BY <1>1, <1>2, <1>3, <1>4, <1>5, <1>6, <1>7

\* The bits of the first byte, taken apart as the driver does.
LEMMA Flags ==
    ASSUME NEW l \in 0..1, NEW x \in 0..1, NEW y \in 0..1, NEW o \in 0..1,
           NEW v, v = 8 + l + 16 * x + 32 * y + 64 * o
    PROVE  /\ Has(v, 1) <=> l = 1
           /\ Has(v, 8)
           /\ Has(v, 16) <=> x = 1
           /\ Has(v, 32) <=> y = 1
           /\ Has(v, 64) <=> o = 1
           /\ ~ Has(v, 128)
<1>1. l \in {0, 1} /\ x \in {0, 1} /\ y \in {0, 1} /\ o \in {0, 1}
  OBVIOUS
<1>2. v \div 1 = v /\ v % 2 = l
  BY <1>1
<1>3. v \div 8 = 1 + 2 * x + 4 * y + 8 * o /\ (1 + 2 * x + 4 * y + 8 * o) % 2 = 1
  BY <1>1
<1>4. v \div 16 = x + 2 * y + 4 * o /\ (x + 2 * y + 4 * o) % 2 = x
  BY <1>1
<1>5. v \div 32 = y + 2 * o /\ (y + 2 * o) % 2 = y
  BY <1>1
<1>6. v \div 64 = o /\ o % 2 = o
  BY <1>1
<1>7. v \div 128 = 0 /\ 0 % 2 = 0
  BY <1>1
<1>8. QED
  BY <1>1, <1>2, <1>3, <1>4, <1>5, <1>6, <1>7 DEF Has

\* A byte is a number below 256, and the sign given apart restores it.
LEMMA Restored ==
    ASSUME NEW d \in -256..255
    PROVE  /\ d < 0 => (d % 256) - 256 = d
           /\ d >= 0 => d % 256 = d
  OBVIOUS

\* The driver makes of the three bytes of a report what the mouse reported.
LEMMA DecodedAsReported ==
    ASSUME NEW m \in Movements, NEW p, p[1] = Packet(m)[1], p[2] = Packet(m)[2], p[3] = Packet(m)[3]
    PROVE  Decode(p) = Reports(m)
<1>1. PICK l \in 0..1, x \in 0..1, y \in 0..1, o \in 0..1 :
        /\ Packet(m)[1].value = 8 + l + 16 * x + 32 * y + 64 * o
        /\ m.left <=> l = 1
        /\ m.dx < 0 <=> x = 1
        /\ m.dy < 0 <=> y = 1
        /\ m.overflow <=> o = 1
  BY Numbers
<1>2. /\ m.dx \in -256..255 /\ m.dy \in -256..255
      /\ m.left \in BOOLEAN /\ m.overflow \in BOOLEAN
      /\ p[2].value = m.dx % 256
      /\ p[3].value = m.dy % 256
  BY Numbers
<1>3. /\ Has(p[1].value, 1) <=> m.left
      /\ Has(p[1].value, 16) <=> m.dx < 0
      /\ Has(p[1].value, 32) <=> m.dy < 0
      /\ (Has(p[1].value, 64) \/ Has(p[1].value, 128)) <=> m.overflow
  BY <1>1, Flags
<1> DEFINE Signed(n, sign) == IF Has(p[1].value, sign) THEN n - 256 ELSE n
           ignored == Has(p[1].value, 64) \/ Has(p[1].value, 128)
<1>4. Signed(p[2].value, 16) = m.dx
  <2>1. CASE m.dx < 0
    BY <1>2, <1>3, <2>1, Restored
  <2>2. CASE ~ (m.dx < 0)
    BY <1>2, <1>3, <2>2, Restored
  <2>3. QED
    BY <2>1, <2>2
<1>5. Signed(p[3].value, 32) = m.dy
  <2>1. CASE m.dy < 0
    BY <1>2, <1>3, <2>1, Restored
  <2>2. CASE ~ (m.dy < 0)
    BY <1>2, <1>3, <2>2, Restored
  <2>3. QED
    BY <2>1, <2>2
<1>6. Decode(p) = [device |-> "mouse", left |-> Has(p[1].value, 1),
                   delta_x |-> IF ignored THEN 0 ELSE Signed(p[2].value, 16),
                   delta_y |-> IF ignored THEN 0 ELSE - Signed(p[3].value, 32)]
  BY Zenon DEF Decode
<1>7. ignored = m.overflow /\ Has(p[1].value, 1) = m.left
  <2>1. ignored \in BOOLEAN /\ Has(p[1].value, 1) \in BOOLEAN
    BY DEF Has
  <2>2. QED
    BY <1>2, <1>3, <2>1, Zenon
<1> HIDE DEF Signed, ignored
<1>8. CASE m.overflow
  BY <1>4, <1>5, <1>6, <1>7, <1>8 DEF Reports
<1>9. CASE ~ m.overflow
  BY <1>4, <1>5, <1>6, <1>7, <1>9 DEF Reports
<1>10. QED
  BY <1>8, <1>9

-----------------------------------------------------------------------------
(* Whole reports.                                                           *)

\* The places of s with a byte of the mouse
MousePlaces(s) == {i \in DOMAIN s : IsMouse(s[i])}

\* Sequences with the same bytes of the mouse in the same order
LEMMA WholeAlike ==
    ASSUME NEW s, NEW t, NEW f,
           MousePlaces(s) \subseteq Int, MousePlaces(t) \subseteq Int,
           \A i \in MousePlaces(s) : f[i] \in MousePlaces(t) /\ t[f[i]] = s[i],
           \A j \in MousePlaces(t) : \E i \in MousePlaces(s) : j = f[i],
           \A i, j \in MousePlaces(s) : i < j <=> f[i] < f[j]
    PROVE  Whole(s) <=> Whole(t)
<1> DEFINE S == MousePlaces(s)
           T == MousePlaces(t)
<1>1. \A i, j \in S : i <= j <=> f[i] <= f[j]
  OBVIOUS
<1> DEFINE W(u, U) ==
      \A i \in U :
        /\ (\A j \in U : i <= j) => u[i].part = 1
        /\ (\A j \in U : j <= i) => u[i].part = 3
        /\ \A j \in U : i < j /\ (\A k \in U : k <= i \/ j <= k) => Continues(u[i], u[j])
<1>2. Whole(s) <=> W(s, S)
  BY Zenon DEF Whole, MousePlaces
<1>3. Whole(t) <=> W(t, T)
  BY Zenon DEF Whole, MousePlaces
<1>4. W(s, S) => W(t, T)
  <2> SUFFICES ASSUME W(s, S), NEW i \in T
               PROVE  /\ (\A j \in T : i <= j) => t[i].part = 1
                      /\ (\A j \in T : j <= i) => t[i].part = 3
                      /\ \A j \in T : i < j /\ (\A k \in T : k <= i \/ j <= k) => Continues(t[i], t[j])
    OBVIOUS
  <2>1. PICK i0 \in S : i = f[i0] /\ t[i] = s[i0]
    OBVIOUS
  <2>2. (\A j \in T : i <= j) => t[i].part = 1
    BY <1>1, <2>1
  <2>3. (\A j \in T : j <= i) => t[i].part = 3
    BY <1>1, <2>1
  <2>4. ASSUME NEW j \in T, i < j, \A k \in T : k <= i \/ j <= k
        PROVE  Continues(t[i], t[j])
    <3>1. PICK j0 \in S : j = f[j0] /\ t[j] = s[j0]
      OBVIOUS
    <3>2. i0 < j0 /\ \A k \in S : k <= i0 \/ j0 <= k
      BY <1>1, <2>1, <2>4, <3>1
    <3>3. QED
      BY <2>1, <3>1, <3>2
  <2>5. QED
    BY <2>2, <2>3, <2>4
<1>5. W(t, T) => W(s, S)
  <2> SUFFICES ASSUME W(t, T), NEW i \in S
               PROVE  /\ (\A j \in S : i <= j) => s[i].part = 1
                      /\ (\A j \in S : j <= i) => s[i].part = 3
                      /\ \A j \in S : i < j /\ (\A k \in S : k <= i \/ j <= k) => Continues(s[i], s[j])
    OBVIOUS
  <2>1. f[i] \in T /\ t[f[i]] = s[i]
    OBVIOUS
  <2>2. (\A j \in S : i <= j) => s[i].part = 1
    BY <1>1, <2>1
  <2>3. (\A j \in S : j <= i) => s[i].part = 3
    BY <1>1, <2>1
  <2>4. ASSUME NEW j \in S, i < j, \A k \in S : k <= i \/ j <= k
        PROVE  Continues(s[i], s[j])
    <3>1. f[j] \in T /\ t[f[j]] = s[j] /\ f[i] < f[j]
      BY <2>4
    <3>2. \A k \in T : k <= f[i] \/ f[j] <= k
      BY <1>1, <2>1, <2>4, <3>1
    <3>3. QED
      BY <2>1, <3>1, <3>2
  <2>5. QED
    BY <2>2, <2>3, <2>4
<1>6. QED
  BY <1>2, <1>3, <1>4, <1>5

\* A byte of the keyboard in between makes no difference.
LEMMA WholeBetween ==
    ASSUME NEW B, NEW s \in Seq(B), NEW t \in Seq(B), NEW n \in 0..Len(s),
           Len(t) = Len(s) + 1,
           \A i \in 1..n : t[i] = s[i],
           \A i \in (n + 1)..Len(s) : t[i + 1] = s[i],
           ~ IsMouse(t[n + 1])
    PROVE  Whole(s) <=> Whole(t)
<1>1. PICK f : f = [i \in 1..Len(s) |-> IF i <= n THEN i ELSE i + 1]
  OBVIOUS
<1>2. \A i \in 1..Len(s) : f[i] \in 1..Len(t) /\ t[f[i]] = s[i]
  BY <1>1
<1>3. \A j \in 1..Len(t) : j # n + 1 => \E i \in 1..Len(s) : j = f[i]
  <2> SUFFICES ASSUME NEW j \in 1..Len(t), j # n + 1
               PROVE  \E i \in 1..Len(s) : j = f[i]
    OBVIOUS
  <2>1. CASE j <= n
    BY <1>1, <2>1
  <2>2. CASE j > n + 1
    <3>1. j - 1 \in 1..Len(s) /\ f[j - 1] = j
      BY <1>1, <2>2
    <3>2. QED
      BY <3>1
  <2>3. QED
    BY <2>1, <2>2
<1>4. \A i, j \in 1..Len(s) : i < j <=> f[i] < f[j]
  BY <1>1
<1>5. MousePlaces(s) \subseteq 1..Len(s) /\ MousePlaces(t) \subseteq 1..Len(t)
  BY DEF MousePlaces
<1>6. \A i \in MousePlaces(s) : f[i] \in MousePlaces(t) /\ t[f[i]] = s[i]
  BY <1>2 DEF MousePlaces
<1>7. \A j \in MousePlaces(t) : \E i \in MousePlaces(s) : j = f[i]
  BY <1>2, <1>3, <1>5 DEF MousePlaces
<1>8. MousePlaces(s) \subseteq Int /\ MousePlaces(t) \subseteq Int
  BY <1>5
<1>9. \A i, j \in MousePlaces(s) : i < j <=> f[i] < f[j]
  BY <1>4, <1>5
<1>10. QED
  BY <1>6, <1>7, <1>8, <1>9, WholeAlike, Zenon

\* A report of the mouse after whole reports leaves them whole.
LEMMA WholeMore ==
    ASSUME NEW B, NEW s \in Seq(B), NEW m \in Movements, MouseBytes \subseteq B, Whole(s)
    PROVE  Whole(s \o Packet(m))
<1>1. PICK p \in Seq(B) : p = Packet(m)
  BY PacketBytes
<1>2. /\ Len(p) = 3
      /\ \A k \in 1..3 : IsMouse(p[k]) /\ p[k].part = k /\ p[k].of = m
  BY <1>1, PacketBytes DEF IsMouse
<1>3. PICK t : t = s \o p
  OBVIOUS
<1>4. PICK n \in Nat : n = Len(s)
  OBVIOUS
<1>5. /\ t \in Seq(B) /\ Len(t) = n + 3
      /\ \A i \in 1..n : t[i] = s[i]
      /\ t[n + 1] = p[1] /\ t[n + 2] = p[2] /\ t[n + 3] = p[3]
  <2>1. /\ t \in Seq(B) /\ Len(t) = n + 3
        /\ \A i \in 1..(n + 3) : t[i] = IF i <= n THEN s[i] ELSE p[i - n]
    <3>1. /\ s \o p \in Seq(B) /\ Len(s \o p) = Len(s) + Len(p)
          /\ \A i \in 1..(Len(s) + Len(p)) : (s \o p)[i] = IF i <= Len(s) THEN s[i] ELSE p[i - Len(s)]
      BY ConcatProperties
    <3>2. QED
      BY <1>2, <1>3, <1>4, <3>1
  <2>2. n + 1 - n = 1 /\ n + 2 - n = 2 /\ n + 3 - n = 3
    OBVIOUS
  <2>3. QED
    BY <2>1, <2>2
<1> DEFINE S == MousePlaces(s)
           T == MousePlaces(t)
<1>6. S \subseteq 1..n /\ T \subseteq 1..(n + 3)
  BY <1>4, <1>5 DEF MousePlaces
<1>7. S \subseteq T /\ {n + 1, n + 2, n + 3} \subseteq T /\ T \subseteq S \cup {n + 1, n + 2, n + 3}
  BY <1>2, <1>4, <1>5 DEF MousePlaces
<1>8. \A i \in S :
        /\ (\A j \in S : i <= j) => s[i].part = 1
        /\ (\A j \in S : j <= i) => s[i].part = 3
        /\ \A j \in S : i < j /\ (\A k \in S : k <= i \/ j <= k) => Continues(s[i], s[j])
  BY DEF Whole, MousePlaces
<1> HIDE DEF S, T
<1>9. ASSUME NEW i \in T
      PROVE  /\ (\A j \in T : i <= j) => t[i].part = 1
             /\ (\A j \in T : j <= i) => t[i].part = 3
             /\ \A j \in T : i < j /\ (\A k \in T : k <= i \/ j <= k) => Continues(t[i], t[j])
  <2>1. (\A j \in T : i <= j) => t[i].part = 1
    <3>1. CASE i \in S
      BY <1>5, <1>6, <1>7, <1>8, <3>1
    <3>2. CASE i \notin S
      BY <1>2, <1>5, <1>6, <1>7, <3>2
    <3>3. QED
      BY <3>1, <3>2
  <2>2. (\A j \in T : j <= i) => t[i].part = 3
    BY <1>2, <1>5, <1>6, <1>7
  <2>3. ASSUME NEW j \in T, i < j, \A k \in T : k <= i \/ j <= k
        PROVE  Continues(t[i], t[j])
    <3>1. CASE j \in S
      <4>1. i \in S /\ t[i] = s[i] /\ t[j] = s[j]
        BY <1>5, <1>6, <1>7, <2>3, <3>1
      <4>2. QED
        BY <1>7, <1>8, <2>3, <3>1, <4>1
    <3>2. CASE j = n + 1
      <4>1. i \in S /\ t[i] = s[i]
        BY <1>5, <1>6, <1>7, <2>3, <3>2
      <4>2. \A k \in S : k <= i
        BY <1>6, <1>7, <2>3, <3>2
      <4>3. t[i].part = 3 /\ t[j].part = 1
        BY <1>2, <1>5, <1>8, <3>2, <4>1, <4>2
      <4>4. QED
        BY <4>3 DEF Continues
    <3>3. CASE j = n + 2
      <4>1. i = n + 1
        BY <1>6, <1>7, <2>3, <3>3
      <4>2. QED
        BY <1>2, <1>5, <3>3, <4>1 DEF Continues
    <3>4. CASE j = n + 3
      <4>1. i = n + 2
        BY <1>6, <1>7, <2>3, <3>4
      <4>2. QED
        BY <1>2, <1>5, <3>4, <4>1 DEF Continues
    <3>5. QED
      BY <1>7, <3>1, <3>2, <3>3, <3>4
  <2>4. QED
    BY <2>1, <2>2, <2>3
<1>10. Whole(t)
  BY <1>9 DEF Whole, T, MousePlaces
<1>11. QED
  BY <1>1, <1>3, <1>10

\* Whole reports begin with the first byte of one, and then go on with it.
LEMMA WholeFirst ==
    ASSUME NEW B, NEW s \in Seq(B), Whole(s), Len(s) > 0, IsMouse(s[1])
    PROVE  /\ s[1].part = 1
           /\ Len(s) > 1 /\ IsMouse(s[2]) => Continues(s[1], s[2])
           /\ Len(s) > 2 /\ IsMouse(s[2]) /\ IsMouse(s[3]) => Continues(s[2], s[3])
<1> DEFINE S == MousePlaces(s)
<1>1. \A i \in S :
        /\ (\A j \in S : i <= j) => s[i].part = 1
        /\ \A j \in S : i < j /\ (\A k \in S : k <= i \/ j <= k) => Continues(s[i], s[j])
  BY DEF Whole, MousePlaces
<1>2. S \subseteq 1..Len(s) /\ 1 \in S
  BY DEF MousePlaces
<1>3. /\ Len(s) > 1 /\ IsMouse(s[2]) => 2 \in S
      /\ Len(s) > 2 /\ IsMouse(s[3]) => 3 \in S
  BY DEF MousePlaces
<1> HIDE DEF S
<1>4. QED
  BY <1>1, <1>2, <1>3

\* Without its first report they are still whole.
LEMMA WholeRest ==
    ASSUME NEW B, NEW s \in Seq(B), NEW t \in Seq(B), Whole(s),
           Len(s) = Len(t) + 3, \A i \in 1..Len(t) : t[i] = s[i + 3],
           IsMouse(s[1]), IsMouse(s[2]), IsMouse(s[3])
    PROVE  Whole(t)
<1>1. PICK n \in Nat : n = Len(t)
  OBVIOUS
<1> DEFINE S == MousePlaces(s)
           T == MousePlaces(t)
<1>2. \A i \in S :
        /\ (\A j \in S : i <= j) => s[i].part = 1
        /\ (\A j \in S : j <= i) => s[i].part = 3
        /\ \A j \in S : i < j /\ (\A k \in S : k <= i \/ j <= k) => Continues(s[i], s[j])
  BY DEF Whole, MousePlaces
<1>3. S \subseteq 1..(n + 3) /\ T \subseteq 1..n /\ {1, 2, 3} \subseteq S
  BY <1>1 DEF MousePlaces
<1>4. \A i \in 1..n : i \in T <=> i + 3 \in S
  BY <1>1 DEF MousePlaces
<1>5. s[3].part = 3
  <2>1. s[1].part = 1
    BY <1>2, <1>3
  <2>2. Continues(s[1], s[2]) /\ Continues(s[2], s[3])
    BY <1>2, <1>3
  <2>3. QED
    BY <2>1, <2>2 DEF Continues
<1> HIDE DEF S, T
<1>6. ASSUME NEW i \in T
      PROVE  /\ (\A j \in T : i <= j) => t[i].part = 1
             /\ (\A j \in T : j <= i) => t[i].part = 3
             /\ \A j \in T : i < j /\ (\A k \in T : k <= i \/ j <= k) => Continues(t[i], t[j])
  <2>1. i \in 1..n /\ i + 3 \in S /\ t[i] = s[i + 3]
    BY <1>1, <1>3, <1>4
  <2>2. \A k \in S : k \in {1, 2, 3} \/ k - 3 \in T
    BY <1>3, <1>4
  <2>3. ASSUME \A j \in T : i <= j
        PROVE  t[i].part = 1
    <3>1. \A k \in S : k <= 3 \/ i + 3 <= k
      BY <1>3, <2>1, <2>2, <2>3
    <3>2. Continues(s[3], s[i + 3])
      BY <1>2, <1>3, <2>1, <3>1
    <3>3. QED
      BY <1>5, <2>1, <3>2 DEF Continues
  <2>4. ASSUME \A j \in T : j <= i
        PROVE  t[i].part = 3
    <3>1. \A k \in S : k <= i + 3
      BY <1>3, <2>1, <2>2, <2>4
    <3>2. QED
      BY <1>2, <2>1, <3>1
  <2>5. ASSUME NEW j \in T, i < j, \A k \in T : k <= i \/ j <= k
        PROVE  Continues(t[i], t[j])
    <3>1. j \in 1..n /\ j + 3 \in S /\ t[j] = s[j + 3]
      BY <1>1, <1>3, <1>4
    <3>2. ASSUME NEW k \in S
          PROVE  k <= i + 3 \/ j + 3 <= k
      <4>1. k \in Int /\ (k \in {1, 2, 3} \/ k - 3 \in T)
        BY <1>3, <2>2
      <4>2. CASE k \in {1, 2, 3}
        BY <2>1, <4>2
      <4>3. CASE k - 3 \in T
        <5>1. k - 3 <= i \/ j <= k - 3
          BY <2>5, <4>3
        <5>2. QED
          BY <2>1, <3>1, <4>1, <5>1
      <4>4. QED
        BY <4>1, <4>2, <4>3
    <3>3. i + 3 < j + 3
      BY <2>1, <2>5, <3>1
    <3>4. QED
      BY <1>2, <2>1, <3>1, <3>2, <3>3
  <2>6. QED
    BY <2>3, <2>4, <2>5
<1>7. QED
  BY <1>6 DEF Whole, T, MousePlaces

-----------------------------------------------------------------------------
(* What the drivers know.                                                   *)

InputTypeOK ==
    /\ port \in Seq(MouseBytes \cup KeyBytes)
    /\ rest \in Seq(MouseBytes)
    /\ packet \in Seq(MouseBytes) /\ Len(packet) <= 2
    /\ held \subseteq ShiftKeys /\ shift \subseteq ShiftKeys
    /\ follows \in BOOLEAN /\ extended \in BOOLEAN

\* Byte b takes a driver that knows shift keys s and prefix e to shift keys s2 and
\* prefix e2, and was sent when that was so.
Reads(b, s, e, s2, e2) ==
    IF IsMouse(b) THEN s2 = s /\ e2 = e
    ELSE /\ b.shifted = (s # {})
         /\ \/ b.kind = "prefix" /\ b.value = ExtendedPrefix /\ ~ e /\ e2 /\ s2 = s
            \/ b.kind = "extended" /\ b.value # ExtendedPrefix /\ e /\ ~ e2 /\ s2 = s
            \/ /\ b.kind = "key" /\ b.value # ExtendedPrefix /\ ~ e /\ ~ e2 /\ s2 = s
               /\ b.value % 128 \notin ShiftKeys
            \/ /\ b.kind = "shift" /\ b.value # ExtendedPrefix /\ ~ e /\ ~ e2
               /\ b.value % 128 \in ShiftKeys
               /\ s2 = IF b.value < 128 THEN s \cup {b.value % 128} ELSE s \ {b.value % 128}

\* The bytes of q, in turn, do so.
ReadsAll(q, s, e, s2, e2) ==
    \E h \in [1..(Len(q) + 1) -> SUBSET ShiftKeys], x \in [1..(Len(q) + 1) -> BOOLEAN] :
        /\ h[1] = s /\ h[Len(q) + 1] = s2
        /\ x[1] = e /\ x[Len(q) + 1] = e2
        /\ \A i \in 1..Len(q) : Reads(q[i], h[i], x[i], h[i + 1], x[i + 1])

\* What waits takes the keyboard's driver to where the keyboard is.
KeysInOrder == ReadsAll(port, shift, extended, held, follows)

InputInv == InputTypeOK /\ KeysInOrder

LEMMA ReadFirst ==
    ASSUME NEW B, NEW q \in Seq(B), q # <<>>, NEW s, NEW e, NEW s2, NEW e2, ReadsAll(q, s, e, s2, e2)
    PROVE  \E s1 \in SUBSET ShiftKeys, e1 \in BOOLEAN :
              Reads(Head(q), s, e, s1, e1) /\ ReadsAll(Tail(q), s1, e1, s2, e2)
<1>1. PICK n \in Nat : n + 1 = Len(q)
  <2>1. Len(q) \in Nat /\ Len(q) # 0
    BY EmptySeq, LenProperties
  <2>2. Len(q) - 1 \in Nat /\ Len(q) - 1 + 1 = Len(q)
    BY <2>1
  <2>3. QED
    BY <2>2
<1>2. PICK h \in [1..(n + 2) -> SUBSET ShiftKeys], x \in [1..(n + 2) -> BOOLEAN] :
        /\ h[1] = s /\ h[n + 2] = s2
        /\ x[1] = e /\ x[n + 2] = e2
        /\ \A i \in 1..(n + 1) : Reads(q[i], h[i], x[i], h[i + 1], x[i + 1])
  <2>1. Len(q) + 1 = n + 2 /\ Len(q) = n + 1
    BY <1>1
  <2>2. QED
    BY <2>1 DEF ReadsAll
<1>3. PICK t : t = Tail(q)
  OBVIOUS
<1>4. Len(t) = n /\ \A i \in 1..n : t[i] = q[i + 1]
  BY <1>1, <1>3, HeadTailProperties
<1>5. Head(q) = q[1]
  BY HeadTailProperties
<1>6. PICK h1 : h1 = [i \in 1..(n + 1) |-> h[i + 1]]
  OBVIOUS
<1>7. PICK x1 : x1 = [i \in 1..(n + 1) |-> x[i + 1]]
  OBVIOUS
<1>8. h1 \in [1..(n + 1) -> SUBSET ShiftKeys] /\ x1 \in [1..(n + 1) -> BOOLEAN]
  <2>1. \A i \in 1..(n + 1) : i + 1 \in 1..(n + 2)
    OBVIOUS
  <2>2. \A i \in 1..(n + 1) : h[i + 1] \in SUBSET ShiftKeys /\ x[i + 1] \in BOOLEAN
    BY <1>2, <2>1
  <2>3. QED
    BY <1>6, <1>7, <2>2
<1>9. h1[1] = h[2] /\ h1[n + 1] = s2 /\ x1[1] = x[2] /\ x1[n + 1] = e2
  BY <1>2, <1>6, <1>7
<1>10. \A i \in 1..n : Reads(t[i], h1[i], x1[i], h1[i + 1], x1[i + 1])
  <2> TAKE i \in 1..n
  <2>1. i + 1 \in 1..(n + 1) /\ i \in 1..(n + 1)
    OBVIOUS
  <2>2. h1[i] = h[i + 1] /\ h1[i + 1] = h[i + 1 + 1] /\ x1[i] = x[i + 1] /\ x1[i + 1] = x[i + 1 + 1]
    BY <1>6, <1>7, <2>1
  <2>3. Reads(q[i + 1], h[i + 1], x[i + 1], h[i + 1 + 1], x[i + 1 + 1])
    BY <1>2, <2>1
  <2>4. QED
    BY <1>4, <2>2, <2>3
<1>11. ReadsAll(t, h[2], x[2], s2, e2)
  BY <1>4, <1>8, <1>9, <1>10 DEF ReadsAll
<1>12. Reads(q[1], s, e, h[2], x[2]) /\ h[2] \in SUBSET ShiftKeys /\ x[2] \in BOOLEAN
  BY <1>2
<1>13. QED
  BY <1>3, <1>5, <1>11, <1>12

LEMMA ReadOneMore ==
    ASSUME NEW B, NEW q \in Seq(B), NEW b \in B, NEW s, NEW e, NEW s1, NEW e1,
           NEW s2 \in SUBSET ShiftKeys, NEW e2 \in BOOLEAN,
           ReadsAll(q, s, e, s1, e1), Reads(b, s1, e1, s2, e2)
    PROVE  ReadsAll(Append(q, b), s, e, s2, e2)
<1>1. PICK n \in Nat : n = Len(q)
  OBVIOUS
<1>2. PICK h \in [1..(n + 1) -> SUBSET ShiftKeys], x \in [1..(n + 1) -> BOOLEAN] :
        /\ h[1] = s /\ h[n + 1] = s1
        /\ x[1] = e /\ x[n + 1] = e1
        /\ \A i \in 1..n : Reads(q[i], h[i], x[i], h[i + 1], x[i + 1])
  BY <1>1 DEF ReadsAll
<1>3. PICK t : t = Append(q, b)
  OBVIOUS
<1>4. Len(t) = n + 1 /\ t[n + 1] = b /\ \A i \in 1..n : t[i] = q[i]
  BY <1>1, <1>3, AppendProperties
<1>5. PICK h1 : h1 = [i \in 1..(n + 2) |-> IF i = n + 2 THEN s2 ELSE h[i]]
  OBVIOUS
<1>6. PICK x1 : x1 = [i \in 1..(n + 2) |-> IF i = n + 2 THEN e2 ELSE x[i]]
  OBVIOUS
<1>7. h1 \in [1..(n + 2) -> SUBSET ShiftKeys] /\ x1 \in [1..(n + 2) -> BOOLEAN]
  BY <1>2, <1>5, <1>6
<1>8. h1[1] = s /\ h1[n + 2] = s2 /\ x1[1] = e /\ x1[n + 2] = e2
  BY <1>2, <1>5, <1>6
<1>9. ASSUME NEW i \in 1..(n + 1)
      PROVE  Reads(t[i], h1[i], x1[i], h1[i + 1], x1[i + 1])
  <2>1. h1[i] = h[i] /\ x1[i] = x[i]
    BY <1>5, <1>6
  <2>2. CASE i = n + 1
    <3>1. h1[i + 1] = s2 /\ x1[i + 1] = e2
      BY <1>5, <1>6, <2>2
    <3>2. QED
      BY <1>2, <1>4, <2>1, <2>2, <3>1
  <2>3. CASE i # n + 1
    <3>1. i \in 1..n /\ h1[i + 1] = h[i + 1] /\ x1[i + 1] = x[i + 1]
      BY <1>5, <1>6, <2>3
    <3>2. QED
      BY <1>2, <1>4, <2>1, <3>1
  <2>4. QED
    BY <2>2, <2>3
<1>10. Len(t) + 1 = n + 2
  BY <1>4
<1>11. QED
  BY <1>3, <1>4, <1>7, <1>8, <1>9, <1>10 DEF ReadsAll

-----------------------------------------------------------------------------
(* The devices' steps.                                                      *)

\* The code of a key is not the prefix, and its high bit says that it is released.
LEMMA Codes ==
    ASSUME NEW k \in ScanCodes \cup ShiftKeys, NEW v \in {k, k + 128}
    PROVE  v \in 0..255 /\ v # ExtendedPrefix /\ v % 128 = k /\ (v < 128 <=> v = k)
<1>1. k \in 1..127 /\ k # 96
  <2>1. ExtendedPrefix % 128 = 96
    BY DEF ExtendedPrefix
  <2>2. QED
    BY <2>1, ConstantsAssumption DEF ConstantsAssumption, ShiftKeys, LeftShift, RightShift
<1>2. QED
  BY <1>1 DEF ExtendedPrefix

LEMMA FlagValue ==
    ASSUME NEW k \in Int, NEW pressed \in BOOLEAN
    PROVE  k + Flag(~ pressed, 128) = IF pressed THEN k ELSE k + 128
  BY DEF Flag

\* A typed byte, with what the keyboard then is.
Typing(b) ==
    /\ b \in KeyBytes /\ ~ IsMouse(b)
    /\ held' \subseteq ShiftKeys /\ follows' \in BOOLEAN
    /\ Reads(b, held, follows, held', follows')
    /\ port' = Append(port, b)
    /\ UNCHANGED <<rest, packet, shift, extended>>

LEMMA KeyTyping ==
    ASSUME InputTypeOK, NEW k \in ScanCodes, NEW pressed \in BOOLEAN, KeyTyped(k, pressed)
    PROVE  \E b : Typing(b)
<1>1. PICK v : v = k + Flag(~ pressed, 128)
  OBVIOUS
<1>2. PICK kind : kind = IF follows THEN "extended" ELSE "key"
  OBVIOUS
<1>3. PICK b : b = KeyByte(v, kind)
  OBVIOUS
<1>4. k \in Int /\ k \notin ShiftKeys
  BY ConstantsAssumption DEF ConstantsAssumption, ShiftKeys
<1>5. v \in {k, k + 128}
  BY <1>1, <1>4, FlagValue
<1>6. v \in 0..255 /\ v # ExtendedPrefix /\ v % 128 = k
  BY <1>5, Codes
<1>7. b.device = "keyboard" /\ b.value = v /\ b.kind = kind /\ b.shifted = (held # {})
  BY <1>3 DEF KeyByte
<1>8. b \in KeyBytes /\ ~ IsMouse(b)
  BY <1>2, <1>3, <1>6 DEF KeyByte, KeyBytes, IsMouse
<1>9. Reads(b, held, follows, held, FALSE)
  <2>1. CASE follows
    BY <1>2, <1>6, <1>7, <1>8, <2>1 DEF Reads
  <2>2. CASE ~ follows
    BY <1>2, <1>4, <1>6, <1>7, <1>8, <2>2 DEF Reads
  <2>3. QED
    BY <2>1, <2>2
<1>10. /\ port' = Append(port, b) /\ held' = held /\ follows' = FALSE
       /\ UNCHANGED <<rest, packet, shift, extended>>
  BY <1>1, <1>2, <1>3 DEF KeyTyped, Arrive, Typed, Driverless
<1>11. QED
  BY <1>8, <1>9, <1>10 DEF Typing, InputTypeOK

LEMMA ShiftTyping ==
    ASSUME InputTypeOK, NEW k \in ShiftKeys, NEW pressed \in BOOLEAN, ShiftTyped(k, pressed)
    PROVE  \E b : Typing(b)
<1>1. PICK v : v = k + Flag(~ pressed, 128)
  OBVIOUS
<1>2. PICK kind : kind = IF follows THEN "extended" ELSE "shift"
  OBVIOUS
<1>3. PICK b : b = KeyByte(v, kind)
  OBVIOUS
<1>4. k \in Int
  BY DEF ShiftKeys, LeftShift, RightShift
<1>5. v = IF pressed THEN k ELSE k + 128
  BY <1>1, <1>4, FlagValue
<1>6. v \in 0..255 /\ v # ExtendedPrefix /\ v % 128 = k /\ (v < 128 <=> pressed)
  BY <1>4, <1>5, Codes
<1>7. b.device = "keyboard" /\ b.value = v /\ b.kind = kind /\ b.shifted = (held # {})
  BY <1>3 DEF KeyByte
<1>8. b \in KeyBytes /\ ~ IsMouse(b)
  BY <1>2, <1>3, <1>6 DEF KeyByte, KeyBytes, IsMouse
<1>9. /\ port' = Append(port, b) /\ follows' = FALSE
      /\ held' = IF follows THEN held ELSE IF pressed THEN held \cup {k} ELSE held \ {k}
      /\ UNCHANGED <<rest, packet, shift, extended>>
  BY <1>1, <1>2, <1>3 DEF ShiftTyped, Arrive, Typed, Driverless
<1>10. Reads(b, held, follows, held', FALSE)
  <2>1. CASE follows
    BY <1>2, <1>6, <1>7, <1>8, <1>9, <2>1 DEF Reads
  <2>2. CASE ~ follows
    <3>1. held' = IF b.value < 128 THEN held \cup {b.value % 128} ELSE held \ {b.value % 128}
      <4>1. CASE pressed
        BY <1>6, <1>7, <1>9, <2>2, <4>1
      <4>2. CASE ~ pressed
        BY <1>6, <1>7, <1>9, <2>2, <4>2
      <4>3. QED
        BY <4>1, <4>2
    <3>2. QED
      BY <1>2, <1>6, <1>7, <1>8, <2>2, <3>1 DEF Reads
  <2>3. QED
    BY <2>1, <2>2
<1>11. held' \subseteq ShiftKeys
  BY <1>9 DEF InputTypeOK
<1>12. QED
  BY <1>8, <1>9, <1>10, <1>11 DEF Typing

LEMMA PrefixTyping ==
    ASSUME InputTypeOK, PrefixTyped
    PROVE  \E b : Typing(b)
<1>1. PICK b : b = KeyByte(ExtendedPrefix, "prefix")
  OBVIOUS
<1>2. b = [device |-> "keyboard", value |-> 224, kind |-> "prefix", shifted |-> held # {}]
  BY <1>1 DEF KeyByte, ExtendedPrefix
<1>3. b \in KeyBytes /\ ~ IsMouse(b)
  BY <1>2 DEF KeyBytes, IsMouse
<1>4. /\ ~ follows /\ port' = Append(port, b) /\ held' = held /\ follows' = TRUE
      /\ UNCHANGED <<rest, packet, shift, extended>>
  BY <1>1 DEF PrefixTyped, Arrive, Typed, Driverless
<1>5. Reads(b, held, follows, held', follows')
  BY <1>2, <1>3, <1>4 DEF Reads, ExtendedPrefix
<1>6. QED
  BY <1>3, <1>4, <1>5 DEF Typing, InputTypeOK

LEMMA TypingKeeps ==
    ASSUME InputInv, NEW b, Typing(b)
    PROVE  InputInv'
<1> USE DEF InputInv
<1>1. port \in Seq(MouseBytes \cup KeyBytes) /\ b \in MouseBytes \cup KeyBytes
  BY DEF InputTypeOK, Typing
<1>2. InputTypeOK'
  BY <1>1, AppendProperties DEF InputTypeOK, Typing
<1>3. ReadsAll(Append(port, b), shift, extended, held', follows')
  BY <1>1, ReadOneMore DEF Typing, KeysInOrder
<1>4. KeysInOrder'
  BY <1>3 DEF KeysInOrder, Typing
<1>5. QED
  BY <1>2, <1>4

\* Steps of the mouse only queue bytes of the mouse.
LEMMA MouseKeeps ==
    ASSUME InputInv, MouseSends \/ ByteLost \/ \E m \in Movements : MouseMoves(m)
    PROVE  InputInv'
<1> USE DEF InputInv
<1>1. /\ port \in Seq(MouseBytes \cup KeyBytes) /\ rest \in Seq(MouseBytes)
      /\ held \in SUBSET ShiftKeys /\ follows \in BOOLEAN
  BY DEF InputTypeOK
<1>2. UNCHANGED <<held, follows, packet, shift, extended>>
  BY DEF MouseSends, ByteLost, MouseMoves, Driverless
<1>3. CASE MouseSends
  <2>1. PICK b \in MouseBytes : b = Head(rest)
    BY <1>1, <1>3, HeadTailProperties DEF MouseSends
  <2>2. port' = Append(port, b) /\ rest' = Tail(rest) /\ rest' \in Seq(MouseBytes)
    BY <1>1, <1>3, <2>1, HeadTailProperties DEF MouseSends, Arrive
  <2>3. InputTypeOK'
    BY <1>1, <1>2, <2>2, AppendProperties DEF InputTypeOK
  <2>4. Reads(b, held, follows, held, follows)
    BY <2>1, MouseByteIs DEF Reads
  <2>5. ReadsAll(Append(port, b), shift, extended, held, follows)
    BY <1>1, <2>4, ReadOneMore DEF KeysInOrder
  <2>6. KeysInOrder'
    BY <1>2, <2>2, <2>5 DEF KeysInOrder
  <2>7. QED
    BY <2>3, <2>6
<1>4. CASE ByteLost
  <2>1. port' = port /\ rest' \in Seq(MouseBytes)
    BY <1>1, <1>4, HeadTailProperties DEF ByteLost
  <2>2. QED
    BY <1>2, <2>1 DEF InputTypeOK, KeysInOrder
<1>5. CASE \E m \in Movements : MouseMoves(m)
  <2>1. port' = port /\ rest' \in Seq(MouseBytes)
    BY <1>5, PacketBytes DEF MouseMoves
  <2>2. QED
    BY <1>2, <2>1 DEF InputTypeOK, KeysInOrder
<1>6. QED
  BY <1>3, <1>4, <1>5

-----------------------------------------------------------------------------
(* The drivers' steps.                                                      *)

\* A byte of the mouse is read.
MouseReads == Mine("mouse") /\ MousePoll /\ UNCHANGED <<rest, held, follows>>

\* A byte of the keyboard is read.
KeyboardReads == Mine("keyboard") /\ KeyboardPoll /\ UNCHANGED <<rest, held, follows>>

\* Nothing is read.
QuietPoll == UNCHANGED <<port, rest, held, follows, packet, shift, extended>>

LEMMA PollCases ==
    ASSUME Polls
    PROVE  MouseReads \/ KeyboardReads \/ QuietPoll
<1>1. UNCHANGED <<rest, held, follows>>
  BY DEF Polls, PollMouse, PollKeyboard, deviceVars
<1>2. CASE PollMouse
  BY <1>1, <1>2, Zenon DEF PollMouse, MouseReads, QuietPoll, NoByte
<1>3. CASE PollKeyboard
  BY <1>1, <1>3, Zenon DEF PollKeyboard, KeyboardReads, QuietPoll, NoByte
<1>4. QED
  BY <1>2, <1>3 DEF Polls

\* A byte of the mouse goes to its packet or is left out.
LEMMA MouseReadsKeeps ==
    ASSUME InputInv, MouseReads
    PROVE  InputInv'
<1> USE DEF InputInv
<1>1. /\ port \in Seq(MouseBytes \cup KeyBytes) /\ port # <<>>
      /\ packet \in Seq(MouseBytes) /\ Len(packet) <= 2
  BY DEF InputTypeOK, MouseReads, Mine
<1>2. PICK b : b = Head(port)
  OBVIOUS
<1>3. b \in MouseBytes /\ IsMouse(b) /\ port' = Tail(port) /\ port' \in Seq(MouseBytes \cup KeyBytes)
  <2>1. b \in MouseBytes \cup KeyBytes /\ port' = Tail(port) /\ port' \in Seq(MouseBytes \cup KeyBytes)
    BY <1>1, <1>2, HeadTailProperties DEF MouseReads, MousePoll
  <2>2. b.device = "mouse"
    BY <1>2 DEF MouseReads, Mine
  <2>3. QED
    BY <2>1, <2>2 DEF KeyBytes, IsMouse
<1>4. UNCHANGED <<rest, held, follows, shift, extended>>
  BY DEF MouseReads, MousePoll
<1>5. packet' \in Seq(MouseBytes) /\ Len(packet') <= 2
  <2>1. packet' = packet \/ packet' = <<>> \/ (Len(packet) < 2 /\ packet' = Append(packet, b))
    BY <1>2 DEF MouseReads, MousePoll
  <2>2. <<>> \in Seq(MouseBytes) /\ Len(<<>>) = 0
    OBVIOUS
  <2>3. Append(packet, b) \in Seq(MouseBytes) /\ Len(Append(packet, b)) = Len(packet) + 1 /\ Len(packet) \in Nat
    BY <1>1, <1>3, AppendProperties
  <2>4. CASE packet' = packet
    BY <1>1, <2>4
  <2>5. CASE packet' = <<>>
    BY <2>2, <2>5
  <2>6. CASE Len(packet) < 2 /\ packet' = Append(packet, b)
    <3>1. PICK p : p = packet'
      OBVIOUS
    <3>2. PICK l \in Nat : l = Len(packet) /\ p = packet' /\ p = Append(packet, b)
      BY <2>3, <2>6, <3>1
    <3>3. l < 2 /\ Len(p) = l + 1 /\ p \in Seq(MouseBytes)
      BY <2>3, <2>6, <3>2
    <3>4. Len(p) <= 2
      BY <3>3
    <3>5. QED
      BY <3>2, <3>3, <3>4
  <2>7. QED
    BY <2>1, <2>4, <2>5, <2>6
<1>6. PICK s1 \in SUBSET ShiftKeys, e1 \in BOOLEAN :
        Reads(b, shift, extended, s1, e1) /\ ReadsAll(port', s1, e1, held, follows)
  BY <1>1, <1>2, <1>3, ReadFirst DEF KeysInOrder
<1>7. s1 = shift /\ e1 = extended
  BY <1>3, <1>6 DEF Reads
<1>8. KeysInOrder'
  BY <1>4, <1>6, <1>7 DEF KeysInOrder
<1>9. QED
  BY <1>3, <1>4, <1>5, <1>8 DEF InputTypeOK

\* A byte of the keyboard is read as it was meant.
LEMMA KeyboardReadsFaithfully ==
    ASSUME InputInv, KeyboardReads
    PROVE  /\ InputInv'
           /\ event' = IF Head(port).kind = "key"
                       THEN [device |-> "keyboard", scancode |-> Head(port).value % 128,
                             pressed |-> Head(port).value < 128, shifted |-> Head(port).shifted]
                       ELSE Nothing
<1> USE DEF InputInv
<1>1. port \in Seq(MouseBytes \cup KeyBytes) /\ port # <<>>
  BY DEF InputTypeOK, KeyboardReads, Mine
<1>2. PICK b : b = Head(port)
  OBVIOUS
<1>3. b \in KeyBytes /\ ~ IsMouse(b) /\ port' = Tail(port) /\ port' \in Seq(MouseBytes \cup KeyBytes)
  <2>1. b \in MouseBytes \cup KeyBytes /\ port' = Tail(port) /\ port' \in Seq(MouseBytes \cup KeyBytes)
    BY <1>1, <1>2, HeadTailProperties DEF KeyboardReads, KeyboardPoll
  <2>2. b.device = "keyboard"
    BY <1>2 DEF KeyboardReads, Mine
  <2>3. QED
    BY <2>1, <2>2, MouseByteIs DEF IsMouse
<1>4. UNCHANGED <<rest, held, follows, packet>>
  BY DEF KeyboardReads, KeyboardPoll
<1>5. PICK s1 \in SUBSET ShiftKeys, e1 \in BOOLEAN :
        Reads(b, shift, extended, s1, e1) /\ ReadsAll(port', s1, e1, held, follows)
  BY <1>1, <1>2, <1>3, ReadFirst DEF KeysInOrder
<1>6. /\ b.shifted = (shift # {})
      /\ \/ b.kind = "prefix" /\ b.value = ExtendedPrefix /\ ~ extended /\ e1 /\ s1 = shift
         \/ b.kind = "extended" /\ b.value # ExtendedPrefix /\ extended /\ ~ e1 /\ s1 = shift
         \/ /\ b.kind = "key" /\ b.value # ExtendedPrefix /\ ~ extended /\ ~ e1 /\ s1 = shift
            /\ b.value % 128 \notin ShiftKeys
         \/ /\ b.kind = "shift" /\ b.value # ExtendedPrefix /\ ~ extended /\ ~ e1
            /\ b.value % 128 \in ShiftKeys
            /\ s1 = IF b.value < 128 THEN shift \cup {b.value % 128} ELSE shift \ {b.value % 128}
  BY <1>3, <1>5 DEF Reads
<1>7. PICK v \in 0..255 : v = b.value
  BY <1>3 DEF KeyBytes
<1>8. Has(v, 128) <=> ~ (v < 128)
  <2>1. v < 128 => v \div 128 = 0 /\ 0 % 2 = 0
    OBVIOUS
  <2>2. v >= 128 => v \div 128 = 1 /\ 1 % 2 = 1
    OBVIOUS
  <2>3. QED
    BY <2>1, <2>2 DEF Has
<1>9. \/ /\ v = ExtendedPrefix
         /\ extended' = TRUE /\ event' = Nothing /\ shift' = shift
      \/ /\ v # ExtendedPrefix /\ extended
         /\ extended' = FALSE /\ event' = Nothing /\ shift' = shift
      \/ /\ v # ExtendedPrefix /\ ~ extended /\ v % 128 \in ShiftKeys
         /\ shift' = ShiftAfter(v % 128, ~ Has(v, 128))
         /\ event' = Nothing /\ extended' = extended
      \/ /\ v # ExtendedPrefix /\ ~ extended /\ v % 128 \notin ShiftKeys
         /\ event' = [device |-> "keyboard", scancode |-> v % 128, pressed |-> ~ Has(v, 128), shifted |-> shift # {}]
         /\ shift' = shift /\ extended' = extended
  BY <1>2, <1>7, Zenon DEF KeyboardReads, KeyboardPoll, ShiftKeys
<1>10. extended \in BOOLEAN /\ e1 \in BOOLEAN
  BY DEF InputTypeOK
<1>11. CASE b.kind = "prefix"
  <2>1. v = ExtendedPrefix /\ e1 /\ s1 = shift
    BY <1>6, <1>7, <1>11
  <2>2. extended' = e1 /\ shift' = s1 /\ event' = Nothing
    BY <1>9, <1>10, <2>1
  <2>3. QED
    BY <1>2, <1>3, <1>4, <1>5, <1>11, <2>2 DEF InputTypeOK, KeysInOrder
<1>12. CASE b.kind = "extended"
  <2>1. v # ExtendedPrefix /\ extended /\ ~ e1 /\ s1 = shift
    BY <1>6, <1>7, <1>12
  <2>2. extended' = e1 /\ shift' = s1 /\ event' = Nothing
    BY <1>9, <1>10, <2>1
  <2>3. QED
    BY <1>2, <1>3, <1>4, <1>5, <1>12, <2>2 DEF InputTypeOK, KeysInOrder
<1>13. CASE b.kind = "key"
  <2>1. v # ExtendedPrefix /\ ~ extended /\ ~ e1 /\ s1 = shift /\ v % 128 \notin ShiftKeys
    BY <1>6, <1>7, <1>13
  <2>2. /\ extended' = e1 /\ shift' = s1
        /\ event' = [device |-> "keyboard", scancode |-> v % 128, pressed |-> ~ Has(v, 128), shifted |-> shift # {}]
    BY <1>9, <1>10, <2>1
  <2>3. (~ Has(v, 128)) = (v < 128)
    BY <1>8 DEF Has
  <2>4. event' = [device |-> "keyboard", scancode |-> b.value % 128, pressed |-> b.value < 128, shifted |-> b.shifted]
    BY <1>6, <1>7, <2>2, <2>3
  <2>5. InputInv'
    BY <1>3, <1>4, <1>5, <2>2 DEF InputTypeOK, KeysInOrder
  <2>6. QED
    BY <1>2, <1>13, <2>4, <2>5
<1>14. CASE b.kind = "shift"
  <2>1. /\ v # ExtendedPrefix /\ ~ extended /\ ~ e1 /\ v % 128 \in ShiftKeys
        /\ s1 = IF v < 128 THEN shift \cup {v % 128} ELSE shift \ {v % 128}
    BY <1>6, <1>7, <1>14
  <2>2. extended' = e1 /\ shift' = ShiftAfter(v % 128, ~ Has(v, 128)) /\ event' = Nothing
    BY <1>9, <1>10, <2>1
  <2>3. shift' = s1
    BY <1>8, <2>1, <2>2 DEF ShiftAfter
  <2>4. QED
    BY <1>2, <1>3, <1>4, <1>5, <1>14, <2>2, <2>3 DEF InputTypeOK, KeysInOrder
<1>15. QED
  BY <1>6, <1>11, <1>12, <1>13, <1>14

-----------------------------------------------------------------------------
LEMMA InputInitial == InputInit => InputInv
<1> SUFFICES ASSUME InputInit PROVE InputInv
  OBVIOUS
<1>1. InputTypeOK
  <2>1. PICK q : q = <<>>
    OBVIOUS
  <2>2. q \in Seq(MouseBytes) /\ q \in Seq(MouseBytes \cup KeyBytes) /\ Len(q) <= 2
    BY <2>1
  <2>3. port = q /\ rest = q /\ packet = q /\ held = {} /\ shift = {} /\ follows = FALSE /\ extended = FALSE
    BY <2>1 DEF InputInit
  <2>4. QED
    BY <2>2, <2>3 DEF InputTypeOK
<1>2. PICK h : h = [i \in 1..1 |-> {}]
  OBVIOUS
<1>3. PICK x : x = [i \in 1..1 |-> FALSE]
  OBVIOUS
<1>4. h \in [1..1 -> SUBSET ShiftKeys] /\ x \in [1..1 -> BOOLEAN] /\ h[1] = {} /\ x[1] = FALSE
  BY <1>2, <1>3
<1>5. PICK q : q = <<>>
  OBVIOUS
<1>6. Len(q) = 0 /\ Len(q) + 1 = 1
  BY <1>5
<1>7. ReadsAll(q, {}, FALSE, {}, FALSE)
  BY <1>4, <1>6 DEF ReadsAll
<1>8. QED
  BY <1>1, <1>5, <1>7 DEF InputInit, InputInv, KeysInOrder

\* Every step is of a key, of the mouse or of a driver.
LEMMA InputCases ==
    ASSUME InputTypeOK, InputNext
    PROVE  \/ \E b : Typing(b)
           \/ MouseSends \/ ByteLost \/ (\E m \in Movements : MouseMoves(m))
           \/ MouseReads \/ KeyboardReads \/ QuietPoll
  BY PollCases, KeyTyping, ShiftTyping, PrefixTyping DEF InputNext, ShiftKeys

LEMMA QuietKeeps ==
    ASSUME InputInv, UNCHANGED <<port, rest, held, follows, packet, shift, extended>>
    PROVE  InputInv'
  BY DEF InputInv, InputTypeOK, KeysInOrder

LEMMA InputStep ==
    ASSUME InputInv, [InputNext]_inputVars
    PROVE  InputInv'
<1>1. CASE InputNext
  BY <1>1, InputCases, TypingKeeps, MouseKeeps, MouseReadsKeeps, KeyboardReadsFaithfully, QuietKeeps, Zenon
     DEF InputInv, QuietPoll
<1>2. CASE UNCHANGED inputVars
  BY <1>2, QuietKeeps DEF inputVars, deviceVars
<1>3. QED
  BY <1>1, <1>2

THEOREM InputInvariant == InputSpec => []InputInv
<1>1. QED
  BY InputInitial, InputStep, PTL DEF InputSpec

\* Only a driver takes a byte, its own.
LEMMA TakenBy ==
    ASSUME InputTypeOK, [InputNext]_inputVars, NEW device, Taken(device)
    PROVE  \/ device = "mouse" /\ MouseReads
           \/ device = "keyboard" /\ KeyboardReads
<1>1. port \in Seq(MouseBytes \cup KeyBytes) /\ port # <<>> /\ port' = Tail(port) /\ Head(port).device = device
  BY DEF InputTypeOK, Taken
<1>2. Len(port) \in Nat /\ Len(port') = Len(port) - 1
  BY <1>1, HeadTailProperties
<1>3. ASSUME NEW B, NEW b \in B, port \in Seq(B)
      PROVE  port' # Append(port, b)
  BY <1>2, <1>3, AppendProperties
<1>4. port' # port
  BY <1>2
<1>5. ASSUME NEW b PROVE port' # Append(port, b)
  <2>1. port \in Seq(MouseBytes \cup KeyBytes \cup {b}) /\ b \in MouseBytes \cup KeyBytes \cup {b}
    BY <1>1
  <2>2. QED
    BY <1>3, <2>1
<1>6. ~ (\E b : Typing(b)) /\ ~ MouseSends
  BY <1>5 DEF Typing, MouseSends, Arrive
<1>7. ~ ByteLost /\ ~ (\E m \in Movements : MouseMoves(m)) /\ ~ QuietPoll /\ ~ UNCHANGED inputVars
  BY <1>4 DEF ByteLost, MouseMoves, QuietPoll, inputVars
<1>8. MouseReads \/ KeyboardReads
  BY <1>6, <1>7, InputCases, Zenon
<1>9. QED
  BY <1>1, <1>8 DEF MouseReads, KeyboardReads, Mine

\* Keys are delivered as they were typed.
THEOREM KeysDelivered == InputSpec => KeysFaithful
<1>1. ASSUME InputInv, [InputNext]_inputVars
      PROVE  Taken("keyboard") =>
               event' = IF Head(port).kind = "key"
                        THEN [device |-> "keyboard", scancode |-> Head(port).value % 128,
                              pressed |-> Head(port).value < 128, shifted |-> Head(port).shifted]
                        ELSE Nothing
  <2> SUFFICES ASSUME Taken("keyboard")
               PROVE  event' = IF Head(port).kind = "key"
                               THEN [device |-> "keyboard", scancode |-> Head(port).value % 128,
                                     pressed |-> Head(port).value < 128, shifted |-> Head(port).shifted]
                               ELSE Nothing
    OBVIOUS
  <2>1. KeyboardReads
    BY <1>1, TakenBy DEF InputInv
  <2>2. QED
    BY <1>1, <2>1, KeyboardReadsFaithfully
<1>2. QED
  BY <1>1, InputInvariant, PTL DEF InputSpec, KeysFaithful

-----------------------------------------------------------------------------
(* The mouse.                                                               *)

\* The reports as the driver is to get them
Coming == packet \o port \o rest

LEMMA ComingIs ==
    ASSUME InputTypeOK
    PROVE  /\ Coming \in Seq(MouseBytes \cup KeyBytes)
           /\ Len(Coming) = Len(packet) + Len(port) + Len(rest)
           /\ \A i \in 1..Len(packet) : Coming[i] = packet[i]
           /\ \A i \in 1..Len(port) : Coming[Len(packet) + i] = port[i]
           /\ \A i \in 1..Len(rest) : Coming[Len(packet) + Len(port) + i] = rest[i]
<1>1. /\ packet \in Seq(MouseBytes \cup KeyBytes) /\ port \in Seq(MouseBytes \cup KeyBytes)
      /\ rest \in Seq(MouseBytes \cup KeyBytes)
  BY SeqMonotonic DEF InputTypeOK
<1>2. PICK l \in Nat, m \in Nat, n \in Nat : l = Len(packet) /\ m = Len(port) /\ n = Len(rest)
  BY <1>1
<1>3. PICK q : q = packet \o port
  OBVIOUS
<1>4. /\ q \in Seq(MouseBytes \cup KeyBytes) /\ Len(q) = l + m
      /\ \A i \in 1..(l + m) : q[i] = IF i <= l THEN packet[i] ELSE port[i - l]
  BY <1>1, <1>2, <1>3, ConcatProperties
<1>5. /\ Coming \in Seq(MouseBytes \cup KeyBytes) /\ Len(Coming) = l + m + n
      /\ \A i \in 1..(l + m + n) : Coming[i] = IF i <= l + m THEN q[i] ELSE rest[i - (l + m)]
  BY <1>1, <1>2, <1>3, <1>4, ConcatProperties DEF Coming
<1>6. \A i \in 1..m : l + i \in 1..(l + m) /\ ~ (l + i <= l) /\ l + i - l = i
  OBVIOUS
<1>7. \A i \in 1..n : l + m + i \in 1..(l + m + n) /\ ~ (l + m + i <= l + m) /\ l + m + i - (l + m) = i
  OBVIOUS
<1>8. \A i \in 1..l : i \in 1..(l + m) /\ i <= l
  OBVIOUS
<1>9. \A i \in 1..l : Coming[i] = packet[i]
  <2>1. \A i \in 1..l : i \in 1..(l + m + n) /\ i <= l + m
    OBVIOUS
  <2>2. QED
    BY <1>4, <1>5, <1>8, <2>1
<1>10. ASSUME NEW i \in 1..m PROVE Coming[l + i] = port[i]
  <2>1. PICK j \in 1..(l + m) : j = l + i /\ ~ (j <= l) /\ j - l = i
    BY <1>6
  <2>2. q[j] = port[j - l]
    BY <1>4, <2>1
  <2>3. j \in 1..(l + m + n) /\ j <= l + m
    OBVIOUS
  <2>4. Coming[j] = q[j]
    BY <1>5, <2>3
  <2>5. QED
    BY <2>1, <2>2, <2>4
<1>11. ASSUME NEW i \in 1..n PROVE Coming[l + m + i] = rest[i]
  <2>1. PICK j \in 1..(l + m + n) : j = l + m + i /\ ~ (j <= l + m) /\ j - (l + m) = i
    BY <1>7
  <2>2. Coming[j] = rest[j - (l + m)]
    BY <1>5, <2>1
  <2>3. QED
    BY <2>1, <2>2
<1>12. QED
  BY <1>2, <1>5, <1>9, <1>10, <1>11

LEMMA ComingBecomes ==
    ASSUME InputTypeOK'
    PROVE  /\ Coming' \in Seq(MouseBytes \cup KeyBytes)
           /\ Len(Coming') = Len(packet') + Len(port') + Len(rest')
           /\ \A i \in 1..Len(packet') : Coming'[i] = packet'[i]
           /\ \A i \in 1..Len(port') : Coming'[Len(packet') + i] = port'[i]
           /\ \A i \in 1..Len(rest') : Coming'[Len(packet') + Len(port') + i] = rest'[i]
<1>1. (/\ Coming \in Seq(MouseBytes \cup KeyBytes)
       /\ Len(Coming) = Len(packet) + Len(port) + Len(rest)
       /\ \A i \in 1..Len(packet) : Coming[i] = packet[i]
       /\ \A i \in 1..Len(port) : Coming[Len(packet) + i] = port[i]
       /\ \A i \in 1..Len(rest) : Coming[Len(packet) + Len(port) + i] = rest[i])'
  BY ComingIs, PTL
<1>2. QED
  BY <1>1

\* A byte of the mouse moves on from the mouse to the queue.
LEMMA InStepSends ==
    ASSUME InputInv, MouseSends, InStep
    PROVE  InStep'
<1>1. /\ packet \in Seq(MouseBytes \cup KeyBytes) /\ port \in Seq(MouseBytes \cup KeyBytes)
      /\ rest \in Seq(MouseBytes \cup KeyBytes) /\ rest # <<>>
  BY SeqMonotonic DEF InputInv, InputTypeOK, MouseSends
<1>2. PICK b \in MouseBytes \cup KeyBytes, u \in Seq(MouseBytes \cup KeyBytes) :
        b = Head(rest) /\ u = Tail(rest) /\ rest = <<b>> \o u
  <2>1. Head(rest) \in MouseBytes \cup KeyBytes /\ Tail(rest) \in Seq(MouseBytes \cup KeyBytes)
    BY <1>1, HeadTailProperties
  <2>2. PICK b, u : b = Head(rest) /\ u = Tail(rest)
    OBVIOUS
  <2>3. rest = <<b>> \o u
    BY <1>1, <2>2, HeadTailProperties
  <2>4. QED
    BY <2>1, <2>2, <2>3
<1>3. port' = port \o <<b>> /\ rest' = u /\ packet' = packet
  BY <1>1, <1>2, AppendIsConcat DEF MouseSends, Arrive, Driverless
<1>4. <<b>> \in Seq(MouseBytes \cup KeyBytes)
  OBVIOUS
<1>5. (packet \o (port \o <<b>>)) \o u = ((packet \o port) \o <<b>>) \o u
  BY <1>1, <1>4, ConcatAssociative
<1>6. ((packet \o port) \o <<b>>) \o u = (packet \o port) \o (<<b>> \o u)
  BY <1>1, <1>2, <1>4, ConcatAssociative, ConcatProperties
<1>7. (packet \o port \o rest)' = packet \o port \o rest
  BY <1>2, <1>3, <1>5, <1>6
<1>8. QED
  BY <1>7 DEF InStep

\* A report begins.
LEMMA InStepMoves ==
    ASSUME InputInv, NEW m \in Movements, MouseMoves(m), InStep
    PROVE  InStep'
<1>1. packet \in Seq(MouseBytes \cup KeyBytes) /\ port \in Seq(MouseBytes \cup KeyBytes)
  BY SeqMonotonic DEF InputInv, InputTypeOK
<1>2. rest = <<>> /\ rest' = Packet(m) /\ UNCHANGED <<packet, port>>
  BY DEF MouseMoves, Driverless
<1>3. packet \o port \in Seq(MouseBytes \cup KeyBytes)
  BY <1>1, ConcatProperties
<1>4. packet \o port \o rest = packet \o port
  BY <1>2, <1>3, ConcatEmptySeq
<1>5. Whole((packet \o port) \o Packet(m))
  BY <1>3, <1>4, WholeMore DEF InStep
<1>6. QED
  BY <1>2, <1>5 DEF InStep

\* A byte of the keyboard comes or goes.
LEMMA InStepTyping ==
    ASSUME InputInv, NEW b, Typing(b)
    PROVE  InStep <=> InStep'
<1>1. InputTypeOK /\ InputTypeOK'
  BY TypingKeeps DEF InputInv
<1>2. PICK l \in Nat, m \in Nat, n \in Nat : l = Len(packet) /\ m = Len(port) /\ n = Len(rest)
  BY <1>1 DEF InputTypeOK
<1>3. PICK s : s = Coming
  OBVIOUS
<1>4. PICK t : t = Coming'
  OBVIOUS
<1>5. /\ s \in Seq(MouseBytes \cup KeyBytes) /\ Len(s) = l + m + n
      /\ \A i \in 1..l : s[i] = packet[i]
      /\ \A i \in 1..m : s[l + i] = port[i]
      /\ \A i \in 1..n : s[l + m + i] = rest[i]
  BY <1>1, <1>2, <1>3, ComingIs
<1>6. /\ UNCHANGED <<packet, rest>> /\ ~ IsMouse(b)
      /\ Len(port') = m + 1 /\ port'[m + 1] = b /\ \A i \in 1..m : port'[i] = port[i]
  <2>1. port \in Seq(MouseBytes \cup KeyBytes) /\ b \in MouseBytes \cup KeyBytes /\ port' = Append(port, b)
    BY <1>1 DEF InputTypeOK, Typing
  <2>2. QED
    BY <1>2, <2>1, AppendProperties DEF Typing
<1>7. /\ t \in Seq(MouseBytes \cup KeyBytes) /\ Len(t) = Len(packet') + Len(port') + Len(rest')
      /\ \A i \in 1..Len(packet') : t[i] = packet'[i]
      /\ \A i \in 1..Len(port') : t[Len(packet') + i] = port'[i]
      /\ \A i \in 1..Len(rest') : t[Len(packet') + Len(port') + i] = rest'[i]
  BY <1>1, <1>4, ComingBecomes
<1>8. /\ Len(t) = l + (m + 1) + n
      /\ \A i \in 1..l : t[i] = packet[i]
      /\ \A i \in 1..(m + 1) : t[l + i] = port'[i]
      /\ \A i \in 1..n : t[l + (m + 1) + i] = rest[i]
  BY <1>2, <1>6, <1>7
<1>9. Len(t) = Len(s) + 1 /\ l + m \in 0..Len(s)
  BY <1>5, <1>8
<1>10. ASSUME NEW i \in 1..(l + m)
       PROVE  t[i] = s[i]
  <2>1. CASE i <= l
    BY <1>5, <1>8, <2>1
  <2>2. CASE i > l
    <3>1. PICK j \in 1..m : i = l + j
      <4>1. i - l \in 1..m /\ i = l + (i - l)
        BY <2>2
      <4>2. QED
        BY <4>1
    <3>2. j \in 1..(m + 1)
      OBVIOUS
    <3>3. t[l + j] = port'[j]
      BY <1>8, <3>2
    <3>4. s[l + j] = port[j]
      BY <1>5, <3>1
    <3>5. QED
      BY <1>6, <3>1, <3>3, <3>4
  <2>3. QED
    BY <2>1, <2>2
<1>11. ASSUME NEW i \in (l + m + 1)..Len(s)
       PROVE  t[i + 1] = s[i]
  <2>1. PICK j \in 1..n : i = l + m + j
    <3>1. i - (l + m) \in 1..n /\ i = l + m + (i - (l + m))
      BY <1>5
    <3>2. QED
      BY <3>1
  <2>2. i + 1 = l + (m + 1) + j
    BY <2>1
  <2>3. QED
    BY <1>5, <1>8, <2>1, <2>2
<1>12. ~ IsMouse(t[l + m + 1])
  <2>1. l + m + 1 = l + (m + 1) /\ m + 1 \in 1..(m + 1)
    OBVIOUS
  <2>2. QED
    BY <1>6, <1>8, <2>1
<1>13. Whole(s) <=> Whole(t)
  BY <1>5, <1>7, <1>9, <1>10, <1>11, <1>12, WholeBetween
<1>14. QED
  BY <1>3, <1>4, <1>13 DEF InStep, Coming

LEMMA InStepKeyboard ==
    ASSUME InputInv, KeyboardReads
    PROVE  InStep <=> InStep'
<1>1. InputTypeOK /\ InputTypeOK'
  BY KeyboardReadsFaithfully DEF InputInv
<1>2. port # <<>> /\ Head(port).device = "keyboard" /\ port' = Tail(port) /\ UNCHANGED <<packet, rest>>
  BY DEF KeyboardReads, KeyboardPoll, Mine
<1>3. PICK l \in Nat, m \in Nat, n \in Nat : l = Len(packet) /\ m = Len(port') /\ n = Len(rest)
  BY <1>1 DEF InputTypeOK
<1>4. /\ Len(port) = m + 1 /\ ~ IsMouse(port[1])
      /\ \A i \in 1..m : port[i + 1] = port'[i]
  <2>1. port \in Seq(MouseBytes \cup KeyBytes)
    BY <1>1 DEF InputTypeOK
  <2>2. Head(port) = port[1] /\ Len(Tail(port)) = Len(port) - 1 /\ Len(port) \in Nat
        /\ \A i \in 1..Len(Tail(port)) : Tail(port)[i] = port[i + 1]
    BY <1>2, <2>1, HeadTailProperties
  <2>3. QED
    BY <1>2, <1>3, <2>2 DEF IsMouse
<1>5. PICK t : t = Coming
  OBVIOUS
<1>6. PICK s : s = Coming'
  OBVIOUS
<1>7. /\ t \in Seq(MouseBytes \cup KeyBytes) /\ Len(t) = l + (m + 1) + n
      /\ \A i \in 1..l : t[i] = packet[i]
      /\ \A i \in 1..(m + 1) : t[l + i] = port[i]
      /\ \A i \in 1..n : t[l + (m + 1) + i] = rest[i]
  BY <1>1, <1>3, <1>4, <1>5, ComingIs
<1>8. /\ s \in Seq(MouseBytes \cup KeyBytes) /\ Len(s) = l + m + n
      /\ \A i \in 1..l : s[i] = packet[i]
      /\ \A i \in 1..m : s[l + i] = port'[i]
      /\ \A i \in 1..n : s[l + m + i] = rest[i]
  <2>1. /\ s \in Seq(MouseBytes \cup KeyBytes) /\ Len(s) = Len(packet') + Len(port') + Len(rest')
        /\ \A i \in 1..Len(packet') : s[i] = packet'[i]
        /\ \A i \in 1..Len(port') : s[Len(packet') + i] = port'[i]
        /\ \A i \in 1..Len(rest') : s[Len(packet') + Len(port') + i] = rest'[i]
    BY <1>1, <1>6, ComingBecomes
  <2>2. QED
    BY <1>2, <1>3, <2>1
<1>9. Len(t) = Len(s) + 1 /\ l \in 0..Len(s)
  BY <1>7, <1>8
<1>10. ASSUME NEW i \in 1..l
       PROVE  t[i] = s[i]
  BY <1>7, <1>8
<1>11. ASSUME NEW i \in (l + 1)..Len(s)
       PROVE  t[i + 1] = s[i]
  <2>1. CASE i <= l + m
    <3>1. PICK j \in 1..m : i = l + j
      <4>1. i - l \in 1..m /\ i = l + (i - l)
        BY <1>8, <2>1
      <4>2. QED
        BY <4>1
    <3>2. i + 1 = l + (j + 1) /\ j + 1 \in 1..(m + 1)
      BY <3>1
    <3>3. t[i + 1] = port[j + 1] /\ s[i] = port'[j]
      BY <1>7, <1>8, <3>1, <3>2
    <3>4. QED
      BY <1>4, <3>1, <3>3
  <2>2. CASE i > l + m
    <3>1. PICK j \in 1..n : i = l + m + j
      <4>1. i - (l + m) \in 1..n /\ i = l + m + (i - (l + m))
        BY <1>8, <2>2
      <4>2. QED
        BY <4>1
    <3>2. i + 1 = l + (m + 1) + j
      BY <3>1
    <3>3. QED
      BY <1>7, <1>8, <3>1, <3>2
  <2>3. QED
    BY <1>8, <2>1, <2>2
<1>12. ~ IsMouse(t[l + 1])
  <2>1. 1 \in 1..(m + 1)
    OBVIOUS
  <2>2. QED
    BY <1>4, <1>7, <2>1
<1>13. Whole(s) <=> Whole(t)
  BY <1>7, <1>8, <1>9, <1>10, <1>11, <1>12, WholeBetween
<1>14. QED
  BY <1>5, <1>6, <1>13 DEF InStep, Coming

\* In step, a byte of the mouse is what the driver takes it for, the third of three
\* bytes of one report being its last.
LEMMA InStepMouse ==
    ASSUME InputInv, MouseReads, InStep
    PROVE  /\ InStep'
           /\ event' = IF Head(port).part = 3 THEN Reports(Head(port).of) ELSE Nothing
<1>1. InputTypeOK /\ InputTypeOK'
  BY MouseReadsKeeps DEF InputInv
<1>2. PICK B : B = MouseBytes \cup KeyBytes
  OBVIOUS
<1>3. PICK b : b = Head(port)
  OBVIOUS
<1>4. /\ packet \in Seq(MouseBytes) /\ packet \in Seq(B) /\ port \in Seq(B) /\ rest \in Seq(B)
      /\ port # <<>> /\ Len(packet) <= 2
  BY <1>1, <1>2, SeqMonotonic DEF InputTypeOK, MouseReads, Mine
<1>5. b = port[1] /\ b \in B /\ port' = Tail(port) /\ Tail(port) \in Seq(B) /\ port = <<b>> \o Tail(port)
  <2>1. b = port[1] /\ b \in B /\ Tail(port) \in Seq(B)
    BY <1>3, <1>4, HeadTailProperties
  <2>2. port' = Tail(port)
    BY DEF MouseReads, MousePoll
  <2>3. port = <<b>> \o Tail(port)
    BY <1>3, <1>4, HeadTailProperties
  <2>4. QED
    BY <2>1, <2>2, <2>3
<1>6. b \in MouseBytes
  <2>1. b.device = "mouse"
    BY <1>3 DEF MouseReads, Mine
  <2>2. QED
    BY <1>2, <1>5, <2>1 DEF KeyBytes
<1>7. IsMouse(b) /\ b.part \in 1..3 /\ b.of \in Movements /\ b = Packet(b.of)[b.part]
  BY <1>6, MouseByteIs
<1>8. PICK s : s = Coming
  OBVIOUS
<1>9. PICK l \in Nat, m \in Nat, n \in Nat : l = Len(packet) /\ m = Len(Tail(port)) /\ n = Len(rest)
  <2>1. Len(packet) \in Nat /\ Len(Tail(port)) \in Nat /\ Len(rest) \in Nat
    BY <1>4, <1>5, LenProperties
  <2>2. QED
    BY <2>1
<1>10. Len(port) = m + 1 /\ \A i \in 1..m : Tail(port)[i] = port[i + 1]
  BY <1>4, <1>9, HeadTailProperties
<1>11. /\ s \in Seq(B) /\ Len(s) = l + (m + 1) + n
       /\ \A i \in 1..l : s[i] = packet[i]
       /\ \A i \in 1..(m + 1) : s[l + i] = port[i]
       /\ \A i \in 1..n : s[l + (m + 1) + i] = rest[i]
  BY <1>1, <1>2, <1>8, <1>9, <1>10, ComingIs
<1>12. Whole(s) /\ l \in 0..2
  BY <1>4, <1>8, <1>9 DEF InStep, Coming
<1>13. s[l + 1] = b
  <2>1. 1 \in 1..(m + 1)
    OBVIOUS
  <2>2. QED
    BY <1>5, <1>11, <2>1
<1>14. \A i \in 1..l : s[i] \in MouseBytes /\ IsMouse(s[i])
  <2>1. \A i \in 1..l : s[i] \in MouseBytes
    BY <1>4, <1>9, <1>11
  <2>2. QED
    BY <2>1, MouseByteIs
<1>15. /\ s[1].part = 1 /\ IsMouse(s[1])
       /\ l >= 1 => Continues(s[1], s[2]) /\ IsMouse(s[2])
       /\ l >= 2 => Continues(s[2], s[3]) /\ IsMouse(s[3])
  <2>1. IsMouse(s[1]) /\ (l >= 1 => IsMouse(s[2])) /\ (l >= 2 => IsMouse(s[3]))
    BY <1>7, <1>12, <1>13, <1>14
  <2>2. Len(s) > 0 /\ (l >= 1 => Len(s) > 1) /\ (l >= 2 => Len(s) > 2)
    BY <1>11, <1>12
  <2>3. /\ s[1].part = 1
        /\ Len(s) > 1 /\ IsMouse(s[2]) => Continues(s[1], s[2])
        /\ Len(s) > 2 /\ IsMouse(s[2]) /\ IsMouse(s[3]) => Continues(s[2], s[3])
    BY <1>11, <1>12, <2>1, <2>2, WholeFirst
  <2>4. QED
    BY <2>1, <2>2, <2>3
<1>16. b.part = l + 1
  <2>1. CASE l = 0
    BY <1>13, <1>15, <2>1
  <2>2. CASE l = 1
    BY <1>13, <1>15, <2>2 DEF Continues
  <2>3. CASE l = 2
    BY <1>13, <1>15, <2>3 DEF Continues
  <2>4. QED
    BY <1>12, <2>1, <2>2, <2>3
<1>17. Accepts(b)
  <2>1. CASE l = 0
    <3>1. b = Packet(b.of)[1]
      BY <1>7, <1>16, <2>1
    <3>2. PICK k \in 0..1, x \in 0..1, y \in 0..1, o \in 0..1 :
            Packet(b.of)[1].value = 8 + k + 16 * x + 32 * y + 64 * o
      BY <1>7, Numbers
    <3>3. Has(b.value, 8)
      BY <3>1, <3>2, Flags
    <3>4. QED
      BY <3>3 DEF Accepts
  <2>2. CASE l # 0
    BY <1>9, <2>2 DEF Accepts
  <2>3. QED
    BY <2>1, <2>2
<1>18. UNCHANGED rest
  BY DEF MouseReads
<1>19. CASE l < 2
  <2>1. packet' = Append(packet, b) /\ event' = Nothing
    BY <1>3, <1>9, <1>17, <1>19 DEF MouseReads, MousePoll
  <2>2. packet' = packet \o <<b>> /\ <<b>> \in Seq(B)
    BY <1>4, <1>5, <2>1, AppendIsConcat
  <2>3. (packet \o <<b>>) \o Tail(port) = packet \o (<<b>> \o Tail(port))
    BY <1>4, <1>5, <2>2, ConcatAssociative
  <2>4. (packet \o port \o rest)' = packet \o port \o rest
    BY <1>5, <1>18, <2>2, <2>3
  <2>5. InStep'
    BY <2>4 DEF InStep
  <2>6. b.part # 3
    BY <1>16, <1>19
  <2>7. QED
    BY <1>3, <2>1, <2>5, <2>6
<1>20. CASE l = 2
  <2>1. packet' = <<>> /\ event' = Decode(Append(packet, b))
    BY <1>3, <1>9, <1>17, <1>20 DEF MouseReads, MousePoll
  <2>2. b.part = 3 /\ s[3] = b
    BY <1>13, <1>16, <1>20
  <2>3. s[1] \in MouseBytes /\ s[2] \in MouseBytes
    BY <1>14, <1>20
  <2>4. /\ s[1].part = 1 /\ s[2].part = 2
        /\ s[1].of = b.of /\ s[2].of = b.of
    BY <1>15, <1>20, <2>2 DEF Continues
  <2>5. s[1] = Packet(b.of)[1] /\ s[2] = Packet(b.of)[2] /\ b = Packet(b.of)[3]
    BY <1>7, <2>2, <2>3, <2>4, MouseByteIs
  <2>6. PICK p : p = Append(packet, b)
    OBVIOUS
  <2>7. p[1] = s[1] /\ p[2] = s[2] /\ p[3] = b
    <3>1. p[l + 1] = b /\ \A i \in 1..l : p[i] = packet[i]
      BY <1>4, <1>5, <1>9, <2>6, AppendProperties
    <3>2. l + 1 = 3 /\ 1 \in 1..l /\ 2 \in 1..l
      BY <1>20
    <3>3. QED
      BY <1>11, <3>1, <3>2
  <2>8. event' = Reports(b.of)
    BY <1>7, <2>1, <2>5, <2>6, <2>7, DecodedAsReported
  <2>9. PICK t : t = Coming'
    OBVIOUS
  <2>10. /\ t \in Seq(B) /\ Len(t) = Len(packet') + Len(port') + Len(rest')
         /\ \A i \in 1..Len(port') : t[Len(packet') + i] = port'[i]
         /\ \A i \in 1..Len(rest') : t[Len(packet') + Len(port') + i] = rest'[i]
    BY <1>1, <1>2, <2>9, ComingBecomes
  <2>11. Len(packet') = 0
    BY <2>1
  <2>12. /\ Len(t) = m + n
         /\ \A i \in 1..m : t[i] = Tail(port)[i]
         /\ \A i \in 1..n : t[m + i] = rest[i]
    BY <1>5, <1>9, <1>18, <2>10, <2>11
  <2>13. ASSUME NEW i \in 1..Len(t)
         PROVE  t[i] = s[i + 3]
    <3>1. CASE i <= m
      <4>1. i + 3 = l + (i + 1) /\ i + 1 \in 1..(m + 1) /\ i \in 1..m
        BY <1>20, <3>1
      <4>2. QED
        BY <1>10, <1>11, <2>12, <4>1
    <3>2. CASE i > m
      <4>1. PICK j \in 1..n : i = m + j
        <5>1. i - m \in 1..n /\ i = m + (i - m)
          BY <2>12, <3>2
        <5>2. QED
          BY <5>1
      <4>2. i + 3 = l + (m + 1) + j
        BY <1>20, <4>1
      <4>3. QED
        BY <1>11, <2>12, <4>1, <4>2
    <3>3. QED
      BY <2>12, <3>1, <3>2
  <2>14. Len(s) = Len(t) + 3
    BY <1>11, <1>20, <2>12
  <2>15. Whole(t)
    BY <1>11, <1>12, <1>15, <1>20, <2>10, <2>13, <2>14, WholeRest
  <2>16. InStep'
    BY <2>9, <2>15 DEF InStep, Coming
  <2>17. QED
    BY <1>3, <2>2, <2>8, <2>16
<1>21. QED
  BY <1>12, <1>19, <1>20

\* In step, packets are decoded as they were reported, and the driver falls out of
\* step only when a byte is lost.
THEOREM PacketsDelivered == InputSpec => PacketsFaithful
<1>1. ASSUME InputInv, [InputNext]_inputVars
      PROVE  InStep =>
               /\ InStep' \/ ByteLost
               /\ Taken("mouse") =>
                    event' = IF Head(port).part = 3 THEN Reports(Head(port).of) ELSE Nothing
  <2> SUFFICES ASSUME InStep
               PROVE  /\ InStep' \/ ByteLost
                      /\ Taken("mouse") =>
                           event' = IF Head(port).part = 3 THEN Reports(Head(port).of) ELSE Nothing
    OBVIOUS
  <2>1. InStep' \/ ByteLost
    <3>1. CASE UNCHANGED <<port, rest, packet>>
      BY <3>1 DEF InStep
    <3>2. CASE \/ \E b : Typing(b)
               \/ MouseSends \/ ByteLost \/ (\E m \in Movements : MouseMoves(m))
               \/ MouseReads \/ KeyboardReads
      BY <1>1, <3>2, InStepTyping, InStepSends, InStepMoves, InStepMouse, InStepKeyboard, Zenon
    <3>3. QED
      BY <1>1, <3>1, <3>2, InputCases DEF InputInv, QuietPoll, inputVars, deviceVars
  <2>2. ASSUME Taken("mouse")
        PROVE  event' = IF Head(port).part = 3 THEN Reports(Head(port).of) ELSE Nothing
    <3>1. MouseReads
      BY <1>1, <2>2, TakenBy DEF InputInv
    <3>2. QED
      BY <1>1, <3>1, InStepMouse
  <2>3. QED
    BY <2>1, <2>2
<1>2. QED
  BY <1>1, InputInvariant, PTL DEF InputSpec, PacketsFaithful

-----------------------------------------------------------------------------
(* The rings of a channel.                                                  *)

\* The inductive invariant: the mapping reads the rings, so it needs both that
\* they are well typed and that their three indices agree.
RingInv == RingTypeOK /\ RingConsistent

\* The index arithmetic of channel.c wraps exactly once.
LEMMA AdvanceWraps ==
    \A i \in Slot : Advance(i) = Nth(i, 1) /\ Advance(i) \in Slot
BY RingAssumption DEF Slot, Advance, Nth

\* A position of a ring is a slot, and distinct positions are distinct slots.
LEMMA SlotsDistinct ==
    \A r \in Slot : \A i \in 0..RingCapacity :
        /\ Nth(r, i) \in Slot
        /\ \A j \in 0..RingCapacity : i # j /\ i < RingCapacity /\ j < RingCapacity => Nth(r, i) # Nth(r, j)
BY RingAssumption DEF Slot, Nth

\* Moving the first position on shifts every position by one.
LEMMA NthShift ==
    \A r \in Slot : \A i \in 0..(RingCapacity - 1) :
        /\ Nth(Advance(r), i) = Nth(r, i + 1)
        /\ Advance(Nth(r, i)) = Nth(r, i + 1)
<1> SUFFICES ASSUME NEW r \in Slot, NEW i \in 0..(RingCapacity - 1)
             PROVE  Nth(Advance(r), i) = Nth(r, i + 1) /\ Advance(Nth(r, i)) = Nth(r, i + 1)
  OBVIOUS
<1>1. Advance(r) = Nth(r, 1) /\ Advance(Nth(r, i)) = Nth(Nth(r, i), 1)
  BY AdvanceWraps, SlotsDistinct, RingAssumption DEF Slot
<1>2. QED
  BY <1>1, RingAssumption DEF Slot, Nth

\* A function on 1..n with values in S is a sequence of length n.
LEMMA FunctionIsSeq ==
    ASSUME NEW S, NEW n \in Nat, NEW f \in [1..n -> S]
    PROVE  f \in Seq(S) /\ Len(f) = n
OBVIOUS

\* The two sides are each other's peers.
LEMMA Peers == \A side \in Side : Peer(side) \in Side /\ Peer(side) # side
BY DEF Side, Peer

-----------------------------------------------------------------------------
\* What a successful write does to the ring it fills.
LEMMA EnqueueAppends ==
    ASSUME RingInv, NEW q \in Side, NEW m \in Message, count[q] < RingCapacity, allocated,
           Size[m] \in 1..MaxSize, Enqueue(q, m)
    PROVE  /\ RingTypeOK' /\ RingConsistent'
           /\ Pending(q)' = Append(Pending(q), m)
           /\ \A s \in Side \ {q} : Pending(s)' = Pending(s)
<1>1. count[q] \in Nat /\ read_index[q] \in Slot /\ write_index[q] \in Slot
      /\ write_index[q] = Nth(read_index[q], count[q])
  BY RingAssumption DEF RingInv, RingTypeOK, RingConsistent
<1>2. /\ \A s \in Side : s # q => messages'[s] = messages[s]
      /\ messages'[q] \in [Slot -> Message \cup {"none"}]
      /\ messages'[q][write_index[q]] = m
      /\ \A i \in Slot : i # write_index[q] => messages'[q][i] = messages[q][i]
  <2>1. messages \in [Side -> [Slot -> Message \cup {"none"}]]
    BY DEF RingInv, RingTypeOK
  <2>2. messages' = [messages EXCEPT ![q][write_index[q]] = m]
    BY DEF Enqueue
  <2>3. messages'[q] = [messages[q] EXCEPT ![write_index[q]] = m]
    BY <2>1, <2>2
  <2>4. \A s \in Side : s # q => messages'[s] = messages[s]
    BY <2>1, <2>2
  <2>5. QED
    BY <1>1, <2>1, <2>3, <2>4
<1>3. RingTypeOK'
  <2>1. messages' \in [Side -> [Slot -> Message \cup {"none"}]]
    BY <1>1, <1>2 DEF RingInv, RingTypeOK, Enqueue
  <2>2. write_index' \in [Side -> Slot]
    BY <1>1, AdvanceWraps DEF RingInv, RingTypeOK, Enqueue
  <2>3. count' \in [Side -> 0..RingCapacity]
    BY <1>1, RingAssumption DEF RingInv, RingTypeOK, Enqueue
  <2>4. QED
    BY <2>1, <2>2, <2>3 DEF RingInv, RingTypeOK, Enqueue, Return, lifeVars
<1>4. /\ count'[q] = count[q] + 1
      /\ write_index'[q] = Advance(write_index[q])
      /\ \A s \in Side : s # q => count'[s] = count[s] /\ write_index'[s] = write_index[s]
      /\ read_index' = read_index
  BY DEF RingInv, RingTypeOK, Enqueue
<1>5. \A s \in Side \ {q} : Pending(s)' = Pending(s)
  BY <1>2, <1>4 DEF Pending
<1>6. Pending(q)' = Append(Pending(q), m)
  <2> DEFINE old == Pending(q)
             new == Pending(q)'
  <2>1. old = [i \in 1..count[q] |-> messages[q][Nth(read_index[q], i - 1)]]
    BY DEF Pending
  <2>2. new = [i \in 1..(count[q] + 1) |-> messages'[q][Nth(read_index[q], i - 1)]]
    BY <1>4 DEF Pending
  <2>3. \A i \in 1..count[q] : new[i] = old[i]
    <3> TAKE i \in 1..count[q]
    <3>1. i - 1 \in 0..RingCapacity /\ count[q] \in 0..RingCapacity /\ i - 1 # count[q] /\ i - 1 < RingCapacity
      BY <1>1, RingAssumption
    <3>2. /\ Nth(read_index[q], i - 1) \in Slot
          /\ Nth(read_index[q], i - 1) # Nth(read_index[q], count[q])
      BY <1>1, <3>1, SlotsDistinct
    <3>3. messages'[q][Nth(read_index[q], i - 1)] = messages[q][Nth(read_index[q], i - 1)]
      BY <1>1, <1>2, <3>2
    <3>4. i \in 1..(count[q] + 1)
      BY <1>1
    <3>5. QED
      BY <2>1, <2>2, <3>3, <3>4
  <2>4. new[count[q] + 1] = m
    BY <1>1, <1>2, <2>2
  <2>5. \A i \in 1..count[q] : old[i] \in Message
    BY <2>1, <1>1 DEF RingInv, RingConsistent, Pending
  <2>6. old \in Seq(Message) /\ Len(old) = count[q]
    <3>1. old \in [1..count[q] -> Message]
      BY <2>1, <2>5
    <3>2. QED
      BY <1>1, <3>1, FunctionIsSeq
  <2> HIDE DEF old, new
  <2>7. new = Append(old, m)
    <3>1. new \in Seq(Message) /\ Len(new) = count[q] + 1
      <4>1. new \in [1..(count[q] + 1) -> Message]
        <5>1. \A i \in 1..(count[q] + 1) : new[i] \in Message
          BY <1>1, <2>3, <2>4, <2>5
        <5>2. QED
          BY <2>2, <5>1
      <4>2. QED
        BY <1>1, <4>1, FunctionIsSeq
    <3>2. \A i \in 1..Len(new) : new[i] = Append(old, m)[i]
      BY <1>1, <2>3, <2>4, <2>6, <3>1
    <3>3. QED
      <4>1. Append(old, m) \in Seq(Message) /\ Len(Append(old, m)) = count[q] + 1
        BY <2>6, AppendProperties
      <4>2. QED
        BY <3>1, <3>2, <4>1, SeqEqual
  <2>8. QED
    BY <2>7 DEF old, new
<1>7. \A i \in DOMAIN Pending(q)' : Pending(q)'[i] \in Message /\ Size[Pending(q)'[i]] \in 1..MaxSize
  <2>1. \A i \in 1..count[q] : Pending(q)[i] \in Message /\ Size[Pending(q)[i]] \in 1..MaxSize
    BY <1>1 DEF RingInv, RingConsistent, Pending
  <2>2. Pending(q) \in Seq(Message) /\ Len(Pending(q)) = count[q]
    <3>1. Pending(q) \in [1..count[q] -> Message]
      BY <2>1 DEF Pending
    <3>2. QED
      BY <1>1, <3>1, FunctionIsSeq
  <2>3. QED
    BY <1>1, <1>6, <2>1, <2>2
<1>8. RingConsistent'
  <2>1. write_index'[q] = Nth(read_index'[q], count'[q])
    BY <1>1, <1>4, NthShift, RingAssumption
  <2>2. UNCHANGED lifeVars
    BY DEF Enqueue
  <2>3. QED
    BY <1>4, <1>5, <1>7, <2>1, <2>2 DEF RingInv, RingConsistent, lifeVars
<1>9. QED
  BY <1>3, <1>5, <1>6, <1>8

\* What a successful read does to the ring it drains.
LEMMA DequeueTakesHead ==
    ASSUME RingInv, NEW q \in Side, count[q] > 0, allocated, Dequeue(q)
    PROVE  /\ RingTypeOK' /\ RingConsistent'
           /\ First(q) = Head(Pending(q))
           /\ Pending(q) # <<>>
           /\ Pending(q)' = Tail(Pending(q))
           /\ \A s \in Side \ {q} : Pending(s)' = Pending(s)
<1>1. /\ count[q] \in 1..RingCapacity /\ read_index[q] \in Slot
      /\ write_index[q] = Nth(read_index[q], count[q])
  BY RingAssumption DEF RingInv, RingTypeOK, RingConsistent
<1>2. /\ count'[q] = count[q] - 1
      /\ read_index'[q] = Advance(read_index[q])
      /\ \A s \in Side : s # q => count'[s] = count[s] /\ read_index'[s] = read_index[s]
      /\ UNCHANGED <<messages, write_index, lifeVars>>
  BY DEF RingInv, RingTypeOK, Dequeue
<1>3. First(q) = Pending(q)[1] /\ First(q) \in Message
  <2>1. Nth(read_index[q], 0) = read_index[q]
    BY <1>1, RingAssumption DEF Nth, Slot
  <2>2. Pending(q)[1] = messages[q][Nth(read_index[q], 0)]
    BY <1>1 DEF Pending
  <2>3. Pending(q)[1] \in Message
    <3>1. 1 \in DOMAIN Pending(q)
      BY <1>1, RingAssumption DEF Pending
    <3>2. QED
      BY <3>1 DEF RingInv, RingConsistent
  <2>4. QED
    BY <2>1, <2>2, <2>3 DEF First
<1>4. RingTypeOK'
  <2>1. read_index' \in [Side -> Slot]
    BY <1>1, AdvanceWraps DEF RingInv, RingTypeOK, Dequeue
  <2>2. count' \in [Side -> 0..RingCapacity]
    BY <1>1, RingAssumption DEF RingInv, RingTypeOK, Dequeue
  <2>3. reply' \in Message
    BY <1>3 DEF Dequeue, Return
  <2>4. QED
    BY <1>2, <2>1, <2>2, <2>3 DEF RingInv, RingTypeOK, lifeVars
<1>5. \A s \in Side \ {q} : Pending(s)' = Pending(s)
  BY <1>2 DEF Pending
<1> DEFINE old == Pending(q)
           new == Pending(q)'
<1>6. old \in Seq(Message) /\ Len(old) = count[q]
      /\ \A i \in 1..count[q] : Size[old[i]] \in 1..MaxSize
  <2>1. old \in [1..count[q] -> Message]
    BY <1>1 DEF RingInv, RingConsistent, Pending
  <2>2. \A i \in 1..count[q] : Size[old[i]] \in 1..MaxSize
    BY <1>1 DEF RingInv, RingConsistent, Pending
  <2>3. QED
    BY <1>1, <2>1, <2>2, FunctionIsSeq
<1>7. \A i \in 1..(count[q] - 1) : new[i] = old[i + 1]
  <2> SUFFICES ASSUME NEW i \in 1..(count[q] - 1)
               PROVE  new[i] = old[i + 1]
    OBVIOUS
  <2>1. new[i] = messages[q][Nth(Advance(read_index[q]), i - 1)]
    BY <1>1, <1>2 DEF Pending
  <2>2. old[i + 1] = messages[q][Nth(read_index[q], i)]
    BY <1>1 DEF Pending
  <2>3. i - 1 \in 0..(RingCapacity - 1) /\ (i - 1) + 1 = i
    BY <1>1, RingAssumption
  <2>4. QED
    BY <1>1, <2>1, <2>2, <2>3, NthShift
<1>8. new \in Seq(Message) /\ Len(new) = count[q] - 1
  <2>1. new \in [1..(count[q] - 1) -> Message]
    <3>1. \A i \in 1..(count[q] - 1) : new[i] \in Message
      BY <1>1, <1>6, <1>7
    <3>2. new = [i \in 1..(count[q] - 1) |-> new[i]]
      BY <1>2 DEF Pending
    <3> HIDE DEF new
    <3>3. QED
      BY <3>1, <3>2
  <2>2. QED
    BY <1>1, <2>1, FunctionIsSeq
<1> HIDE DEF old, new
<1>9. new = Tail(old) /\ old # <<>> /\ Head(old) = old[1]
  <2>1. old # <<>>
    BY <1>1, <1>6
  <2>2. Tail(old) \in Seq(Message) /\ Len(Tail(old)) = Len(new)
        /\ \A i \in 1..Len(new) : new[i] = Tail(old)[i]
    BY <1>1, <1>6, <1>7, <1>8, <2>1, HeadTailProperties
  <2>3. QED
    BY <1>8, <2>1, <2>2, SeqEqual
<1>10. \A i \in DOMAIN new : new[i] \in Message /\ Size[new[i]] \in 1..MaxSize
  <2>1. \A i \in 1..(count[q] - 1) : i + 1 \in 1..count[q] /\ new[i] = old[i + 1]
    BY <1>1, <1>7
  <2>2. \A i \in 1..count[q] : old[i] \in Message
    BY <1>6
  <2>3. DOMAIN new = 1..(count[q] - 1)
    BY <1>8
  <2>4. QED
    BY <1>6, <2>1, <2>2, <2>3
<1>11. RingConsistent'
  <2>1. write_index'[q] = Nth(read_index'[q], count'[q])
    <3>1. Nth(Advance(read_index[q]), count[q] - 1) = Nth(read_index[q], count[q])
      BY <1>1, NthShift, RingAssumption
    <3>2. QED
      BY <1>1, <1>2, <3>1
  <2>2. \A i \in DOMAIN Pending(q)' : Pending(q)'[i] \in Message /\ Size[Pending(q)'[i]] \in 1..MaxSize
    BY <1>10 DEF new
  <2>3. QED
    BY <1>2, <1>5, <2>1, <2>2 DEF RingInv, RingConsistent, lifeVars
<1>12. QED
  BY <1>3, <1>4, <1>5, <1>9, <1>11 DEF old, new

-----------------------------------------------------------------------------
\* Pending reads only the ring.
LEMMA PendingUnchanged ==
    ASSUME UNCHANGED ringVars
    PROVE  \A q \in Side : Pending(q)' = Pending(q)
BY DEF Pending, ringVars

\* While the channel is allocated what a side has pending is a message sequence.
LEMMA PendingIsSeq ==
    ASSUME RingInv, allocated, NEW q \in Side
    PROVE  Pending(q) \in Seq(Message) /\ Len(Pending(q)) = count[q]
<1>1. count[q] \in Nat
  BY RingAssumption DEF RingInv, RingTypeOK
<1>2. Pending(q) \in [1..count[q] -> Message]
  BY <1>1 DEF RingInv, RingConsistent, Pending
<1>3. QED
  BY <1>1, <1>2, FunctionIsSeq

\* The slot at read_index holds the oldest pending message.
LEMMA FirstIsHead ==
    ASSUME RingInv, allocated, NEW q \in Side, count[q] # 0
    PROVE  First(q) = Head(Pending(q)) /\ Pending(q) # <<>>
<1>1. count[q] \in 1..RingCapacity /\ read_index[q] \in Slot
  BY RingAssumption DEF RingInv, RingTypeOK
<1>2. Pending(q)[1] = messages[q][Nth(read_index[q], 0)]
  BY <1>1, RingAssumption DEF Pending
<1>3. Nth(read_index[q], 0) = read_index[q]
  BY <1>1, RingAssumption DEF Nth, Slot
<1>4. Pending(q) \in Seq(Message) /\ Len(Pending(q)) > 0
  BY <1>1, PendingIsSeq, RingAssumption
<1>5. QED
  BY <1>2, <1>3, <1>4 DEF First

\* A refused call changes nothing but the reply.
LEMMA RefusalKeeps ==
    ASSUME RingInv, NEW error \in {"INVALID_ARGUMENT", "IO", "WOULD_BLOCK"}, Refuse(error)
    PROVE  RingInv'
<1>1. RingTypeOK'
  BY DEF Refuse, Return, RingInv, RingTypeOK, ringVars, lifeVars
<1>2. RingConsistent'
  BY PendingUnchanged DEF Refuse, RingInv, RingConsistent, ringVars, lifeVars
<1>3. QED
  BY <1>1, <1>2 DEF RingInv

\* A ring that kcalloc cleared, or that is not allocated, holds no message.
LEMMA EmptyRing ==
    ASSUME NEW q \in Side, count[q] = 0
    PROVE  Pending(q) = <<>>
BY DEF Pending

\* The invariant of the rings: the code keeps it for every capacity.
THEOREM RingInvariance == RingSpec => []RingInv
<1>1. RingInit => RingInv
  <2> SUFFICES ASSUME RingInit PROVE RingInv
    OBVIOUS
  <2>1. RingTypeOK
    <3>1. /\ messages \in [Side -> [Slot -> Message \cup {"none"}]]
          /\ read_index \in [Side -> Slot]
          /\ write_index \in [Side -> Slot]
          /\ count \in [Side -> 0..RingCapacity]
      BY RingAssumption DEF RingInit, Slot
    <3>2. /\ allocated \in BOOLEAN
          /\ endpoint_open \in [Side -> BOOLEAN]
          /\ releasing \in BOOLEAN
          /\ reply \in {"none"}
      BY Zenon DEF RingInit
    <3>3. QED
      BY <3>1, <3>2 DEF RingTypeOK
  <2>2. \A q \in Side : write_index[q] = Nth(read_index[q], count[q])
    BY RingAssumption DEF RingInit, Nth
  <2>3. QED
    BY <2>1, <2>2 DEF RingInit, RingInv, RingConsistent, Side
<1>2. RingInv /\ [RingNext]_channelVars => RingInv'
  <2> SUFFICES ASSUME RingInv, [RingNext]_channelVars PROVE RingInv'
    OBVIOUS
  <2> USE DEF RingInv
  <2>1. CASE CreatePair
    <3>1. RingTypeOK'
      BY <2>1, RingAssumption DEF CreatePair, Cleared, RingTypeOK, Slot
    <3>2. \A q \in Side : count'[q] = 0 /\ write_index'[q] = Nth(read_index'[q], count'[q])
      BY <2>1, RingAssumption DEF CreatePair, Cleared, Nth
    <3>3. releasing' = releasing /\ ~ allocated /\ allocated' /\ \A side \in Side : endpoint_open'[side]
      BY <2>1 DEF CreatePair
    <3>4. ~ releasing
      BY <3>3 DEF RingConsistent
    <3>5. \A q \in Side : DOMAIN Pending(q)' = {}
      BY <3>2 DEF Pending
    <3>6. QED
      BY <3>1, <3>2, <3>3, <3>4, <3>5 DEF RingConsistent, Side
  <2>2. ASSUME NEW side \in Side, NEW message \in Message, ChannelWrite(side, message)
        PROVE  RingInv'
    <3>1. CASE \E error \in {"INVALID_ARGUMENT", "IO", "WOULD_BLOCK"} : Refuse(error)
      BY <3>1, RefusalKeeps
    <3>2. CASE /\ Size[message] \in 1..MaxSize
               /\ endpoint_open[Peer(side)]
               /\ ~ Full(Peer(side))
               /\ Enqueue(Peer(side), message)
      <4>1. Peer(side) \in Side /\ allocated
        BY <3>2, Peers DEF RingConsistent
      <4>2. count[Peer(side)] < RingCapacity
        BY <3>2, <4>1, RingAssumption DEF Full, RingTypeOK
      <4>3. QED
        BY <3>2, <4>1, <4>2, EnqueueAppends
    <3>3. QED
      BY <2>2, <3>1, <3>2, RingAssumption DEF ChannelWrite
  <2>3. ASSUME NEW side \in Side, NEW size \in 0..MaxSize, ChannelRead(side, size)
        PROVE  RingInv'
    <3>1. CASE \E error \in {"INVALID_ARGUMENT", "IO", "WOULD_BLOCK"} : Refuse(error)
      BY <3>1, RefusalKeeps
    <3>2. CASE count[side] # 0 /\ Dequeue(side)
      <4>1. count[side] > 0 /\ allocated
        BY <2>3, <3>2, RingAssumption DEF RingTypeOK, RingConsistent, ChannelRead
      <4>2. QED
        BY <3>2, <4>1, DequeueTakesHead
    <3>3. QED
      BY <2>3, <3>1, <3>2 DEF ChannelRead
  <2>4. ASSUME NEW side \in Side, ChannelDestroy(side)
        PROVE  RingInv'
    <3>1. /\ UNCHANGED <<ringVars, allocated>> /\ allocated
          /\ endpoint_open' = [endpoint_open EXCEPT ![side] = FALSE]
          /\ releasing' = (\A s \in Side : ~ endpoint_open'[s])
          /\ reply' = "none"
      BY <2>4 DEF ChannelDestroy, Return, RingConsistent
    <3>2. endpoint_open' \in [Side -> BOOLEAN]
      BY <3>1 DEF RingTypeOK
    <3>3. RingTypeOK'
      BY <3>1, <3>2, Zenon DEF RingTypeOK, ringVars
    <3>4. \A s \in Side : endpoint_open'[s] => allocated'
      BY <3>1
    <3>5. QED
      BY <3>1, <3>3, <3>4, PendingUnchanged DEF RingConsistent, ringVars
  <2>5. CASE FreeChannel
    <3>1. RingTypeOK'
      BY <2>5, Zenon DEF FreeChannel, RingTypeOK, ringVars, Return
    <3>2. QED
      BY <2>5, <3>1, PendingUnchanged DEF FreeChannel, RingConsistent, ringVars
  <2>6. CASE UNCHANGED channelVars
    BY <2>6, PendingUnchanged DEF channelVars, ringVars, lifeVars, RingTypeOK, RingConsistent
  <2>7. QED
    BY <2>1, <2>2, <2>3, <2>4, <2>5, <2>6 DEF RingNext
<1>3. QED
  BY <1>1, <1>2, PTL DEF RingSpec

\* Every variable of struct kernel_channel keeps its type.
THEOREM RingTypeCorrect == RingSpec => []RingTypeOK
BY RingInvariance, PTL DEF RingInv

\* The indices and counts of both rings agree, and what they delimit is messages.
THEOREM RingCorrect == RingSpec => []RingConsistent
BY RingInvariance, PTL DEF RingInv

-----------------------------------------------------------------------------
\* The messages the mapping shows for a side.
Inbox == [side \in Side |-> IF allocated THEN Pending(side) ELSE <<>>]

\* A refused call is the same refusal of the abstract channel.
LEMMA RefusalMaps ==
    ASSUME NEW error, Refuse(error)
    PROVE  Abstract!Refuse(error)
<1>1. \A q \in Side : Pending(q)' = Pending(q)
  BY PendingUnchanged DEF Refuse
<1>2. QED
  BY <1>1 DEF Refuse, Return, lifeVars, Abstract!Refuse, Abstract!Side, Side

\* Each step of the rings is the step of ChannelSpec that answers the same call.
THEOREM ChannelImplemented == RingSpec => ImplementsChannel
<1> USE DEF Abstract!Side, Side, Abstract!Peer, Peer
<1>1. RingInit => Abstract!Init
  BY DEF RingInit, Abstract!Init
<1>2. ASSUME RingInv, [RingNext]_channelVars PROVE [Abstract!Next]_(Abstract!vars)
  <2> USE <1>2 DEF RingInv
  <2> DEFINE openSides == {side \in Side : endpoint_open[side]}
  <2>1. CASE CreatePair
    <3>1. \A q \in Side : Pending(q)' = <<>>
      BY <2>1 DEF CreatePair, Cleared, Pending
    <3>2. Abstract!Create
      BY <2>1, <3>1 DEF CreatePair, Return, Abstract!Create
    <3>3. QED
      BY <3>2 DEF Abstract!Next
  <2>2. ASSUME NEW side \in Side, NEW message \in Message, ChannelWrite(side, message)
        PROVE  Abstract!Write(side, message)
    <3>1. side \in openSides /\ allocated /\ Size[message] \in Nat
      BY <2>2, RingAssumption DEF ChannelWrite, RingConsistent
    <3>2. CASE Size[message] \notin 1..MaxSize
      <4>1. Refuse("INVALID_ARGUMENT")
        BY <2>2, <3>1, <3>2, RingAssumption DEF ChannelWrite
      <4>2. QED
        BY <3>1, <3>2, <4>1, RefusalMaps DEF Abstract!Write
    <3>3. CASE Size[message] \in 1..MaxSize /\ Peer(side) \notin openSides
      <4>1. Refuse("IO")
        BY <2>2, <3>3, RingAssumption DEF ChannelWrite
      <4>2. QED
        BY <3>1, <3>3, <4>1, RefusalMaps DEF Abstract!Write
    <3>4. CASE Size[message] \in 1..MaxSize /\ Peer(side) \in openSides
      <4>1. Pending(Peer(side)) \in Seq(Message) /\ Len(Pending(Peer(side))) = count[Peer(side)]
        BY <3>1, PendingIsSeq
      <4>2. CASE Full(Peer(side))
        <5>1. Refuse("WOULD_BLOCK")
          BY <2>2, <3>4, <4>2, RingAssumption DEF ChannelWrite
        <5>2. Len(Pending(Peer(side))) = RingCapacity
          BY <4>1, <4>2 DEF Full
        <5>3. QED
          BY <3>1, <3>4, <5>1, <5>2, RefusalMaps DEF Abstract!Write
      <4>3. CASE ~ Full(Peer(side))
        <5>1. Enqueue(Peer(side), message)
          BY <2>2, <3>4, <4>3, RingAssumption DEF ChannelWrite
        <5>2. count[Peer(side)] < RingCapacity
          BY <4>3, RingAssumption DEF Full, RingTypeOK
        <5>3. /\ Pending(Peer(side))' = Append(Pending(Peer(side)), message)
              /\ \A s \in Side \ {Peer(side)} : Pending(s)' = Pending(s)
          BY <3>1, <3>4, <5>1, <5>2, EnqueueAppends
        <5>4. reply' = "ok" /\ UNCHANGED <<allocated, endpoint_open>>
          BY <5>1 DEF Enqueue, Return, lifeVars
        <5>5. Inbox' = [Inbox EXCEPT ![Peer(side)] = Append(@, message)]
          BY <3>1, <5>3, <5>4 DEF Inbox
        <5>6. QED
          BY <3>1, <3>4, <4>1, <5>2, <5>4, <5>5 DEF Inbox, Abstract!Write
      <4>4. QED
        BY <4>2, <4>3
    <3>5. QED
      BY <3>2, <3>3, <3>4
  <2>3. ASSUME NEW side \in Side, NEW size \in 0..MaxSize, ChannelRead(side, size)
        PROVE  Abstract!Read(side, size)
    <3>1. side \in openSides /\ allocated
      BY <2>3 DEF ChannelRead, RingConsistent
    <3>2. Pending(side) \in Seq(Message) /\ Len(Pending(side)) = count[side]
      BY <3>1, PendingIsSeq
    <3>3. CASE count[side] = 0
      <4>1. Refuse("WOULD_BLOCK") /\ Pending(side) = <<>>
        BY <2>3, <3>2, <3>3 DEF ChannelRead
      <4>2. QED
        BY <3>1, <4>1, RefusalMaps DEF Abstract!Read
    <3>4. CASE count[side] # 0
      <4>1. First(side) = Head(Pending(side)) /\ Pending(side) # <<>>
        BY <3>1, <3>2, <3>4, FirstIsHead
      <4>2. First(side) \in Message /\ Size[First(side)] \in Nat
        BY <3>2, <4>1, HeadTailProperties, RingAssumption
      <4>3. CASE size < Size[First(side)]
        <5>1. Refuse("INVALID_ARGUMENT")
          BY <2>3, <3>4, <4>3 DEF ChannelRead
        <5>2. QED
          BY <3>1, <4>1, <4>3, <5>1, RefusalMaps DEF Abstract!Read
      <4>4. CASE ~ (size < Size[First(side)])
        <5>1. Dequeue(side) /\ count[side] > 0
          BY <2>3, <3>4, <4>4, RingAssumption DEF ChannelRead, RingTypeOK
        <5>2. /\ Pending(side)' = Tail(Pending(side))
              /\ \A s \in Side \ {side} : Pending(s)' = Pending(s)
          BY <3>1, <5>1, DequeueTakesHead
        <5>3. reply' = Head(Pending(side)) /\ UNCHANGED <<allocated, endpoint_open>>
          BY <4>1, <5>1 DEF Dequeue, Return, lifeVars
        <5>4. Inbox' = [Inbox EXCEPT ![side] = Tail(@)]
          BY <3>1, <5>2, <5>3 DEF Inbox
        <5>5. size >= Size[Head(Pending(side))]
          BY <4>1, <4>2, <4>4, RingAssumption
        <5>6. QED
          BY <3>1, <4>1, <5>3, <5>4, <5>5 DEF Inbox, Abstract!Read
      <4>5. QED
        BY <4>3, <4>4
    <3>5. QED
      BY <3>3, <3>4
  <2>4. ASSUME NEW side \in Side, ChannelDestroy(side)
        PROVE  Abstract!Close(side)
    <3>1. /\ endpoint_open[side] /\ reply' = "none" /\ UNCHANGED allocated
          /\ endpoint_open' = [endpoint_open EXCEPT ![side] = FALSE]
          /\ \A q \in Side : Pending(q)' = Pending(q)
      BY <2>4, PendingUnchanged DEF ChannelDestroy, Return
    <3>2. openSides' = openSides \ {side}
      BY <3>1 DEF RingTypeOK
    <3>3. QED
      BY <3>1, <3>2 DEF Abstract!Close
  <2>5. CASE FreeChannel
    <3>1. Abstract!Vanish
      BY <2>5 DEF FreeChannel, Return, RingConsistent, Abstract!Vanish
    <3>2. QED
      BY <3>1 DEF Abstract!Next
  <2>6. CASE UNCHANGED channelVars
    <3>1. \A q \in Side : Pending(q)' = Pending(q)
      BY <2>6, PendingUnchanged DEF channelVars
    <3>2. QED
      BY <2>6, <3>1 DEF channelVars, lifeVars, Abstract!vars
  <2>7. QED
    BY <2>1, <2>2, <2>3, <2>4, <2>5, <2>6 DEF RingNext, Abstract!Next
<1>3. QED
  BY <1>1, <1>2, RingInvariance, PTL DEF RingSpec, ImplementsChannel, Abstract!Spec

=============================================================================
