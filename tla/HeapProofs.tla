----------------------------- MODULE HeapProofs -----------------------------
(***************************************************************************)
(* The kernel heap of Heap.tla, for any sizes, requests and number of      *)
(* arenas: its lists stay well formed, and the used blocks are exactly the *)
(* allocations that are held.                                              *)
(***************************************************************************)
EXTENDS Heap, SequenceTheorems, FiniteSetTheorems, WellFoundedInduction, TLAPS

\* A nonempty set of naturals has a least element.
LEMMA LeastExists ==
    ASSUME NEW S \in SUBSET Nat, S # {}
    PROVE  \E m \in S : \A k \in S : m <= k
<1> DEFINE Less == {ss \in Nat \X Nat : ss[1] < ss[2]}
<1>1. \A i, j \in Nat : i < j => <<i, j>> \in Less
  OBVIOUS
<1>2. IsWellFoundedOn(Less, Nat)
  BY NatLessThanWellFounded DEF OpToRel
<1> HIDE DEF Less
<1>3. \E m \in S : \A k \in S : ~ (<<k, m>> \in Less)
  BY <1>2, WFMin
<1>4. PICK m \in S : \A k \in S : ~ (<<k, m>> \in Less)
  BY <1>3
<1>5. \A k \in S : m <= k
  <2> TAKE k \in S
  <2>1. k \in Nat /\ m \in Nat /\ ~ (k < m)
    BY <1>1, <1>4
  <2>2. QED
    BY <2>1
<1>6. QED
  BY <1>5

-----------------------------------------------------------------------------
(* Sequences.                                                               *)

\* A sequence in two parts.
Glued(g, f, h) ==
    /\ Len(g) = Len(f) + Len(h)
    /\ \A k \in 1..Len(f) : g[k] = f[k]
    /\ \A k \in 1..Len(h) : g[Len(f) + k] = h[k]

LEMMA GluedConcat ==
    ASSUME NEW S, NEW f \in Seq(S), NEW h \in Seq(S)
    PROVE  f \o h \in Seq(S) /\ Glued(f \o h, f, h)
<1> DEFINE g == f \o h
<1>1. Len(f) \in Nat /\ Len(h) \in Nat
  BY LenProperties
<1>2. /\ g \in Seq(S)
      /\ Len(g) = Len(f) + Len(h)
      /\ \A k \in 1..(Len(f) + Len(h)) : g[k] = IF k <= Len(f) THEN f[k] ELSE h[k - Len(f)]
  BY ConcatProperties, Zenon
<1> HIDE DEF g
<1>3. ASSUME NEW k \in 1..Len(f) PROVE g[k] = f[k]
  BY <1>1, <1>2
<1>4. ASSUME NEW k \in 1..Len(h) PROVE g[Len(f) + k] = h[k]
  <2>1. Len(f) + k \in 1..(Len(f) + Len(h)) /\ ~ (Len(f) + k <= Len(f)) /\ Len(f) + k - Len(f) = k
    BY <1>1
  <2> DEFINE m == Len(f) + k
  <2>2. m \in 1..(Len(f) + Len(h)) /\ ~ (m <= Len(f)) /\ m - Len(f) = k
    BY <2>1
  <2> HIDE DEF m
  <2>3. g[m] = h[m - Len(f)]
    BY <1>2, <2>2
  <2>4. QED
    BY <2>2, <2>3 DEF m
<1>5. g \in Seq(S) /\ Glued(g, f, h)
  BY <1>2, <1>3, <1>4 DEF Glued
<1>6. QED
  BY <1>5 DEF g

\* The part of a sequence between two positions.
LEMMA Part ==
    ASSUME NEW S, NEW b \in Seq(S), NEW m \in Nat, NEW n \in Nat, m <= n, n <= Len(b)
    PROVE  /\ SubSeq(b, m + 1, n) \in Seq(S)
           /\ Len(SubSeq(b, m + 1, n)) = n - m
           /\ \A k \in 1..(n - m) : SubSeq(b, m + 1, n)[k] = b[m + k]
<1>1. \A k \in (m + 1)..n : b[k] \in S
  BY LenProperties, ElementOfSeq
<1>2. /\ SubSeq(b, m + 1, n) \in Seq(S)
      /\ Len(SubSeq(b, m + 1, n)) = IF m + 1 <= n THEN n - (m + 1) + 1 ELSE 0
      /\ \A k \in 1..(n - (m + 1) + 1) : SubSeq(b, m + 1, n)[k] = b[(m + 1) + k - 1]
  BY <1>1, SubSeqProperties
<1>3. \A k \in 1..(n - m) : (m + 1) + k - 1 = m + k
  OBVIOUS
<1>4. QED
  BY <1>2, <1>3

\* b with positions i to j replaced by mid.
Spliced(g, b, i, j, mid) ==
    /\ Len(g) = i - 1 + Len(mid) + Len(b) - j
    /\ \A k \in 1..(i - 1) : g[k] = b[k]
    /\ \A k \in 1..Len(mid) : g[i - 1 + k] = mid[k]
    /\ \A k \in (j + 1)..Len(b) : g[i - 1 + Len(mid) + k - j] = b[k]

LEMMA GluedTwice ==
    ASSUME NEW front, NEW mid, NEW back, NEW fm, NEW g, NEW b, NEW i \in Nat \ {0}, NEW j \in Nat,
           Len(front) = i - 1, Len(mid) \in Nat, Len(b) \in Nat, j <= Len(b), Len(back) = Len(b) - j,
           Glued(fm, front, mid), Glued(g, fm, back),
           \A k \in 1..(i - 1) : front[k] = b[k],
           \A k \in 1..(Len(b) - j) : back[k] = b[j + k]
    PROVE  Spliced(g, b, i, j, mid)
<1>1. Len(fm) = i - 1 + Len(mid) /\ Len(g) = i - 1 + Len(mid) + Len(b) - j
  BY DEF Glued
<1>2. ASSUME NEW k \in 1..(i - 1) PROVE g[k] = b[k]
  <2>1. k \in 1..Len(fm)
    BY <1>1
  <2>2. QED
    BY <2>1 DEF Glued
<1>3. ASSUME NEW k \in 1..Len(mid) PROVE g[i - 1 + k] = mid[k]
  <2>1. i - 1 + k \in 1..Len(fm)
    BY <1>1
  <2>2. QED
    BY <2>1 DEF Glued
<1>4. ASSUME NEW k \in (j + 1)..Len(b) PROVE g[i - 1 + Len(mid) + k - j] = b[k]
  <2>1. k - j \in 1..Len(back) /\ j + (k - j) = k /\ i - 1 + Len(mid) + k - j = Len(fm) + (k - j)
    BY <1>1
  <2>2. g[Len(fm) + (k - j)] = back[k - j] /\ back[k - j] = b[j + (k - j)]
    BY <2>1 DEF Glued
  <2>3. QED
    BY <2>1, <2>2
<1>5. QED
  BY <1>1, <1>2, <1>3, <1>4 DEF Spliced

LEMMA Splice ==
    ASSUME NEW S, NEW b \in Seq(S), NEW i \in 1..Len(b), NEW j \in Nat, i - 1 <= j, j <= Len(b),
           NEW mid \in Seq(S)
    PROVE  LET g == SubSeq(b, 1, i - 1) \o mid \o SubSeq(b, j + 1, Len(b))
           IN  g \in Seq(S) /\ Spliced(g, b, i, j, mid)
<1> DEFINE front == SubSeq(b, 1, i - 1)
           back == SubSeq(b, j + 1, Len(b))
           fm == front \o mid
           g == fm \o back
<1>1. Len(b) \in Nat /\ Len(mid) \in Nat /\ i \in Nat \ {0} /\ i - 1 \in Nat /\ i - 1 <= Len(b)
  BY LenProperties
<1>2. front \in Seq(S) /\ Len(front) = i - 1 /\ \A k \in 1..(i - 1) : front[k] = b[k]
  <2>1. /\ SubSeq(b, 0 + 1, i - 1) \in Seq(S)
        /\ Len(SubSeq(b, 0 + 1, i - 1)) = i - 1 - 0
        /\ \A k \in 1..(i - 1 - 0) : SubSeq(b, 0 + 1, i - 1)[k] = b[0 + k]
    BY <1>1, Part
  <2>2. QED
    BY <1>1, <2>1
<1>3. back \in Seq(S) /\ Len(back) = Len(b) - j /\ \A k \in 1..(Len(b) - j) : back[k] = b[j + k]
  BY <1>1, Part
<1> HIDE DEF front, back
<1>4. fm \in Seq(S) /\ Glued(fm, front, mid)
  BY <1>2, GluedConcat
<1> HIDE DEF fm
<1>5. g \in Seq(S) /\ Glued(g, fm, back)
  BY <1>3, <1>4, GluedConcat
<1> HIDE DEF g
<1>6. Spliced(g, b, i, j, mid)
  BY <1>1, <1>2, <1>3, <1>4, <1>5, GluedTwice
<1>7. QED
  BY <1>5, <1>6 DEF g, fm, front, back

-----------------------------------------------------------------------------
(* The list of blocks of one arena.                                         *)

EndOf(x) == x.at + BlockHeader + x.size

\* The blocks tile the arena up to its end, and each can hold something.
Chained(b, end) ==
    /\ b \in Seq(Block) /\ b # <<>>
    /\ b[1].at = ArenaHeader
    /\ \A k \in 1..(Len(b) - 1) : b[k + 1].at = EndOf(b[k])
    /\ EndOf(b[Len(b)]) = end
    /\ \A k \in 1..Len(b) : b[k].size >= Minimum

\* No two neighbours are free.
Apart(b) == \A k \in 1..(Len(b) - 1) : ~ (b[k].free /\ b[k + 1].free)

LEMMA SizesNat ==
    /\ BlockHeader \in Nat \ {0} /\ ArenaHeader \in Nat \ {0} /\ Minimum \in Nat \ {0}
    /\ PageUnits \in Nat \ {0} /\ InitialPages \in Nat \ {0} /\ MaxArenas \in Nat \ {0}
    /\ SizeMax \in Nat \ {0}
BY SizesAssumption

\* What the blocks of a list are.
LEMMA BlockType ==
    ASSUME NEW b \in Seq(Block), NEW k \in 1..Len(b)
    PROVE  /\ Len(b) \in Nat
           /\ b[k] \in Block /\ b[k].at \in Nat /\ b[k].size \in Nat /\ b[k].free \in BOOLEAN
           /\ b[k] = [at |-> b[k].at, size |-> b[k].size, free |-> b[k].free]
           /\ EndOf(b[k]) \in Nat
<1>1. Len(b) \in Nat /\ b[k] \in Block
  BY LenProperties, ElementOfSeq
<1>2. QED
  BY <1>1, SizesNat DEF Block, EndOf

\* A block with one field changed.
LEMMA WithFree ==
    ASSUME NEW x \in Block, NEW v
    PROVE  [x EXCEPT !.free = v] = [at |-> x.at, size |-> x.size, free |-> v]
BY DEF Block

LEMMA WithSize ==
    ASSUME NEW x \in Block, NEW n
    PROVE  [x EXCEPT !.size = n] = [at |-> x.at, size |-> n, free |-> x.free]
BY DEF Block

\* Two blocks in the place of one, of the same extent.
Halves(x, y, z) ==
    /\ y \in Block /\ z \in Block
    /\ y.at = x.at /\ z.at = EndOf(y) /\ EndOf(z) = EndOf(x)
    /\ y.size >= Minimum /\ z.size >= Minimum

\* g is b with block i cut into y and z.
CutInTwo(g, b, end, i, y, z) ==
    /\ Chained(g, end) /\ Len(g) = Len(b) + 1
    /\ \A k \in 1..(i - 1) : g[k] = b[k]
    /\ g[i] = y /\ g[i + 1] = z
    /\ \A k \in (i + 1)..Len(b) : g[k + 1] = b[k]

\* A list with one block cut in two still tiles the arena.
LEMMA CutChained ==
    ASSUME NEW b, NEW end, Chained(b, end), NEW i \in 1..Len(b), NEW y, NEW z, Halves(b[i], y, z),
           NEW g \in Seq(Block), Spliced(g, b, i, i, <<y, z>>)
    PROVE  CutInTwo(g, b, end, i, y, z)
<1>1. b \in Seq(Block) /\ Len(b) \in Nat /\ i \in Nat
  BY LenProperties DEF Chained
<1>2. Len(<<y, z>>) = 2 /\ <<y, z>>[1] = y /\ <<y, z>>[2] = z
  OBVIOUS
<1>3. /\ Len(g) = Len(b) + 1
      /\ \A k \in 1..(i - 1) : g[k] = b[k]
      /\ g[i] = y /\ g[i + 1] = z
      /\ \A k \in (i + 1)..Len(b) : g[k + 1] = b[k]
  <2>1. Len(g) = i - 1 + 2 + Len(b) - i /\ \A k \in 1..(i - 1) : g[k] = b[k]
    BY <1>2 DEF Spliced
  <2>2. g[i - 1 + 1] = y /\ g[i - 1 + 2] = z
    <3>1. 1 \in 1..Len(<<y, z>>) /\ 2 \in 1..Len(<<y, z>>)
      BY <1>2
    <3>2. g[i - 1 + 1] = <<y, z>>[1] /\ g[i - 1 + 2] = <<y, z>>[2]
      BY <3>1 DEF Spliced
    <3>3. QED
      BY <1>2, <3>2
  <2>3. ASSUME NEW k \in (i + 1)..Len(b) PROVE g[k + 1] = b[k]
    <3>1. g[i - 1 + 2 + k - i] = b[k]
      BY <1>2, <2>3 DEF Spliced
    <3>2. i - 1 + 2 + k - i = k + 1
      BY <1>1
    <3>3. QED
      BY <3>1, <3>2
  <2>4. i - 1 + 1 = i /\ i - 1 + 2 = i + 1 /\ i - 1 + 2 + Len(b) - i = Len(b) + 1
    BY <1>1
  <2>5. QED
    BY <2>1, <2>2, <2>3, <2>4
<1>4. g # <<>>
  BY <1>1, <1>3
<1>5. g[1].at = ArenaHeader
  BY <1>1, <1>3 DEF Chained, Halves
<1>6. ASSUME NEW k \in 1..(Len(g) - 1) PROVE g[k + 1].at = EndOf(g[k])
  <2>1. k \in Nat /\ 1 <= k /\ k <= Len(b)
    BY <1>1, <1>3
  <2>2. CASE k < i - 1
    <3>1. k \in 1..(i - 1) /\ k + 1 \in 1..(i - 1) /\ k \in 1..(Len(b) - 1)
      BY <1>1, <2>1, <2>2
    <3>2. QED
      BY <1>3, <3>1 DEF Chained
  <2>3. CASE k = i - 1
    <3>1. k \in 1..(i - 1) /\ k + 1 = i /\ k \in 1..(Len(b) - 1)
      BY <1>1, <2>1, <2>3
    <3>2. g[k + 1].at = b[k + 1].at
      BY <1>3, <3>1 DEF Halves
    <3>3. QED
      BY <1>3, <3>1, <3>2 DEF Chained
  <2>4. CASE k = i
    BY <1>3, <2>4 DEF Halves
  <2>5. CASE k = i + 1
    <3>1. k \in (i + 1)..Len(b) /\ i \in 1..(Len(b) - 1)
      BY <1>1, <2>1, <2>5
    <3>2. g[k + 1].at = EndOf(b[i])
      BY <1>3, <2>5, <3>1 DEF Chained
    <3>3. QED
      BY <1>3, <2>5, <3>2 DEF Halves
  <2>6. CASE k > i + 1
    <3>1. k \in (i + 1)..Len(b) /\ k - 1 \in (i + 1)..Len(b) /\ k - 1 \in 1..(Len(b) - 1) /\ k - 1 + 1 = k
      BY <1>1, <2>1, <2>6
    <3>2. g[k + 1] = b[k] /\ g[k - 1 + 1] = b[k - 1]
      BY <1>3, <3>1
    <3>3. b[k - 1 + 1].at = EndOf(b[k - 1])
      BY <3>1 DEF Chained
    <3>4. QED
      BY <3>1, <3>2, <3>3
  <2>7. QED
    BY <1>1, <2>1, <2>2, <2>3, <2>4, <2>5, <2>6
<1>7. EndOf(g[Len(g)]) = end
  <2>1. CASE i = Len(b)
    BY <1>3, <2>1 DEF Chained, Halves
  <2>2. CASE i # Len(b)
    <3>1. Len(b) \in (i + 1)..Len(b)
      BY <1>1, <2>2
    <3>2. QED
      BY <1>3, <3>1 DEF Chained
  <2>3. QED
    BY <2>1, <2>2
<1>8. ASSUME NEW k \in 1..Len(g) PROVE g[k].size >= Minimum
  <2>1. k \in Nat /\ 1 <= k /\ k <= Len(b) + 1
    BY <1>1, <1>3
  <2>2. CASE k \in 1..(i - 1)
    BY <1>1, <1>3, <2>1, <2>2 DEF Chained
  <2>3. CASE k = i \/ k = i + 1
    BY <1>3, <2>3 DEF Halves
  <2>4. CASE k > i + 1
    <3>1. k - 1 \in (i + 1)..Len(b) /\ k - 1 + 1 = k /\ k - 1 \in 1..Len(b)
      BY <1>1, <2>1, <2>4
    <3>2. g[k - 1 + 1] = b[k - 1]
      BY <1>3, <3>1
    <3>3. QED
      BY <3>1, <3>2 DEF Chained
  <2>5. QED
    BY <1>1, <2>1, <2>2, <2>3, <2>4
<1>9. QED
  BY <1>3, <1>4, <1>5, <1>6, <1>7, <1>8 DEF Chained, CutInTwo

\* A list with two neighbours joined still tiles the arena.
LEMMA JoinChained ==
    ASSUME NEW b, NEW end, Chained(b, end), NEW i \in 1..(Len(b) - 1), NEW x \in Block,
           x.at = b[i].at, EndOf(x) = EndOf(b[i + 1]), x.size >= Minimum,
           NEW g \in Seq(Block), Spliced(g, b, i, i + 1, <<x>>)
    PROVE  /\ Chained(g, end) /\ Len(g) = Len(b) - 1
           /\ \A k \in 1..(i - 1) : g[k] = b[k]
           /\ g[i] = x
           /\ \A k \in (i + 2)..Len(b) : g[k - 1] = b[k]
<1>1. b \in Seq(Block) /\ Len(b) \in Nat /\ i \in Nat
  BY LenProperties DEF Chained
<1>2. Len(<<x>>) = 1 /\ <<x>>[1] = x
  OBVIOUS
<1>3. /\ Len(g) = Len(b) - 1
      /\ \A k \in 1..(i - 1) : g[k] = b[k]
      /\ g[i] = x
      /\ \A k \in (i + 2)..Len(b) : g[k - 1] = b[k]
  <2>1. Len(g) = i - 1 + 1 + Len(b) - (i + 1) /\ \A k \in 1..(i - 1) : g[k] = b[k]
    BY <1>2 DEF Spliced
  <2>2. g[i - 1 + 1] = x
    <3>1. 1 \in 1..Len(<<x>>)
      BY <1>2
    <3>2. g[i - 1 + 1] = <<x>>[1]
      BY <3>1 DEF Spliced
    <3>3. QED
      BY <1>2, <3>2
  <2>3. ASSUME NEW k \in (i + 2)..Len(b) PROVE g[k - 1] = b[k]
    <3>1. k \in (i + 1 + 1)..Len(b)
      BY <1>1, <2>3
    <3>2. g[i - 1 + 1 + k - (i + 1)] = b[k]
      BY <1>2, <3>1 DEF Spliced
    <3>3. i - 1 + 1 + k - (i + 1) = k - 1
      BY <1>1
    <3>4. QED
      BY <3>2, <3>3
  <2>4. i - 1 + 1 = i /\ i - 1 + 1 + Len(b) - (i + 1) = Len(b) - 1
    BY <1>1
  <2>5. QED
    BY <2>1, <2>2, <2>3, <2>4
<1>4. g # <<>>
  BY <1>1, <1>3
<1>5. g[1].at = ArenaHeader
  BY <1>1, <1>3 DEF Chained
<1>6. ASSUME NEW k \in 1..(Len(g) - 1) PROVE g[k + 1].at = EndOf(g[k])
  <2>1. k \in Nat /\ 1 <= k /\ k <= Len(b) - 2
    BY <1>1, <1>3
  <2>2. CASE k < i - 1
    <3>1. k \in 1..(i - 1) /\ k + 1 \in 1..(i - 1) /\ k \in 1..(Len(b) - 1)
      BY <1>1, <2>1, <2>2
    <3>2. QED
      BY <1>3, <3>1 DEF Chained
  <2>3. CASE k = i - 1
    <3>1. k \in 1..(i - 1) /\ k + 1 = i /\ k \in 1..(Len(b) - 1)
      BY <1>1, <2>1, <2>3
    <3>2. g[k + 1].at = b[k + 1].at
      BY <1>3, <3>1
    <3>3. QED
      BY <1>3, <3>1, <3>2 DEF Chained
  <2>4. CASE k = i
    <3>1. i + 2 \in (i + 2)..Len(b) /\ i + 2 - 1 = i + 1 /\ i + 1 \in 1..(Len(b) - 1) /\ i + 1 + 1 = i + 2
      BY <1>1, <2>1, <2>4
    <3>2. g[i + 1] = b[i + 2]
      BY <1>3, <3>1
    <3>3. b[i + 2].at = EndOf(b[i + 1])
      BY <3>1 DEF Chained
    <3>4. QED
      BY <1>3, <2>4, <3>2, <3>3
  <2>5. CASE k > i
    <3>1. /\ k + 1 \in (i + 2)..Len(b) /\ k + 2 \in (i + 2)..Len(b) /\ k + 1 \in 1..(Len(b) - 1)
          /\ k + 1 - 1 = k /\ k + 2 - 1 = k + 1 /\ k + 1 + 1 = k + 2
      BY <1>1, <2>1, <2>5
    <3>2. g[k] = b[k + 1] /\ g[k + 1] = b[k + 2]
      BY <1>3, <3>1
    <3>3. b[k + 2].at = EndOf(b[k + 1])
      BY <3>1 DEF Chained
    <3>4. QED
      BY <3>2, <3>3
  <2>6. QED
    BY <1>1, <2>1, <2>2, <2>3, <2>4, <2>5
<1>7. EndOf(g[Len(g)]) = end
  <2>1. CASE i + 1 = Len(b)
    BY <1>1, <1>3, <2>1 DEF Chained
  <2>2. CASE i + 1 # Len(b)
    <3>1. Len(b) \in (i + 2)..Len(b)
      BY <1>1, <2>2
    <3>2. QED
      BY <1>3, <3>1 DEF Chained
  <2>3. QED
    BY <2>1, <2>2
<1>8. ASSUME NEW k \in 1..Len(g) PROVE g[k].size >= Minimum
  <2>1. k \in Nat /\ 1 <= k /\ k <= Len(b) - 1
    BY <1>1, <1>3
  <2>2. CASE k < i
    BY <1>1, <1>3, <2>1, <2>2 DEF Chained
  <2>3. CASE k = i
    BY <1>3, <2>3
  <2>4. CASE k > i
    <3>1. k + 1 \in (i + 2)..Len(b) /\ k + 1 - 1 = k /\ k + 1 \in 1..Len(b)
      BY <1>1, <2>1, <2>4
    <3>2. g[k] = b[k + 1]
      BY <1>3, <3>1
    <3>3. QED
      BY <3>1, <3>2 DEF Chained
  <2>5. QED
    BY <1>1, <2>1, <2>2, <2>3, <2>4
<1>9. QED
  BY <1>3, <1>4, <1>5, <1>6, <1>7, <1>8 DEF Chained

Marked(g, b, i, v) == g = [b EXCEPT ![i].free = v]

Remarked(g, b, end, i, v) ==
    /\ Chained(g, end) /\ Len(g) = Len(b)
    /\ \A k \in 1..Len(b) : k # i => g[k] = b[k]
    /\ g[i] = [at |-> b[i].at, size |-> b[i].size, free |-> v]

\* Whether a block is free does not matter to the tiling.
LEMMA MarkChained ==
    ASSUME NEW b, NEW end, Chained(b, end), NEW i \in 1..Len(b), NEW v \in BOOLEAN,
           NEW g, Marked(g, b, i, v)
    PROVE  Remarked(g, b, end, i, v)
<1>1. b \in Seq(Block) /\ Len(b) \in Nat
  BY LenProperties DEF Chained
<1> DEFINE x == [at |-> b[i].at, size |-> b[i].size, free |-> v]
<1>2. [b[i] EXCEPT !.free = v] = x /\ x \in Block
  <2>1. b[i] \in Block /\ b[i].at \in Nat /\ b[i].size \in Nat
    BY <1>1, BlockType
  <2>2. x \in Block
    BY <2>1 DEF Block
  <2>3. [b[i] EXCEPT !.free = v] = x
    BY <2>1, WithFree
  <2>4. QED
    BY <2>2, <2>3
<1>3. g = [b EXCEPT ![i] = x]
  BY <1>2 DEF Marked
<1>4. x.at = b[i].at /\ x.size = b[i].size /\ EndOf(x) = EndOf(b[i])
  BY DEF EndOf
<1> HIDE DEF x
<1>5. /\ g \in Seq(Block) /\ Len(g) = Len(b)
      /\ \A k \in 1..Len(b) : g[k] = IF k = i THEN x ELSE b[k]
  BY <1>1, <1>2, <1>3, ExceptSeq
<1>6. \A k \in 1..Len(b) : g[k].at = b[k].at /\ g[k].size = b[k].size /\ EndOf(g[k]) = EndOf(b[k])
  BY <1>4, <1>5
<1>7. g # <<>>
  BY <1>1, <1>5
<1>8. Chained(g, end)
  <2>1. 1 \in 1..Len(b) /\ Len(b) \in 1..Len(b)
    BY <1>1
  <2>2. \A k \in 1..(Len(b) - 1) : k \in 1..Len(b) /\ k + 1 \in 1..Len(b)
    BY <1>1
  <2>3. QED
    BY <1>5, <1>6, <1>7, <2>1, <2>2 DEF Chained
<1>9. QED
  BY <1>5, <1>8 DEF x, Remarked

\* Blocks follow one another: a later block begins past an earlier one's start.
LEMMA Ascending ==
    ASSUME NEW b, NEW end, Chained(b, end), NEW i \in 1..Len(b), NEW j \in 1..Len(b), i < j
    PROVE  b[i].at < b[j].at
<1>1. b \in Seq(Block) /\ Len(b) \in Nat
  BY LenProperties DEF Chained
<1>2. \A k \in 1..Len(b) : b[k].at \in Nat /\ b[k].size \in Nat
  BY <1>1, BlockType
<1> DEFINE Bad == {k \in 1..Len(b) : i < k /\ ~ (b[i].at < b[k].at)}
<1>3. SUFFICES ASSUME Bad # {} PROVE FALSE
  OBVIOUS
<1>4. Bad \in SUBSET Nat
  OBVIOUS
<1>5. PICK m \in Bad : \A k \in Bad : m <= k
  BY <1>3, <1>4, LeastExists
<1>6. m \in 1..Len(b) /\ i < m /\ ~ (b[i].at < b[m].at) /\ m - 1 \in 1..(Len(b) - 1) /\ m - 1 \in 1..Len(b) /\ m - 1 + 1 = m
  BY <1>1, <1>5
<1>7. b[m].at = EndOf(b[m - 1])
  BY <1>6 DEF Chained
<1>8. b[m - 1].at < b[m].at
  BY <1>2, <1>6, <1>7, SizesNat DEF EndOf
<1>9. m - 1 = i \/ b[i].at < b[m - 1].at
  <2>1. m - 1 \notin Bad
    BY <1>5, <1>6
  <2>2. QED
    BY <1>6, <2>1
<1>10. QED
  BY <1>2, <1>6, <1>8, <1>9

-----------------------------------------------------------------------------
(* split_block and merge_with_next.                                         *)

\* g is b with block i cut down to n, or b itself if the rest is too small.
Cut(g, b, i, n) ==
    \/ g = b
    \/ /\ Len(g) = Len(b) + 1
       /\ \A k \in 1..(i - 1) : g[k] = b[k]
       /\ g[i] = [at |-> b[i].at, size |-> n, free |-> b[i].free]
       /\ g[i + 1].free
       /\ \A k \in (i + 1)..Len(b) : g[k + 1] = b[k]

LEMMA SplitList ==
    ASSUME NEW b, NEW end, Chained(b, end), NEW i \in 1..Len(b), NEW n \in Nat, n >= Minimum, n <= b[i].size
    PROVE  Chained(SplitBlock(b, i, n), end) /\ Cut(SplitBlock(b, i, n), b, i, n)
<1>1. b \in Seq(Block) /\ Len(b) \in Nat
  BY LenProperties DEF Chained
<1>2. b[i] \in Block /\ b[i].at \in Nat /\ b[i].size \in Nat /\ b[i].free \in BOOLEAN
  BY <1>1, BlockType
<1>3. CASE b[i].size - n < BlockHeader + Minimum
  BY <1>3 DEF SplitBlock, Cut
<1>4. CASE ~ (b[i].size - n < BlockHeader + Minimum)
  <2> DEFINE y == [at |-> b[i].at, size |-> n, free |-> b[i].free]
             z == [at |-> b[i].at + BlockHeader + n, size |-> b[i].size - n - BlockHeader, free |-> TRUE]
             g == SubSeq(b, 1, i - 1) \o <<y, z>> \o SubSeq(b, i + 1, Len(b))
  <2>1. SplitBlock(b, i, n) = g
    BY <1>2, <1>4, WithSize DEF SplitBlock
  <2>2. b[i].size - n - BlockHeader \in Nat /\ b[i].size - n - BlockHeader >= Minimum
    BY <1>2, <1>4, SizesNat
  <2>3. y \in Block /\ z \in Block
    BY <1>2, <2>2, SizesNat DEF Block
  <2>4. /\ y = [at |-> b[i].at, size |-> n, free |-> b[i].free] /\ z.free = TRUE
        /\ y.at = b[i].at /\ y.size = n
        /\ z.at = b[i].at + BlockHeader + n /\ z.size = b[i].size - n - BlockHeader
    OBVIOUS
  <2>5. <<y, z>> \in Seq(Block)
    BY <2>3
  <2>7. i \in Nat /\ i - 1 <= i /\ i <= Len(b)
    BY <1>1
  <2> HIDE DEF y, z
  <2>6. Halves(b[i], y, z)
    <3>1. z.at = EndOf(y)
      BY <2>4 DEF EndOf
    <3>2. EndOf(z) = EndOf(b[i])
      BY <1>2, <2>4, SizesNat DEF EndOf
    <3>3. QED
      BY <2>2, <2>3, <2>4, <3>1, <3>2 DEF Halves
  <2>8. g \in Seq(Block) /\ Spliced(g, b, i, i, <<y, z>>)
    BY <1>1, <2>5, <2>7, Splice
  <2> HIDE DEF g
  <2>9. /\ Chained(g, end) /\ Len(g) = Len(b) + 1
        /\ \A k \in 1..(i - 1) : g[k] = b[k]
        /\ g[i] = y /\ g[i + 1] = z
        /\ \A k \in (i + 1)..Len(b) : g[k + 1] = b[k]
    <3>1. CutInTwo(g, b, end, i, y, z)
      BY <2>6, <2>8, CutChained, Zenon
    <3>2. QED
      BY <3>1 DEF CutInTwo
  <2>10. Cut(g, b, i, n)
    BY <2>4, <2>9 DEF Cut
  <2>11. QED
    BY <2>1, <2>9, <2>10
<1>5. QED
  BY <1>3, <1>4

\* g is b with block i and the free one after it joined.
Joined(g, b, i) ==
    /\ Len(g) = Len(b) - 1
    /\ \A k \in 1..(i - 1) : g[k] = b[k]
    /\ g[i] = [at |-> b[i].at, size |-> b[i].size + BlockHeader + b[i + 1].size, free |-> b[i].free]
    /\ \A k \in (i + 2)..Len(b) : g[k - 1] = b[k]

LEMMA MergeList ==
    ASSUME NEW b, NEW end, Chained(b, end), NEW i \in 1..Len(b), NextFree(b, i)
    PROVE  Chained(MergeWithNext(b, i), end) /\ Joined(MergeWithNext(b, i), b, i)
<1>1. b \in Seq(Block) /\ Len(b) \in Nat
  BY LenProperties DEF Chained
<1>2. i \in 1..(Len(b) - 1) /\ i + 1 \in 1..Len(b) /\ i + 1 \in Nat /\ i - 1 <= i + 1 /\ i + 1 <= Len(b)
  BY <1>1 DEF NextFree
<1>3. b[i] \in Block /\ b[i].at \in Nat /\ b[i].size \in Nat /\ b[i].free \in BOOLEAN /\ b[i + 1].size \in Nat
  BY <1>1, <1>2, BlockType
<1> DEFINE x == [at |-> b[i].at, size |-> b[i].size + BlockHeader + b[i + 1].size, free |-> b[i].free]
           g == SubSeq(b, 1, i - 1) \o <<x>> \o SubSeq(b, i + 1 + 1, Len(b))
<1>4. MergeWithNext(b, i) = g
  <2>1. i + 1 + 1 = i + 2
    BY <1>1
  <2>2. QED
    BY <1>3, <2>1, WithSize DEF MergeWithNext
<1>5. x \in Block /\ <<x>> \in Seq(Block)
  BY <1>3, SizesNat DEF Block
<1>6. b[i + 1].at = EndOf(b[i]) /\ b[i].size >= Minimum
  BY <1>2 DEF Chained
<1>7. /\ x = [at |-> b[i].at, size |-> b[i].size + BlockHeader + b[i + 1].size, free |-> b[i].free]
      /\ x.at = b[i].at /\ x.size = b[i].size + BlockHeader + b[i + 1].size
  OBVIOUS
<1> HIDE DEF x
<1>8. EndOf(x) = EndOf(b[i + 1]) /\ x.size >= Minimum
  <2>1. EndOf(x) = b[i].at + BlockHeader + (b[i].size + BlockHeader + b[i + 1].size)
    BY <1>7 DEF EndOf
  <2>2. EndOf(b[i + 1]) = b[i].at + BlockHeader + b[i].size + BlockHeader + b[i + 1].size
    BY <1>6 DEF EndOf
  <2>3. \A u, v, w, l \in Nat : u + l + (v + l + w) = u + l + v + l + w
    OBVIOUS
  <2>4. EndOf(x) = EndOf(b[i + 1])
    BY <1>3, <2>1, <2>2, <2>3, SizesNat
  <2>5. \A v, w, l, m \in Nat : v >= m => v + l + w >= m
    OBVIOUS
  <2>6. x.size >= Minimum
    BY <1>3, <1>6, <1>7, <2>5, SizesNat
  <2>7. QED
    BY <2>4, <2>6
<1>9. g \in Seq(Block) /\ Spliced(g, b, i, i + 1, <<x>>)
  BY <1>1, <1>2, <1>5, Splice
<1> HIDE DEF g
<1>10. /\ Chained(g, end) /\ Len(g) = Len(b) - 1
       /\ \A k \in 1..(i - 1) : g[k] = b[k]
       /\ g[i] = x
       /\ \A k \in (i + 2)..Len(b) : g[k - 1] = b[k]
  BY <1>2, <1>5, <1>7, <1>8, <1>9, JoinChained
<1>11. QED
  BY <1>4, <1>7, <1>10 DEF Joined

-----------------------------------------------------------------------------
(* The used blocks of a list, and free neighbours.                          *)

UsedOf(b) == {b[k] : k \in {m \in 1..Len(b) : ~ b[m].free}}

\* The used blocks other than block i.
OthersOf(b, i) == {b[k] : k \in {m \in 1..Len(b) : m # i /\ ~ b[m].free}}

\* No two neighbours are free, but for the pairs that begin in X.
ApartBut(b, X) == \A k \in 1..(Len(b) - 1) : k \notin X => ~ (b[k].free /\ b[k + 1].free)

LEMMA UsedSplit ==
    ASSUME NEW b, NEW i \in 1..Len(b)
    PROVE  /\ b[i].free => UsedOf(b) = OthersOf(b, i)
           /\ ~ b[i].free => UsedOf(b) = OthersOf(b, i) \cup {b[i]}
BY DEF UsedOf, OthersOf

\* No two used blocks begin at the same place.
LEMMA OthersElsewhere ==
    ASSUME NEW b, NEW end, Chained(b, end), NEW i \in 1..Len(b)
    PROVE  /\ \A x \in OthersOf(b, i) : x.at # b[i].at
           /\ \A x, y \in UsedOf(b) : x.at = y.at => x = y
<1>1. b \in Seq(Block) /\ Len(b) \in Nat
  BY LenProperties DEF Chained
<1>2. \A k, m \in 1..Len(b) : k # m => b[k].at # b[m].at
  <2> TAKE k, m \in 1..Len(b)
  <2> HAVE k # m
  <2>1. b[k].at \in Nat /\ b[m].at \in Nat
    BY <1>1, BlockType
  <2>2. k < m \/ m < k
    OBVIOUS
  <2>3. b[k].at < b[m].at \/ b[m].at < b[k].at
    BY <2>2, Ascending
  <2>4. QED
    BY <2>1, <2>3
<1>3. QED
  BY <1>2 DEF OthersOf, UsedOf

\* Marking block i says nothing of the others.
LEMMA MarkOthers ==
    ASSUME NEW b, NEW g, NEW i \in 1..Len(b), Len(g) = Len(b),
           \A k \in 1..Len(b) : k # i => g[k] = b[k]
    PROVE  /\ OthersOf(g, i) = OthersOf(b, i)
           /\ Apart(b) => ApartBut(g, {i - 1, i})
           /\ ~ g[i].free /\ ApartBut(b, {i - 1, i}) => Apart(g)
<1>1. OthersOf(g, i) = OthersOf(b, i)
  BY DEF OthersOf
<1>2. ASSUME Apart(b) PROVE ApartBut(g, {i - 1, i})
  <2> SUFFICES ASSUME NEW k \in 1..(Len(b) - 1), k # i - 1, k # i PROVE ~ (g[k].free /\ g[k + 1].free)
    BY DEF ApartBut
  <2>1. k \in 1..Len(b) /\ k + 1 \in 1..Len(b) /\ k # i /\ k + 1 # i
    OBVIOUS
  <2>2. QED
    BY <1>2, <2>1 DEF Apart
<1>3. ASSUME ~ g[i].free, ApartBut(b, {i - 1, i}) PROVE Apart(g)
  <2> SUFFICES ASSUME NEW k \in 1..(Len(b) - 1) PROVE ~ (g[k].free /\ g[k + 1].free)
    BY DEF Apart
  <2>1. CASE k = i \/ k + 1 = i
    BY <1>3, <2>1
  <2>2. CASE k # i /\ k + 1 # i
    <3>1. k \in 1..Len(b) /\ k + 1 \in 1..Len(b) /\ k \notin {i - 1, i}
      BY <2>2
    <3>2. QED
      BY <1>3, <2>2, <3>1 DEF ApartBut
  <2>3. QED
    BY <2>1, <2>2
<1>4. QED
  BY <1>1, <1>2, <1>3

\* Joining block i to the free one after it says nothing of the other used blocks.
LEMMA JoinOthers ==
    ASSUME NEW b, Len(b) \in Nat, NEW g, NEW i \in 1..(Len(b) - 1), Joined(g, b, i), b[i + 1].free
    PROVE  /\ OthersOf(g, i) = OthersOf(b, i)
           /\ i \in 1..Len(g) /\ g[i].free = b[i].free
<1>1. Len(g) = Len(b) - 1 /\ i \in 1..Len(g) /\ g[i].free = b[i].free
  BY DEF Joined
<1>2. ASSUME NEW x PROVE x \in OthersOf(g, i) => x \in OthersOf(b, i)
  <2> SUFFICES ASSUME NEW k \in 1..Len(g), k # i, ~ g[k].free, x = g[k] PROVE x \in OthersOf(b, i)
    BY DEF OthersOf
  <2>1. CASE k < i
    BY <1>1, <2>1 DEF OthersOf, Joined
  <2>2. CASE k > i
    <3>1. k + 1 \in (i + 2)..Len(b) /\ k + 1 \in 1..Len(b) /\ k + 1 - 1 = k /\ k + 1 # i
      BY <1>1, <2>2
    <3>2. g[k] = b[k + 1]
      BY <3>1 DEF Joined
    <3>3. QED
      BY <3>1, <3>2 DEF OthersOf
  <2>3. QED
    BY <2>1, <2>2, <1>1
<1>3. ASSUME NEW x PROVE x \in OthersOf(b, i) => x \in OthersOf(g, i)
  <2> SUFFICES ASSUME NEW k \in 1..Len(b), k # i, ~ b[k].free, x = b[k] PROVE x \in OthersOf(g, i)
    BY DEF OthersOf
  <2>1. CASE k < i
    BY <1>1, <2>1 DEF OthersOf, Joined
  <2>2. CASE k > i
    <3>0. k # i + 1
      OBVIOUS
    <3>1. k \in (i + 2)..Len(b) /\ k - 1 \in 1..Len(g) /\ k - 1 # i
      BY <1>1, <2>2, <3>0
    <3>2. g[k - 1] = b[k]
      BY <3>1 DEF Joined
    <3>3. QED
      BY <3>1, <3>2 DEF OthersOf
  <2>3. QED
    BY <2>1, <2>2, <1>1
<1>4. QED
  BY <1>1, <1>2, <1>3

\* It parts the pair it joins, and leaves every other pair as it was.
LEMMA JoinApart ==
    ASSUME NEW b, Len(b) \in Nat, NEW g, NEW i \in 1..(Len(b) - 1), Joined(g, b, i), b[i + 1].free,
           NEW X, X \subseteq {i - 1}, ApartBut(b, X \cup {i})
    PROVE  ApartBut(g, X)
<1>1. Len(g) = Len(b) - 1 /\ g[i].free = b[i].free
  BY DEF Joined
<1> SUFFICES ASSUME NEW k \in 1..(Len(g) - 1), k \notin X PROVE ~ (g[k].free /\ g[k + 1].free)
  BY DEF ApartBut
<1>2. CASE k < i
  <2>1. k \in 1..(Len(b) - 1) /\ k \notin X \cup {i} /\ k \in 1..(i - 1)
    BY <1>1, <1>2
  <2>2. g[k] = b[k] /\ ~ (b[k].free /\ b[k + 1].free)
    BY <2>1 DEF Joined, ApartBut
  <2>3. g[k + 1].free = b[k + 1].free
    <3>1. CASE k + 1 = i
      BY <1>1, <3>1
    <3>2. CASE k + 1 # i
      <4>1. k + 1 \in 1..(i - 1)
        BY <1>2, <3>2
      <4>2. QED
        BY <4>1 DEF Joined
    <3>3. QED
      BY <3>1, <3>2
  <2>4. QED
    BY <2>2, <2>3
<1>3. CASE k >= i
  <2>1. /\ k + 2 \in (i + 2)..Len(b) /\ k + 2 - 1 = k + 1 /\ k + 1 \in 1..(Len(b) - 1) /\ k + 1 + 1 = k + 2
        /\ k + 1 \notin X \cup {i}
    BY <1>1, <1>3
  <2>2. g[k + 1] = b[k + 2] /\ ~ (b[k + 1].free /\ b[k + 2].free)
    BY <2>1 DEF Joined, ApartBut
  <2>3. CASE k = i
    BY <2>2, <2>3
  <2>4. CASE k # i
    <3>1. k + 1 \in (i + 2)..Len(b) /\ k + 1 - 1 = k
      BY <1>1, <1>3, <2>4
    <3>2. g[k] = b[k + 1]
      BY <3>1 DEF Joined
    <3>3. QED
      BY <2>2, <3>2
  <2>5. QED
    BY <2>3, <2>4
<1>4. QED
  BY <1>1, <1>2, <1>3

\* Cutting block i says nothing of the other used blocks.
LEMMA CutOthers ==
    ASSUME NEW b, Len(b) \in Nat, NEW g, NEW i \in 1..Len(b), NEW n \in Nat, n <= b[i].size, b[i].size \in Nat,
           Cut(g, b, i, n)
    PROVE  /\ OthersOf(g, i) = OthersOf(b, i)
           /\ i \in 1..Len(g) /\ g[i].free = b[i].free /\ g[i].at = b[i].at
           /\ g[i].size \in Nat /\ g[i].size >= n
<1>1. CASE g = b
  BY <1>1
<1>2. CASE g # b
  <2>1. /\ Len(g) = Len(b) + 1
        /\ \A k \in 1..(i - 1) : g[k] = b[k]
        /\ g[i] = [at |-> b[i].at, size |-> n, free |-> b[i].free]
        /\ g[i + 1].free
        /\ \A k \in (i + 1)..Len(b) : g[k + 1] = b[k]
    BY <1>2 DEF Cut
  <2>2. i \in 1..Len(g) /\ g[i].free = b[i].free /\ g[i].at = b[i].at /\ g[i].size = n
    BY <2>1
  <2>3. ASSUME NEW x PROVE x \in OthersOf(g, i) => x \in OthersOf(b, i)
    <3> SUFFICES ASSUME NEW k \in 1..Len(g), k # i, ~ g[k].free, x = g[k] PROVE x \in OthersOf(b, i)
      BY DEF OthersOf
    <3>1. CASE k < i
      BY <2>1, <3>1 DEF OthersOf
    <3>2. CASE k > i
      <4>0. k # i + 1
        BY <2>1
      <4>1. k - 1 \in (i + 1)..Len(b) /\ k - 1 \in 1..Len(b) /\ k - 1 + 1 = k /\ k - 1 # i
        BY <2>1, <3>2, <4>0
      <4>2. g[k] = b[k - 1]
        BY <2>1, <4>1
      <4>3. QED
        BY <4>1, <4>2 DEF OthersOf
    <3>3. QED
      BY <3>1, <3>2, <2>1
  <2>4. ASSUME NEW x PROVE x \in OthersOf(b, i) => x \in OthersOf(g, i)
    <3> SUFFICES ASSUME NEW k \in 1..Len(b), k # i, ~ b[k].free, x = b[k] PROVE x \in OthersOf(g, i)
      BY DEF OthersOf
    <3>1. CASE k < i
      BY <2>1, <3>1 DEF OthersOf
    <3>2. CASE k > i
      <4>1. k \in (i + 1)..Len(b) /\ k + 1 \in 1..Len(g) /\ k + 1 # i
        BY <2>1, <3>2
      <4>2. g[k + 1] = b[k]
        BY <2>1, <4>1
      <4>3. QED
        BY <4>1, <4>2 DEF OthersOf
    <3>3. QED
      BY <3>1, <3>2
  <2>5. OthersOf(g, i) = OthersOf(b, i)
    BY <2>3, <2>4
  <2>6. n >= n
    OBVIOUS
  <2>7. QED
    BY <2>2, <2>5, <2>6
<1>3. QED
  BY <1>1, <1>2

\* The remainder may have a free neighbour: after it, or before it if block i is free.
LEMMA CutApart ==
    ASSUME NEW b, Len(b) \in Nat, NEW g, NEW i \in 1..Len(b), NEW n \in Nat, Cut(g, b, i, n), Apart(b)
    PROVE  /\ b[i].free => ApartBut(g, {i - 1, i})
           /\ ~ b[i].free => ApartBut(g, {i + 1})
           /\ ~ b[i].free /\ (i < Len(b) => ~ b[i + 1].free) => Apart(g)
<1>1. CASE g = b
  BY <1>1 DEF Apart, ApartBut
<1>2. CASE g # b
  <2>1. /\ Len(g) = Len(b) + 1
        /\ \A k \in 1..(i - 1) : g[k] = b[k]
        /\ g[i].free = b[i].free
        /\ g[i + 1].free
        /\ \A k \in (i + 1)..Len(b) : g[k + 1] = b[k]
    BY <1>2 DEF Cut
  <2>2. ASSUME NEW k \in 1..(Len(g) - 1), k # i, k # i + 1 PROVE ~ (g[k].free /\ g[k + 1].free)
    <3>1. CASE k < i
      <4>1. k \in 1..(Len(b) - 1) /\ k \in 1..(i - 1)
        BY <3>1
      <4>2. g[k] = b[k] /\ ~ (b[k].free /\ b[k + 1].free)
        BY <2>1, <4>1 DEF Apart
      <4>3. g[k + 1].free = b[k + 1].free
        <5>1. k + 1 = i \/ k + 1 \in 1..(i - 1)
          BY <3>1
        <5>2. QED
          BY <2>1, <5>1
      <4>4. QED
        BY <4>2, <4>3
    <3>2. CASE k > i
      <4>1. k \in (i + 1)..Len(b) /\ k - 1 \in (i + 1)..Len(b) /\ k - 1 \in 1..(Len(b) - 1) /\ k - 1 + 1 = k
        BY <2>1, <2>2, <3>2
      <4>2. g[k + 1] = b[k] /\ g[k] = b[k - 1]
        BY <2>1, <4>1
      <4>3. ~ (b[k - 1].free /\ b[k].free)
        BY <4>1 DEF Apart
      <4>4. QED
        BY <4>2, <4>3
    <3>3. QED
      BY <2>1, <2>2, <3>1, <3>2
  <2>3. i + 1 \in 1..(Len(g) - 1) => i < Len(b) /\ g[i + 1 + 1] = b[i + 1]
    <3> HAVE i + 1 \in 1..(Len(g) - 1)
    <3>1. i + 1 \in (i + 1)..Len(b)
      BY <2>1
    <3>2. QED
      BY <2>1, <3>1
  <2>4. ASSUME b[i].free PROVE ApartBut(g, {i - 1, i})
    <3>1. i < Len(b) => ~ b[i + 1].free
      BY <2>4 DEF Apart
    <3>2. QED
      BY <2>2, <2>3, <3>1 DEF ApartBut
  <2>5. ~ b[i].free => ApartBut(g, {i + 1})
    BY <2>1, <2>2 DEF ApartBut
  <2>6. ~ b[i].free /\ (i < Len(b) => ~ b[i + 1].free) => Apart(g)
    BY <2>1, <2>2, <2>3 DEF Apart
  <2>7. QED
    BY <2>4, <2>5, <2>6
<1>3. QED
  BY <1>1, <1>2

-----------------------------------------------------------------------------
(* What the calls do to a list.                                             *)

\* A list of an arena that ends at end.
List(b, end) == Chained(b, end) /\ Apart(b)

\* g is list b with its used block i, if it has one, replaced by a block of at least n.
Serves(g, b, end, i, n) ==
    /\ List(g, end)
    /\ i \in 1..Len(g) /\ ~ g[i].free
    /\ g[i].at = b[i].at /\ g[i].size \in Nat /\ g[i].size >= n
    /\ UsedOf(g) = OthersOf(b, i) \cup {g[i]}

\* Block i of the list is taken for n.
Taking(split, g, b, end, i, n) ==
    /\ Serves(g, b, end, i, n)
    /\ split[i].size \in Nat /\ g[i].size = split[i].size

\* allocate_from_block
LEMMA AllocateList ==
    ASSUME NEW b, NEW end, List(b, end), NEW i \in 1..Len(b), b[i].free,
           NEW n \in Nat, n >= Minimum, n <= b[i].size
    PROVE  Taking(SplitBlock(b, i, n), [SplitBlock(b, i, n) EXCEPT ![i].free = FALSE], b, end, i, n)
<1> DEFINE split == SplitBlock(b, i, n)
           g == [split EXCEPT ![i].free = FALSE]
<1>1. b \in Seq(Block) /\ Len(b) \in Nat /\ b[i].size \in Nat
  BY LenProperties, BlockType DEF List, Chained
<1>2. Chained(split, end) /\ Cut(split, b, i, n)
  BY SplitList DEF List
<1> HIDE DEF split
<1>3. /\ OthersOf(split, i) = OthersOf(b, i)
      /\ i \in 1..Len(split) /\ split[i].at = b[i].at /\ split[i].size \in Nat /\ split[i].size >= n
  BY <1>1, <1>2, CutOthers
<1>4. ApartBut(split, {i - 1, i})
  BY <1>1, <1>2, CutApart DEF List
<1>11. Marked(g, split, i, FALSE) /\ FALSE \in BOOLEAN
  BY DEF Marked
<1> HIDE DEF g
<1>5. /\ Chained(g, end) /\ Len(g) = Len(split)
      /\ \A k \in 1..Len(split) : k # i => g[k] = split[k]
      /\ g[i] = [at |-> split[i].at, size |-> split[i].size, free |-> FALSE]
  <2>1. Remarked(g, split, end, i, FALSE)
    BY <1>2, <1>3, <1>11, MarkChained, Zenon
  <2>2. QED
    BY <2>1 DEF Remarked
<1>6. ~ g[i].free /\ g[i].at = b[i].at /\ g[i].size = split[i].size
  BY <1>3, <1>5
<1>7. OthersOf(g, i) = OthersOf(b, i) /\ Apart(g)
  BY <1>3, <1>4, <1>5, <1>6, MarkOthers
<1>8. i \in 1..Len(g)
  BY <1>3, <1>5
<1>9. UsedOf(g) = OthersOf(b, i) \cup {g[i]}
  BY <1>6, <1>7, <1>8, UsedSplit
<1>12. QED
  BY <1>3, <1>5, <1>6, <1>7, <1>8, <1>9 DEF Taking, Serves, List, g, split

\* g is b, block i joined to what follows it if that is free; the pairs in X may
\* still both be free.
Merged(g, b, end, i, X) ==
    /\ Chained(g, end) /\ ApartBut(g, X)
    /\ i \in 1..Len(g) /\ OthersOf(g, i) = OthersOf(b, i)
    /\ g[i].free = b[i].free /\ g[i].at = b[i].at
    /\ \A k \in 1..(i - 1) : g[k] = b[k]

\* The merge of block i with what follows it.
LEMMA MergeStep ==
    ASSUME NEW b, NEW end, Chained(b, end), NEW i \in 1..Len(b),
           NEW X, X \subseteq {i - 1}, ApartBut(b, X \cup {i})
    PROVE  Merged(MergeWithNext(b, i), b, end, i, X)
<1> DEFINE g == MergeWithNext(b, i)
<1>1. b \in Seq(Block) /\ Len(b) \in Nat
  BY LenProperties DEF Chained
<1>2. CASE NextFree(b, i)
  <2>1. i \in 1..(Len(b) - 1) /\ b[i + 1].free
    BY <1>1, <1>2 DEF NextFree
  <2>2. Chained(g, end) /\ Joined(g, b, i)
    BY <1>2, MergeList
  <2> HIDE DEF g
  <2>3. OthersOf(g, i) = OthersOf(b, i) /\ i \in 1..Len(g) /\ g[i].free = b[i].free
    BY <1>1, <2>1, <2>2, JoinOthers
  <2>4. ApartBut(g, X)
    BY <1>1, <2>1, <2>2, JoinApart
  <2>5. g[i].at = b[i].at /\ \A k \in 1..(i - 1) : g[k] = b[k]
    BY <2>2 DEF Joined
  <2>6. Merged(g, b, end, i, X)
    BY <2>2, <2>3, <2>4, <2>5 DEF Merged
  <2>7. QED
    BY <2>6 DEF g
<1>3. CASE ~ NextFree(b, i)
  <2>1. g = b
    BY <1>3 DEF MergeWithNext
  <2> HIDE DEF g
  <2>2. ASSUME NEW k \in 1..(Len(b) - 1), k \notin X PROVE ~ (b[k].free /\ b[k + 1].free)
    <3>1. CASE k = i
      BY <1>1, <1>3, <3>1 DEF NextFree
    <3>2. CASE k # i
      BY <2>2, <3>2 DEF ApartBut
    <3>3. QED
      BY <3>1, <3>2
  <2>3. Merged(g, b, end, i, X)
    BY <2>1, <2>2 DEF ApartBut, Merged
  <2>4. QED
    BY <2>3 DEF g
<1>4. QED
  BY <1>2, <1>3

\* kfree_locked
LEMMA ReleaseList ==
    ASSUME NEW b, NEW end, List(b, end), NEW i \in 1..Len(b), ~ b[i].free
    PROVE  List(ReleaseBlock(b, i), end) /\ UsedOf(ReleaseBlock(b, i)) = OthersOf(b, i)
<1> DEFINE f == [b EXCEPT ![i].free = TRUE]
           m == MergeWithNext(f, i)
<1>1. b \in Seq(Block) /\ Len(b) \in Nat
  BY LenProperties DEF List, Chained
<1>2. Marked(f, b, i, TRUE) /\ TRUE \in BOOLEAN /\ Chained(b, end)
  BY DEF Marked, List
<1> HIDE DEF f
<1>3. /\ Chained(f, end) /\ Len(f) = Len(b)
      /\ \A k \in 1..Len(b) : k # i => f[k] = b[k]
      /\ f[i] = [at |-> b[i].at, size |-> b[i].size, free |-> TRUE]
  <2>1. Remarked(f, b, end, i, TRUE)
    BY <1>2, MarkChained, Zenon
  <2>2. QED
    BY <2>1 DEF Remarked
<1>4. OthersOf(f, i) = OthersOf(b, i) /\ ApartBut(f, {i - 1, i})
  BY <1>3, MarkOthers DEF List
<1>5. ApartBut(f, {i - 1} \cup {i}) /\ i \in 1..Len(f)
  BY <1>3, <1>4 DEF ApartBut
<1>12. Merged(m, f, end, i, {i - 1})
  <2>1. {i - 1} \subseteq {i - 1}
    OBVIOUS
  <2>2. QED
    BY <1>3, <1>5, <2>1, MergeStep, Zenon
<1> HIDE DEF m
<1>6. /\ Chained(m, end) /\ ApartBut(m, {i - 1})
      /\ i \in 1..Len(m) /\ OthersOf(m, i) = OthersOf(f, i)
      /\ m[i].free = f[i].free
      /\ \A k \in 1..(i - 1) : m[k] = f[k]
  BY <1>12 DEF Merged
<1>7. m[i].free /\ UsedOf(m) = OthersOf(b, i) /\ Len(m) \in Nat
  <2>1. m[i].free
    BY <1>3, <1>6
  <2>2. UsedOf(m) = OthersOf(m, i)
    BY <1>6, <2>1, UsedSplit
  <2>3. QED
    BY <1>4, <1>6, <2>1, <2>2, LenProperties DEF Chained
<1>8. i > 1 => b[i - 1].free = m[i - 1].free
  <2> HAVE i > 1
  <2>1. i - 1 \in 1..(i - 1) /\ i - 1 \in 1..Len(b) /\ i - 1 # i
    BY <1>1
  <2>2. QED
    BY <1>3, <1>6, <2>1
<1>9. CASE i > 1 /\ b[i - 1].free
  <2> DEFINE g == MergeWithNext(m, i - 1)
  <2>1. ReleaseBlock(b, i) = g
    BY <1>9 DEF ReleaseBlock, m, f
  <2>2. i - 1 \in 1..Len(m) /\ {} \subseteq {i - 1 - 1} /\ ApartBut(m, {} \cup {i - 1})
    BY <1>6, <1>7, <1>9 DEF ApartBut
  <2>7. Merged(g, m, end, i - 1, {})
    BY <1>6, <2>2, MergeStep, Zenon
  <2> HIDE DEF g
  <2>3. /\ Chained(g, end) /\ ApartBut(g, {})
        /\ i - 1 \in 1..Len(g) /\ OthersOf(g, i - 1) = OthersOf(m, i - 1)
        /\ g[i - 1].free = m[i - 1].free
    BY <2>7 DEF Merged
  <2>4. UsedOf(g) = OthersOf(g, i - 1) /\ UsedOf(m) = OthersOf(m, i - 1)
    BY <1>8, <1>9, <2>2, <2>3, UsedSplit
  <2>5. Apart(g)
    BY <2>3 DEF Apart, ApartBut
  <2>8. QED
    BY <1>7, <2>1, <2>3, <2>4, <2>5 DEF List
<1>10. CASE ~ (i > 1 /\ b[i - 1].free)
  <2>1. ReleaseBlock(b, i) = m
    BY <1>10 DEF ReleaseBlock, m, f
  <2>2. ASSUME NEW k \in 1..(Len(m) - 1) PROVE ~ (m[k].free /\ m[k + 1].free)
    <3>1. CASE k = i - 1
      BY <1>7, <1>8, <1>10, <3>1
    <3>2. CASE k # i - 1
      BY <1>6, <2>2, <3>2 DEF ApartBut
    <3>3. QED
      BY <3>1, <3>2
  <2>3. QED
    BY <1>6, <1>7, <2>1, <2>2 DEF List, Apart
<1>11. QED
  BY <1>9, <1>10

\* A used block that is cut after its successor was made to fit serves the request.
LEMMA ServedBy ==
    ASSUME NEW b, NEW g, NEW end, NEW i \in 1..Len(g), NEW n \in Nat,
           Chained(g, end), Apart(g), ~ g[i].free, g[i].at = b[i].at, g[i].size >= n,
           OthersOf(g, i) = OthersOf(b, i)
    PROVE  Serves(g, b, end, i, n)
<1>1. g[i].size \in Nat
  BY BlockType DEF Chained
<1>2. UsedOf(g) = OthersOf(b, i) \cup {g[i]}
  BY UsedSplit
<1>3. QED
  BY <1>1, <1>2 DEF Serves, List

\* Shrinking in krealloc_locked
LEMMA ShrinkList ==
    ASSUME NEW b, NEW end, List(b, end), NEW i \in 1..Len(b), ~ b[i].free,
           NEW n \in Nat, n >= Minimum, n <= b[i].size
    PROVE  Serves(ShrinkBlock(b, i, n), b, end, i, n)
<1> DEFINE split == SplitBlock(b, i, n)
<1>1. b \in Seq(Block) /\ Len(b) \in Nat /\ b[i].size \in Nat
  BY LenProperties, BlockType DEF List, Chained
<1>2. Chained(split, end) /\ Cut(split, b, i, n)
  BY SplitList DEF List
<1> HIDE DEF split
<1>3. /\ OthersOf(split, i) = OthersOf(b, i)
      /\ i \in 1..Len(split) /\ split[i].free = b[i].free /\ split[i].at = b[i].at
      /\ split[i].size \in Nat /\ split[i].size >= n
  BY <1>1, <1>2, CutOthers
<1>4. ApartBut(split, {i + 1}) /\ Len(split) \in Nat
  BY <1>1, <1>2, CutApart, LenProperties DEF List, Chained
<1>5. CASE ~ NextFree(split, i)
  <2>1. ShrinkBlock(b, i, n) = split
    BY <1>5 DEF ShrinkBlock, split
  <2>2. ASSUME NEW k \in 1..(Len(split) - 1) PROVE ~ (split[k].free /\ split[k + 1].free)
    <3>1. CASE k = i + 1
      BY <1>3, <1>4, <1>5, <3>1 DEF NextFree
    <3>2. CASE k # i + 1
      BY <1>4, <3>2 DEF ApartBut
    <3>3. QED
      BY <3>1, <3>2
  <2>3. Apart(split)
    BY <2>2 DEF Apart
  <2>4. QED
    BY <1>2, <1>3, <2>1, <2>3, ServedBy
<1>6. CASE NextFree(split, i)
  <2> DEFINE g == MergeWithNext(split, i + 1)
  <2>1. ShrinkBlock(b, i, n) = g
    BY <1>6 DEF ShrinkBlock, split
  <2>2. /\ i + 1 \in 1..Len(split) /\ {} \subseteq {i + 1 - 1} /\ ApartBut(split, {} \cup {i + 1})
        /\ split[i + 1].free /\ i \in 1..(i + 1 - 1)
    BY <1>3, <1>4, <1>6 DEF NextFree, ApartBut
  <2>8. Merged(g, split, end, i + 1, {})
    BY <1>2, <2>2, MergeStep, Zenon
  <2> HIDE DEF g
  <2>3. /\ Chained(g, end) /\ ApartBut(g, {})
        /\ i + 1 \in 1..Len(g) /\ OthersOf(g, i + 1) = OthersOf(split, i + 1)
        /\ g[i + 1].free = split[i + 1].free
        /\ \A k \in 1..(i + 1 - 1) : g[k] = split[k]
    BY <2>8 DEF Merged
  <2>4. UsedOf(g) = UsedOf(split)
    <3>1. UsedOf(g) = OthersOf(g, i + 1) /\ UsedOf(split) = OthersOf(split, i + 1)
      BY <2>2, <2>3, UsedSplit, Zenon
    <3>2. QED
      BY <2>3, <3>1
  <2>5. g[i] = split[i] /\ i \in 1..Len(g) /\ Apart(g)
    BY <2>2, <2>3 DEF Apart, ApartBut
  <2>6. UsedOf(g) = OthersOf(b, i) \cup {g[i]}
    BY <1>3, <2>4, <2>5, UsedSplit
  <2>9. QED
    BY <1>3, <2>1, <2>3, <2>5, <2>6 DEF Serves, List
<1>7. QED
  BY <1>5, <1>6

\* Growing in krealloc_locked
LEMMA GrowList ==
    ASSUME NEW b, NEW end, List(b, end), NEW i \in 1..Len(b), ~ b[i].free,
           NEW n \in Nat, n >= Minimum, CanGrow(b, i, n)
    PROVE  Serves(GrowBlock(b, i, n), b, end, i, n)
<1> DEFINE m == MergeWithNext(b, i)
           g == SplitBlock(m, i, n)
<1>1. b \in Seq(Block) /\ Len(b) \in Nat /\ Chained(b, end) /\ NextFree(b, i)
      /\ i \in 1..(Len(b) - 1) /\ b[i + 1].free
  BY LenProperties DEF List, Chained, CanGrow, NextFree
<1>2. {} \subseteq {i - 1} /\ ApartBut(b, {} \cup {i})
  BY DEF List, Apart, ApartBut
<1>13. Merged(m, b, end, i, {})
  BY <1>1, <1>2, MergeStep, Zenon
<1>3. /\ Chained(m, end) /\ ApartBut(m, {})
      /\ i \in 1..Len(m) /\ OthersOf(m, i) = OthersOf(b, i)
      /\ m[i].free = b[i].free /\ m[i].at = b[i].at
  BY <1>13 DEF Merged
<1>4. Joined(m, b, i)
  BY <1>1, MergeList
<1> HIDE DEF m
<1>5. m[i].size \in Nat /\ m[i].size >= n /\ Len(m) \in Nat
  <2>1. m[i].size = b[i].size + BlockHeader + b[i + 1].size
    BY <1>4 DEF Joined
  <2>2. QED
    BY <1>3, <2>1, BlockType, LenProperties DEF Chained, CanGrow
<1>6. Chained(g, end) /\ Cut(g, m, i, n)
  BY <1>3, <1>5, SplitList
<1> HIDE DEF g
<1>7. /\ OthersOf(g, i) = OthersOf(m, i)
      /\ i \in 1..Len(g) /\ g[i].free = m[i].free /\ g[i].at = m[i].at
      /\ g[i].size \in Nat /\ g[i].size >= n
  BY <1>3, <1>5, <1>6, CutOthers
<1>8. i < Len(m) => ~ m[i + 1].free
  <2> HAVE i < Len(m)
  <2>1. Len(m) = Len(b) - 1
    BY <1>4 DEF Joined
  <2>2. i + 2 \in (i + 2)..Len(b) /\ i + 1 \in 1..(Len(b) - 1) /\ i + 2 - 1 = i + 1 /\ i + 1 + 1 = i + 2
    BY <1>1, <2>1
  <2>3. m[i + 1] = b[i + 2]
    BY <1>4, <2>2 DEF Joined
  <2>4. ~ (b[i + 1].free /\ b[i + 2].free)
    BY <2>2 DEF List, Apart
  <2>5. QED
    BY <1>1, <2>3, <2>4
<1>9. Apart(m)
  BY <1>3 DEF Apart, ApartBut
<1>10. Apart(g)
  BY <1>3, <1>5, <1>6, <1>8, <1>9, CutApart
<1>11. GrowBlock(b, i, n) = g
  BY DEF GrowBlock, g, m
<1>12. QED
  BY <1>3, <1>6, <1>7, <1>10, <1>11, ServedBy

-----------------------------------------------------------------------------
(* The heap.                                                                *)

HeapRecord == [arenas : Seq(Arena), allocated : Int, bytes : Int]

ArenaOK(a) == a \in Arena /\ List(a.blocks, a.pages * PageUnits)

\* What HeapWellFormed says of the heap, for any heap; the arenas in X may be empty.
FormedBut(h, X) ==
    /\ h \in HeapRecord
    /\ h.arenas # <<>> /\ h.arenas[1].base = 1
    /\ \A k, m \in 1..Len(h.arenas) : h.arenas[k].base = h.arenas[m].base => k = m
    /\ \A k \in 1..Len(h.arenas) :
         /\ ArenaOK(h.arenas[k])
         /\ k = 1 \/ k \in X \/ UsedOf(h.arenas[k].blocks) # {}

Formed(h) == FormedBut(h, {})

LEMMA FormedType ==
    ASSUME NEW h, NEW X, FormedBut(h, X)
    PROVE  /\ h.arenas \in Seq(Arena) /\ Len(h.arenas) \in Nat /\ h.allocated \in Int /\ h.bytes \in Int
           /\ 1 \in 1..Len(h.arenas)
           /\ DOMAIN h.arenas = 1..Len(h.arenas)
<1>1. h.arenas \in Seq(Arena) /\ h.allocated \in Int /\ h.bytes \in Int /\ h.arenas # <<>>
  BY DEF FormedBut, HeapRecord
<1>2. Len(h.arenas) \in Nat /\ DOMAIN h.arenas = 1..Len(h.arenas)
  BY <1>1, LenProperties
<1>3. Len(h.arenas) # 0
  BY <1>1, EmptySeq
<1>4. QED
  BY <1>1, <1>2, <1>3

LEMMA ArenaType ==
    ASSUME NEW h, NEW X, FormedBut(h, X), NEW k \in 1..Len(h.arenas)
    PROVE  LET a == h.arenas[k]
           IN  /\ a \in Arena /\ a.base \in Base /\ a.pages \in Nat \ {0}
               /\ a = [base |-> a.base, pages |-> a.pages, blocks |-> a.blocks]
               /\ List(a.blocks, a.pages * PageUnits)
               /\ a.blocks \in Seq(Block) /\ Len(a.blocks) \in Nat /\ 1 \in 1..Len(a.blocks)
               /\ DOMAIN a.blocks = 1..Len(a.blocks)
<1> DEFINE a == h.arenas[k]
<1>1. a \in Arena /\ List(a.blocks, a.pages * PageUnits)
  BY DEF FormedBut, ArenaOK
<1>2. a.base \in Base /\ a.pages \in Nat \ {0} /\ a = [base |-> a.base, pages |-> a.pages, blocks |-> a.blocks]
  BY <1>1 DEF Arena
<1> HIDE DEF a
<1>3. a.blocks \in Seq(Block) /\ a.blocks # <<>>
  BY <1>1 DEF List, Chained
<1>4. Len(a.blocks) \in Nat /\ DOMAIN a.blocks = 1..Len(a.blocks) /\ Len(a.blocks) # 0
  BY <1>3, LenProperties, EmptySeq
<1>5. QED
  BY <1>1, <1>2, <1>3, <1>4 DEF a

\* h2 is h with the list of arena k replaced by g.
Refilled(h2, h, k, g) ==
    /\ h2 \in HeapRecord
    /\ Len(h2.arenas) = Len(h.arenas)
    /\ \A m \in 1..Len(h.arenas) : m # k => h2.arenas[m] = h.arenas[m]
    /\ h2.arenas[k] = [base |-> h.arenas[k].base, pages |-> h.arenas[k].pages, blocks |-> g]

LEMMA UpdateRefills ==
    ASSUME NEW h, NEW X, FormedBut(h, X), NEW k \in 1..Len(h.arenas), NEW g \in Seq(Block),
           NEW da \in Int, NEW db \in Int
    PROVE  /\ Refilled(Update(h, k, g, da, db), h, k, g)
           /\ Update(h, k, g, da, db).allocated = h.allocated + da
           /\ Update(h, k, g, da, db).bytes = h.bytes + db
<1> DEFINE x == [base |-> h.arenas[k].base, pages |-> h.arenas[k].pages, blocks |-> g]
           arenas == [h.arenas EXCEPT ![k] = x]
<1>1. h.arenas \in Seq(Arena) /\ h.allocated \in Int /\ h.bytes \in Int
  BY FormedType
<1>2. h.arenas[k] \in Arena
  BY ArenaType
<1>3. x \in Arena /\ [h.arenas[k] EXCEPT !.blocks = g] = x
  BY <1>2 DEF Arena
<1>4. Update(h, k, g, da, db) = [arenas |-> arenas, allocated |-> h.allocated + da, bytes |-> h.bytes + db]
  BY <1>3 DEF Update
<1>5. x = [base |-> h.arenas[k].base, pages |-> h.arenas[k].pages, blocks |-> g]
  OBVIOUS
<1> HIDE DEF x
<1>6. arenas \in Seq(Arena) /\ Len(arenas) = Len(h.arenas)
      /\ \A m \in 1..Len(h.arenas) : arenas[m] = IF m = k THEN x ELSE h.arenas[m]
  BY <1>1, <1>3, ExceptSeq
<1> HIDE DEF arenas
<1> DEFINE u == Update(h, k, g, da, db)
<1>7. u \in HeapRecord /\ u.arenas = arenas /\ u.allocated = h.allocated + da /\ u.bytes = h.bytes + db
  BY <1>1, <1>4, <1>6 DEF HeapRecord
<1> HIDE DEF u
<1>8. Refilled(u, h, k, g)
  BY <1>5, <1>6, <1>7 DEF Refilled
<1>9. QED
  BY <1>7, <1>8 DEF u

\* A heap stays well formed when a list takes the place of another of its arena.
LEMMA RefilledFormed ==
    ASSUME NEW h, NEW X, FormedBut(h, X), NEW k \in 1..Len(h.arenas), X \subseteq {k}, NEW g,
           List(g, h.arenas[k].pages * PageUnits),
           NEW h2, Refilled(h2, h, k, g)
    PROVE  /\ FormedBut(h2, {k})
           /\ k = 1 \/ UsedOf(g) # {} => Formed(h2)
<1>1. /\ h2.arenas \in Seq(Arena) /\ Len(h2.arenas) = Len(h.arenas)
      /\ h2.arenas[k].base = h.arenas[k].base /\ h2.arenas[k].pages = h.arenas[k].pages
      /\ h2.arenas[k].blocks = g
  BY DEF Refilled, HeapRecord
<1>2. \A m \in 1..Len(h.arenas) : h2.arenas[m].base = h.arenas[m].base
  BY <1>1 DEF Refilled
<1>3. Len(h.arenas) \in Nat /\ 1 \in 1..Len(h.arenas)
  BY FormedType
<1>4. h2.arenas # <<>>
  BY <1>1, <1>3, EmptySeq
<1>5. h2.arenas[1].base = 1
  BY <1>2, <1>3 DEF FormedBut
<1>6. ASSUME NEW m \in 1..Len(h.arenas)
      PROVE  ArenaOK(h2.arenas[m]) /\ (m = 1 \/ m = k \/ UsedOf(h2.arenas[m].blocks) # {})
  <2>1. CASE m = k
    <3>1. h2.arenas[k] \in Arena
      BY <1>1, ElementOfSeq
    <3>2. QED
      BY <1>1, <2>1, <3>1 DEF ArenaOK
  <2>2. CASE m # k
    BY <2>2 DEF Refilled, FormedBut
  <2>3. QED
    BY <2>1, <2>2
<1>7. \A m, l \in 1..Len(h.arenas) : h2.arenas[m].base = h2.arenas[l].base => m = l
  BY <1>2 DEF FormedBut
<1>8. FormedBut(h2, {k})
  BY <1>1, <1>4, <1>5, <1>6, <1>7 DEF FormedBut, Refilled
<1>9. ASSUME k = 1 \/ UsedOf(g) # {} PROVE Formed(h2)
  BY <1>1, <1>4, <1>5, <1>6, <1>7, <1>9 DEF Formed, FormedBut, Refilled
<1>10. QED
  BY <1>8, <1>9

-----------------------------------------------------------------------------
(* The allocations of a heap: each used block with the base of its arena.   *)

Allocs(h) == UNION {{h.arenas[k].base} \X UsedOf(h.arenas[k].blocks) : k \in 1..Len(h.arenas)}

AddressOf(a) == <<a[1], a[2].at + BlockHeader>>

LEMMA AllocPoint ==
    ASSUME NEW h, NEW a
    PROVE  a \in Allocs(h) <=>
             \E k \in 1..Len(h.arenas) : \E x \in UsedOf(h.arenas[k].blocks) : a = <<h.arenas[k].base, x>>
BY DEF Allocs

\* The size of an allocation is a number.
LEMMA AllocSize ==
    ASSUME NEW h, NEW X, FormedBut(h, X), NEW a \in Allocs(h)
    PROVE  a[2].size \in Nat
<1>1. PICK k \in 1..Len(h.arenas) : \E x \in UsedOf(h.arenas[k].blocks) : a = <<h.arenas[k].base, x>>
  BY AllocPoint
<1>2. PICK x \in UsedOf(h.arenas[k].blocks) : a = <<h.arenas[k].base, x>>
  BY <1>1
<1>3. PICK i \in 1..Len(h.arenas[k].blocks) : x = h.arenas[k].blocks[i]
  BY DEF UsedOf
<1>4. h.arenas[k].blocks \in Seq(Block)
  BY ArenaType
<1>5. x.size \in Nat
  BY <1>3, <1>4, BlockType
<1>6. QED
  BY <1>2, <1>5

\* No two allocations have the same address.
LEMMA AddressesDiffer ==
    ASSUME NEW h, NEW X, FormedBut(h, X), NEW a \in Allocs(h), NEW c \in Allocs(h), AddressOf(a) = AddressOf(c)
    PROVE  a = c
<1>1. PICK k \in 1..Len(h.arenas) : \E x \in UsedOf(h.arenas[k].blocks) : a = <<h.arenas[k].base, x>>
  BY AllocPoint
<1>2. PICK x \in UsedOf(h.arenas[k].blocks) : a = <<h.arenas[k].base, x>>
  BY <1>1
<1>3. PICK m \in 1..Len(h.arenas) : \E y \in UsedOf(h.arenas[m].blocks) : c = <<h.arenas[m].base, y>>
  BY AllocPoint
<1>4. PICK y \in UsedOf(h.arenas[m].blocks) : c = <<h.arenas[m].base, y>>
  BY <1>3
<1>5. h.arenas[k].base = h.arenas[m].base /\ x.at + BlockHeader = y.at + BlockHeader
  BY <1>2, <1>4 DEF AddressOf
<1>6. k = m
  BY <1>5 DEF FormedBut
<1>7. /\ h.arenas[k].blocks \in Seq(Block) /\ 1 \in 1..Len(h.arenas[k].blocks)
      /\ Chained(h.arenas[k].blocks, h.arenas[k].pages * PageUnits)
  BY ArenaType DEF List
<1>8. x \in Block /\ y \in Block
  BY <1>6, <1>7, BlockType DEF UsedOf
<1>9. x.at = y.at
  BY <1>5, <1>8, SizesNat DEF Block
<1>10. x = y
  BY <1>6, <1>7, <1>9, OthersElsewhere
<1>11. QED
  BY <1>2, <1>4, <1>6, <1>10

\* The allocations in the arenas other than arena k.
RestOf(h, k) == UNION {{h.arenas[m].base} \X UsedOf(h.arenas[m].blocks) : m \in (1..Len(h.arenas)) \ {k}}

LEMMA AllocsSplit ==
    ASSUME NEW h, NEW k \in 1..Len(h.arenas)
    PROVE  Allocs(h) = RestOf(h, k) \cup ({h.arenas[k].base} \X UsedOf(h.arenas[k].blocks))
BY DEF Allocs, RestOf

LEMMA RestElsewhere ==
    ASSUME NEW h, NEW X, FormedBut(h, X), NEW k \in 1..Len(h.arenas)
    PROVE  \A a \in RestOf(h, k) : a[1] # h.arenas[k].base
BY DEF RestOf, FormedBut

LEMMA RefilledAllocs ==
    ASSUME NEW h, NEW k \in 1..Len(h.arenas), NEW g, NEW h2, Refilled(h2, h, k, g)
    PROVE  Allocs(h2) = RestOf(h, k) \cup ({h.arenas[k].base} \X UsedOf(g))
<1>1. /\ Len(h2.arenas) = Len(h.arenas)
      /\ h2.arenas[k].base = h.arenas[k].base /\ h2.arenas[k].blocks = g
      /\ \A m \in 1..Len(h.arenas) : m # k => h2.arenas[m] = h.arenas[m]
  BY DEF Refilled
<1>2. RestOf(h2, k) = RestOf(h, k)
  BY <1>1 DEF RestOf
<1>3. Allocs(h2) = RestOf(h2, k) \cup ({h2.arenas[k].base} \X UsedOf(h2.arenas[k].blocks))
  BY <1>1, AllocsSplit
<1>4. QED
  BY <1>1, <1>2, <1>3

\* What a call does to the allocations: one more, one less, or one of another size.
Added(h, h2, a) ==
    /\ Allocs(h2) = Allocs(h) \cup {a}
    /\ \A c \in Allocs(h) : AddressOf(c) # AddressOf(a)
    /\ a[2].size \in Nat
    /\ h2.allocated = h.allocated + 1
    /\ h2.bytes = h.bytes + a[2].size

Removed(h, h2, a) ==
    /\ a \in Allocs(h)
    /\ Allocs(h2) = Allocs(h) \ {a}
    /\ h2.allocated = h.allocated - 1
    /\ h2.bytes = h.bytes + - a[2].size

Replaced(h, h2, a, c) ==
    /\ a \in Allocs(h)
    /\ Allocs(h2) = (Allocs(h) \ {a}) \cup {c}
    /\ AddressOf(c) = AddressOf(a)
    /\ c[2].size \in Nat
    /\ h2.allocated = h.allocated
    /\ h2.bytes = h.bytes + (c[2].size - a[2].size)

\* What becomes of a heap when list g of arena k serves a request of n with block i.
Served(h, h2, k, i, g, n) ==
    LET b == h.arenas[k].blocks
        base == h.arenas[k].base
    IN  /\ Formed(h2)
        /\ g[i].size >= n
        /\ AddressOf(<<base, g[i]>>) = <<base, b[i].at + BlockHeader>>
        /\ b[i].free /\ h2.allocated = h.allocated + 1 /\ h2.bytes = h.bytes + g[i].size
             => Added(h, h2, <<base, g[i]>>)
        /\ ~ b[i].free /\ h2.allocated = h.allocated /\ h2.bytes = h.bytes + (g[i].size - b[i].size)
             => Replaced(h, h2, <<base, b[i]>>, <<base, g[i]>>)

\* A list that serves a request gives a well formed heap with one allocation more,
\* or one in the place of another.
LEMMA ServedHeap ==
    ASSUME NEW h, NEW X, FormedBut(h, X), NEW k \in 1..Len(h.arenas), X \subseteq {k},
           NEW i \in 1..Len(h.arenas[k].blocks), NEW n, NEW g,
           Serves(g, h.arenas[k].blocks, h.arenas[k].pages * PageUnits, i, n),
           NEW h2, Refilled(h2, h, k, g)
    PROVE  Served(h, h2, k, i, g, n)
<1> DEFINE b == h.arenas[k].blocks
           base == h.arenas[k].base
           new == <<base, g[i]>>
           old == <<base, b[i]>>
<1>1. /\ List(g, h.arenas[k].pages * PageUnits) /\ i \in 1..Len(g) /\ ~ g[i].free
      /\ g[i].at = b[i].at /\ g[i].size >= n /\ g[i].size \in Nat
      /\ UsedOf(g) = OthersOf(b, i) \cup {g[i]}
  BY DEF Serves
<1>2. Formed(h2)
  <2>1. UsedOf(g) # {}
    BY <1>1
  <2>2. QED
    BY <1>1, <2>1, RefilledFormed
<1>3. AddressOf(new) = <<base, b[i].at + BlockHeader>> /\ AddressOf(old) = <<base, b[i].at + BlockHeader>>
  BY <1>1 DEF AddressOf
<1>4. /\ Allocs(h2) = RestOf(h, k) \cup ({base} \X UsedOf(g))
      /\ Allocs(h) = RestOf(h, k) \cup ({base} \X UsedOf(b))
  BY RefilledAllocs, AllocsSplit
<1>5. Chained(b, h.arenas[k].pages * PageUnits) /\ b \in Seq(Block)
  BY ArenaType DEF List
<1>6. /\ \A a \in RestOf(h, k) : a[1] # base
      /\ \A x \in OthersOf(b, i) : x.at # b[i].at
  BY <1>5, RestElsewhere, OthersElsewhere
<1>7. \A x \in OthersOf(b, i) : x.at \in Nat
  BY <1>5, BlockType DEF OthersOf
<1>8. b[i].at \in Nat
  BY <1>5, BlockType
<1> HIDE DEF b, base
<1>9. \A a \in RestOf(h, k) \cup ({base} \X OthersOf(b, i)) : AddressOf(a) # <<base, b[i].at + BlockHeader>>
  <2> SUFFICES ASSUME NEW a \in RestOf(h, k) \cup ({base} \X OthersOf(b, i)),
                      AddressOf(a) = <<base, b[i].at + BlockHeader>>
               PROVE  FALSE
    OBVIOUS
  <2>1. a[1] = base /\ a[2].at + BlockHeader = b[i].at + BlockHeader
    BY DEF AddressOf
  <2>2. a \in {base} \X OthersOf(b, i)
    BY <1>6, <2>1
  <2>3. a[2] \in OthersOf(b, i)
    BY <2>2
  <2>4. QED
    BY <1>6, <1>7, <1>8, <2>1, <2>3, SizesNat
<1>13. new[2] = g[i] /\ old[2] = b[i]
  OBVIOUS
<1>10. ASSUME b[i].free, h2.allocated = h.allocated + 1, h2.bytes = h.bytes + g[i].size
       PROVE  Added(h, h2, new)
  <2>1. UsedOf(b) = OthersOf(b, i)
    BY <1>10, UsedSplit DEF b
  <2>2. Allocs(h2) = Allocs(h) \cup {new}
    BY <1>1, <1>4, <2>1
  <2>3. \A c \in Allocs(h) : AddressOf(c) # AddressOf(new)
    BY <1>3, <1>4, <1>9, <2>1
  <2> HIDE DEF new
  <2>4. QED
    BY <1>1, <1>10, <1>13, <2>2, <2>3 DEF Added
<1>11. ASSUME ~ b[i].free, h2.allocated = h.allocated, h2.bytes = h.bytes + (g[i].size - b[i].size)
       PROVE  Replaced(h, h2, old, new)
  <2>1. UsedOf(b) = OthersOf(b, i) \cup {b[i]}
    BY <1>11, UsedSplit DEF b
  <2>2. old \in Allocs(h)
    BY <1>4, <2>1
  <2>3. old \notin RestOf(h, k) \cup ({base} \X OthersOf(b, i))
    BY <1>3, <1>9
  <2>4. Allocs(h) \ {old} = RestOf(h, k) \cup ({base} \X OthersOf(b, i))
    BY <1>4, <2>1, <2>3
  <2>5. Allocs(h2) = (Allocs(h) \ {old}) \cup {new}
    BY <1>1, <1>4, <2>4
  <2> HIDE DEF old, new
  <2>6. QED
    BY <1>1, <1>3, <1>11, <1>13, <2>2, <2>5 DEF Replaced
<1>12. QED
  BY <1>1, <1>2, <1>3, <1>10, <1>11 DEF b, base, Served

\* A list with one used block less gives a heap with one allocation less; its
\* arena may be empty.
LEMMA FreedHeap ==
    ASSUME NEW h, NEW X, FormedBut(h, X), NEW k \in 1..Len(h.arenas), X \subseteq {k},
           NEW i \in 1..Len(h.arenas[k].blocks), ~ h.arenas[k].blocks[i].free,
           NEW g, List(g, h.arenas[k].pages * PageUnits), UsedOf(g) = OthersOf(h.arenas[k].blocks, i),
           NEW h2, Refilled(h2, h, k, g), h2.allocated = h.allocated - 1,
           h2.bytes = h.bytes + - h.arenas[k].blocks[i].size
    PROVE  /\ FormedBut(h2, {k})
           /\ Removed(h, h2, <<h.arenas[k].base, h.arenas[k].blocks[i]>>)
<1> DEFINE b == h.arenas[k].blocks
           base == h.arenas[k].base
           old == <<base, b[i]>>
<1>1. FormedBut(h2, {k})
  BY RefilledFormed
<1>2. /\ Allocs(h2) = RestOf(h, k) \cup ({base} \X UsedOf(g))
      /\ Allocs(h) = RestOf(h, k) \cup ({base} \X UsedOf(b))
  BY RefilledAllocs, AllocsSplit
<1>3. Chained(b, h.arenas[k].pages * PageUnits)
  BY ArenaType DEF List
<1>4. /\ \A a \in RestOf(h, k) : a[1] # base
      /\ \A x \in OthersOf(b, i) : x.at # b[i].at
      /\ UsedOf(b) = OthersOf(b, i) \cup {b[i]}
      /\ UsedOf(g) = OthersOf(b, i)
  BY <1>3, RestElsewhere, OthersElsewhere, UsedSplit
<1> HIDE DEF b, base
<1>5. old \in Allocs(h)
  BY <1>2, <1>4
<1>6. old \notin RestOf(h, k) \cup ({base} \X OthersOf(b, i))
  BY <1>4
<1>7. Allocs(h2) = Allocs(h) \ {old}
  BY <1>2, <1>4, <1>6
<1>8. Removed(h, h2, old)
  <2>1. old[2] = b[i]
    OBVIOUS
  <2>2. h2.bytes = h.bytes + - b[i].size
    BY DEF b
  <2> HIDE DEF old
  <2>3. QED
    BY <1>5, <1>7, <2>1, <2>2 DEF Removed
<1>9. QED
  BY <1>1, <1>8 DEF b, base

-----------------------------------------------------------------------------
(* Arenas that come and go.                                                 *)

\* An arena with no used block is one free block.
LEMMA EmptyArena ==
    ASSUME NEW a, ArenaOK(a)
    PROVE  CompletelyFree(a) <=> UsedOf(a.blocks) = {}
<1> DEFINE b == a.blocks
           total == a.pages * PageUnits
<1>1. Chained(b, total) /\ Apart(b) /\ b \in Seq(Block) /\ Len(b) \in Nat /\ b # <<>>
  BY LenProperties DEF ArenaOK, List, Chained
<1>2. Len(b) # 0 /\ 1 \in 1..Len(b)
  BY <1>1, EmptySeq
<1>3. a.pages \in Nat /\ total \in Nat
  BY SizesNat DEF ArenaOK, Arena
<1>4. b[1].at = ArenaHeader /\ EndOf(b[Len(b)]) = total /\ b[1].size \in Nat /\ b[1].free \in BOOLEAN
  BY <1>1, <1>2, BlockType DEF Chained
<1>5. ArenaSize(a.pages) = total - ArenaHeader - BlockHeader
  BY DEF ArenaSize
<1>6. CompletelyFree(a) <=> Len(b) = 1 /\ b[1].free /\ b[1].size = ArenaSize(a.pages)
  BY DEF CompletelyFree
<1> HIDE DEF b, total
<1>7. ASSUME UsedOf(b) = {} PROVE Len(b) = 1 /\ b[1].free /\ b[1].size = ArenaSize(a.pages)
  <2>1. \A m \in 1..Len(b) : b[m].free
    BY <1>7 DEF UsedOf
  <2>2. Len(b) = 1
    <3>1. Len(b) \in Nat /\ Len(b) # 0
      BY <1>1, <1>2
    <3>4. \A n \in Nat : n # 0 /\ n # 1 => 1 \in 1..(n - 1) /\ 1 + 1 \in 1..n
      OBVIOUS
    <3>2. Len(b) # 1 => 1 \in 1..(Len(b) - 1) /\ 1 + 1 \in 1..Len(b)
      BY <3>1, <3>4, Zenon
    <3>3. QED
      BY <1>1, <1>2, <2>1, <3>2 DEF Apart
  <2>3. ArenaHeader + BlockHeader + b[1].size = total
    BY <1>4, <2>2 DEF EndOf
  <2>4. QED
    BY <1>2, <1>3, <1>4, <1>5, <2>1, <2>2, <2>3, SizesNat
<1>8. ASSUME Len(b) = 1, b[1].free PROVE UsedOf(b) = {}
  BY <1>8 DEF UsedOf
<1>9. QED
  BY <1>6, <1>7, <1>8 DEF b

\* g is the sequence a without its element k.
Dropped(g, a, k) ==
    /\ Len(g) = Len(a) - 1
    /\ \A m \in 1..(k - 1) : g[m] = a[m]
    /\ \A m \in (k + 1)..Len(a) : g[m - 1] = a[m]

LEMMA DropElement ==
    ASSUME NEW S, NEW a \in Seq(S), NEW k \in 1..Len(a)
    PROVE  LET g == SubSeq(a, 1, k - 1) \o SubSeq(a, k + 1, Len(a))
           IN  g \in Seq(S) /\ Dropped(g, a, k)
<1> DEFINE front == SubSeq(a, 1, k - 1)
           back == SubSeq(a, k + 1, Len(a))
           g == front \o back
<1>1. Len(a) \in Nat /\ k - 1 \in Nat /\ k \in Nat /\ k <= Len(a) /\ k - 1 <= Len(a)
  BY LenProperties
<1>2. front \in Seq(S) /\ Len(front) = k - 1 /\ \A m \in 1..(k - 1) : front[m] = a[m]
  <2>1. /\ SubSeq(a, 0 + 1, k - 1) \in Seq(S)
        /\ Len(SubSeq(a, 0 + 1, k - 1)) = k - 1 - 0
        /\ \A m \in 1..(k - 1 - 0) : SubSeq(a, 0 + 1, k - 1)[m] = a[0 + m]
    BY <1>1, Part
  <2>2. QED
    BY <1>1, <2>1
<1>3. back \in Seq(S) /\ Len(back) = Len(a) - k /\ \A m \in 1..(Len(a) - k) : back[m] = a[k + m]
  BY <1>1, Part
<1> HIDE DEF front, back
<1>4. g \in Seq(S) /\ Glued(g, front, back)
  BY <1>2, <1>3, GluedConcat
<1> HIDE DEF g
<1>5. ASSUME NEW m \in (k + 1)..Len(a) PROVE g[m - 1] = a[m]
  <2>1. m - k \in 1..(Len(a) - k) /\ k - 1 + (m - k) = m - 1 /\ k + (m - k) = m
    BY <1>1
  <2>2. g[k - 1 + (m - k)] = back[m - k] /\ back[m - k] = a[k + (m - k)]
    BY <1>2, <1>3, <1>4, <2>1 DEF Glued
  <2>3. QED
    BY <2>1, <2>2
<1>6. Len(g) = Len(a) - 1 /\ \A m \in 1..(k - 1) : g[m] = a[m]
  BY <1>1, <1>2, <1>3, <1>4 DEF Glued
<1>7. QED
  BY <1>4, <1>5, <1>6 DEF Dropped, g, front, back

\* Where element m of a sequence stood before element k was dropped.
Source(m, k) == IF m < k THEN m ELSE m + 1

Shifted(g, a, k) ==
    /\ \A m \in 1..Len(g) : Source(m, k) \in 1..Len(a) /\ Source(m, k) # k /\ g[m] = a[Source(m, k)]
    /\ \A l, m \in 1..Len(g) : Source(l, k) = Source(m, k) => l = m
    /\ \A l \in 1..Len(a) : l # k => \E m \in 1..Len(g) : Source(m, k) = l

LEMMA DroppedSource ==
    ASSUME NEW g, NEW a, Len(a) \in Nat, NEW k \in 1..Len(a), Dropped(g, a, k)
    PROVE  Shifted(g, a, k)
<1>1. Len(g) = Len(a) - 1 /\ k \in Nat
  BY DEF Dropped
<1>2. ASSUME NEW m \in 1..Len(g)
      PROVE  Source(m, k) \in 1..Len(a) /\ Source(m, k) # k /\ g[m] = a[Source(m, k)]
  <2>1. CASE m < k
    <3>1. m \in 1..(k - 1) /\ Source(m, k) = m
      BY <1>1, <2>1 DEF Source
    <3>2. QED
      BY <1>1, <2>1, <3>1 DEF Dropped
  <2>2. CASE ~ (m < k)
    <3>1. m + 1 \in (k + 1)..Len(a) /\ Source(m, k) = m + 1 /\ m + 1 - 1 = m
      BY <1>1, <2>2 DEF Source
    <3>2. g[m + 1 - 1] = a[m + 1]
      BY <3>1 DEF Dropped
    <3>3. QED
      BY <1>1, <2>2, <3>1, <3>2
  <2>3. QED
    BY <2>1, <2>2
<1>3. \A l, m \in 1..Len(g) : Source(l, k) = Source(m, k) => l = m
  BY <1>1 DEF Source
<1>4. ASSUME NEW l \in 1..Len(a), l # k PROVE \E m \in 1..Len(g) : Source(m, k) = l
  <2>1. CASE l < k
    <3>1. l \in 1..Len(g) /\ Source(l, k) = l
      BY <1>1, <2>1 DEF Source
    <3>2. QED
      BY <3>1
  <2>2. CASE ~ (l < k)
    <3>1. l - 1 \in 1..Len(g) /\ Source(l - 1, k) = l
      BY <1>1, <1>4, <2>2 DEF Source
    <3>2. QED
      BY <3>1
  <2>3. QED
    BY <2>1, <2>2
<1>5. QED
  BY <1>2, <1>3, <1>4 DEF Shifted

\* h2 is h without arena k.
WithoutArena(h2, h, k) ==
    h2 \in HeapRecord /\ h2.allocated = h.allocated /\ Dropped(h2.arenas, h.arenas, k)

LEMMA DropArena ==
    ASSUME NEW h, NEW k \in 1..Len(h.arenas), FormedBut(h, {k}), k # 1, UsedOf(h.arenas[k].blocks) = {},
           NEW h2, WithoutArena(h2, h, k)
    PROVE  Formed(h2) /\ Allocs(h2) = Allocs(h)
<1> DEFINE a == h.arenas
           g == h2.arenas
<1>1. Len(a) \in Nat /\ Len(g) = Len(a) - 1 /\ g \in Seq(Arena) /\ Dropped(g, a, k)
  BY FormedType DEF WithoutArena, Dropped, HeapRecord
<1>12. k \in 1..Len(a) /\ UsedOf(a[k].blocks) = {}
  OBVIOUS
<1> HIDE DEF a, g
<1>2. /\ \A m \in 1..Len(g) : Source(m, k) \in 1..Len(a) /\ Source(m, k) # k /\ g[m] = a[Source(m, k)]
      /\ \A l, m \in 1..Len(g) : Source(l, k) = Source(m, k) => l = m
      /\ \A l \in 1..Len(a) : l # k => \E m \in 1..Len(g) : Source(m, k) = l
  <2>1. Shifted(g, a, k)
    BY <1>1, <1>12, DroppedSource
  <2>2. QED
    BY <2>1 DEF Shifted
<1>3. /\ a[1].base = 1
      /\ \A l, m \in 1..Len(a) : a[l].base = a[m].base => l = m
      /\ \A l \in 1..Len(a) : ArenaOK(a[l]) /\ (l = 1 \/ l = k \/ UsedOf(a[l].blocks) # {})
  BY DEF a, FormedBut
<1>4. g # <<>> /\ g[1].base = 1
  <2>1. 1 \in 1..Len(g) /\ 1 \in 1..(k - 1)
    BY <1>1 DEF a
  <2>2. g[1] = a[1]
    BY <1>1, <2>1 DEF Dropped
  <2>3. QED
    BY <1>1, <1>3, <2>1, <2>2, EmptySeq
<1>5. \A l, m \in 1..Len(g) : g[l].base = g[m].base => l = m
  BY <1>2, <1>3
<1>6. ASSUME NEW m \in 1..Len(g) PROVE ArenaOK(g[m]) /\ (m = 1 \/ UsedOf(g[m].blocks) # {})
  <2>1. Source(m, k) = 1 => m = 1
    BY <1>1 DEF Source
  <2>2. PICK l \in 1..Len(a) : l = Source(m, k) /\ l # k /\ g[m] = a[l]
    BY <1>2, Zenon
  <2>3. ArenaOK(a[l]) /\ (l = 1 \/ UsedOf(a[l].blocks) # {})
    BY <1>3, <2>2
  <2>4. QED
    BY <2>1, <2>2, <2>3
<1>7. Formed(h2)
  BY <1>4, <1>5, <1>6 DEF g, Formed, FormedBut, WithoutArena
<1>8. ASSUME NEW x PROVE x \in Allocs(h2) <=> x \in Allocs(h)
  <2>1. x \in Allocs(h2) <=> \E m \in 1..Len(g) : \E y \in UsedOf(g[m].blocks) : x = <<g[m].base, y>>
    BY AllocPoint DEF g
  <2>2. x \in Allocs(h) <=> \E l \in 1..Len(a) : \E y \in UsedOf(a[l].blocks) : x = <<a[l].base, y>>
    BY AllocPoint DEF a
  <2>3. ASSUME NEW m \in 1..Len(g), NEW y \in UsedOf(g[m].blocks), x = <<g[m].base, y>>
        PROVE  \E l \in 1..Len(a) : \E z \in UsedOf(a[l].blocks) : x = <<a[l].base, z>>
    <3>1. PICK l \in 1..Len(a) : g[m] = a[l]
      BY <1>2, Zenon
    <3>2. QED
      BY <2>3, <3>1
  <2>4. ASSUME NEW l \in 1..Len(a), NEW y \in UsedOf(a[l].blocks), x = <<a[l].base, y>>
        PROVE  \E m \in 1..Len(g) : \E z \in UsedOf(g[m].blocks) : x = <<g[m].base, z>>
    <3>1. l # k
      BY <1>12
    <3>2. PICK m \in 1..Len(g) : Source(m, k) = l
      BY <1>2, <3>1, Zenon
    <3>3. g[m] = a[l]
      BY <1>2, <3>2, Zenon
    <3>4. QED
      BY <2>4, <3>3
  <2>5. QED
    BY <2>1, <2>2, <2>3, <2>4, Zenon
<1>9. Allocs(h2) = Allocs(h)
  BY <1>8
<1>10. QED
  BY <1>7, <1>9

\* release_empty_arena
LEMMA ReleaseArena ==
    ASSUME NEW h, NEW k \in 1..Len(h.arenas), FormedBut(h, {k})
    PROVE  LET r == ReleaseEmptyArena(h, k)
           IN  Formed(r) /\ Allocs(r) = Allocs(h) /\ r.allocated = h.allocated /\ r.bytes = h.bytes
<1>1. ArenaOK(h.arenas[k]) /\ h.arenas \in Seq(Arena) /\ h \in HeapRecord
  BY DEF FormedBut, HeapRecord
<1>2. CompletelyFree(h.arenas[k]) <=> UsedOf(h.arenas[k].blocks) = {}
  BY <1>1, EmptyArena
<1>3. CASE k = 1 \/ ~ CompletelyFree(h.arenas[k])
  <2>1. ReleaseEmptyArena(h, k) = h
    BY <1>3 DEF ReleaseEmptyArena
  <2>2. Formed(h)
    BY <1>2, <1>3 DEF Formed, FormedBut
  <2>3. QED
    BY <2>1, <2>2
<1>4. CASE ~ (k = 1 \/ ~ CompletelyFree(h.arenas[k]))
  <2> DEFINE g == SubSeq(h.arenas, 1, k - 1) \o SubSeq(h.arenas, k + 1, Len(h.arenas))
             r == ReleaseEmptyArena(h, k)
  <2>1. r = [h EXCEPT !.arenas = g]
    BY <1>4 DEF ReleaseEmptyArena
  <2>2. g \in Seq(Arena) /\ Dropped(g, h.arenas, k)
    BY <1>1, DropElement
  <2> HIDE DEF g, r
  <2>3. r \in HeapRecord /\ r.arenas = g /\ r.allocated = h.allocated /\ r.bytes = h.bytes
    BY <1>1, <2>1, <2>2 DEF HeapRecord
  <2>4. WithoutArena(r, h, k)
    BY <2>2, <2>3 DEF WithoutArena
  <2>5. Formed(r) /\ Allocs(r) = Allocs(h)
    BY <1>2, <1>4, <2>4, DropArena
  <2>6. QED
    BY <2>3, <2>5 DEF r
<1>5. QED
  BY <1>3, <1>4

-----------------------------------------------------------------------------
(* The searches.                                                            *)

LEMMA SlotPoint ==
    ASSUME NEW h, NEW X, FormedBut(h, X), NEW s
    PROVE  s \in Slots(h) <=> \E k \in 1..Len(h.arenas) : \E i \in 1..Len(h.arenas[k].blocks) : s = <<k, i>>
<1>1. DOMAIN h.arenas = 1..Len(h.arenas)
  BY FormedType
<1>2. \A k \in 1..Len(h.arenas) : DOMAIN h.arenas[k].blocks = 1..Len(h.arenas[k].blocks)
  BY ArenaType
<1>3. Slots(h) = UNION {{k} \X (1..Len(h.arenas[k].blocks)) : k \in 1..Len(h.arenas)}
  BY <1>1, <1>2 DEF Slots
<1>4. QED
  BY <1>3

\* A slot of a heap: an arena and a block of it.
LEMMA SlotOf ==
    ASSUME NEW h, NEW X, FormedBut(h, X), NEW s \in Slots(h)
    PROVE  /\ s[1] \in 1..Len(h.arenas) /\ s[2] \in 1..Len(h.arenas[s[1]].blocks)
           /\ s = <<s[1], s[2]>>
           /\ BlockAt(h, s) = h.arenas[s[1]].blocks[s[2]]
           /\ Payload(h, s) = <<h.arenas[s[1]].base, h.arenas[s[1]].blocks[s[2]].at + BlockHeader>>
<1>1. PICK k \in 1..Len(h.arenas) : \E i \in 1..Len(h.arenas[k].blocks) : s = <<k, i>>
  BY SlotPoint
<1>2. PICK i \in 1..Len(h.arenas[k].blocks) : s = <<k, i>>
  BY <1>1
<1>3. s[1] = k /\ s[2] = i
  BY <1>2
<1>4. QED
  BY <1>2, <1>3 DEF BlockAt, Payload

\* find_free_block finds a block if there is one.
LEMMA FirstFit ==
    ASSUME NEW h, NEW X, FormedBut(h, X), NEW n, Fitting(h, n) # {}
    PROVE  FindFreeBlock(h, n) \in Fitting(h, n)
<1> DEFINE F == Fitting(h, n)
           K == {k \in 1..Len(h.arenas) : \E s \in F : s[1] = k}
<1>1. \A s \in F : s \in Slots(h) /\ s[1] \in 1..Len(h.arenas) /\ s[2] \in Nat
  <2> TAKE s \in F
  <2>1. s \in Slots(h)
    BY DEF Fitting
  <2>2. s[1] \in 1..Len(h.arenas) /\ s[2] \in 1..Len(h.arenas[s[1]].blocks)
    BY <2>1, SlotOf
  <2>3. QED
    BY <2>1, <2>2
<1> HIDE DEF F
<1>2. K \in SUBSET Nat /\ K # {}
  BY <1>1 DEF F
<1>3. PICK k \in K : \A m \in K : k <= m
  BY <1>2, LeastExists
<1> DEFINE I == {i \in Nat : \E s \in F : s[1] = k /\ s[2] = i}
<1>4. I \in SUBSET Nat /\ I # {}
  BY <1>1, <1>3
<1>5. PICK i \in I : \A m \in I : i <= m
  BY <1>4, LeastExists
<1>6. PICK s \in F : s[1] = k /\ s[2] = i
  BY <1>5
<1>7. ASSUME NEW t \in F PROVE Before(s, t)
  <2>1. t[1] \in K /\ k <= t[1] /\ k \in Nat /\ t[1] \in Nat
    BY <1>1, <1>2, <1>3
  <2>2. CASE t[1] = k
    <3>1. t[2] \in I
      BY <1>1, <2>2
    <3>2. QED
      BY <1>5, <1>6, <2>2, <3>1 DEF Before
  <2>3. CASE t[1] # k
    BY <1>6, <2>1, <2>3 DEF Before
  <2>4. QED
    BY <2>2, <2>3
<1>8. \E u \in Fitting(h, n) : \A t \in Fitting(h, n) : Before(u, t)
  BY <1>6, <1>7 DEF F
<1>9. QED
  BY <1>8 DEF FindFreeBlock

\* The base of a new arena is the lowest that is not in use.
LEMMA NewBase ==
    ASSUME NEW h, FreeBases(h) # {}
    PROVE  LET base == CHOOSE b \in FreeBases(h) : \A c \in FreeBases(h) : b <= c
           IN  base \in Base /\ \A k \in 1..Len(h.arenas) : h.arenas[k].base # base
<1>1. FreeBases(h) \in SUBSET Nat
  BY SizesNat DEF FreeBases, Base
<1>2. \E b \in FreeBases(h) : \A c \in FreeBases(h) : b <= c
  BY <1>1, LeastExists
<1>3. (CHOOSE b \in FreeBases(h) : \A c \in FreeBases(h) : b <= c) \in FreeBases(h)
  BY <1>2
<1>4. QED
  BY <1>3 DEF FreeBases

-----------------------------------------------------------------------------
(* The size of a new arena.                                                 *)

LEMMA RoundUp ==
    ASSUME NEW x \in Nat, NEW p \in Nat \ {0}
    PROVE  /\ (x + p - 1) \div p \in Nat
           /\ ((x + p - 1) \div p) * p >= x
<1> DEFINE q == (x + p - 1) \div p
           z == x + p - 1
<1>1. z \in Nat
  OBVIOUS
<1>2. z \div p \in Int /\ z % p \in 0..(p - 1) /\ z = p * (z \div p) + (z % p)
  BY <1>1
<1>3. q \in Nat
  BY <1>1
<1>4. QED
  BY <1>2, <1>3

LEMMA TimesMonotone ==
    ASSUME NEW m \in Nat, NEW n \in Nat, m <= n, NEW p \in Nat
    PROVE  m * p <= n * p /\ m * p \in Nat /\ n * p \in Nat
<1>1. n - m \in Nat
  OBVIOUS
<1>2. (n - m) * p \in Nat
  BY <1>1
<1>3. n * p = m * p + (n - m) * p
  BY <1>1
<1>4. m * p \in Nat
  OBVIOUS
<1>5. QED
  BY <1>2, <1>3, <1>4

\* arena_pages_for_allocation: enough pages for the request, and no fewer than the first.
LEMMA PagesEnough ==
    ASSUME NEW n \in Nat
    PROVE  /\ ArenaPages(n) \in Nat \ {0}
           /\ ArenaSize(ArenaPages(n)) \in Nat
           /\ ArenaSize(ArenaPages(n)) >= n /\ ArenaSize(ArenaPages(n)) >= Minimum
<1> DEFINE x == ArenaHeader + BlockHeader + n
           q == (x + PageUnits - 1) \div PageUnits
           pages == ArenaPages(n)
<1>1. q \in Nat /\ q * PageUnits >= x /\ x \in Nat
  BY SizesNat, RoundUp
<1>2. pages = IF q < InitialPages THEN InitialPages ELSE q
  BY DEF ArenaPages
<1> HIDE DEF q
<1>3. pages \in Nat \ {0} /\ q <= pages /\ InitialPages <= pages
  BY <1>1, <1>2, SizesNat
<1> HIDE DEF pages
<1>4. q * PageUnits <= pages * PageUnits /\ InitialPages * PageUnits <= pages * PageUnits
      /\ pages * PageUnits \in Nat /\ q * PageUnits \in Nat /\ InitialPages * PageUnits \in Nat
  BY <1>1, <1>3, SizesNat, TimesMonotone
<1>5. InitialPages * PageUnits >= ArenaHeader + BlockHeader + Minimum
  BY SizesAssumption
<1>6. ArenaSize(pages) = pages * PageUnits - ArenaHeader - BlockHeader
  BY DEF ArenaSize
<1> DEFINE total == pages * PageUnits
           low == q * PageUnits
           first == InitialPages * PageUnits
<1>7. /\ total \in Nat /\ low \in Nat /\ first \in Nat /\ low <= total /\ first <= total
      /\ low >= ArenaHeader + BlockHeader + n /\ first >= ArenaHeader + BlockHeader + Minimum
      /\ ArenaSize(pages) = total - ArenaHeader - BlockHeader
  BY <1>1, <1>4, <1>5, <1>6
<1> HIDE DEF total, low, first
<1>8. ArenaSize(pages) \in Nat /\ ArenaSize(pages) >= n /\ ArenaSize(pages) >= Minimum
  BY <1>7, SizesNat
<1>9. QED
  BY <1>3, <1>8 DEF pages
-----------------------------------------------------------------------------
(* The calls.                                                               *)

\* A used block is an allocation, at its address.
LEMMA UsedSlot ==
    ASSUME NEW h, NEW X, FormedBut(h, X), NEW s \in Slots(h), ~ BlockAt(h, s).free
    PROVE  LET a == <<h.arenas[s[1]].base, BlockAt(h, s)>>
           IN  a \in Allocs(h) /\ AddressOf(a) = Payload(h, s) /\ a[2] = BlockAt(h, s)
<1> DEFINE k == s[1]
           i == s[2]
           b == h.arenas[k].blocks
<1>1. k \in 1..Len(h.arenas) /\ i \in 1..Len(b) /\ BlockAt(h, s) = b[i]
      /\ Payload(h, s) = <<h.arenas[k].base, b[i].at + BlockHeader>>
  BY SlotOf
<1>2. b[i] \in UsedOf(b)
  BY <1>1 DEF UsedOf
<1>3. <<h.arenas[k].base, b[i]>> \in Allocs(h)
  BY <1>1, <1>2, AllocPoint
<1>4. QED
  BY <1>1, <1>3 DEF AddressOf

\* The heap h2 is h with an allocation more, at value, of at least n.
Granted(h, h2, value, n) ==
    /\ Formed(h2) /\ value # Null
    /\ \E a \in Allocs(h2) : AddressOf(a) = value /\ a[2].size >= n /\ Added(h, h2, a)

\* allocate_from_block
LEMMA AllocateOK ==
    ASSUME NEW h, NEW X, FormedBut(h, X), NEW s \in Slots(h), X \subseteq {s[1]},
           BlockAt(h, s).free, NEW n \in Nat, n >= Minimum, n <= BlockAt(h, s).size
    PROVE  Granted(h, AllocateFromBlock(h, s, n).heap, AllocateFromBlock(h, s, n).value, n)
<1> DEFINE k == s[1]
           i == s[2]
           b == h.arenas[k].blocks
           base == h.arenas[k].base
           end == h.arenas[k].pages * PageUnits
           split == SplitBlock(b, i, n)
           g == [split EXCEPT ![i].free = FALSE]
           r == AllocateFromBlock(h, s, n)
           h2 == Update(h, k, g, 1, split[i].size)
           a == <<base, g[i]>>
<1>1. /\ k \in 1..Len(h.arenas) /\ i \in 1..Len(b) /\ BlockAt(h, s) = b[i]
      /\ Payload(h, s) = <<base, b[i].at + BlockHeader>>
  BY SlotOf
<1>2. List(b, end) /\ base \in Base
  BY <1>1, ArenaType
<1>3. b[i].free /\ n <= b[i].size
  BY <1>1
<1>4. r.heap = h2 /\ r.value = Payload(h, s)
  BY DEF AllocateFromBlock, Result
<1> HIDE DEF r
<1>0. Taking(split, g, b, end, i, n)
  BY <1>1, <1>2, <1>3, AllocateList, Zenon
<1> HIDE DEF split, g
<1>5. Serves(g, b, end, i, n) /\ split[i].size \in Nat /\ g[i].size = split[i].size
  BY <1>0 DEF Taking
<1>6. g \in Seq(Block) /\ split[i].size \in Int /\ 1 \in Int
  BY <1>5 DEF Serves, List, Chained
<1>7. /\ Refilled(h2, h, k, g) /\ h2.allocated = h.allocated + 1
      /\ h2.bytes = h.bytes + g[i].size
  BY <1>1, <1>5, <1>6, UpdateRefills
<1> HIDE DEF h2
<1>8. /\ Formed(h2) /\ g[i].size >= n
      /\ AddressOf(a) = <<base, b[i].at + BlockHeader>>
      /\ Added(h, h2, a)
  <2>1. Served(h, h2, k, i, g, n)
    BY <1>1, <1>5, <1>7, ServedHeap, Zenon
  <2>2. QED
    BY <1>3, <1>7, <2>1 DEF Served
<1>9. a[2] = g[i] /\ a \in Allocs(h2)
  BY <1>8 DEF Added
<1>10. r.value # Null
  BY <1>1, <1>2, <1>4 DEF Null, Base
<1> HIDE DEF a
<1>11. Granted(h, h2, r.value, n)
  BY <1>1, <1>4, <1>8, <1>9, <1>10 DEF Granted
<1>12. QED
  BY <1>4, <1>11 DEF r

\* The new arena of append_arena is one free block, large enough for n.
Extended(h2, h, n) ==
    /\ FormedBut(h2, {Len(h.arenas) + 1})
    /\ Allocs(h2) = Allocs(h) /\ h2.allocated = h.allocated /\ h2.bytes = h.bytes
    /\ Len(h2.arenas) = Len(h.arenas) + 1
    /\ Len(h2.arenas[Len(h.arenas) + 1].blocks) = 1
    /\ h2.arenas[Len(h.arenas) + 1].blocks[1].free
    /\ h2.arenas[Len(h.arenas) + 1].blocks[1].size >= n

\* create_arena
LEMMA NewArenaOK ==
    ASSUME NEW n \in Nat, NEW base \in Base
    PROVE  LET a == NewArena(base, ArenaPages(n))
           IN  /\ ArenaOK(a) /\ a.base = base /\ UsedOf(a.blocks) = {}
               /\ Len(a.blocks) = 1 /\ a.blocks[1].free /\ a.blocks[1].size >= n
<1> DEFINE pages == ArenaPages(n)
           total == pages * PageUnits
           x == [at |-> ArenaHeader, size |-> ArenaSize(pages), free |-> TRUE]
           b == <<x>>
           a == NewArena(base, pages)
<1>1. /\ pages \in Nat \ {0} /\ ArenaSize(pages) \in Nat
      /\ ArenaSize(pages) >= n /\ ArenaSize(pages) >= Minimum
      /\ ArenaSize(pages) = total - ArenaHeader - BlockHeader
  BY PagesEnough DEF ArenaSize
<1>2. total \in Nat
  BY <1>1, SizesNat
<1>3. a = [base |-> base, pages |-> pages, blocks |-> b]
  BY DEF NewArena
<1> HIDE DEF pages, a
<1>4. x \in Block /\ x.at = ArenaHeader /\ x.size = ArenaSize(pages) /\ x.free = TRUE
  BY <1>1, SizesNat DEF Block
<1> HIDE DEF x, total
<1>5. EndOf(x) = total
  BY <1>1, <1>2, <1>4, SizesNat DEF EndOf
<1>6. b \in Seq(Block) /\ Len(b) = 1 /\ b[1] = x /\ b # <<>>
  BY <1>4
<1> HIDE DEF b
<1>7. List(b, total)
  BY <1>1, <1>4, <1>5, <1>6 DEF List, Chained, Apart
<1>8. a \in Arena /\ a.base = base /\ a.pages = pages /\ a.blocks = b
  BY <1>1, <1>3, <1>6 DEF Arena
<1>9. UsedOf(b) = {}
  BY <1>4, <1>6 DEF UsedOf
<1>10. ArenaOK(a)
  BY <1>7, <1>8 DEF ArenaOK, total
<1>11. QED
  BY <1>1, <1>4, <1>6, <1>8, <1>9, <1>10 DEF a, pages

\* append_arena
LEMMA AppendOK ==
    ASSUME NEW h, Formed(h), NEW n \in Nat, FreeBases(h) # {}
    PROVE  Extended(AppendArena(h, n), h, n)
<1> DEFINE base == CHOOSE c \in FreeBases(h) : \A d \in FreeBases(h) : c <= d
           a == NewArena(base, ArenaPages(n))
           A == h.arenas
           g == Append(A, a)
           k == Len(A) + 1
           r == AppendArena(h, n)
<1>1. base \in Base /\ \A m \in 1..Len(A) : A[m].base # base
  BY NewBase
<1>2. r = [h EXCEPT !.arenas = g]
  BY DEF AppendArena
<1> HIDE DEF base, r
<1>3. /\ ArenaOK(a) /\ a.base = base /\ UsedOf(a.blocks) = {}
      /\ Len(a.blocks) = 1 /\ a.blocks[1].free /\ a.blocks[1].size >= n
  BY <1>1, NewArenaOK
<1> HIDE DEF a
<1>4. FormedBut(h, {}) /\ h \in HeapRecord /\ A \in Seq(Arena) /\ a \in Arena
  BY <1>3 DEF Formed, FormedBut, HeapRecord, ArenaOK
<1>5. Len(A) \in Nat /\ 1 \in 1..Len(A)
  BY <1>4, FormedType, Zenon
<1>6. g \in Seq(Arena) /\ Len(g) = k /\ g[k] = a /\ \A m \in 1..Len(A) : g[m] = A[m]
  BY <1>4, AppendProperties
<1> HIDE DEF g
<1>7. r \in HeapRecord /\ r.arenas = g /\ r.allocated = h.allocated /\ r.bytes = h.bytes
  BY <1>2, <1>4, <1>6 DEF HeapRecord
<1>8. /\ A[1].base = 1
      /\ \A l, m \in 1..Len(A) : A[l].base = A[m].base => l = m
      /\ \A m \in 1..Len(A) : ArenaOK(A[m]) /\ (m = 1 \/ UsedOf(A[m].blocks) # {})
  BY DEF Formed, FormedBut
<1> HIDE DEF A
<1>9. \A m \in 1..k : m = k \/ m \in 1..Len(A)
  BY <1>5
<1>10. g # <<>> /\ g[1].base = 1
  BY <1>5, <1>6, <1>8, EmptySeq
<1>11. ASSUME NEW l \in 1..k, NEW m \in 1..k, g[l].base = g[m].base PROVE l = m
  <2>1. CASE l = k /\ m = k
    BY <2>1
  <2>2. CASE l = k /\ m \in 1..Len(A)
    BY <1>1, <1>3, <1>6, <1>11, <2>2
  <2>3. CASE l \in 1..Len(A) /\ m = k
    BY <1>1, <1>3, <1>6, <1>11, <2>3
  <2>4. CASE l \in 1..Len(A) /\ m \in 1..Len(A)
    BY <1>6, <1>8, <1>11, <2>4
  <2>5. QED
    BY <1>9, <2>1, <2>2, <2>3, <2>4
<1>12. ASSUME NEW m \in 1..k PROVE ArenaOK(g[m]) /\ (m = 1 \/ m = k \/ UsedOf(g[m].blocks) # {})
  BY <1>3, <1>6, <1>8, <1>9
<1>13. FormedBut(r, {k})
  BY <1>6, <1>7, <1>10, <1>11, <1>12 DEF FormedBut
<1>14. ASSUME NEW y PROVE y \in Allocs(r) <=> y \in Allocs(h)
  <2>1. y \in Allocs(r) <=> \E m \in 1..k : \E z \in UsedOf(g[m].blocks) : y = <<g[m].base, z>>
    BY <1>6, <1>7, AllocPoint
  <2>2. y \in Allocs(h) <=> \E m \in 1..Len(A) : \E z \in UsedOf(A[m].blocks) : y = <<A[m].base, z>>
    BY AllocPoint DEF A
  <2>3. \A m \in 1..Len(A) : m \in 1..k
    BY <1>5
  <2>4. QED
    BY <1>3, <1>6, <1>9, <2>1, <2>2, <2>3
<1>15. Allocs(r) = Allocs(h)
  BY <1>14
<1>16. Extended(r, h, n)
  BY <1>3, <1>6, <1>7, <1>13, <1>15 DEF Extended, A
<1>17. QED
  BY <1>16 DEF r
\* kmalloc_locked
LEMMA MallocOK ==
    ASSUME NEW h, Formed(h), NEW n \in Nat, n >= Minimum, NEW room \in BOOLEAN
    PROVE  LET r == Malloc(h, n, room)
           IN  (r.value = Null /\ r.heap = h) \/ Granted(h, r.heap, r.value, n)
<1> DEFINE r == Malloc(h, n, room)
<1>1. FormedBut(h, {})
  BY DEF Formed
<1>2. CASE Fitting(h, n) # {}
  <2> DEFINE s == FindFreeBlock(h, n)
  <2>1. r = AllocateFromBlock(h, s, n)
    BY <1>2 DEF Malloc
  <2>2. s \in Fitting(h, n)
    BY <1>1, <1>2, FirstFit, Zenon
  <2> HIDE DEF s, r
  <2>3. s \in Slots(h) /\ BlockAt(h, s).free /\ BlockAt(h, s).size >= n
    BY <2>2 DEF Fitting
  <2>4. BlockAt(h, s).size \in Nat
    <3>1. s[1] \in 1..Len(h.arenas) /\ s[2] \in 1..Len(h.arenas[s[1]].blocks)
          /\ BlockAt(h, s) = h.arenas[s[1]].blocks[s[2]]
      BY <1>1, <2>3, SlotOf, Zenon
    <3>2. h.arenas[s[1]].blocks \in Seq(Block)
      BY <1>1, <3>1, ArenaType, Zenon
    <3>3. QED
      BY <3>1, <3>2, BlockType
  <2> DEFINE X == {}
  <2>5. n <= BlockAt(h, s).size /\ X \subseteq {s[1]} /\ FormedBut(h, X)
    BY <1>1, <2>3, <2>4
  <2> HIDE DEF X
  <2>6. Granted(h, AllocateFromBlock(h, s, n).heap, AllocateFromBlock(h, s, n).value, n)
    BY <2>3, <2>5, AllocateOK, Zenon
  <2>7. QED
    BY <2>1, <2>6 DEF r
<1>3. CASE Fitting(h, n) = {} /\ room /\ FreeBases(h) # {}
  <2> DEFINE h1 == AppendArena(h, n)
             k == Len(h.arenas) + 1
             s == <<k, 1>>
             a == AllocateFromBlock(h1, s, n)
  <2>1. r = a
    BY <1>3 DEF Malloc
  <2>2. Extended(h1, h, n)
    BY <1>3, AppendOK
  <2> HIDE DEF r, h1
  <2>3. /\ FormedBut(h1, {k}) /\ Allocs(h1) = Allocs(h) /\ h1.allocated = h.allocated /\ h1.bytes = h.bytes
        /\ Len(h1.arenas) = k /\ Len(h1.arenas[k].blocks) = 1
        /\ h1.arenas[k].blocks[1].free /\ h1.arenas[k].blocks[1].size >= n
    BY <2>2 DEF Extended
  <2>4. Len(h.arenas) \in Nat
    BY <1>1, FormedType, Zenon
  <2>5. k \in 1..Len(h1.arenas) /\ 1 \in 1..Len(h1.arenas[k].blocks)
    BY <2>3, <2>4
  <2> HIDE DEF k
  <2>6. s \in Slots(h1)
    BY <2>3, <2>5, SlotPoint, Zenon
  <2>7. BlockAt(h1, s) = h1.arenas[k].blocks[1] /\ s[1] = k
    BY DEF BlockAt
  <2>8. h1.arenas[k].blocks \in Seq(Block)
    BY <2>3, <2>5, ArenaType, Zenon
  <2>9. BlockAt(h1, s).size \in Nat
    BY <2>5, <2>7, <2>8, BlockType
  <2>10. n <= BlockAt(h1, s).size /\ BlockAt(h1, s).free /\ {k} \subseteq {s[1]}
    BY <2>3, <2>7, <2>9
  <2> HIDE DEF s
  <2>11. Granted(h1, a.heap, a.value, n)
    BY <2>3, <2>6, <2>10, AllocateOK, Zenon
  <2> HIDE DEF a
  <2>12. Granted(h, a.heap, a.value, n)
    BY <2>3, <2>11 DEF Granted, Added
  <2>13. QED
    BY <2>1, <2>12 DEF r
<1>4. CASE Fitting(h, n) = {} /\ ~ (room /\ FreeBases(h) # {})
  <2>1. r = Result(h, Null)
    BY <1>4 DEF Malloc
  <2>2. r.value = Null /\ r.heap = h
    BY <2>1 DEF Result
  <2>3. QED
    BY <2>2
<1>5. QED
  BY <1>2, <1>3, <1>4

\* The heap h2 is h without the allocation at pointer.
Freed(h, h2, pointer) ==
    /\ Formed(h2)
    /\ \E a \in Allocs(h) : AddressOf(a) = pointer /\ Removed(h, h2, a)

\* find_heap_block
LEMMA Found ==
    ASSUME NEW h, NEW pointer, Named(h, pointer) # {}
    PROVE  /\ FindHeapBlock(h, pointer) \in Slots(h)
           /\ Payload(h, FindHeapBlock(h, pointer)) = pointer
<1>1. FindHeapBlock(h, pointer) \in Named(h, pointer)
  BY DEF FindHeapBlock
<1>2. QED
  BY <1>1 DEF Named

\* kfree_locked
LEMMA FreeOK ==
    ASSUME NEW h, Formed(h), NEW pointer
    PROVE  LET r == FreePointer(h, pointer)
           IN  (r.value = FALSE /\ r.heap = h) \/ (r.value = TRUE /\ Freed(h, r.heap, pointer))
<1> DEFINE r == FreePointer(h, pointer)
           s == FindHeapBlock(h, pointer)
           k == s[1]
           i == s[2]
           b == h.arenas[k].blocks
           end == h.arenas[k].pages * PageUnits
           g == ReleaseBlock(b, i)
           refused == \/ Named(h, pointer) = {}
                      \/ BlockAt(h, s).free
                      \/ h.allocated = 0
                      \/ h.bytes < BlockAt(h, s).size
           h2 == Update(h, k, g, -1, - BlockAt(h, s).size)
           h3 == ReleaseEmptyArena(h2, k)
<1>1. r = IF refused THEN Result(h, FALSE) ELSE Result(h3, TRUE)
  BY DEF FreePointer
<1>2. CASE refused
  <2>1. r = Result(h, FALSE)
    BY <1>1, <1>2
  <2>2. r.value = FALSE /\ r.heap = h
    BY <2>1 DEF Result
  <2>3. QED
    BY <2>2
<1>3. CASE ~ refused
  <2>1. r = Result(h3, TRUE)
    BY <1>1, <1>3
  <2>2. r.value = TRUE /\ r.heap = h3
    BY <2>1 DEF Result
  <2>3. Named(h, pointer) # {} /\ ~ BlockAt(h, s).free
    BY <1>3
  <2>4. s \in Slots(h) /\ Payload(h, s) = pointer
    BY <2>3, Found
  <2> HIDE DEF r, refused, s
  <2>5. FormedBut(h, {})
    BY DEF Formed
  <2>6. /\ k \in 1..Len(h.arenas) /\ i \in 1..Len(b) /\ BlockAt(h, s) = b[i]
        /\ Payload(h, s) = <<h.arenas[k].base, b[i].at + BlockHeader>>
    BY <2>4, <2>5, SlotOf, Zenon
  <2>7. List(b, end) /\ b \in Seq(Block)
    BY <2>5, <2>6, ArenaType, Zenon
  <2>8. ~ b[i].free /\ b[i].size \in Nat
    BY <2>3, <2>6, <2>7, BlockType
  <2>9. List(g, end) /\ UsedOf(g) = OthersOf(b, i)
    BY <2>6, <2>7, <2>8, ReleaseList
  <2> HIDE DEF g
  <2>10. g \in Seq(Block) /\ - BlockAt(h, s).size \in Int /\ -1 \in Int
    <3>1. g \in Seq(Block)
      BY <2>9 DEF List, Chained
    <3>2. BlockAt(h, s).size \in Nat
      BY <2>6, <2>8
    <3>3. \A m \in Nat : - m \in Int
      OBVIOUS
    <3>4. - BlockAt(h, s).size \in Int
      BY <3>2, <3>3, Zenon
    <3>5. QED
      BY <3>1, <3>4
  <2>11. /\ Refilled(h2, h, k, g) /\ h2.allocated = h.allocated + -1
         /\ h2.bytes = h.bytes + - BlockAt(h, s).size
    BY <2>5, <2>6, <2>10, UpdateRefills, Zenon
  <2> HIDE DEF h2
  <2>12. /\ h2.allocated = h.allocated - 1 /\ Len(h2.arenas) = Len(h.arenas)
         /\ h2.bytes = h.bytes + - b[i].size
    <3>1. h.allocated \in Int
      BY <2>5, FormedType, Zenon
    <3>2. h2.bytes = h.bytes + - b[i].size
      BY <2>6, <2>11
    <3>3. QED
      BY <2>11, <3>1, <3>2 DEF Refilled
  <2> DEFINE a == <<h.arenas[k].base, b[i]>>
             X == {}
  <2>13. X \subseteq {k} /\ FormedBut(h, X)
    BY <2>5
  <2> HIDE DEF X
  <2>14. FormedBut(h2, {k}) /\ Removed(h, h2, a)
    BY <2>6, <2>8, <2>9, <2>11, <2>12, <2>13, FreedHeap, Zenon
  <2>15. Formed(h3) /\ Allocs(h3) = Allocs(h2) /\ h3.allocated = h2.allocated /\ h3.bytes = h2.bytes
    BY <2>6, <2>12, <2>14, ReleaseArena
  <2> HIDE DEF h3
  <2>16. AddressOf(a) = pointer
    BY <2>4, <2>6 DEF AddressOf
  <2> HIDE DEF a
  <2>17. Freed(h, h3, pointer)
    BY <2>14, <2>15, <2>16 DEF Freed, Removed
  <2>18. QED
    BY <2>2, <2>17 DEF r
<1>4. QED
  BY <1>2, <1>3
\* The heap h2 is h with the allocation at pointer become one at value, of at least n.
Moved(h, h2, pointer, value, n) ==
    /\ Formed(h2)
    /\ \E a \in Allocs(h), c \in Allocs(h2) :
         /\ AddressOf(a) = pointer /\ AddressOf(c) = value /\ c[2].size >= n
         /\ Allocs(h2) = (Allocs(h) \ {a}) \cup {c}
         /\ \A d \in Allocs(h) \ {a} : AddressOf(d) # value
         /\ c[2].size \in Nat
         /\ h2.allocated = h.allocated
         /\ h2.bytes = h.bytes + (c[2].size - a[2].size)

\* A request served in the place of the block at pointer.
LEMMA ResizedOK ==
    ASSUME NEW h, Formed(h), NEW s \in Slots(h), ~ BlockAt(h, s).free, NEW n \in Nat, NEW g,
           Serves(g, h.arenas[s[1]].blocks, h.arenas[s[1]].pages * PageUnits, s[2], n)
    PROVE  Moved(h, Resized(h, s, g), Payload(h, s), Payload(h, s), n)
<1> DEFINE k == s[1]
           i == s[2]
           b == h.arenas[k].blocks
           base == h.arenas[k].base
           end == h.arenas[k].pages * PageUnits
           X == {}
           delta == g[i].size - BlockAt(h, s).size
           h2 == Resized(h, s, g)
           a == <<base, b[i]>>
           c == <<base, g[i]>>
<1>1. FormedBut(h, X) /\ X \subseteq {k}
  BY DEF Formed
<1> HIDE DEF X
<1>2. /\ k \in 1..Len(h.arenas) /\ i \in 1..Len(b) /\ BlockAt(h, s) = b[i]
      /\ Payload(h, s) = <<base, b[i].at + BlockHeader>>
  BY <1>1, SlotOf, Zenon
<1>3. b \in Seq(Block)
  BY <1>1, <1>2, ArenaType, Zenon
<1>4. delta \in Int /\ g \in Seq(Block) /\ 0 \in Int
  <2>1. BlockAt(h, s).size \in Nat /\ g[i].size \in Nat
    BY <1>2, <1>3, BlockType DEF Serves
  <2>2. g \in Seq(Block)
    BY DEF Serves, List, Chained
  <2>3. QED
    BY <2>1, <2>2
<1>5. h2 = Update(h, k, g, 0, delta)
  BY DEF Resized
<1> HIDE DEF delta, h2
<1>15. Refilled(h2, h, k, g) /\ h2.bytes = h.bytes + delta
  BY <1>1, <1>2, <1>4, <1>5, UpdateRefills, Zenon
<1>16. h2.bytes = h.bytes + (g[i].size - b[i].size)
  BY <1>2, <1>15 DEF delta
<1>6. Refilled(h2, h, k, g) /\ h2.allocated = h.allocated
  <2>1. Refilled(h2, h, k, g) /\ h2.allocated = h.allocated + 0
    BY <1>1, <1>2, <1>4, <1>5, UpdateRefills, Zenon
  <2>2. h.allocated \in Int
    BY <1>1, FormedType, Zenon
  <2>3. QED
    BY <2>1, <2>2
<1>7. Served(h, h2, k, i, g, n)
  BY <1>1, <1>2, <1>6, ServedHeap, Zenon
<1>8. /\ Formed(h2) /\ g[i].size >= n /\ ~ b[i].free
      /\ AddressOf(c) = <<base, b[i].at + BlockHeader>>
      /\ Replaced(h, h2, a, c)
  BY <1>2, <1>6, <1>7, <1>16 DEF Served
<1>9. c[2] = g[i]
  OBVIOUS
<1> HIDE DEF a, c
<1>10. /\ a \in Allocs(h) /\ Allocs(h2) = (Allocs(h) \ {a}) \cup {c}
       /\ AddressOf(c) = Payload(h, s) /\ AddressOf(a) = Payload(h, s)
       /\ c[2].size >= n /\ c[2].size \in Nat
       /\ h2.bytes = h.bytes + (c[2].size - a[2].size)
  BY <1>2, <1>8, <1>9 DEF Replaced
<1>11. \A d \in Allocs(h) \ {a} : AddressOf(d) # Payload(h, s)
  BY <1>1, <1>10, AddressesDiffer, Zenon
<1>12. c \in Allocs(h2)
  BY <1>10
<1>13. Moved(h, h2, Payload(h, s), Payload(h, s), n)
  BY <1>6, <1>8, <1>10, <1>11, <1>12 DEF Moved
<1>14. QED
  BY <1>13 DEF h2

\* An allocation granted, and another freed after it: the move of krealloc_locked.
LEMMA GrantedFreed ==
    ASSUME NEW h, NEW m, NEW h2, NEW value, NEW pointer, NEW n, Formed(h),
           Granted(h, m, value, n), Freed(m, h2, pointer),
           \E d \in Allocs(h) : AddressOf(d) = pointer
    PROVE  Moved(h, h2, pointer, value, n)
<1>1. PICK c \in Allocs(m) : AddressOf(c) = value /\ c[2].size >= n /\ Added(h, m, c)
  BY DEF Granted
<1>2. PICK a \in Allocs(m) : AddressOf(a) = pointer /\ Removed(m, h2, a)
  BY DEF Freed
<1>3. /\ Allocs(m) = Allocs(h) \cup {c}
      /\ \A d \in Allocs(h) : AddressOf(d) # value
      /\ m.allocated = h.allocated + 1
      /\ m.bytes = h.bytes + c[2].size /\ c[2].size \in Nat
  BY <1>1 DEF Added
<1>4. /\ Allocs(h2) = Allocs(m) \ {a} /\ h2.allocated = m.allocated - 1
      /\ h2.bytes = m.bytes + - a[2].size
  BY <1>2 DEF Removed
<1>5. pointer # value
  BY <1>3
<1>6. a # c /\ a \in Allocs(h)
  BY <1>1, <1>2, <1>3, <1>5
<1>7. c \in Allocs(h2) /\ Allocs(h2) = (Allocs(h) \ {a}) \cup {c}
  BY <1>3, <1>4, <1>6
<1>8. h2.allocated = h.allocated
  <2>1. h.allocated \in Int
    BY DEF Formed, FormedBut, HeapRecord
  <2>2. QED
    BY <1>3, <1>4, <2>1
<1>9. h2.bytes = h.bytes + (c[2].size - a[2].size)
  <2>1. h.bytes \in Int
    BY DEF Formed, FormedBut, HeapRecord
  <2>2. a[2].size \in Nat
    BY <1>6, AllocSize DEF Formed
  <2>3. QED
    BY <1>3, <1>4, <2>1, <2>2
<1>10. QED
  BY <1>1, <1>2, <1>3, <1>6, <1>7, <1>8, <1>9 DEF Moved, Freed

\* krealloc_locked, when it succeeds
LEMMA ReallocOK ==
    ASSUME NEW h, Formed(h), NEW pointer, NEW n \in Nat, n >= Minimum, NEW room \in BOOLEAN,
           Realloc(h, pointer, n, room).value # Null
    PROVE  Moved(h, Realloc(h, pointer, n, room).heap, pointer, Realloc(h, pointer, n, room).value, n)
<1> DEFINE r == Realloc(h, pointer, n, room)
           s == FindHeapBlock(h, pointer)
           i == s[2]
           b == h.arenas[s[1]].blocks
           end == h.arenas[s[1]].pages * PageUnits
           moved == Malloc(h, n, room)
           freed == FreePointer(moved.heap, pointer)
           last == CASE moved.value = Null -> Result(h, Null)
                     [] moved.value # Null /\ freed.value -> Result(freed.heap, moved.value)
                     [] OTHER -> Result(FreePointer(moved.heap, moved.value).heap, Null)
           X == {}
<1>11. r = IF Named(h, pointer) = {} \/ BlockAt(h, s).free
           THEN Result(h, Null)
           ELSE CASE n <= BlockAt(h, s).size -> Result(Resized(h, s, ShrinkBlock(b, i, n)), pointer)
                  [] n > BlockAt(h, s).size /\ CanGrow(b, i, n) ->
                        Result(Resized(h, s, GrowBlock(b, i, n)), pointer)
                  [] OTHER -> last
  BY DEF Realloc
<1> HIDE DEF r, last
<1>1. FormedBut(h, X)
  BY DEF Formed
<1> HIDE DEF X
<1>2. ~ (Named(h, pointer) = {} \/ BlockAt(h, s).free)
  <2>1. SUFFICES ASSUME Named(h, pointer) = {} \/ BlockAt(h, s).free PROVE FALSE
    OBVIOUS
  <2>2. r = Result(h, Null)
    BY <1>11, <2>1
  <2>3. QED
    BY <2>2 DEF r, Result
<1>3. s \in Slots(h) /\ Payload(h, s) = pointer /\ ~ BlockAt(h, s).free
  BY <1>2, Found
<1>4. s[1] \in 1..Len(h.arenas) /\ i \in 1..Len(b) /\ BlockAt(h, s) = b[i]
  BY <1>1, <1>3, SlotOf, Zenon
<1>5. List(b, end) /\ b \in Seq(Block)
  BY <1>1, <1>4, ArenaType, Zenon
<1>6. b[i].size \in Nat /\ ~ b[i].free
  BY <1>3, <1>4, <1>5, BlockType
<1>7. CASE n <= BlockAt(h, s).size
  <2> DEFINE g == ShrinkBlock(b, i, n)
             h2 == Resized(h, s, g)
  <2>1. r = Result(h2, pointer)
    <3>1. ~ (n > BlockAt(h, s).size)
      BY <1>4, <1>6, <1>7
    <3>2. QED
      BY <1>2, <1>7, <1>11, <3>1
  <2>2. Serves(g, b, end, i, n)
    BY <1>4, <1>5, <1>6, <1>7, ShrinkList
  <2> HIDE DEF g, r, s
  <2>3. Moved(h, h2, Payload(h, s), Payload(h, s), n)
    BY <1>3, <2>2, ResizedOK
  <2>4. r.heap = h2 /\ r.value = pointer
    BY <2>1 DEF Result
  <2>5. Moved(h, r.heap, pointer, r.value, n)
    BY <1>3, <2>3, <2>4
  <2>6. QED
    BY <2>5 DEF r
<1>8. CASE n > BlockAt(h, s).size /\ CanGrow(b, i, n)
  <2> DEFINE g == GrowBlock(b, i, n)
             h2 == Resized(h, s, g)
  <2>1. r = Result(h2, pointer)
    <3>1. ~ (n <= BlockAt(h, s).size)
      BY <1>4, <1>6, <1>8
    <3>2. QED
      BY <1>2, <1>8, <1>11, <3>1
  <2>2. Serves(g, b, end, i, n)
    BY <1>4, <1>5, <1>6, <1>8, GrowList
  <2> HIDE DEF g, r, s
  <2>3. Moved(h, h2, Payload(h, s), Payload(h, s), n)
    BY <1>3, <2>2, ResizedOK
  <2>4. r.heap = h2 /\ r.value = pointer
    BY <2>1 DEF Result
  <2>5. Moved(h, r.heap, pointer, r.value, n)
    BY <1>3, <2>3, <2>4
  <2>6. QED
    BY <2>5 DEF r
<1>9. CASE ~ (n <= BlockAt(h, s).size) /\ ~ (n > BlockAt(h, s).size /\ CanGrow(b, i, n))
  <2> DEFINE failed == FreePointer(moved.heap, moved.value).heap
  <2>1. r = last
    BY <1>2, <1>9, <1>11
  <2>2. (moved.value = Null /\ moved.heap = h) \/ Granted(h, moved.heap, moved.value, n)
    BY MallocOK
  <2> HIDE DEF moved
  <2>3. moved.value # Null
    <3>1. SUFFICES ASSUME moved.value = Null PROVE FALSE
      OBVIOUS
    <3>2. r = Result(h, Null)
      BY <2>1, <3>1 DEF last
    <3>3. QED
      BY <3>2 DEF r, Result
  <2>4. Granted(h, moved.heap, moved.value, n) /\ Formed(moved.heap)
    BY <2>2, <2>3 DEF Granted
  <2>5. (freed.value = FALSE /\ freed.heap = moved.heap) \/ (freed.value = TRUE /\ Freed(moved.heap, freed.heap, pointer))
    BY <2>4, FreeOK
  <2> HIDE DEF freed, failed
  <2>6. freed.value = TRUE
    <3>1. SUFFICES ASSUME freed.value = FALSE PROVE FALSE
      BY <2>5
    <3>2. r = Result(failed, Null)
      BY <2>1, <2>3, <3>1 DEF last, failed
    <3>3. QED
      BY <3>2 DEF r, Result
  <2>7. r = Result(freed.heap, moved.value)
    BY <2>1, <2>3, <2>6 DEF last
  <2>8. r.heap = freed.heap /\ r.value = moved.value
    BY <2>7 DEF Result
  <2>9. Freed(moved.heap, freed.heap, pointer)
    BY <2>5, <2>6
  <2>10. \E d \in Allocs(h) : AddressOf(d) = pointer
    BY <1>1, <1>3, UsedSlot
  <2>11. Moved(h, freed.heap, pointer, moved.value, n)
    BY <2>4, <2>9, <2>10, GrantedFreed
  <2> HIDE DEF r
  <2>12. Moved(h, r.heap, pointer, r.value, n)
    BY <2>8, <2>11
  <2>13. QED
    BY <2>12 DEF r
<1>10. QED
  BY <1>7, <1>8, <1>9
-----------------------------------------------------------------------------
(* What the owners of the allocations hold.                                 *)

\* The units of payload of the allocations in A.
Units(A) == UNION {{a} \X (1..a[2].size) : a \in A}

\* An allocation adds as many units as its size.
LEMMA UnitsAdd ==
    ASSUME NEW A, IsFiniteSet(Units(A)), NEW a, a \notin A, a[2].size \in Nat
    PROVE  /\ IsFiniteSet(Units(A \cup {a}))
           /\ Cardinality(Units(A \cup {a})) = Cardinality(Units(A)) + a[2].size
<1> DEFINE n == a[2].size
           I == 1..n
           P == {a} \X I
           U == Units(A)
<1>1. IsFiniteSet(I) /\ Cardinality(I) = n
  <2>1. n \in Nat /\ n \in Int /\ 1 \in Int
    OBVIOUS
  <2> HIDE DEF n
  <2>2. IsFiniteSet(1..n) /\ Cardinality(1..n) = IF 1 > n THEN 0 ELSE n - 1 + 1
    BY <2>1, FS_Interval, Zenon
  <2>3. QED
    BY <2>1, <2>2
<1>2. IsFiniteSet({a}) /\ Cardinality({a}) = 1
  BY FS_Singleton
<1>3. Units(A \cup {a}) = U \cup P
  BY DEF Units
<1>4. U \cap P = {}
  BY DEF Units
<1>10. IsFiniteSet(U)
  OBVIOUS
<1>11. n \in Nat
  OBVIOUS
<1> HIDE DEF I, U, n
<1>5. IsFiniteSet(P) /\ Cardinality(P) = 1 * n
  BY <1>1, <1>2, FS_Product
<1> HIDE DEF P
<1>6. IsFiniteSet(U \cup P) /\ Cardinality(U \cup P) = Cardinality(U) + Cardinality(P) - Cardinality(U \cap P)
  BY <1>5, <1>10, FS_Union
<1>7. Cardinality(U \cap P) = 0
  BY <1>4, FS_EmptySet
<1>8. Cardinality(U) \in Nat
  BY <1>10, FS_CardinalityType
<1>9. IsFiniteSet(U \cup P) /\ Cardinality(U \cup P) = Cardinality(U) + n
  BY <1>5, <1>6, <1>7, <1>8, <1>11
<1>12. QED
  BY <1>3, <1>9 DEF U, n

\* The units of the other allocations, without those of a.
LEMMA UnitsRemove ==
    ASSUME NEW A, IsFiniteSet(Units(A)), NEW a \in A, a[2].size \in Nat
    PROVE  /\ IsFiniteSet(Units(A \ {a}))
           /\ Cardinality(Units(A \ {a})) = Cardinality(Units(A)) + - a[2].size
<1> DEFINE B == A \ {a}
<1>1. Units(B) \subseteq Units(A)
  BY DEF Units
<1>2. IsFiniteSet(Units(B)) /\ a \notin B /\ B \cup {a} = A
  BY <1>1, FS_Subset
<1> HIDE DEF B
<1>3. Cardinality(Units(A)) = Cardinality(Units(B)) + a[2].size
  BY <1>2, UnitsAdd
<1>4. Cardinality(Units(B)) \in Nat
  BY <1>2, FS_CardinalityType
<1>5. QED
  BY <1>2, <1>3, <1>4 DEF B

\* f gives the size asked for each allocation of h.
Kept(h, f) ==
    /\ DOMAIN f = {AddressOf(a) : a \in Allocs(h)}
    /\ \A a \in Allocs(h) : a[2].size >= f[AddressOf(a)]
    /\ IsFiniteSet(Allocs(h)) /\ h.allocated = Cardinality(Allocs(h))
    /\ IsFiniteSet(Units(Allocs(h))) /\ h.bytes = Cardinality(Units(Allocs(h)))

LEMMA KeptAdded ==
    ASSUME NEW h, NEW h2, NEW f, NEW value, NEW n, Kept(h, f), Granted(h, h2, value, n)
    PROVE  Kept(h2, With(f, value, n))
<1> DEFINE g == With(f, value, n)
           A == Allocs(h)
           B == Allocs(h2)
<1>1. PICK a \in B : AddressOf(a) = value /\ a[2].size >= n /\ Added(h, h2, a)
  BY DEF Granted
<1>2. /\ B = A \cup {a} /\ (\A c \in A : AddressOf(c) # value) /\ h2.allocated = h.allocated + 1
      /\ h2.bytes = h.bytes + a[2].size /\ a[2].size \in Nat
  BY <1>1 DEF Added
<1>3. /\ DOMAIN f = {AddressOf(c) : c \in A}
      /\ \A c \in A : c[2].size >= f[AddressOf(c)]
      /\ IsFiniteSet(A) /\ h.allocated = Cardinality(A)
      /\ IsFiniteSet(Units(A)) /\ h.bytes = Cardinality(Units(A))
  BY DEF Kept
<1>4. /\ DOMAIN g = DOMAIN f \cup {value}
      /\ \A y \in DOMAIN f \cup {value} : g[y] = IF y = value THEN n ELSE f[y]
  BY DEF With
<1> HIDE DEF g, A, B
<1>5. DOMAIN g = {AddressOf(c) : c \in B}
  BY <1>1, <1>2, <1>3, <1>4
<1>6. ASSUME NEW c \in B PROVE c[2].size >= g[AddressOf(c)]
  <2>1. CASE c = a
    BY <1>1, <1>4, <2>1
  <2>2. CASE c \in A
    <3>1. AddressOf(c) \in DOMAIN f /\ AddressOf(c) # value
      BY <1>2, <1>3, <2>2
    <3>2. g[AddressOf(c)] = f[AddressOf(c)]
      BY <1>4, <3>1
    <3>3. QED
      BY <1>3, <2>2, <3>2
  <2>3. QED
    BY <1>2, <2>1, <2>2
<1>9. a \notin A
  BY <1>1, <1>2
<1>7. IsFiniteSet(B) /\ Cardinality(B) = Cardinality(A) + 1
  BY <1>2, <1>3, <1>9, FS_AddElement
<1>10. IsFiniteSet(Units(B)) /\ h2.bytes = Cardinality(Units(B))
  BY <1>2, <1>3, <1>9, UnitsAdd
<1>8. QED
  BY <1>2, <1>3, <1>5, <1>6, <1>7, <1>10 DEF Kept, g, A, B

LEMMA KeptRemoved ==
    ASSUME NEW h, Formed(h), NEW h2, NEW f, NEW pointer, Kept(h, f), Freed(h, h2, pointer)
    PROVE  Kept(h2, Without(f, pointer))
<1> DEFINE g == Without(f, pointer)
           A == Allocs(h)
           B == Allocs(h2)
<1>1. PICK a \in A : AddressOf(a) = pointer /\ Removed(h, h2, a)
  BY DEF Freed
<1>2. B = A \ {a} /\ h2.allocated = h.allocated - 1 /\ h2.bytes = h.bytes + - a[2].size
  BY <1>1 DEF Removed
<1>3. /\ DOMAIN f = {AddressOf(c) : c \in A}
      /\ \A c \in A : c[2].size >= f[AddressOf(c)]
      /\ IsFiniteSet(A) /\ h.allocated = Cardinality(A)
      /\ IsFiniteSet(Units(A)) /\ h.bytes = Cardinality(Units(A))
  BY DEF Kept
<1>11. a[2].size \in Nat
  BY <1>1, AllocSize DEF Formed
<1>4. DOMAIN g = DOMAIN f \ {pointer} /\ \A y \in DOMAIN f \ {pointer} : g[y] = f[y]
  BY DEF Without
<1>5. \A c, d \in A : AddressOf(c) = AddressOf(d) => c = d
  BY AddressesDiffer DEF Formed
<1> HIDE DEF g, A, B
<1>6. \A c \in B : AddressOf(c) # pointer /\ c \in A
  BY <1>1, <1>2, <1>5
<1>7. DOMAIN g = {AddressOf(c) : c \in B}
  BY <1>1, <1>2, <1>3, <1>4, <1>6
<1>8. ASSUME NEW c \in B PROVE c[2].size >= g[AddressOf(c)]
  <2>1. AddressOf(c) \in DOMAIN f \ {pointer}
    BY <1>3, <1>6
  <2>2. QED
    BY <1>3, <1>4, <1>6, <2>1
<1>9. IsFiniteSet(B) /\ Cardinality(B) = Cardinality(A) - 1
  BY <1>1, <1>2, <1>3, FS_RemoveElement
<1>12. IsFiniteSet(Units(B)) /\ h2.bytes = Cardinality(Units(B))
  BY <1>1, <1>2, <1>3, <1>11, UnitsRemove
<1>10. QED
  BY <1>2, <1>3, <1>7, <1>8, <1>9, <1>12 DEF Kept, g, A, B

LEMMA KeptMoved ==
    ASSUME NEW h, Formed(h), NEW h2, NEW f, NEW pointer, NEW value, NEW n, Kept(h, f),
           Moved(h, h2, pointer, value, n)
    PROVE  Kept(h2, With(Without(f, pointer), value, n))
<1> DEFINE u == Without(f, pointer)
           g == With(u, value, n)
           A == Allocs(h)
           B == Allocs(h2)
<1>1. PICK a \in A, c \in B :
        /\ AddressOf(a) = pointer /\ AddressOf(c) = value /\ c[2].size >= n
        /\ B = (A \ {a}) \cup {c}
        /\ \A d \in A \ {a} : AddressOf(d) # value
        /\ c[2].size \in Nat
        /\ h2.allocated = h.allocated
        /\ h2.bytes = h.bytes + (c[2].size - a[2].size)
  BY DEF Moved
<1>2. /\ DOMAIN f = {AddressOf(d) : d \in A}
      /\ \A d \in A : d[2].size >= f[AddressOf(d)]
      /\ IsFiniteSet(A) /\ h.allocated = Cardinality(A)
      /\ IsFiniteSet(Units(A)) /\ h.bytes = Cardinality(Units(A))
  BY DEF Kept
<1>11. a[2].size \in Nat
  BY <1>1, AllocSize DEF Formed
<1>3. /\ DOMAIN u = DOMAIN f \ {pointer} /\ \A y \in DOMAIN f \ {pointer} : u[y] = f[y]
      /\ DOMAIN g = DOMAIN u \cup {value}
      /\ \A y \in DOMAIN u \cup {value} : g[y] = IF y = value THEN n ELSE u[y]
  BY DEF With, Without
<1>4. \A d, e \in A : AddressOf(d) = AddressOf(e) => d = e
  BY AddressesDiffer DEF Formed
<1> HIDE DEF u, g, A, B
<1>5. \A d \in A \ {a} : AddressOf(d) # pointer /\ AddressOf(d) # value
  BY <1>1, <1>4
<1>6. DOMAIN u = {AddressOf(d) : d \in A \ {a}}
  BY <1>1, <1>2, <1>3, <1>5
<1>7. DOMAIN g = {AddressOf(d) : d \in B}
  BY <1>1, <1>3, <1>6
<1>8. ASSUME NEW d \in B PROVE d[2].size >= g[AddressOf(d)]
  <2>1. CASE d = c
    BY <1>1, <1>3, <2>1
  <2>2. CASE d \in A \ {a}
    <3>1. AddressOf(d) \in DOMAIN f \ {pointer} /\ AddressOf(d) # value
      BY <1>2, <1>5, <2>2
    <3>2. g[AddressOf(d)] = f[AddressOf(d)]
      BY <1>3, <3>1
    <3>3. QED
      BY <1>2, <2>2, <3>2
  <2>3. QED
    BY <1>1, <2>1, <2>2
<1>9. IsFiniteSet(B) /\ Cardinality(B) = Cardinality(A)
  <2>1. IsFiniteSet(A \ {a}) /\ Cardinality(A \ {a}) = Cardinality(A) - 1
    BY <1>1, <1>2, FS_RemoveElement
  <2>2. c \notin A \ {a}
    BY <1>1
  <2>3. IsFiniteSet(B) /\ Cardinality(B) = Cardinality(A) - 1 + 1
    BY <1>1, <2>1, <2>2, FS_AddElement
  <2>4. Cardinality(A) \in Nat
    BY <1>2, FS_CardinalityType
  <2>5. QED
    BY <2>3, <2>4
<1>12. IsFiniteSet(Units(B)) /\ h2.bytes = Cardinality(Units(B))
  <2> DEFINE C == A \ {a}
  <2>1. IsFiniteSet(Units(C)) /\ Cardinality(Units(C)) = Cardinality(Units(A)) + - a[2].size
    BY <1>1, <1>2, <1>11, UnitsRemove
  <2>2. c \notin C /\ B = C \cup {c}
    BY <1>1
  <2> HIDE DEF C
  <2>3. IsFiniteSet(Units(B)) /\ Cardinality(Units(B)) = Cardinality(Units(C)) + c[2].size
    BY <1>1, <2>1, <2>2, UnitsAdd
  <2>4. Cardinality(Units(A)) \in Nat
    BY <1>2, FS_CardinalityType
  <2>5. QED
    BY <1>1, <1>2, <1>11, <2>1, <2>3, <2>4
<1>10. QED
  BY <1>1, <1>2, <1>7, <1>8, <1>9, <1>12 DEF Kept, u, g, A, B

-----------------------------------------------------------------------------
(* The invariant.                                                           *)

Inv == Formed(heap) /\ Kept(heap, held)

LEMMA RequestNat ==
    ASSUME NEW n \in Requests
    PROVE  n \in Nat /\ n >= Minimum /\ n >= 1
<1>1. n \in Minimum..SizeMax
  BY SizesAssumption
<1>2. QED
  BY <1>1, SizesNat

\* A product that passes the test of kcalloc does not wrap.
LEMMA ProductExact ==
    ASSUME NEW count \in Nat \ {0}, NEW size \in Nat, ProductFits(count, size)
    PROVE  (count * size) % (SizeMax + 1) = count * size
<1> DEFINE q == SizeMax \div count
           r == SizeMax % count
           m == count * size
<1>1. SizeMax \in Nat
  BY SizesNat
<1>2. q \in Int /\ r \in 0..(count - 1) /\ SizeMax = count * q + r
  BY <1>1
<1>3. size <= q
  BY DEF ProductFits
<1>4. q \in Nat
  BY <1>2, <1>3
<1> HIDE DEF q, r
<1>5. size * count <= q * count /\ size * count \in Nat /\ q * count \in Nat
  BY <1>3, <1>4, TimesMonotone
<1>6. m = size * count /\ count * q = q * count
  BY <1>4
<1> HIDE DEF m
<1>7. m \in Nat /\ m < SizeMax + 1
  BY <1>1, <1>2, <1>5, <1>6
<1>8. m % (SizeMax + 1) = m
  BY <1>1, <1>7
<1>9. QED
  BY <1>8 DEF m

LEMMA InitInv == Init => Inv
<1> SUFFICES ASSUME Init PROVE Inv
  OBVIOUS
<1> DEFINE a == NewArena(1, InitialPages)
           x == [at |-> ArenaHeader, size |-> ArenaSize(InitialPages), free |-> TRUE]
           b == <<x>>
           g == <<a>>
           total == InitialPages * PageUnits
<1>1. heap = [arenas |-> g, allocated |-> 0, bytes |-> 0] /\ held = <<>>
  BY DEF Init
<1>2. total \in Nat /\ total >= ArenaHeader + BlockHeader + Minimum
  BY SizesAssumption, SizesNat
<1>3. ArenaSize(InitialPages) = total - ArenaHeader - BlockHeader
  BY DEF ArenaSize
<1>4. a = [base |-> 1, pages |-> InitialPages, blocks |-> b]
  BY DEF NewArena
<1> HIDE DEF a, total
<1>5. ArenaSize(InitialPages) \in Nat /\ ArenaSize(InitialPages) >= Minimum
  BY <1>2, <1>3, SizesNat
<1>6. x \in Block /\ x.at = ArenaHeader /\ x.size = ArenaSize(InitialPages) /\ x.free = TRUE
  BY <1>5, SizesNat DEF Block
<1> HIDE DEF x
<1>7. EndOf(x) = total
  BY <1>2, <1>3, <1>6, SizesNat DEF EndOf
<1>8. b \in Seq(Block) /\ Len(b) = 1 /\ b[1] = x /\ b # <<>>
  BY <1>6
<1> HIDE DEF b
<1>9. List(b, total)
  BY <1>5, <1>6, <1>7, <1>8 DEF List, Chained, Apart
<1>10. a \in Arena /\ a.base = 1 /\ a.pages = InitialPages /\ a.blocks = b
  BY <1>4, <1>8, SizesNat DEF Arena, Base
<1>11. UsedOf(b) = {}
  BY <1>6, <1>8 DEF UsedOf
<1>12. ArenaOK(a)
  BY <1>9, <1>10 DEF ArenaOK, total
<1>13. g \in Seq(Arena) /\ Len(g) = 1 /\ g[1] = a /\ g # <<>>
  BY <1>10
<1> HIDE DEF g
<1>14. heap \in HeapRecord /\ heap.arenas = g /\ heap.allocated = 0 /\ heap.bytes = 0
  BY <1>1, <1>13 DEF HeapRecord
<1>15. \A k \in 1..Len(heap.arenas) : k = 1 /\ heap.arenas[k] = a
  <2>1. Len(heap.arenas) = 1 /\ heap.arenas[1] = a
    BY <1>13, <1>14
  <2>2. \A k \in 1..1 : k = 1
    OBVIOUS
  <2>3. QED
    BY <2>1, <2>2
<1>16. Formed(heap)
  <2>1. heap.arenas # <<>> /\ heap.arenas[1].base = 1
    BY <1>10, <1>13, <1>14
  <2>2. \A k, m \in 1..Len(heap.arenas) : heap.arenas[k].base = heap.arenas[m].base => k = m
    BY <1>15
  <2>3. \A k \in 1..Len(heap.arenas) : ArenaOK(heap.arenas[k]) /\ k = 1
    BY <1>12, <1>15
  <2>4. QED
    BY <1>14, <2>1, <2>2, <2>3 DEF Formed, FormedBut
<1>17. Allocs(heap) = {}
  <2>1. ASSUME NEW y \in Allocs(heap) PROVE FALSE
    <3>1. PICK k \in 1..Len(heap.arenas) : \E z \in UsedOf(heap.arenas[k].blocks) : y = <<heap.arenas[k].base, z>>
      BY AllocPoint
    <3>2. UsedOf(heap.arenas[k].blocks) = {}
      BY <1>10, <1>11, <1>15
    <3>3. QED
      BY <3>1, <3>2
  <2>2. QED
    BY <2>1
<1>18. Kept(heap, held)
  <2>1. DOMAIN held = {}
    BY <1>1
  <2>2. DOMAIN held = {AddressOf(c) : c \in Allocs(heap)}
    BY <1>17, <2>1
  <2>3. IsFiniteSet(Allocs(heap)) /\ heap.allocated = Cardinality(Allocs(heap))
    BY <1>14, <1>17, FS_EmptySet
  <2>4. IsFiniteSet(Units(Allocs(heap))) /\ heap.bytes = Cardinality(Units(Allocs(heap)))
    <3>1. Units(Allocs(heap)) = {}
      BY <1>17 DEF Units
    <3>2. QED
      BY <1>14, <3>1, FS_EmptySet
  <2>5. QED
    BY <1>17, <2>2, <2>3, <2>4 DEF Kept
<1>19. QED
  BY <1>16, <1>18 DEF Inv

LEMMA NextInv == Inv /\ [Next]_vars => Inv'
<1> SUFFICES ASSUME Inv, [Next]_vars PROVE Inv'
  OBVIOUS
<1>1. Formed(heap) /\ Kept(heap, held)
  BY DEF Inv
<1>2. ASSUME NEW h2, NEW f2, Formed(h2), Kept(h2, f2), heap' = h2, held' = f2 PROVE Inv'
  BY <1>2 DEF Inv
<1>3. ASSUME NEW n \in Requests, NEW room \in BOOLEAN, Kmalloc(n, room) PROVE Inv'
  <2> DEFINE r == Malloc(heap, n, room)
  <2>1. n \in Nat /\ n >= Minimum
    BY RequestNat
  <2>2. (r.value = Null /\ r.heap = heap) \/ Granted(heap, r.heap, r.value, n)
    BY <1>1, <2>1, MallocOK
  <2>3. heap' = r.heap /\ held' = IF r.value = Null THEN held ELSE With(held, r.value, n)
    BY <1>3 DEF Kmalloc
  <2> HIDE DEF r
  <2>4. CASE r.value = Null /\ r.heap = heap
    BY <1>1, <1>2, <2>3, <2>4
  <2>5. CASE Granted(heap, r.heap, r.value, n)
    <3>1. Formed(r.heap) /\ r.value # Null
      BY <2>5 DEF Granted
    <3>2. Kept(r.heap, With(held, r.value, n))
      BY <1>1, <2>5, KeptAdded
    <3>3. QED
      BY <1>2, <2>3, <3>1, <3>2
  <2>6. QED
    BY <2>2, <2>4, <2>5
<1>4. ASSUME NEW count \in Requests, NEW size \in Requests, NEW room \in BOOLEAN, Kcalloc(count, size, room)
      PROVE  Inv'
  <2> DEFINE total == (count * size) % (SizeMax + 1)
             n == count * size
             r == Malloc(heap, total, room)
  <2>1. /\ ProductFits(count, size)
        /\ heap' = r.heap /\ held' = IF r.value = Null THEN held ELSE With(held, r.value, n)
    BY <1>4 DEF Kcalloc
  <2>2. count \in Nat \ {0} /\ size \in Nat /\ size >= Minimum /\ count >= 1 /\ count \in Nat
    BY RequestNat
  <2>3. total = n
    BY <2>1, <2>2, ProductExact
  <2>4. n \in Nat /\ n >= Minimum
    <3>1. 1 * size <= count * size /\ count * size \in Nat
      BY <2>2, TimesMonotone
    <3>2. 1 * size = size
      BY <2>2
    <3>3. QED
      BY <2>2, <3>1, <3>2, SizesNat
  <2> HIDE DEF total, n
  <2>5. (r.value = Null /\ r.heap = heap) \/ Granted(heap, r.heap, r.value, n)
    BY <1>1, <2>3, <2>4, MallocOK
  <2> HIDE DEF r
  <2>6. CASE r.value = Null /\ r.heap = heap
    BY <1>1, <1>2, <2>1, <2>6
  <2>7. CASE Granted(heap, r.heap, r.value, n)
    <3>1. Formed(r.heap) /\ r.value # Null
      BY <2>7 DEF Granted
    <3>2. Kept(r.heap, With(held, r.value, n))
      BY <1>1, <2>7, KeptAdded
    <3>3. QED
      BY <1>2, <2>1, <3>1, <3>2
  <2>8. QED
    BY <2>5, <2>6, <2>7
<1>5. ASSUME NEW pointer \in Address, Kfree(pointer) PROVE Inv'
  <2> DEFINE r == FreePointer(heap, pointer)
  <2>1. r.value /\ heap' = r.heap /\ held' = Without(held, pointer)
    BY <1>5 DEF Kfree
  <2>2. (r.value = FALSE /\ r.heap = heap) \/ (r.value = TRUE /\ Freed(heap, r.heap, pointer))
    BY <1>1, FreeOK
  <2> HIDE DEF r
  <2>3. Freed(heap, r.heap, pointer)
    BY <2>1, <2>2
  <2>4. Formed(r.heap) /\ Kept(r.heap, Without(held, pointer))
    BY <1>1, <2>3, KeptRemoved DEF Freed
  <2>5. QED
    BY <1>2, <2>1, <2>4
<1>6. ASSUME NEW pointer \in DOMAIN held, NEW n \in Requests, NEW room \in BOOLEAN, Krealloc(pointer, n, room)
      PROVE  Inv'
  <2> DEFINE r == Realloc(heap, pointer, n, room)
  <2>1. r.value # Null /\ heap' = r.heap /\ held' = With(Without(held, pointer), r.value, n)
    BY <1>6 DEF Krealloc
  <2>2. n \in Nat /\ n >= Minimum
    BY RequestNat
  <2>3. Moved(heap, r.heap, pointer, r.value, n)
    BY <1>1, <2>1, <2>2, ReallocOK
  <2> HIDE DEF r
  <2>4. Formed(r.heap) /\ Kept(r.heap, With(Without(held, pointer), r.value, n))
    BY <1>1, <2>3, KeptMoved DEF Moved
  <2>5. QED
    BY <1>2, <2>1, <2>4
<1>7. CASE UNCHANGED vars
  BY <1>1, <1>2, <1>7 DEF vars
<1>8. QED
  BY <1>3, <1>4, <1>5, <1>6, <1>7 DEF Next

-----------------------------------------------------------------------------
(* The theorems.                                                            *)

LEMMA Invariance == Spec => []Inv
BY InitInv, NextInv, PTL DEF Spec

\* For any sizes of the headers, of a page and of the requests, and any number of
\* arenas: the lists tile their arenas, no two neighbours are free, and an arena
\* that is not the first holds an allocation.
THEOREM ListsWellFormed == Spec => []HeapWellFormed
<1>1. ASSUME Inv PROVE HeapWellFormed
  <2>1. /\ heap.arenas \in Seq(Arena) /\ heap.arenas # <<>> /\ heap.arenas[1].base = 1
        /\ \A k, m \in 1..Len(heap.arenas) : heap.arenas[k].base = heap.arenas[m].base => k = m
        /\ \A k \in 1..Len(heap.arenas) :
             ArenaOK(heap.arenas[k]) /\ (k = 1 \/ UsedOf(heap.arenas[k].blocks) # {})
    BY <1>1 DEF Inv, Formed, FormedBut, HeapRecord
  <2>2. ASSUME NEW k \in 1..Len(heap.arenas)
        PROVE  /\ Tiled(heap.arenas[k])
               /\ Coalesced(heap.arenas[k])
               /\ k = 1 \/ \E i \in 1..Len(heap.arenas[k].blocks) : ~ heap.arenas[k].blocks[i].free
    <3> DEFINE a == heap.arenas[k]
    <3>1. Chained(a.blocks, a.pages * PageUnits) /\ Apart(a.blocks)
      BY <2>1 DEF ArenaOK, List
    <3>2. k = 1 \/ \E i \in 1..Len(a.blocks) : ~ a.blocks[i].free
      BY <2>1 DEF UsedOf
    <3> HIDE DEF a
    <3>3. Tiled(a)
      BY <3>1 DEF Tiled, Chained, EndOf
    <3>4. Coalesced(a)
      BY <3>1 DEF Coalesced, Chained, Apart
    <3>5. QED
      BY <3>2, <3>3, <3>4 DEF a
  <2>3. QED
    BY <2>1, <2>2 DEF HeapWellFormed
<1>2. QED
  BY Invariance, <1>1, PTL

\* The allocation a used slot is.
NameOf(s) == <<heap.arenas[s[1]].base, BlockAt(heap, s)>>

LEMMA SlotsAreAllocs ==
    ASSUME Inv
    PROVE  /\ \A s \in Used : /\ NameOf(s) \in Allocs(heap) /\ NameOf(s)[2] = BlockAt(heap, s)
                              /\ AddressOf(NameOf(s)) = Payload(heap, s)
           /\ \A s, t \in Used : NameOf(s) = NameOf(t) => s = t
           /\ \A a \in Allocs(heap) : \E s \in Used : NameOf(s) = a
<1> DEFINE X == {}
<1>1. FormedBut(heap, X)
  BY DEF Inv, Formed
<1> HIDE DEF X
<1>2. ASSUME NEW s \in Used
      PROVE  /\ NameOf(s) \in Allocs(heap) /\ NameOf(s)[2] = BlockAt(heap, s)
             /\ AddressOf(NameOf(s)) = Payload(heap, s)
  <2>1. s \in Slots(heap) /\ ~ BlockAt(heap, s).free
    BY DEF Used
  <2>2. QED
    BY <1>1, <2>1, UsedSlot, Zenon DEF NameOf
<1>3. ASSUME NEW s \in Used, NEW t \in Used, NameOf(s) = NameOf(t) PROVE s = t
  <2> DEFINE b == heap.arenas[s[1]].blocks
             c == heap.arenas[t[1]].blocks
  <2>1. s \in Slots(heap) /\ t \in Slots(heap)
    BY DEF Used
  <2>2. /\ s[1] \in 1..Len(heap.arenas) /\ s[2] \in 1..Len(b) /\ s = <<s[1], s[2]>> /\ BlockAt(heap, s) = b[s[2]]
        /\ t[1] \in 1..Len(heap.arenas) /\ t[2] \in 1..Len(c) /\ t = <<t[1], t[2]>> /\ BlockAt(heap, t) = c[t[2]]
    BY <1>1, <2>1, SlotOf, Zenon
  <2>3. heap.arenas[s[1]].base = heap.arenas[t[1]].base /\ b[s[2]] = c[t[2]]
    BY <1>3, <2>2 DEF NameOf
  <2>4. s[1] = t[1]
    BY <1>1, <2>2, <2>3 DEF FormedBut
  <2>5. Chained(b, heap.arenas[s[1]].pages * PageUnits) /\ b \in Seq(Block)
    <3>1. List(b, heap.arenas[s[1]].pages * PageUnits)
      BY <1>1, <2>2, ArenaType, Zenon
    <3>2. QED
      BY <3>1 DEF List, Chained
  <2>6. b[s[2]].at \in Nat /\ t[2] \in 1..Len(b) /\ b[s[2]] = b[t[2]] /\ Len(b) \in Nat
    BY <2>2, <2>3, <2>4, <2>5, BlockType
  <2>7. ~ (s[2] < t[2]) /\ ~ (t[2] < s[2])
    BY <2>2, <2>5, <2>6, Ascending
  <2>8. s[2] = t[2]
    BY <2>2, <2>6, <2>7
  <2>9. QED
    BY <2>2, <2>4, <2>8
<1>4. ASSUME NEW a \in Allocs(heap) PROVE \E s \in Used : NameOf(s) = a
  <2>1. PICK k \in 1..Len(heap.arenas) : \E x \in UsedOf(heap.arenas[k].blocks) : a = <<heap.arenas[k].base, x>>
    BY AllocPoint
  <2>2. PICK i \in 1..Len(heap.arenas[k].blocks) :
          ~ heap.arenas[k].blocks[i].free /\ a = <<heap.arenas[k].base, heap.arenas[k].blocks[i]>>
    BY <2>1 DEF UsedOf
  <2> DEFINE s == <<k, i>>
  <2>3. s \in Slots(heap)
    BY <1>1, SlotPoint, Zenon
  <2>4. BlockAt(heap, s) = heap.arenas[k].blocks[i] /\ s[1] = k
    BY DEF BlockAt
  <2>5. s \in Used /\ NameOf(s) = a
    BY <2>2, <2>3, <2>4 DEF Used, NameOf
  <2>6. QED
    BY <2>5
<1>5. QED
  BY <1>2, <1>3, <1>4

\* Two finite sets of the same size.
LEMMA SameSize ==
    ASSUME NEW S, NEW T, IsFiniteSet(T), NEW f \in [S -> T],
           \A s, t \in S : f[s] = f[t] => s = t,
           \A t \in T : \E s \in S : f[s] = t
    PROVE  Cardinality(S) = Cardinality(T)
<1>1. f \in Injection(S, T) /\ f \in Surjection(S, T)
  BY DEF Injection, Surjection, IsInjective
<1>2. QED
  BY <1>1, FS_Injection

\* One allocated block for every allocation that is held, at its address and at
\* least as large as was asked for, no other allocated block, and an exact count.
THEOREM NothingLostOrShared == Spec => []AllocationsKept
<1>1. ASSUME Inv PROVE AllocationsKept
  <2> DEFINE A == Allocs(heap)
  <2>1. /\ DOMAIN held = {AddressOf(a) : a \in A}
        /\ \A a \in A : a[2].size >= held[AddressOf(a)]
        /\ IsFiniteSet(A) /\ heap.allocated = Cardinality(A)
    BY <1>1 DEF Inv, Kept
  <2>2. /\ \A s \in Used : /\ NameOf(s) \in A /\ NameOf(s)[2] = BlockAt(heap, s)
                           /\ AddressOf(NameOf(s)) = Payload(heap, s)
        /\ \A s, t \in Used : NameOf(s) = NameOf(t) => s = t
        /\ \A a \in A : \E s \in Used : NameOf(s) = a
    BY <1>1, SlotsAreAllocs
  <2> HIDE DEF A
  <2>3. Cardinality(Used) = Cardinality(A)
    <3> DEFINE f == [s \in Used |-> NameOf(s)]
    <3>1. f \in [Used -> A] /\ (\A s, t \in Used : f[s] = f[t] => s = t) /\ \A a \in A : \E s \in Used : f[s] = a
      BY <2>2
    <3> HIDE DEF f
    <3>2. QED
      BY <2>1, <3>1, SameSize
  <2>4. DOMAIN held = {Payload(heap, s) : s \in Used}
    BY <2>1, <2>2
  <2>5. \A s \in Used : BlockAt(heap, s).size >= held[Payload(heap, s)]
    BY <2>1, <2>2
  <2>6. QED
    BY <2>1, <2>3, <2>4, <2>5 DEF AllocationsKept
<1>2. QED
  BY Invariance, <1>1, PTL

\* The byte counter is the sum of the sizes of the blocks that are allocated: it
\* is moved by what a split leaves, a shrink gives back and a growth takes, over
\* every kmalloc, kcalloc, kfree and krealloc.
THEOREM CountersExact == Spec => []AllocationsExact
<1>1. ASSUME Inv PROVE TypeOK
  <2>1. /\ Formed(heap)
        /\ DOMAIN held = {AddressOf(a) : a \in Allocs(heap)}
        /\ IsFiniteSet(Allocs(heap)) /\ heap.allocated = Cardinality(Allocs(heap))
        /\ IsFiniteSet(Units(Allocs(heap))) /\ heap.bytes = Cardinality(Units(Allocs(heap)))
    BY <1>1 DEF Inv, Kept
  <2>2. heap.allocated \in Nat /\ heap.bytes \in Nat
    BY <2>1, FS_CardinalityType
  <2>3. heap.arenas \in Seq(Arena)
    BY <2>1 DEF Formed, FormedBut, HeapRecord
  <2>4. ASSUME NEW a \in Allocs(heap) PROVE AddressOf(a) \in Base \X Nat
    <3>1. PICK k \in 1..Len(heap.arenas) : \E x \in UsedOf(heap.arenas[k].blocks) : a = <<heap.arenas[k].base, x>>
      BY AllocPoint
    <3>2. PICK i \in 1..Len(heap.arenas[k].blocks) : a = <<heap.arenas[k].base, heap.arenas[k].blocks[i]>>
      BY <3>1 DEF UsedOf
    <3>3. heap.arenas[k] \in Arena
      BY <2>3, ElementOfSeq
    <3>4. heap.arenas[k].base \in Base /\ heap.arenas[k].blocks \in Seq(Block)
      BY <3>3 DEF Arena
    <3>5. heap.arenas[k].blocks[i].at \in Nat
      BY <3>4, BlockType
    <3>6. QED
      BY <3>2, <3>4, <3>5, SizesNat DEF AddressOf
  <2>5. QED
    BY <2>1, <2>2, <2>3, <2>4 DEF TypeOK
<1>2. ASSUME Inv PROVE heap.bytes = Cardinality(UNION {{s} \X (1..BlockAt(heap, s).size) : s \in Used})
  <2> DEFINE A == Allocs(heap)
             Taken == UNION {{s} \X (1..BlockAt(heap, s).size) : s \in Used}
             U == Units(A)
             f == [p \in Taken |-> <<NameOf(p[1]), p[2]>>]
  <2>1. IsFiniteSet(U) /\ heap.bytes = Cardinality(U)
    BY <1>2 DEF Inv, Kept
  <2>2. /\ \A s \in Used : NameOf(s) \in A /\ NameOf(s)[2] = BlockAt(heap, s)
        /\ \A s, t \in Used : NameOf(s) = NameOf(t) => s = t
        /\ \A a \in A : \E s \in Used : NameOf(s) = a
    BY <1>2, SlotsAreAllocs
  <2> HIDE DEF A
  <2>3. \A p : p \in Taken <=> \E s \in Used : \E i \in 1..BlockAt(heap, s).size : p = <<s, i>>
    OBVIOUS
  <2>4. \A u : u \in U <=> \E a \in A : \E i \in 1..a[2].size : u = <<a, i>>
    BY DEF Units
  <2> HIDE DEF Taken, U
  <2>5. ASSUME NEW p \in Taken PROVE <<NameOf(p[1]), p[2]>> \in U
    <3>1. PICK s \in Used : \E i \in 1..BlockAt(heap, s).size : p = <<s, i>>
      BY <2>3
    <3>2. PICK i \in 1..BlockAt(heap, s).size : p = <<s, i>>
      BY <3>1
    <3>3. NameOf(s) \in A /\ i \in 1..NameOf(s)[2].size
      BY <2>2
    <3>4. <<NameOf(s), i>> \in U
      BY <2>4, <3>3
    <3>5. p[1] = s /\ p[2] = i
      BY <3>2
    <3>6. QED
      BY <3>4, <3>5
  <2>6. ASSUME NEW p \in Taken, NEW q \in Taken, NameOf(p[1]) = NameOf(q[1]), p[2] = q[2] PROVE p = q
    <3>1. PICK s \in Used : \E i \in 1..BlockAt(heap, s).size : p = <<s, i>>
      BY <2>3
    <3>2. PICK t \in Used : \E i \in 1..BlockAt(heap, t).size : q = <<t, i>>
      BY <2>3
    <3>3. p = <<s, p[2]>> /\ q = <<t, q[2]>> /\ p[1] = s /\ q[1] = t
      BY <3>1, <3>2
    <3>4. s = t
      BY <2>2, <2>6, <3>3
    <3>5. QED
      BY <2>6, <3>3, <3>4
  <2>7. ASSUME NEW u \in U PROVE \E p \in Taken : <<NameOf(p[1]), p[2]>> = u
    <3>1. PICK a \in A : \E i \in 1..a[2].size : u = <<a, i>>
      BY <2>4
    <3>2. PICK i \in 1..a[2].size : u = <<a, i>>
      BY <3>1
    <3>3. PICK s \in Used : NameOf(s) = a
      BY <2>2
    <3>4. i \in 1..BlockAt(heap, s).size
      BY <2>2, <3>2, <3>3
    <3> DEFINE p == <<s, i>>
    <3>5. p \in Taken
      BY <2>3, <3>4
    <3>6. p[1] = s /\ p[2] = i
      OBVIOUS
    <3>7. QED
      BY <3>2, <3>3, <3>5, <3>6
  <2>8. f \in [Taken -> U] /\ (\A p, q \in Taken : f[p] = f[q] => p = q) /\ \A u \in U : \E p \in Taken : f[p] = u
    <3>1. \A p \in Taken : f[p] = <<NameOf(p[1]), p[2]>>
      OBVIOUS
    <3>2. f \in [Taken -> U]
      BY <2>5
    <3> HIDE DEF f
    <3>3. \A p, q \in Taken : f[p] = f[q] => NameOf(p[1]) = NameOf(q[1]) /\ p[2] = q[2]
      BY <3>1
    <3>4. QED
      BY <2>6, <2>7, <3>1, <3>2, <3>3
  <2> HIDE DEF f
  <2>9. Cardinality(Taken) = Cardinality(U)
    BY <2>1, <2>8, SameSize
  <2>10. QED
    BY <2>1, <2>9 DEF Taken
<1>3. Spec => [](TypeOK /\ heap.bytes = Cardinality(UNION {{s} \X (1..BlockAt(heap, s).size) : s \in Used}))
  BY Invariance, <1>1, <1>2, PTL
<1>4. (TypeOK /\ heap.bytes = Cardinality(UNION {{s} \X (1..BlockAt(heap, s).size) : s \in Used})) /\ AllocationsKept
      => AllocationsExact
  BY DEF AllocationsExact
<1>5. QED
  BY <1>3, <1>4, NothingLostOrShared, PTL
=============================================================================
