----------------------- MODULE UserSpaceProofs -----------------------
(***************************************************************************)
(* The processes of UserSpace.tla, for any executables, numbers of frames, *)
(* of processes and of pages: no frame is lost or shared, whichever step   *)
(* of a launch fails, and a process runs in what its executable describes. *)
(***************************************************************************)
EXTENDS UserSpace, FiniteSetTheorems, TLAPS

-----------------------------------------------------------------------------
(* Numbers.                                                                 *)

LEMMA TimesMonotone ==
    ASSUME NEW n \in Nat, NEW x \in Nat, NEW y \in Nat, x <= y
    PROVE  x * n <= y * n /\ x * n \in Nat /\ y * n \in Nat
OBVIOUS

\* The multiples of n at or below a.
LEMMA Floor ==
    ASSUME NEW a \in Nat, NEW n \in Nat \ {0}, NEW v \in Nat
    PROVE  a \div n \in Nat /\ (v <= a \div n <=> v * n <= a)
<1> DEFINE q == a \div n
           r == a % n
           qn == q * n
           vn == v * n
           sn == (q + 1) * n
<1>1. q \in Int /\ r \in 0..(n - 1) /\ a = n * q + r
  OBVIOUS
<1>2. q \in Nat
  <2>1. CASE q < 0
    <3>1. -1 - q \in Nat /\ 0 <= -1 - q
      BY <1>1, <2>1
    <3> DEFINE k == -1 - q
               kn == k * n
    <3>2. kn \in Nat
      BY <3>1
    <3>3. n * q = - kn - n
      BY <1>1, <3>1
    <3> HIDE DEF kn, q, r
    <3>4. QED
      BY <1>1, <3>2, <3>3
  <2>2. QED
    BY <1>1, <2>1
<1> HIDE DEF q, r
<1>3. n * q = qn /\ sn = qn + n /\ qn \in Nat /\ vn \in Nat
  BY <1>2
<1>4. ASSUME v <= q PROVE vn <= qn
  BY <1>2, <1>4, TimesMonotone
<1>5. ASSUME v > q PROVE sn <= vn
  <2>1. q + 1 <= v /\ q + 1 \in Nat
    BY <1>2, <1>5
  <2>2. QED
    BY <2>1, TimesMonotone
<1> HIDE DEF qn, vn, sn
<1>6. v <= q <=> vn <= a
  BY <1>1, <1>2, <1>3, <1>4, <1>5
<1>7. QED
  BY <1>2, <1>6 DEF q, vn

\* Multiples of n are n apart.
LEMMA Apart ==
    ASSUME NEW n \in Nat, NEW x \in Nat, NEW y \in Nat, x * n < y * n
    PROVE  x < y /\ x * n + n <= y * n
<1> DEFINE xn == x * n
           yn == y * n
           sn == (x + 1) * n
<1>1. xn \in Nat /\ yn \in Nat /\ sn = xn + n
  OBVIOUS
<1>2. ASSUME y <= x PROVE yn <= xn
  BY <1>2, TimesMonotone
<1>3. ASSUME x < y PROVE sn <= yn
  <2>1. x + 1 \in Nat /\ x + 1 <= y
    BY <1>3
  <2>2. QED
    BY <2>1, TimesMonotone
<1>4. xn < yn
  OBVIOUS
<1> HIDE DEF xn, yn, sn
<1>5. x < y /\ xn + n <= yn
  BY <1>1, <1>2, <1>3, <1>4
<1>6. QED
  BY <1>5 DEF xn, yn

\* The elements of S below x.
Lower(S, x) == {y \in S : y < x}

\* A finite set of naturals has an element with i elements below it, for any i
\* less than its size.
LEMMA RankExists ==
    ASSUME NEW S \in SUBSET Nat, IsFiniteSet(S), NEW i \in 0..(Cardinality(S) - 1)
    PROVE  \E x \in S : Cardinality(Lower(S, x)) = i
<1> DEFINE T == 0..(Cardinality(S) - 1)
           f == [x \in S |-> Cardinality(Lower(S, x))]
<1>1. Cardinality(S) \in Nat
  BY FS_CardinalityType
<1>2. IsFiniteSet(T) /\ Cardinality(T) = Cardinality(S)
  <2> DEFINE n == Cardinality(S)
  <2>1. 0 \in Int /\ n - 1 \in Int /\ n \in Nat
    BY <1>1
  <2> HIDE DEF n
  <2>2. IsFiniteSet(0..(n - 1)) /\ Cardinality(0..(n - 1)) = IF 0 > n - 1 THEN 0 ELSE n - 1 - 0 + 1
    BY <2>1, FS_Interval, Zenon
  <2>3. QED
    BY <2>1, <2>2 DEF n
<1>3. ASSUME NEW x \in S
      PROVE  /\ IsFiniteSet(Lower(S, x)) /\ Cardinality(Lower(S, x)) \in T
  <2>1. Lower(S, x) \subseteq S \ {x}
    BY DEF Lower
  <2>2. IsFiniteSet(S \ {x}) /\ Cardinality(S \ {x}) = Cardinality(S) - 1
    BY FS_RemoveElement
  <2>3. IsFiniteSet(Lower(S, x)) /\ Cardinality(Lower(S, x)) <= Cardinality(S \ {x})
    BY <2>1, <2>2, FS_Subset
  <2>4. Cardinality(Lower(S, x)) \in Nat
    BY <2>3, FS_CardinalityType
  <2>5. QED
    BY <1>1, <2>2, <2>3, <2>4
<1>4. ASSUME NEW x \in S, NEW y \in S, x < y
      PROVE  Cardinality(Lower(S, x)) < Cardinality(Lower(S, y))
  <2>5. (\A z \in S : z < x => z < y) /\ ~ (x < x)
    BY <1>4
  <2>1. Lower(S, x) \cup {x} \subseteq Lower(S, y) /\ x \notin Lower(S, x)
    BY <1>4, <2>5 DEF Lower
  <2>2. Cardinality(Lower(S, x) \cup {x}) = Cardinality(Lower(S, x)) + 1
    BY <1>3, <2>1, FS_AddElement
  <2>3. Cardinality(Lower(S, x) \cup {x}) <= Cardinality(Lower(S, y))
    BY <1>3, <2>1, FS_Subset
  <2>4. Cardinality(Lower(S, x)) \in Nat /\ Cardinality(Lower(S, y)) \in Nat
    BY <1>3, FS_CardinalityType
  <2>6. QED
    BY <2>2, <2>3, <2>4
<1>5. f \in [S -> T]
  BY <1>3
<1>6. ASSUME NEW x \in S, NEW y \in S, f[x] = f[y] PROVE x = y
  <2>1. Cardinality(Lower(S, x)) = Cardinality(Lower(S, y)) /\ Cardinality(Lower(S, x)) \in Int
    BY <1>1, <1>3, <1>6
  <2>2. ~ (x < y) /\ ~ (y < x)
    BY <1>4, <2>1
  <2>3. QED
    BY <2>2
<1>7. \A x \in S : f[x] = Cardinality(Lower(S, x))
  OBVIOUS
<1> HIDE DEF f, T
<1>8. f \in Injection(S, T)
  BY <1>5, <1>6 DEF Injection, IsInjective
<1>9. f \in Surjection(S, T)
  BY <1>2, <1>8, FS_Injection
<1>10. PICK x \in S : f[x] = i
  BY <1>9 DEF Surjection, T
<1>11. QED
  BY <1>7, <1>10

LEMMA MinExists ==
    ASSUME NEW S \in SUBSET Nat, IsFiniteSet(S), S # {}
    PROVE  Min(S) \in S /\ \A x \in S : Min(S) <= x
<1>1. Cardinality(S) \in Nat /\ Cardinality(S) # 0
  BY FS_CardinalityType, FS_EmptySet
<1>2. 0 \in 0..(Cardinality(S) - 1)
  BY <1>1
<1>3. PICK m \in S : Cardinality(Lower(S, m)) = 0
  BY <1>2, RankExists
<1>4. Lower(S, m) = {}
  <2>1. IsFiniteSet(Lower(S, m))
    BY FS_Subset DEF Lower
  <2>2. QED
    BY <1>3, <2>1, FS_EmptySet
<1>5. \A x \in S : m <= x
  BY <1>4 DEF Lower
<1>6. QED
  BY <1>5, Zenon DEF Min

LEMMA MaxExists ==
    ASSUME NEW S \in SUBSET Nat, IsFiniteSet(S), S # {}
    PROVE  Max(S) \in S /\ \A x \in S : x <= Max(S)
<1>1. Cardinality(S) \in Nat /\ Cardinality(S) # 0
  BY FS_CardinalityType, FS_EmptySet
<1>2. Cardinality(S) - 1 \in 0..(Cardinality(S) - 1)
  BY <1>1
<1>3. PICK m \in S : Cardinality(Lower(S, m)) = Cardinality(S) - 1
  BY <1>2, RankExists
<1>4. ASSUME NEW x \in S, m < x PROVE FALSE
  <2>1. Lower(S, m) \subseteq (S \ {m}) \ {x}
    BY <1>4 DEF Lower
  <2>2. IsFiniteSet(S \ {m}) /\ Cardinality(S \ {m}) = Cardinality(S) - 1
    BY FS_RemoveElement
  <2>3. x \in S \ {m}
    BY <1>4
  <2>4. IsFiniteSet((S \ {m}) \ {x}) /\ Cardinality((S \ {m}) \ {x}) = Cardinality(S) - 1 - 1
    BY <2>2, <2>3, FS_RemoveElement
  <2>5. Cardinality(Lower(S, m)) <= Cardinality((S \ {m}) \ {x})
    BY <2>1, <2>4, FS_Subset
  <2>6. QED
    BY <1>1, <1>3, <2>4, <2>5
<1>5. \A x \in S : m >= x
  BY <1>4
<1>6. Max(S) \in S /\ \A x \in S : Max(S) >= x
  BY <1>5, Zenon DEF Max
<1>7. QED
  BY <1>6

\* The n smallest elements.
LEMMA LowestExists ==
    ASSUME NEW S \in SUBSET Nat, IsFiniteSet(S), NEW n \in Nat, n <= Cardinality(S)
    PROVE  \E s \in SUBSET S : Cardinality(s) = n /\ \A f \in s, g \in S \ s : f < g
<1>1. Cardinality(S) \in Nat
  BY FS_CardinalityType
<1>2. CASE n = Cardinality(S)
  BY <1>2
<1>3. CASE n # Cardinality(S)
  <2>1. n \in 0..(Cardinality(S) - 1)
    BY <1>1, <1>3
  <2>2. PICK x \in S : Cardinality(Lower(S, x)) = n
    BY <2>1, RankExists
  <2>3. Lower(S, x) \in SUBSET S /\ \A f \in Lower(S, x), g \in S \ Lower(S, x) : f < g
    BY DEF Lower
  <2>4. QED
    BY <2>2, <2>3
<1>4. QED
  BY <1>2, <1>3

-----------------------------------------------------------------------------
(* Pages and segments.                                                      *)

LEMMA Sizes ==
    /\ PageSize \in Nat \ {0} /\ StackPages \in Nat \ {0} /\ FramebufferPages \in Nat \ {0}
    /\ MaxImagePages \in Nat /\ SlotCount \in Nat
    /\ UserBase \in Nat /\ UserTop \in Nat /\ FramebufferVa \in Nat
BY SizesAssumption

LEMMA SegmentType ==
    ASSUME NEW e \in Files, NEW s \in e.segments
    PROVE  s.va \in Nat /\ s.memsz \in Nat /\ s.filesz \in Nat
BY FilesAssumption

\* The boundaries of the lower half in pages.
LEMMA Boundaries ==
    /\ PageFloor(UserBase) \in Nat /\ UserBase = PageFloor(UserBase) * PageSize
    /\ PageFloor(UserTop) \in Nat /\ UserTop = PageFloor(UserTop) * PageSize
<1>1. ASSUME NEW a \in Nat, a % PageSize = 0 PROVE a \div PageSize \in Nat /\ a = (a \div PageSize) * PageSize
  <2>1. 0 \in Nat /\ PageSize \in Nat \ {0}
    BY Sizes
  <2>2. a \div PageSize \in Nat
    BY <2>1, Floor
  <2>3. a = PageSize * (a \div PageSize) + (a % PageSize)
    BY <2>1
  <2> DEFINE q == a \div PageSize
             r == a % PageSize
  <2>4. q \in Nat /\ r = 0 /\ a = PageSize * q + r
    BY <1>1, <2>2, <2>3
  <2> HIDE DEF q, r
  <2>5. a = q * PageSize
    BY <2>1, <2>4
  <2>6. QED
    BY <2>2, <2>5 DEF q
<1>2. QED
  BY <1>1, Sizes, SizesAssumption DEF PageFloor

\* The pages of a segment are those with one of its bytes.
LEMMA SpanBytes ==
    ASSUME NEW e \in Files, NEW s \in Loadable(e)
    PROVE  /\ Span(s) \subseteq Nat /\ IsFiniteSet(Span(s))
           /\ \A va \in Nat : va \in Span(s) <=> \E b \in Bytes(va) : Covers(s, b)
<1> DEFINE a == s.va
           m == s.memsz
           P == PageSize
           top == a + m + P - 1
           lo == a \div P
           hi == top \div P
<1>1. a \in Nat /\ m \in Nat /\ m >= 1 /\ P \in Nat \ {0} /\ s.load
  BY SegmentType, Sizes DEF Loadable
<1>2. top \in Nat
  BY <1>1
<1>3. Span(s) = lo..(hi - 1)
  BY DEF Span, PageFloor, PageCeiling
<1>4. \A b : Covers(s, b) <=> b >= a /\ b < a + m
  BY <1>1 DEF Covers
<1>5. \A va : Bytes(va) = (va * P)..(va * P + P - 1)
  BY DEF Bytes
<1>9. top = a + m + P - 1
  OBVIOUS
<1> HIDE DEF a, m, P, top
<1>6. lo \in Nat /\ hi \in Nat /\ \A v \in Nat : (v <= lo <=> v * P <= a) /\ (v <= hi <=> v * P <= top)
  BY <1>1, <1>2, Floor
<1> HIDE DEF lo, hi
<1>7. ASSUME NEW va \in Nat PROVE va \in Span(s) <=> \E b \in Bytes(va) : Covers(s, b)
  <2> DEFINE w == va * P
             x == (va + 1) * P
  <2>1. va + 1 \in Nat /\ w \in Nat /\ x = w + P
    BY <1>1
  <2>2. (va + 1 <= lo <=> x <= a) /\ (va + 1 <= hi <=> x <= top)
    BY <1>6, <2>1
  <2>3. Bytes(va) = w..(w + P - 1)
    BY <1>5
  <2> HIDE DEF w, x
  <2>4. va \in Span(s) <=> a < w + P /\ w < a + m
    BY <1>1, <1>2, <1>3, <1>6, <1>9, <2>1, <2>2
  <2>5. ASSUME a < w + P, w < a + m PROVE \E b \in w..(w + P - 1) : b >= a /\ b < a + m
    <3>1. CASE a <= w
      <4>1. w \in w..(w + P - 1) /\ w >= a /\ w < a + m
        BY <1>1, <2>1, <2>5, <3>1
      <4>2. QED
        BY <4>1
    <3>2. CASE w < a
      <4>1. a \in w..(w + P - 1) /\ a >= a /\ a < a + m
        BY <1>1, <2>1, <2>5, <3>2
      <4>2. QED
        BY <4>1
    <3>3. QED
      BY <1>1, <2>1, <3>1, <3>2
  <2>6. ASSUME NEW b \in w..(w + P - 1), b >= a, b < a + m PROVE a < w + P /\ w < a + m
    BY <1>1, <2>1, <2>6
  <2>7. QED
    BY <1>4, <2>3, <2>4, <2>5, <2>6
<1>8. Span(s) \subseteq Nat /\ IsFiniteSet(Span(s))
  <2>1. lo \in Int /\ hi - 1 \in Int
    BY <1>6
  <2>2. IsFiniteSet(lo..(hi - 1))
    BY <2>1, FS_Interval
  <2>3. QED
    BY <1>3, <1>6, <2>2
<1>10. QED
  BY <1>7, <1>8

\* The pages of a segment that passes analyze_elf lie in the lower half.
LEMMA SpanInside ==
    ASSUME NEW e \in Files, NEW s \in Loadable(e), SegmentOk(e, s), NEW va \in Span(s)
    PROVE  va \in Page /\ Bytes(va) \subseteq UserBase..(UserTop - 1)
<1> DEFINE w == va * PageSize
           u == PageFloor(UserBase)
           t == PageFloor(UserTop)
           un == u * PageSize
           tn == t * PageSize
<1>1. va \in Nat /\ \E b \in Bytes(va) : Covers(s, b)
  BY SpanBytes
<1>2. PICK b \in Bytes(va) : Covers(s, b)
  BY <1>1
<1>3. s.va \in Nat /\ s.memsz \in Nat /\ s.va >= UserBase /\ s.va + s.memsz <= UserTop
  BY SegmentType DEF SegmentOk, Loadable
<1>4. Bytes(va) = w..(w + PageSize - 1) /\ PageSize \in Nat /\ PageSize >= 1 /\ w \in Nat
  BY <1>1, Sizes DEF Bytes
<1>5. b >= UserBase /\ b < UserTop
  BY <1>2, <1>3, <1>4, Sizes DEF Covers
<1>6. u \in Nat /\ t \in Nat /\ UserBase = un /\ UserTop = tn
  BY Boundaries
<1>10. Page = 0..(t + 1)
  BY DEF Page
<1>7. (w < un => w + PageSize <= un) /\ (w < tn => va < t /\ w + PageSize <= tn)
  <2> HIDE DEF u, t
  <2>1. QED
    BY <1>1, <1>4, <1>6, Apart
<1> HIDE DEF w, un, tn, t, u
<1>8. b \in Int /\ w <= b /\ b <= w + PageSize - 1
  BY <1>2, <1>4
<1>9. w >= un /\ w + PageSize <= tn /\ va < t
  BY <1>4, <1>5, <1>6, <1>7, <1>8, Sizes
<1>11. QED
  BY <1>1, <1>4, <1>6, <1>9, <1>10, Sizes

\* The stack and the framebuffer lie in the lower half too.
LEMMA StackInside ==
    ASSUME NEW k \in {"test", "desktop", "application"}, NEW va \in StackVa(k)
    PROVE  va \in Page /\ Bytes(va) \subseteq UserBase..(UserTop - 1)
<1> DEFINE w == va * PageSize
           t == PageFloor(UserTop)
           u == PageFloor(UserBase)
           n == StackSize(k)
           m == t - StackPages
           un == u * PageSize
           tn == t * PageSize
           mn == m * PageSize
<1>1. t \in Nat /\ u \in Nat /\ UserTop = tn /\ UserBase = un
  BY Boundaries
<1>2. n \in 1..StackPages /\ StackPages \in Nat /\ PageSize \in Nat \ {0}
  BY Sizes DEF StackSize
<1>3. va \in (t - n)..(t - 1)
  BY DEF StackVa
<1>10. Page = 0..(t + 1)
  BY DEF Page
<1>4. un + StackPages * PageSize <= tn
  BY <1>1, LayoutAssumption
<1>11. Bytes(va) = w..(w + PageSize - 1)
  BY DEF Bytes
<1> HIDE DEF t, u, n
<1>5. u <= m
  <2> DEFINE x == u + StackPages
  <2>1. x \in Nat /\ x * PageSize = un + StackPages * PageSize
    BY <1>1, <1>2
  <2> HIDE DEF x
  <2>2. x * PageSize <= t * PageSize
    BY <1>4, <2>1
  <2>3. x <= t
    <3>1. SUFFICES ASSUME t < x PROVE FALSE
      BY <1>1, <2>1
    <3>2. t + 1 \in Nat /\ t + 1 <= x
      BY <1>1, <2>1, <3>1
    <3>3. (t + 1) * PageSize <= x * PageSize
      BY <1>2, <2>1, <3>2, TimesMonotone
    <3>4. (t + 1) * PageSize = tn + PageSize
      BY <1>1, <1>2
    <3> HIDE DEF tn
    <3>5. x * PageSize \in Nat /\ tn \in Nat /\ x * PageSize <= tn
      BY <1>1, <1>2, <2>1, <2>2 DEF tn
    <3>6. QED
      BY <1>2, <3>3, <3>4, <3>5
  <2>4. QED
    BY <1>1, <1>2, <2>3 DEF x
<1>6. m \in Nat /\ va \in Nat /\ m <= va /\ va + 1 <= t
  BY <1>1, <1>2, <1>3, <1>5
<1>7. un <= w
  BY <1>1, <1>2, <1>5, <1>6, TimesMonotone
<1>8. (va + 1) * PageSize <= tn /\ (va + 1) * PageSize = w + PageSize
  BY <1>1, <1>2, <1>6, TimesMonotone
<1>9. w \in Nat
  BY <1>2, <1>6
<1> HIDE DEF w, un, tn, m
<1>12. va \in Page
  BY <1>1, <1>6, <1>10
<1>13. QED
  BY <1>1, <1>2, <1>7, <1>8, <1>9, <1>11, <1>12, Sizes

LEMMA FramebufferInside ==
    ASSUME NEW va \in FramebufferVas(FramebufferPages)
    PROVE  Bytes(va) \subseteq UserBase..(UserTop - 1)
<1> DEFINE w == va * PageSize
           f == FramebufferVa * PageSize
           t == (FramebufferVa + FramebufferPages) * PageSize
<1>1. va \in FramebufferVa..(FramebufferVa + FramebufferPages - 1)
  BY DEF FramebufferVas
<1>2. FramebufferVa \in Nat /\ FramebufferPages \in Nat /\ PageSize \in Nat \ {0}
  BY Sizes
<1>3. va \in Nat /\ FramebufferVa <= va /\ va + 1 <= FramebufferVa + FramebufferPages
  BY <1>1, <1>2
<1>4. f <= w
  BY <1>2, <1>3, TimesMonotone
<1>5. (va + 1) * PageSize <= t /\ (va + 1) * PageSize = w + PageSize
  BY <1>2, <1>3, TimesMonotone
<1>6. UserBase <= f /\ t <= UserTop /\ UserBase \in Nat /\ UserTop \in Nat
  BY Sizes, LayoutAssumption
<1>7. w \in Nat /\ f \in Nat /\ t \in Nat
  BY <1>2, <1>3
<1>8. Bytes(va) = w..(w + PageSize - 1)
  BY DEF Bytes
<1> HIDE DEF w, f, t
<1>9. QED
  BY <1>2, <1>4, <1>5, <1>6, <1>7, <1>8

\* The loader never records more pages than it has room for.
LEMMA ImagePagesBounded ==
    ASSUME NEW e \in Files
    PROVE  /\ ImagePages(e) \subseteq Nat /\ IsFiniteSet(ImagePages(e))
           /\ PageCapacity(e) \in Nat /\ Cardinality(ImagePages(e)) <= PageCapacity(e)
<1> DEFINE L == Loadable(e)
           I == ImagePages(e)
           Q == {{s} \X Span(s) : s \in L}
           U == UNION Q
           f == [u \in U |-> u[2]]
           q == [s \in L |-> {s} \X Span(s)]
<1>1. IsFiniteSet(L)
  <2>1. IsFiniteSet(e.segments)
    BY FilesAssumption
  <2>2. QED
    BY <2>1, FS_Subset DEF Loadable
<1>2. \A s \in L : Span(s) \subseteq Nat /\ IsFiniteSet(Span(s))
  BY SpanBytes
<1> HIDE DEF L
<1>3. IsFiniteSet(Q)
  <2>1. q \in Surjection(L, Q)
    BY DEF Surjection
  <2>2. QED
    BY <1>1, <2>1, FS_Surjection
<1>4. ASSUME NEW T \in Q PROVE IsFiniteSet(T)
  <2>1. PICK s \in L : T = {s} \X Span(s)
    OBVIOUS
  <2>2. IsFiniteSet({s})
    BY FS_Singleton
  <2>3. QED
    BY <1>2, <2>1, <2>2, FS_Product
<1>5. IsFiniteSet(U)
  <2> HIDE DEF Q
  <2>1. QED
    BY <1>3, <1>4, FS_UNION
<1>6. \A u : u \in U <=> \E s \in L : \E x \in Span(s) : u = <<s, x>>
  OBVIOUS
<1>7. \A x : x \in I <=> \E s \in L : x \in Span(s)
  BY DEF ImagePages, L
<1>8. PageCapacity(e) = Cardinality(U)
  BY DEF PageCapacity, L
<1> HIDE DEF Q, U, I
<1>9. f \in Surjection(U, I)
  <2>1. ASSUME NEW u \in U PROVE u[2] \in I
    <3>1. PICK s \in L : \E x \in Span(s) : u = <<s, x>>
      BY <1>6
    <3>2. QED
      BY <1>7, <3>1
  <2>2. ASSUME NEW x \in I PROVE \E u \in U : u[2] = x
    <3>1. PICK s \in L : x \in Span(s)
      BY <1>7
    <3> DEFINE u == <<s, x>>
    <3>2. u \in U /\ u[2] = x
      BY <1>6, <3>1
    <3>3. QED
      BY <3>2
  <2>3. QED
    BY <2>1, <2>2 DEF Surjection
<1>10. IsFiniteSet(I) /\ Cardinality(I) <= Cardinality(U)
  BY <1>5, <1>9, FS_Surjection
<1>11. Cardinality(U) \in Nat
  BY <1>5, FS_CardinalityType
<1>12. I \subseteq Nat
  BY <1>2, <1>7
<1>13. QED
  BY <1>8, <1>10, <1>11, <1>12 DEF I
-----------------------------------------------------------------------------
(* The invariant.                                                           *)

Kinds == {"test", "desktop", "application"}

Steps == {"pages", "map", "copy", "stack", "map_stack", "thread"}

Types ==
    /\ boot \in {"ready", "testing", "tested", "starting", "up", "halted"}
    /\ kind \in [Process -> Kinds \cup {None}]
    /\ thread \in [Process -> {"none", "running", "exited"}]
    /\ DOMAIN space = Process /\ DOMAIN image = Process
    /\ capacity \in [Process -> Nat] /\ DOMAIN file = Process
    /\ stack \in [Process -> [frames : SUBSET pool, mapped : BOOLEAN]]
    /\ job = None \/ job \in [p : Process, step : Steps]
    /\ \E n \in PoolSizes : pool = 1..n
    /\ DOMAIN content = Frame
    /\ owner \in Process \cup {None}
    /\ slots \in 0..SlotCount

\* The pages of the stack and of the framebuffer that p has.
StackPart(p) == IF stack[p].mapped THEN StackVa(kind[p]) ELSE {}

FramebufferPart(p) == IF owner = p THEN FramebufferVas(FramebufferPages) ELSE {}

\* What the loader has recorded for p.
ImageOk(p) ==
    /\ file[p] \in Files /\ Analyze(file[p])
    /\ DOMAIN image[p] \subseteq ImagePages(file[p])
    /\ DOMAIN image[p] # {} => capacity[p] = PageCapacity(file[p])
    /\ \A va, vb \in DOMAIN image[p] : image[p][va] = image[p][vb] => va = vb
    /\ \A va \in DOMAIN image[p] : image[p][va] \in pool \ stack[p].frames

\* What p has mapped: pages of its image, its stack whole, the framebuffer whole.
SpaceOk(p) ==
    /\ DOMAIN space[p] \subseteq DOMAIN image[p] \cup StackPart(p) \cup FramebufferPart(p)
    /\ StackPart(p) \cup FramebufferPart(p) \subseteq DOMAIN space[p]
    /\ \A va \in StackPart(p) : va \notin DOMAIN image[p] /\ va \notin FramebufferPart(p)
    /\ \A va \in FramebufferPart(p) : va \notin DOMAIN image[p]
    /\ \A va \in DOMAIN space[p] :
        /\ va \in DOMAIN image[p] => space[p][va] = VmmFlags(PageFlags(file[p], va), image[p][va])
        /\ va \in StackPart(p) =>
             space[p][va].frame \in stack[p].frames /\ space[p][va].write = TRUE /\ space[p][va].exec = FALSE
        /\ va \in FramebufferPart(p) =>
             space[p][va] = [frame |-> Device(va - FramebufferVa), write |-> TRUE, exec |-> FALSE]

\* What may be in a frame of p.
Mine(p, f, c) ==
    \/ c = Zero
    \/ /\ c.by = p
       /\ c.what = "written" =>
            \A va \in DOMAIN image[p] : image[p][va] = f => "write" \in PageFlags(file[p], va)

DataOk(p) == \A f \in ReleasedFrames(p) : Mine(p, f, content[f])

\* A launch that came to its end.
Built(p) ==
    /\ NoWritableCode(file[p])
    /\ DOMAIN image[p] = ImagePages(file[p]) /\ ImagePages(file[p]) \subseteq DOMAIN space[p]
    /\ stack[p].mapped

\* There is no such process.
Gone(p) ==
    /\ DOMAIN image[p] = {} /\ DOMAIN space[p] = {} /\ stack[p] = NoStack
    /\ thread[p] = "none" /\ owner # p

Process1(p) ==
    IF kind[p] = None
    THEN Gone(p)
    ELSE /\ ImageOk(p) /\ SpaceOk(p) /\ DataOk(p)
         /\ thread[p] = "running" => Built(p)
         /\ thread[p] = "none" => owner # p

\* How far the launch of p is.
Stage(p, step) ==
    /\ step = "pages" => DOMAIN space[p] = DOMAIN image[p]
    /\ step = "map" =>
         /\ NoWritableCode(file[p])
         /\ \E va \in DOMAIN image[p] : va \notin DOMAIN space[p] /\ DOMAIN image[p] = DOMAIN space[p] \cup {va}
    /\ step \notin {"pages", "map"} =>
         /\ NoWritableCode(file[p])
         /\ DOMAIN image[p] = ImagePages(file[p]) /\ ImagePages(file[p]) \subseteq DOMAIN space[p]
    /\ step \notin {"map_stack", "thread"} => stack[p] = NoStack
    /\ step = "map_stack" => ~ stack[p].mapped /\ Cardinality(stack[p].frames) = StackSize(kind[p])
    /\ step = "thread" => stack[p].mapped

JobOk ==
    job # None =>
        /\ kind[job.p] # None /\ thread[job.p] = "none"
        /\ capacity[job.p] = PageCapacity(file[job.p])
        /\ kind[job.p] = "application" => slots >= 1
        /\ Stage(job.p, job.step)

\* Every frame is free or recorded for one process.
FramesOk ==
    /\ free = pool \ UNION {ReleasedFrames(p) : p \in Process}
    /\ \A p, q \in Process : p # q => ReleasedFrames(p) \cap ReleasedFrames(q) = {}

Inv == Types /\ JobOk /\ FramesOk /\ \A p \in Process : Process1(p)

-----------------------------------------------------------------------------
(* One process at a time.                                                   *)

LEMMA Pool ==
    ASSUME Types
    PROVE  pool \subseteq Frame /\ pool \subseteq Nat \ {0} /\ IsFiniteSet(pool) /\ Frame \subseteq Nat
<1>1. PICK n \in PoolSizes : pool = 1..n
  BY DEF Types
<1>2. n \in Nat /\ n <= Max(PoolSizes) /\ Max(PoolSizes) \in Nat
  BY PoolsAssumption, MaxExists
<1>3. IsFiniteSet(1..n)
  BY <1>2, FS_Interval
<1>4. QED
  BY <1>1, <1>2, <1>3 DEF Frame

LEMMA FramesIn ==
    ASSUME Inv, NEW p \in Process
    PROVE  /\ ReleasedFrames(p) \subseteq pool /\ ReleasedFrames(p) \cap free = {}
           /\ free \subseteq pool /\ IsFiniteSet(free)
<1>1. stack[p] \in [frames : SUBSET pool, mapped : BOOLEAN]
  BY DEF Inv, Types
<1>2. \A va \in DOMAIN image[p] : image[p][va] \in pool
  BY DEF Inv, Process1, Gone, ImageOk
<1>3. ReleasedFrames(p) \subseteq pool
  BY <1>1, <1>2 DEF ReleasedFrames
<1>4. free \subseteq pool /\ ReleasedFrames(p) \cap free = {}
  BY DEF Inv, FramesOk
<1>5. IsFiniteSet(free)
  BY <1>4, Pool, FS_Subset DEF Inv
<1>6. QED
  BY <1>3, <1>4, <1>5

\* A step that leaves q alone.
Untouched(q) ==
    /\ kind'[q] = kind[q] /\ thread'[q] = thread[q] /\ space'[q] = space[q] /\ image'[q] = image[q]
    /\ capacity'[q] = capacity[q] /\ stack'[q] = stack[q] /\ file'[q] = file[q]
    /\ owner' = q <=> owner = q

LEMMA OtherProcess ==
    ASSUME NEW q \in Process, Untouched(q), pool' = pool, Process1(q),
           \A f \in ReleasedFrames(q) : content'[f] = content[f]
    PROVE  Process1(q)' /\ ReleasedFrames(q)' = ReleasedFrames(q)
<1>1. ReleasedFrames(q)' = ReleasedFrames(q)
  BY DEF ReleasedFrames, Untouched
<1>2. StackPart(q)' = StackPart(q)
  BY DEF StackPart, Untouched
<1>3. FramebufferPart(q)' = FramebufferPart(q)
  BY DEF FramebufferPart, Untouched
<1>4. CASE kind[q] = None
  BY <1>1, <1>4 DEF Process1, Gone, Untouched
<1>5. CASE kind[q] # None
  <2>1. ImageOk(q)'
    BY <1>5 DEF Process1, ImageOk, Untouched
  <2>2. SpaceOk(q)'
    BY <1>2, <1>3, <1>5 DEF Process1, SpaceOk, Untouched
  <2>3. DataOk(q)'
    <3>1. ASSUME NEW f \in ReleasedFrames(q) PROVE Mine(q, f, content[f])' <=> Mine(q, f, content[f])
      BY DEF Mine, Untouched
    <3>2. QED
      BY <1>1, <1>5, <3>1 DEF Process1, DataOk
  <2>4. thread'[q] = "running" => Built(q)'
    BY <1>5 DEF Process1, Built, Untouched
  <2>5. QED
    BY <1>1, <1>5, <2>1, <2>2, <2>3, <2>4 DEF Process1, Untouched
<1>6. QED
  BY <1>1, <1>4, <1>5

\* A step of p, seen from the others.
StepOf(p) ==
    /\ pool' = pool
    /\ \A q \in Process \ {p} : Untouched(q)
    /\ ReleasedFrames(p)' \subseteq ReleasedFrames(p) \cup free
    /\ free' = (free \cup ReleasedFrames(p)) \ ReleasedFrames(p)'
    /\ \A f \in Frame : f \notin free /\ f \notin ReleasedFrames(p) => content'[f] = content[f]

LEMMA Assembled ==
    ASSUME Inv, NEW p \in Process, Types', JobOk', StepOf(p), Process1(p)'
    PROVE  Inv'
<1>1. \A q \in Process : ReleasedFrames(q) \subseteq pool /\ ReleasedFrames(q) \cap free = {}
  BY FramesIn
<1>2. pool \subseteq Frame
  BY Pool DEF Inv
<1>3. ASSUME NEW q \in Process \ {p}
      PROVE  Process1(q)' /\ ReleasedFrames(q)' = ReleasedFrames(q)
  <2>1. \A f \in ReleasedFrames(q) : f \notin free /\ f \notin ReleasedFrames(p) /\ f \in Frame
    BY <1>1, <1>2 DEF Inv, FramesOk
  <2>2. \A f \in ReleasedFrames(q) : content'[f] = content[f]
    BY <2>1 DEF StepOf
  <2>3. QED
    BY <2>2, OtherProcess DEF Inv, StepOf
<1> DEFINE R(q) == ReleasedFrames(q)
           N(q) == ReleasedFrames(q)'
<1>4. /\ free = pool \ UNION {R(q) : q \in Process}
      /\ \A q, r \in Process : q # r => R(q) \cap R(r) = {}
      /\ \A q \in Process \ {p} : N(q) = R(q)
      /\ N(p) \subseteq R(p) \cup free
      /\ free' = (free \cup R(p)) \ N(p) /\ pool' = pool
      /\ \A q \in Process : R(q) \subseteq pool
  BY <1>1, <1>3 DEF Inv, FramesOk, StepOf
<1>5. (free' = pool \ UNION {N(q) : q \in Process}) /\ \A q, r \in Process : q # r => N(q) \cap N(r) = {}
  <2> HIDE DEF R, N
  <2>1. \A q \in Process \ {p} : N(q) \cap N(p) = {}
    BY <1>4
  <2>2. \A q, r \in Process : q # r => N(q) \cap N(r) = {}
    BY <1>4, <2>1
  <2>3. ASSUME NEW f PROVE f \in free' <=> f \in pool /\ \A q \in Process : f \notin N(q)
    BY <1>4
  <2>4. QED
    BY <2>2, <2>3
<1>6. FramesOk'
  BY <1>4, <1>5 DEF FramesOk
<1>7. QED
  BY <1>3, <1>6 DEF Inv

\* Nothing is mapped twice, and no frame is written that is not its own.
LEMMA SpaceOf ==
    ASSUME Inv, NEW p \in Process, kind[p] # None, NEW va \in DOMAIN space[p]
    PROVE  /\ va \in DOMAIN image[p] => space[p][va].frame = image[p][va]
           /\ va \in StackPart(p) => space[p][va].frame \in stack[p].frames
           /\ va \in FramebufferPart(p) => space[p][va].frame \notin Frame
           /\ va \notin FramebufferPart(p) => space[p][va].frame \in ReleasedFrames(p)
           /\ va \in DOMAIN image[p] \/ va \in StackPart(p) \/ va \in FramebufferPart(p)
           /\ va \in FramebufferPart(p) => va \notin DOMAIN image[p] /\ va \notin StackPart(p)
           /\ va \in StackPart(p) => va \notin DOMAIN image[p]
<1>1. SpaceOk(p)
  BY DEF Inv, Process1
<1>2. va \in DOMAIN image[p] => space[p][va].frame = image[p][va]
  <2>1. va \in DOMAIN image[p] => space[p][va] = VmmFlags(PageFlags(file[p], va), image[p][va])
    BY <1>1 DEF SpaceOk
  <2>2. \A flags, f : VmmFlags(flags, f).frame = f
    BY DEF VmmFlags
  <2>3. QED
    BY <2>1, <2>2
<1>3. va \in StackPart(p) => space[p][va].frame \in stack[p].frames
  BY <1>1 DEF SpaceOk
<1>4. ASSUME va \in FramebufferPart(p) PROVE space[p][va].frame \notin Frame
  <2>6. space[p][va] = [frame |-> Device(va - FramebufferVa), write |-> TRUE, exec |-> FALSE]
    BY <1>1, <1>4 DEF SpaceOk
  <2>1. space[p][va].frame = Device(va - FramebufferVa)
    BY <2>6
  <2>2. va \in FramebufferVa..(FramebufferVa + FramebufferPages - 1)
    BY <1>4 DEF FramebufferPart, FramebufferVas
  <2>3. va - FramebufferVa \in Nat
    BY <2>2, Sizes
  <2>4. Device(va - FramebufferVa) \notin Nat
    BY <2>3 DEF Device
  <2>5. QED
    BY <2>1, <2>4, Pool DEF Inv
<1>5. va \in DOMAIN image[p] \/ va \in StackPart(p) \/ va \in FramebufferPart(p)
  BY <1>1 DEF SpaceOk
<1>6. /\ va \in FramebufferPart(p) => va \notin DOMAIN image[p] /\ va \notin StackPart(p)
      /\ va \in StackPart(p) => va \notin DOMAIN image[p]
  BY <1>1 DEF SpaceOk
<1>7. QED
  BY <1>2, <1>3, <1>4, <1>5, <1>6 DEF ReleasedFrames

LEMMA InitInv == Init => Inv
<1> SUFFICES ASSUME Init PROVE Inv
  OBVIOUS
<1>1. \A p \in Process : DOMAIN image[p] = {} /\ DOMAIN space[p] = {} /\ stack[p] = NoStack /\ kind[p] = None
  BY DEF Init, Empty
<1>2. \A p \in Process : ReleasedFrames(p) = {}
  BY <1>1 DEF ReleasedFrames, NoStack
<1>3. Types
  <2>1. stack \in [Process -> [frames : SUBSET pool, mapped : BOOLEAN]]
    BY DEF Init, NoStack
  <2>2. DOMAIN content = Frame
    BY DEF Init
  <2>3. slots \in 0..SlotCount
    BY Sizes DEF Init
  <2>4. /\ kind \in [Process -> Kinds \cup {None}]
        /\ thread \in [Process -> {"none", "running", "exited"}]
        /\ DOMAIN space = Process /\ DOMAIN image = Process
        /\ capacity \in [Process -> Nat] /\ DOMAIN file = Process
    BY DEF Init
  <2>5. /\ boot = "ready" /\ job = None /\ owner = None
        /\ \E n \in PoolSizes : pool = 1..n
    BY DEF Init
  <2>6. QED
    BY <2>1, <2>2, <2>3, <2>4, <2>5 DEF Types
<1>4. \A p \in Process : Process1(p)
  BY <1>1, NoneAssumption DEF Process1, Gone, Init
<1>5. FramesOk
  BY <1>2 DEF FramesOk, Init
<1>6. JobOk
  BY DEF JobOk, Init
<1>7. QED
  BY <1>3, <1>4, <1>5, <1>6 DEF Inv

-----------------------------------------------------------------------------
(* The launch.                                                              *)

\* A step of p that leaves what is recorded for it.
LEMMA Quiet ==
    ASSUME Inv, NEW p \in Process, pool' = pool, free' = free, ReleasedFrames(p)' = ReleasedFrames(p),
           \A q \in Process \ {p} : Untouched(q),
           \A f \in Frame : f \notin ReleasedFrames(p) => content'[f] = content[f]
    PROVE  StepOf(p)
<1>1. ReleasedFrames(p) \cap free = {}
  BY FramesIn
<1>2. QED
  BY <1>1 DEF StepOf

\* What holds of the process being launched.
LEMMA JobProcess ==
    ASSUME Inv, job # None
    PROVE  \E p \in Process : p = job.p
BY DEF Inv, Types

Launching(p) ==
    /\ job.step \in Steps /\ \A step : [job EXCEPT !.step = step] = [p |-> p, step |-> step]
    /\ kind[p] \in Kinds /\ kind[p] # None /\ thread[p] = "none" /\ owner # p /\ FramebufferPart(p) = {}
    /\ ImageOk(p) /\ SpaceOk(p) /\ DataOk(p) /\ Stage(p, job.step)
    /\ capacity[p] = PageCapacity(file[p])
    /\ kind[p] = "application" => slots >= 1

LEMMA Launched ==
    ASSUME Inv, job # None, NEW p, p = job.p
    PROVE  Launching(p)
<1>1. job \in [p : Process, step : Steps]
  BY DEF Inv, Types
<1>2. /\ kind[p] # None /\ thread[p] = "none" /\ Stage(p, job.step)
      /\ capacity[p] = PageCapacity(file[p])
      /\ kind[p] = "application" => slots >= 1
  BY DEF Inv, JobOk
<1>3. kind[p] \in Kinds
  BY <1>1, <1>2 DEF Inv, Types
<1>4. ImageOk(p) /\ SpaceOk(p) /\ DataOk(p) /\ owner # p
  BY <1>1, <1>2 DEF Inv, Process1
<1>5. ASSUME NEW step PROVE [job EXCEPT !.step = step] = [p |-> p, step |-> step]
  BY <1>1
<1>6. FramebufferPart(p) = {}
  BY <1>4 DEF FramebufferPart
<1>7. job.step \in Steps
  BY <1>1
<1>8. QED
  BY <1>2, <1>3, <1>4, <1>5, <1>6, <1>7, Zenon DEF Launching

LEMMA Began ==
    ASSUME Inv, NEW k \in Kinds, NEW e \in Files, Begin(k, e),
           boot' \in {"ready", "testing", "tested", "starting", "up", "halted"},
           slots' \in 0..SlotCount, k = "application" => slots' >= 1
    PROVE  Inv'
<1>1. PICK p \in Process \ Live :
        /\ kind' = [kind EXCEPT ![p] = k]
        /\ file' = [file EXCEPT ![p] = e]
        /\ job' = [p |-> p, step |-> "pages"]
        /\ capacity' = [capacity EXCEPT ![p] = PageCapacity(e)]
  BY DEF Begin
<1>2. /\ Analyze(e) /\ thread' = thread /\ space' = space /\ image' = image /\ stack' = stack
      /\ pool' = pool /\ free' = free /\ content' = content /\ owner' = owner
  BY DEF Begin
<1>3. p \in Process /\ Gone(p)
  BY DEF Inv, Process1, Live
<1>4. Types
  BY DEF Inv
<1>5. /\ kind'[p] = k /\ file'[p] = e /\ capacity'[p] = PageCapacity(e)
      /\ \A q \in Process \ {p} : kind'[q] = kind[q] /\ file'[q] = file[q] /\ capacity'[q] = capacity[q]
  BY <1>1, <1>4 DEF Types
<1>6. Types'
  <2>1. PageCapacity(e) \in Nat
    BY ImagePagesBounded
  <2>2. QED
    BY <1>1, <1>2, <1>4, <2>1 DEF Types, Steps
<1>7. ReleasedFrames(p) = {} /\ ReleasedFrames(p)' = {}
  BY <1>2, <1>3 DEF ReleasedFrames, Gone, NoStack
<1>8. StepOf(p)
  BY <1>2, <1>3, <1>5, <1>7, Quiet DEF Untouched
<1>9. k # None
  BY NoneAssumption DEF Kinds
<1>10. ImageOk(p)'
  BY <1>2, <1>3, <1>5 DEF ImageOk, Gone
<1>11. StackPart(p)' = {} /\ FramebufferPart(p)' = {}
  BY <1>2, <1>3 DEF StackPart, FramebufferPart, Gone, NoStack
<1>12. SpaceOk(p)'
  BY <1>2, <1>3, <1>11 DEF SpaceOk, Gone
<1>13. Process1(p)'
  BY <1>2, <1>3, <1>5, <1>7, <1>9, <1>10, <1>12 DEF Process1, DataOk, Gone
<1>14. Stage(p, "pages")'
  BY <1>2, <1>3 DEF Stage, Gone
<1>15. JobOk'
  <2>1. job'.p = p /\ job'.step = "pages"
    BY <1>1
  <2>2. QED
    BY <1>2, <1>3, <1>5, <1>9, <1>14, <2>1 DEF JobOk, Gone
<1>16. QED
  BY <1>3, <1>6, <1>8, <1>13, <1>15, Assembled

LEMMA TakePageInv == ASSUME Inv, TakePage PROVE Inv'
<1>1. job # None /\ job.step = "pages"
  BY DEF TakePage, At
<1> PICK p \in Process : p = job.p
  BY <1>1, JobProcess
<1> DEFINE D == DOMAIN image[p]
           todo == ImagePages(file[p]) \ D
           R == ReleasedFrames(p)
<1> PICK m : m = Min(todo)
  OBVIOUS
<1> PICK frame : frame = Min(free)
  OBVIOUS
<1>2. /\ kind[p] \in Kinds /\ kind[p] # None /\ thread[p] = "none" /\ owner # p /\ FramebufferPart(p) = {}
      /\ ImageOk(p) /\ SpaceOk(p) /\ DataOk(p)
      /\ capacity[p] = PageCapacity(file[p]) /\ (kind[p] = "application" => slots >= 1)
      /\ Stage(p, "pages") /\ [job EXCEPT !.step = "map"] = [p |-> p, step |-> "map"]
  BY <1>1, Launched DEF Launching
<1>3. DOMAIN space[p] = D /\ stack[p] = NoStack
  BY <1>2 DEF Stage
<1>4. /\ NoWritableCode(file[p]) /\ todo # {} /\ free # {}
      /\ free' = free \ {frame}
      /\ image' = [image EXCEPT ![p] = [va \in DOMAIN @ \cup {m} |-> IF va \in DOMAIN @ THEN @[va] ELSE frame]]
      /\ content' = Cleared({frame})
      /\ job' = [p |-> p, step |-> "map"]
      /\ UNCHANGED <<boot, kind, thread, space, capacity, stack, file, pool, owner, slots>>
  BY <1>2 DEF TakePage, Goto
<1>5. m \in todo
  <2>1. file[p] \in Files
    BY <1>2 DEF ImageOk
  <2>2. ImagePages(file[p]) \subseteq Nat /\ IsFiniteSet(ImagePages(file[p]))
    BY <2>1, ImagePagesBounded
  <2>3. IsFiniteSet(todo) /\ todo \subseteq Nat
    BY <2>2, FS_Subset
  <2> HIDE DEF todo
  <2>4. QED
    BY <1>4, <2>3, MinExists
<1>6. frame \in free /\ frame \in pool /\ R \cap free = {} /\ frame \in Frame
  <2>1. free \subseteq pool /\ IsFiniteSet(free) /\ R \cap free = {}
    BY <1>2, FramesIn
  <2>2. pool \subseteq Nat /\ pool \subseteq Frame
    BY Pool DEF Inv
  <2>3. frame \in free
    BY <1>4, <2>1, <2>2, MinExists
  <2>4. QED
    BY <2>1, <2>2, <2>3
<1> HIDE DEF todo
<1>7. /\ DOMAIN image'[p] = D \cup {m} /\ image'[p][m] = frame
      /\ \A va \in D : image'[p][va] = image[p][va]
      /\ \A q \in Process \ {p} : image'[q] = image[q]
      /\ DOMAIN image' = Process
  <2>1. DOMAIN image = Process
    BY DEF Inv, Types
  <2>2. m \notin D
    BY <1>5 DEF todo
  <2>3. image'[p] = [va \in D \cup {m} |-> IF va \in D THEN image[p][va] ELSE frame]
    BY <1>2, <1>4, <2>1
  <2>4. (\A q \in Process \ {p} : image'[q] = image[q]) /\ DOMAIN image' = Process
    BY <1>4, <2>1
  <2>5. QED
    BY <2>2, <2>3, <2>4
<1>8. content'[frame] = Zero /\ \A f \in Frame : f # frame => content'[f] = content[f]
  BY <1>4, <1>6 DEF Cleared
<1>9. stack[p].frames = {} /\ stack[p].mapped = FALSE
  BY <1>3 DEF NoStack
<1>10. R = {image[p][va] : va \in D} /\ ReleasedFrames(p)' = R \cup {frame}
  <2>1. R = {image[p][va] : va \in D}
    BY <1>9 DEF ReleasedFrames
  <2>2. ReleasedFrames(p)' = {image'[p][va] : va \in D \cup {m}}
    <3>1. ReleasedFrames(p)' = {image'[p][va] : va \in DOMAIN image'[p]} \cup stack'[p].frames
      BY DEF ReleasedFrames
    <3>2. stack'[p].frames = {}
      BY <1>4, <1>9
    <3>3. QED
      BY <1>7, <3>1, <3>2
  <2>3. QED
    BY <1>7, <2>1, <2>2
<1>11. StepOf(p)
  <2>1. \A q \in Process \ {p} : Untouched(q)
    BY <1>4, <1>7 DEF Untouched
  <2>2. free' = (free \cup R) \ (R \cup {frame})
    BY <1>4, <1>6
  <2>3. QED
    BY <1>4, <1>6, <1>8, <1>10, <2>1, <2>2 DEF StepOf
<1> HIDE DEF R
<1>12. Types'
  <2>1. Types
    BY DEF Inv
  <2>2. DOMAIN content' = Frame
    BY <1>4 DEF Cleared
  <2>3. job' \in [p : Process, step : Steps]
    BY <1>2, <1>4 DEF Steps
  <2>4. QED
    BY <1>4, <1>7, <2>1, <2>2, <2>3 DEF Types
<1>13. ImageOk(p)'
  <2>1. ASSUME NEW va \in D \cup {m}, NEW vb \in D \cup {m}, image'[p][va] = image'[p][vb] PROVE va = vb
    BY <1>2, <1>6, <1>7, <1>10, <2>1 DEF ImageOk
  <2>2. \A va \in D \cup {m} : image'[p][va] \in pool
    BY <1>2, <1>6, <1>7 DEF ImageOk
  <2>3. D \cup {m} \subseteq ImagePages(file[p])
    BY <1>2, <1>5 DEF ImageOk, todo
  <2>4. QED
    BY <1>2, <1>4, <1>7, <1>9, <2>1, <2>2, <2>3 DEF ImageOk
<1>14. StackPart(p)' = {} /\ FramebufferPart(p)' = {} /\ StackPart(p) = {}
  BY <1>2, <1>4, <1>9 DEF StackPart, FramebufferPart
<1>15. SpaceOk(p)'
  BY <1>2, <1>3, <1>4, <1>7, <1>14 DEF SpaceOk
<1>16. DataOk(p)'
  <2>1. ASSUME NEW f \in R PROVE Mine(p, f, content[f])'
    <3>1. f # frame /\ f \in Frame
      BY <1>2, <1>6, FramesIn, Pool DEF Inv, R
    <3>2. content'[f] = content[f] /\ Mine(p, f, content[f])
      BY <1>2, <1>8, <3>1 DEF DataOk, R
    <3>3. \A va \in D \cup {m} : image'[p][va] = f => va \in D /\ image[p][va] = f
      BY <1>7, <3>1
    <3>4. QED
      BY <1>4, <1>7, <3>2, <3>3 DEF Mine
  <2>2. Mine(p, frame, content[frame])'
    BY <1>8 DEF Mine
  <2>3. QED
    BY <1>10, <2>1, <2>2 DEF DataOk
<1>17. Process1(p)'
  BY <1>2, <1>4, <1>13, <1>15, <1>16, NoneAssumption DEF Process1, Kinds
<1>18. Stage(p, "map")'
  BY <1>3, <1>4, <1>5, <1>7 DEF Stage, todo
<1>19. JobOk'
  <2>1. job'.p = p /\ job'.step = "map"
    BY <1>4
  <2>2. QED
    BY <1>2, <1>4, <1>18, <2>1, NoneAssumption DEF JobOk, Kinds
<1>20. QED
  BY <1>2, <1>11, <1>12, <1>17, <1>19, Assembled

\* A step that does not touch what is recorded for p.
RecordsOf(p) ==
    /\ image'[p] = image[p] /\ capacity'[p] = capacity[p] /\ file'[p] = file[p]
    /\ stack'[p].frames = stack[p].frames /\ pool' = pool

LEMMA RecordsKept ==
    ASSUME NEW p \in Process, RecordsOf(p)
    PROVE  /\ ReleasedFrames(p)' = ReleasedFrames(p)
           /\ ImageOk(p) => ImageOk(p)'
           /\ content' = content /\ DataOk(p) => DataOk(p)'
<1>1. ReleasedFrames(p)' = ReleasedFrames(p)
  BY DEF ReleasedFrames, RecordsOf
<1>2. ImageOk(p) => ImageOk(p)'
  BY DEF ImageOk, RecordsOf
<1>3. ASSUME content' = content, DataOk(p) PROVE DataOk(p)'
  BY <1>1, <1>3 DEF DataOk, Mine, RecordsOf
<1>4. QED
  BY <1>1, <1>2, <1>3

LEMMA MapPageInv == ASSUME Inv, MapPage PROVE Inv'
<1>1. job # None /\ job.step = "map"
  BY DEF MapPage, At
<1> PICK p \in Process : p = job.p
  BY <1>1, JobProcess
<1> PICK va : va = Min(DOMAIN image[p] \ DOMAIN space[p])
  OBVIOUS
<1> PICK next : next = IF DOMAIN image[p] = ImagePages(file[p]) THEN "copy" ELSE "pages"
  OBVIOUS
<1> PICK leaf : leaf = VmmFlags(PageFlags(file[p], va), image[p][va])
  OBVIOUS
<1>2. /\ kind[p] \in Kinds /\ kind[p] # None /\ thread[p] = "none" /\ owner # p /\ FramebufferPart(p) = {}
      /\ ImageOk(p) /\ SpaceOk(p) /\ DataOk(p)
      /\ capacity[p] = PageCapacity(file[p]) /\ (kind[p] = "application" => slots >= 1)
      /\ Stage(p, "map") /\ [job EXCEPT !.step = next] = [p |-> p, step |-> next]
  BY <1>1, Launched DEF Launching
<1>3. /\ space' = [space EXCEPT ![p] = [v \in DOMAIN @ \cup {va} |-> IF v = va THEN leaf ELSE @[v]]]
      /\ job' = [p |-> p, step |-> next]
      /\ UNCHANGED <<boot, kind, thread, image, capacity, stack, file, pool, free, content, owner, slots>>
  BY <1>2 DEF MapPage, Goto
<1>4. NoWritableCode(file[p]) /\ stack[p] = NoStack
  BY <1>2 DEF Stage
<1>5. va \in DOMAIN image[p] /\ va \notin DOMAIN space[p] /\ DOMAIN image[p] = DOMAIN space[p] \cup {va}
  <2>1. PICK v \in DOMAIN image[p] : v \notin DOMAIN space[p] /\ DOMAIN image[p] = DOMAIN space[p] \cup {v}
    BY <1>2 DEF Stage
  <2>2. DOMAIN image[p] \ DOMAIN space[p] = {v}
    BY <2>1
  <2>3. v \in Nat
    <3>1. v \in ImagePages(file[p]) /\ file[p] \in Files
      BY <1>2 DEF ImageOk
    <3>2. QED
      BY <3>1, ImagePagesBounded
  <2>4. Min({v}) \in {v}
    <3>1. {v} \in SUBSET Nat /\ IsFiniteSet({v}) /\ {v} # {}
      BY <2>3, FS_Singleton
    <3>2. QED
      BY <3>1, MinExists
  <2>5. QED
    BY <2>1, <2>2, <2>4
<1>6. /\ DOMAIN space'[p] = DOMAIN image[p] /\ space'[p][va] = leaf
      /\ \A v \in DOMAIN space[p] : space'[p][v] = space[p][v]
      /\ \A q \in Process \ {p} : space'[q] = space[q]
      /\ DOMAIN space' = Process
  <2>1. DOMAIN space = Process
    BY DEF Inv, Types
  <2>2. space'[p] = [v \in DOMAIN space[p] \cup {va} |-> IF v = va THEN leaf ELSE space[p][v]]
    BY <1>3, <2>1
  <2>3. (\A q \in Process \ {p} : space'[q] = space[q]) /\ DOMAIN space' = Process
    BY <1>3, <2>1
  <2>4. QED
    BY <1>5, <2>2, <2>3
<1>7. RecordsOf(p)
  BY <1>3 DEF RecordsOf
<1>8. StepOf(p)
  BY <1>3, <1>6, <1>7, RecordsKept, Quiet DEF Untouched
<1>9. next \in {"copy", "pages"} /\ (next = "copy" => DOMAIN image[p] = ImagePages(file[p]))
  OBVIOUS
<1>10. Types'
  <2>1. job' \in [p : Process, step : Steps]
    BY <1>3, <1>9 DEF Steps
  <2>2. Types
    BY DEF Inv
  <2>3. QED
    BY <1>3, <1>6, <2>1, <2>2 DEF Types
<1>11. StackPart(p)' = {} /\ FramebufferPart(p)' = {}
  BY <1>2, <1>3, <1>4 DEF StackPart, FramebufferPart, NoStack
<1>12. SpaceOk(p)'
  <2>1. ASSUME NEW v \in DOMAIN space'[p] PROVE space'[p][v] = VmmFlags(PageFlags(file[p], v), image[p][v])
    <3>1. CASE v = va
      BY <1>6, <3>1
    <3>2. CASE v # va
      <4>1. v \in DOMAIN space[p] /\ v \in DOMAIN image[p]
        BY <1>5, <1>6, <3>2
      <4>2. space[p][v] = VmmFlags(PageFlags(file[p], v), image[p][v])
        BY <1>2, <4>1 DEF SpaceOk
      <4>3. QED
        BY <1>6, <4>1, <4>2
    <3>3. QED
      BY <3>1, <3>2
  <2>2. QED
    BY <1>3, <1>6, <1>11, <2>1 DEF SpaceOk
<1>13. Process1(p)'
  BY <1>2, <1>3, <1>7, <1>12, RecordsKept DEF Process1
<1>14. Stage(p, next)'
  <2>1. CASE next = "copy"
    <3>1. Stage(p, "copy")'
      BY <1>3, <1>4, <1>6, <1>9, <2>1 DEF Stage
    <3>2. QED
      BY <2>1, <3>1
  <2>2. CASE next = "pages"
    <3>1. Stage(p, "pages")'
      BY <1>3, <1>4, <1>6 DEF Stage
    <3>2. QED
      BY <2>2, <3>1
  <2>3. QED
    BY <1>9, <2>1, <2>2
<1>15. JobOk'
  <2>1. job'.p = p /\ job'.step = next
    BY <1>3
  <2>2. QED
    BY <1>2, <1>3, <1>14, <2>1 DEF JobOk
<1>16. QED
  BY <1>8, <1>10, <1>13, <1>15, Assembled

LEMMA CopySegmentsInv == ASSUME Inv, CopySegments PROVE Inv'
<1>1. job # None /\ job.step = "copy"
  BY DEF CopySegments, At
<1> PICK p \in Process : p = job.p
  BY <1>1, JobProcess
<1>2. /\ kind[p] \in Kinds /\ kind[p] # None /\ thread[p] = "none" /\ owner # p /\ FramebufferPart(p) = {}
      /\ ImageOk(p) /\ SpaceOk(p) /\ DataOk(p)
      /\ capacity[p] = PageCapacity(file[p]) /\ (kind[p] = "application" => slots >= 1)
      /\ Stage(p, "copy") /\ [job EXCEPT !.step = "stack"] = [p |-> p, step |-> "stack"]
  BY <1>1, Launched DEF Launching
<1>3. /\ FilePages(file[p]) \subseteq DOMAIN image[p]
      /\ content' = [f \in Frame |-> IF \E va \in FilePages(file[p]) : image[p][va] = f
                                     THEN [by |-> p, what |-> "file"] ELSE content[f]]
      /\ job' = [p |-> p, step |-> "stack"]
      /\ UNCHANGED <<boot, processVars, pool, free, owner, slots>>
  BY <1>2 DEF CopySegments, Goto
<1>4. /\ kind' = kind /\ thread' = thread /\ space' = space /\ image' = image /\ capacity' = capacity
      /\ stack' = stack /\ file' = file /\ pool' = pool /\ free' = free /\ owner' = owner /\ slots' = slots
      /\ boot' = boot
  BY <1>3 DEF processVars
<1>5. RecordsOf(p) /\ \A q \in Process : Untouched(q)
  BY <1>4 DEF RecordsOf, Untouched
<1>6. \A f \in Frame : f \notin ReleasedFrames(p) => content'[f] = content[f]
  <2>1. \A va \in FilePages(file[p]) : image[p][va] \in ReleasedFrames(p)
    BY <1>3 DEF ReleasedFrames
  <2>2. QED
    BY <1>3, <2>1
<1>7. StepOf(p)
  BY <1>4, <1>5, <1>6, RecordsKept, Quiet
<1>8. Types'
  <2>1. job' \in [p : Process, step : Steps]
    BY <1>3 DEF Steps
  <2>2. DOMAIN content' = Frame
    BY <1>3
  <2>3. QED
    BY <1>4, <2>1, <2>2 DEF Types, Inv
<1>9. StackPart(p)' = StackPart(p) /\ FramebufferPart(p)' = FramebufferPart(p)
  BY <1>4 DEF StackPart, FramebufferPart
<1>10. SpaceOk(p)'
  BY <1>2, <1>4, <1>9 DEF SpaceOk
<1>11. DataOk(p)'
  <2>1. ASSUME NEW f \in ReleasedFrames(p) PROVE Mine(p, f, content[f])'
    <3>1. f \in Frame
      BY FramesIn, Pool DEF Inv
    <3>2. CASE \E va \in FilePages(file[p]) : image[p][va] = f
      <4>1. content'[f] = [by |-> p, what |-> "file"]
        BY <1>3, <3>1, <3>2
      <4>2. content'[f].by = p /\ content'[f].what = "file"
        BY <4>1
      <4>3. QED
        BY <4>2 DEF Mine
    <3>3. CASE ~ \E va \in FilePages(file[p]) : image[p][va] = f
      <4>1. content'[f] = content[f]
        BY <1>3, <3>1, <3>3
      <4>2. Mine(p, f, content[f])
        BY <1>2 DEF DataOk
      <4>3. QED
        BY <1>4, <4>1, <4>2 DEF Mine
    <3>4. QED
      BY <3>2, <3>3
  <2>2. QED
    BY <1>5, <2>1, RecordsKept DEF DataOk
<1>12. Process1(p)'
  BY <1>2, <1>4, <1>5, <1>10, <1>11, RecordsKept DEF Process1
<1>13. Stage(p, "stack")'
  BY <1>2, <1>4 DEF Stage
<1>14. JobOk'
  <2>1. job'.p = p /\ job'.step = "stack"
    BY <1>3
  <2>2. QED
    BY <1>2, <1>4, <1>13, <2>1 DEF JobOk
<1>15. QED
  BY <1>7, <1>8, <1>12, <1>14, Assembled

\* The stack is as large as the kind of process needs.
LEMMA StackPages1 ==
    ASSUME NEW k \in Kinds
    PROVE  /\ StackSize(k) \in Nat \ {0}
           /\ StackVa(k) \subseteq Nat /\ IsFiniteSet(StackVa(k)) /\ StackVa(k) # {}
           /\ Min(StackVa(k)) = PageFloor(UserTop) - StackSize(k)
           /\ \A va \in StackVa(k) : va - Min(StackVa(k)) \in 0..(StackSize(k) - 1)
<1> DEFINE t == PageFloor(UserTop)
           n == StackSize(k)
           V == StackVa(k)
<1>1. t \in Nat /\ n \in Nat \ {0}
  BY Boundaries, Sizes DEF StackSize
<1>2. V = (t - n)..(t - 1)
  BY DEF StackVa
<1>3. V \subseteq Nat
  BY StackInside DEF Kinds, Page
<1> HIDE DEF t, n, V
<1>4. IsFiniteSet(V)
  <2>1. t - n \in Int /\ t - 1 \in Int
    BY <1>1
  <2>2. QED
    BY <1>2, <2>1, FS_Interval
<1>5. t - n \in V
  BY <1>1, <1>2
<1>6. Min(V) \in V /\ \A x \in V : Min(V) <= x
  BY <1>3, <1>4, <1>5, MinExists
<1>7. Min(V) = t - n
  <2>1. Min(V) <= t - n /\ Min(V) >= t - n /\ Min(V) \in Int
    BY <1>1, <1>2, <1>5, <1>6
  <2>2. QED
    BY <1>1, <2>1
<1>8. \A va \in V : va - Min(V) \in 0..(n - 1)
  BY <1>1, <1>2, <1>7
<1>9. QED
  BY <1>1, <1>3, <1>4, <1>5, <1>7, <1>8 DEF t, n, V

LEMMA TakeStackInv == ASSUME Inv, TakeStack PROVE Inv'
<1>1. job # None /\ job.step = "stack"
  BY DEF TakeStack, At
<1> PICK p \in Process : p = job.p
  BY <1>1, JobProcess
<1> PICK n : n = StackSize(kind[p])
  OBVIOUS
<1> PICK frames : frames = Lowest(n)
  OBVIOUS
<1> DEFINE R == ReleasedFrames(p)
<1>2. /\ kind[p] \in Kinds /\ kind[p] # None /\ thread[p] = "none" /\ owner # p /\ FramebufferPart(p) = {}
      /\ ImageOk(p) /\ SpaceOk(p) /\ DataOk(p)
      /\ capacity[p] = PageCapacity(file[p]) /\ (kind[p] = "application" => slots >= 1)
      /\ Stage(p, "stack") /\ [job EXCEPT !.step = "map_stack"] = [p |-> p, step |-> "map_stack"]
  BY <1>1, Launched DEF Launching
<1>3. /\ Cardinality(free) >= n
      /\ free' = free \ frames
      /\ stack' = [stack EXCEPT ![p].frames = frames]
      /\ content' = Cleared(frames)
      /\ job' = [p |-> p, step |-> "map_stack"]
      /\ UNCHANGED <<boot, kind, thread, space, image, capacity, file, pool, owner, slots>>
  BY <1>2 DEF TakeStack, Goto
<1>4. /\ NoWritableCode(file[p]) /\ stack[p] = NoStack
      /\ DOMAIN image[p] = ImagePages(file[p]) /\ ImagePages(file[p]) \subseteq DOMAIN space[p]
  BY <1>2 DEF Stage
<1>5. free \subseteq pool /\ R \subseteq pool /\ R \cap free = {} /\ pool \subseteq Frame /\ free \subseteq Nat
      /\ IsFiniteSet(free)
  BY FramesIn, Pool DEF Inv
<1>6. frames \subseteq free /\ Cardinality(frames) = n
  <2>1. n \in Nat
    BY <1>2, StackPages1
  <2>2. Cardinality(free) \in Nat
    BY <1>5, FS_CardinalityType
  <2>3. n <= Cardinality(free)
    BY <1>3, <2>1, <2>2
  <2>4. \E s \in SUBSET free : Cardinality(s) = n /\ \A f \in s, g \in free \ s : f < g
    BY <1>5, <2>1, <2>3, LowestExists
  <2>5. frames = CHOOSE s \in SUBSET free : Cardinality(s) = n /\ \A f \in s, g \in free \ s : f < g
    BY DEF Lowest
  <2>6. QED
    BY <2>4, <2>5
<1>7. /\ stack'[p].frames = frames /\ stack'[p].mapped = FALSE
      /\ stack[p].frames = {} /\ stack[p].mapped = FALSE
      /\ \A q \in Process \ {p} : stack'[q] = stack[q]
      /\ stack' \in [Process -> [frames : SUBSET pool, mapped : BOOLEAN]]
  <2>1. stack \in [Process -> [frames : SUBSET pool, mapped : BOOLEAN]]
    BY DEF Inv, Types
  <2>2. stack'[p] = [stack[p] EXCEPT !.frames = frames] /\ \A q \in Process \ {p} : stack'[q] = stack[q]
    BY <1>3, <2>1
  <2>3. stack[p].frames = {} /\ stack[p].mapped = FALSE
    BY <1>4 DEF NoStack
  <2>4. stack'[p] = [frames |-> frames, mapped |-> FALSE]
    <3>1. stack[p] \in [frames : SUBSET pool, mapped : BOOLEAN]
      BY <2>1
    <3>2. QED
      BY <2>2, <2>3, <3>1
  <2>5. frames \in SUBSET pool
    BY <1>5, <1>6
  <2>6. stack'[p] \in [frames : SUBSET pool, mapped : BOOLEAN]
    BY <2>4, <2>5
  <2>7. DOMAIN stack' = Process /\ stack' = [q \in Process |-> stack'[q]]
    BY <1>3, <2>1
  <2>8. stack' \in [Process -> [frames : SUBSET pool, mapped : BOOLEAN]]
    BY <2>1, <2>2, <2>6, <2>7
  <2>9. QED
    BY <2>2, <2>3, <2>4, <2>8
<1>8. /\ \A f \in frames : content'[f] = Zero
      /\ \A f \in Frame : f \notin frames => content'[f] = content[f]
  BY <1>3, <1>5, <1>6 DEF Cleared
<1>9. R = {image[p][va] : va \in DOMAIN image[p]} /\ ReleasedFrames(p)' = R \cup frames
  <2>1. R = {image[p][va] : va \in DOMAIN image[p]}
    BY <1>7 DEF ReleasedFrames
  <2>2. ReleasedFrames(p)' = {image'[p][va] : va \in DOMAIN image'[p]} \cup stack'[p].frames
    BY DEF ReleasedFrames
  <2>3. QED
    BY <1>3, <1>7, <2>1, <2>2
<1>10. StepOf(p)
  <2>1. \A q \in Process \ {p} : Untouched(q)
    BY <1>3, <1>7 DEF Untouched
  <2>2. free' = (free \cup R) \ (R \cup frames)
    BY <1>3, <1>5, <1>6
  <2>3. QED
    BY <1>3, <1>5, <1>6, <1>8, <1>9, <2>1, <2>2 DEF StepOf
<1> HIDE DEF R
<1>11. Types'
  <2>1. job' \in [p : Process, step : Steps]
    BY <1>3 DEF Steps
  <2>2. DOMAIN content' = Frame
    BY <1>3 DEF Cleared
  <2>3. QED
    BY <1>3, <1>7, <2>1, <2>2 DEF Types, Inv
<1>12. ImageOk(p)'
  <2>1. \A va \in DOMAIN image[p] : image[p][va] \in R /\ image[p][va] \notin frames
    BY <1>5, <1>6, <1>9
  <2>2. QED
    BY <1>2, <1>3, <1>7, <2>1 DEF ImageOk
<1>13. StackPart(p)' = StackPart(p) /\ FramebufferPart(p)' = FramebufferPart(p) /\ StackPart(p) = {}
  BY <1>3, <1>7 DEF StackPart, FramebufferPart
<1>14. SpaceOk(p)'
  BY <1>2, <1>3, <1>13 DEF SpaceOk
<1>15. DataOk(p)'
  <2>1. ASSUME NEW f \in R PROVE Mine(p, f, content[f])'
    <3>1. f \notin frames /\ f \in Frame
      BY <1>5, <1>6
    <3>2. content'[f] = content[f] /\ Mine(p, f, content[f])
      BY <1>2, <1>8, <3>1 DEF DataOk, R
    <3>3. QED
      BY <1>3, <3>2 DEF Mine
  <2>2. \A f \in frames : Mine(p, f, content[f])'
    BY <1>8 DEF Mine
  <2>3. QED
    BY <1>9, <2>1, <2>2 DEF DataOk
<1>16. Process1(p)'
  BY <1>2, <1>3, <1>12, <1>14, <1>15 DEF Process1
<1>17. Stage(p, "map_stack")'
  BY <1>3, <1>4, <1>6, <1>7 DEF Stage
<1>18. JobOk'
  <2>1. job'.p = p /\ job'.step = "map_stack"
    BY <1>3
  <2>2. QED
    BY <1>2, <1>3, <1>17, <2>1 DEF JobOk
<1>19. QED
  BY <1>10, <1>11, <1>16, <1>18, Assembled

LEMMA MapStackInv == ASSUME Inv, MapStack PROVE Inv'
<1>1. job # None /\ job.step = "map_stack"
  BY DEF MapStack, At
<1> PICK p \in Process : p = job.p
  BY <1>1, JobProcess
<1> PICK pages : pages = StackVa(kind[p])
  OBVIOUS
<1> PICK S : S = stack[p].frames
  OBVIOUS
<1> DEFINE FrameFor(va) == CHOOSE f \in S : Cardinality({g \in S : g < f}) = va - Min(pages)
           leaf(va) == [frame |-> FrameFor(va), write |-> TRUE, exec |-> FALSE]
<1>2. /\ kind[p] \in Kinds /\ kind[p] # None /\ thread[p] = "none" /\ owner # p /\ FramebufferPart(p) = {}
      /\ ImageOk(p) /\ SpaceOk(p) /\ DataOk(p)
      /\ capacity[p] = PageCapacity(file[p]) /\ (kind[p] = "application" => slots >= 1)
      /\ Stage(p, "map_stack") /\ [job EXCEPT !.step = "thread"] = [p |-> p, step |-> "thread"]
  BY <1>1, Launched DEF Launching
<1>3. /\ pages \cap DOMAIN space[p] = {}
      /\ space' = [space EXCEPT ![p] = [v \in DOMAIN @ \cup pages |-> IF v \in pages THEN leaf(v) ELSE @[v]]]
      /\ stack' = [stack EXCEPT ![p].mapped = TRUE]
      /\ job' = [p |-> p, step |-> "thread"]
      /\ UNCHANGED <<boot, kind, thread, image, capacity, file, pool, free, content, owner, slots>>
  BY <1>2 DEF MapStack, Goto
<1>4. /\ NoWritableCode(file[p]) /\ ~ stack[p].mapped /\ Cardinality(S) = StackSize(kind[p])
      /\ DOMAIN image[p] = ImagePages(file[p]) /\ ImagePages(file[p]) \subseteq DOMAIN space[p]
  BY <1>2 DEF Stage
<1>5. stack[p] \in [frames : SUBSET pool, mapped : BOOLEAN] /\ DOMAIN stack = Process /\ DOMAIN space = Process
  BY DEF Inv, Types
<1>6. ASSUME NEW va \in pages PROVE FrameFor(va) \in S
  <2>1. S \in SUBSET Nat /\ IsFiniteSet(S)
    <3>1. S \subseteq pool
      BY <1>5
    <3>2. QED
      BY <3>1, Pool, FS_Subset DEF Inv
  <2>2. va - Min(pages) \in 0..(Cardinality(S) - 1)
    BY <1>2, <1>4, StackPages1
  <2>3. \E f \in S : Cardinality(Lower(S, f)) = va - Min(pages)
    BY <2>1, <2>2, RankExists
  <2>4. QED
    BY <2>3 DEF Lower
<1>7. \A va \in pages : leaf(va).frame \in S /\ leaf(va).write = TRUE /\ leaf(va).exec = FALSE
  BY <1>6
<1> HIDE DEF leaf
<1>8. /\ DOMAIN space'[p] = DOMAIN space[p] \cup pages
      /\ \A v \in pages : space'[p][v] = leaf(v)
      /\ \A v \in DOMAIN space[p] : space'[p][v] = space[p][v]
      /\ \A q \in Process \ {p} : space'[q] = space[q]
      /\ DOMAIN space' = Process
  <2>1. space'[p] = [v \in DOMAIN space[p] \cup pages |-> IF v \in pages THEN leaf(v) ELSE space[p][v]]
    BY <1>3, <1>5
  <2>2. (\A q \in Process \ {p} : space'[q] = space[q]) /\ DOMAIN space' = Process
    BY <1>3, <1>5
  <2>3. QED
    BY <1>3, <2>1, <2>2
<1>9. /\ stack'[p].frames = S /\ stack'[p].mapped = TRUE
      /\ \A q \in Process \ {p} : stack'[q] = stack[q]
      /\ stack' \in [Process -> [frames : SUBSET pool, mapped : BOOLEAN]]
  <2>1. stack \in [Process -> [frames : SUBSET pool, mapped : BOOLEAN]]
    BY DEF Inv, Types
  <2>2. stack'[p] = [stack[p] EXCEPT !.mapped = TRUE] /\ \A q \in Process \ {p} : stack'[q] = stack[q]
    BY <1>3, <2>1
  <2>3. stack'[p] = [frames |-> S, mapped |-> TRUE] /\ S \in SUBSET pool
    BY <1>5, <2>2
  <2>4. stack'[p] \in [frames : SUBSET pool, mapped : BOOLEAN]
    BY <2>3
  <2>5. DOMAIN stack' = Process /\ stack' = [q \in Process |-> stack'[q]]
    BY <1>3, <2>1
  <2>6. stack' \in [Process -> [frames : SUBSET pool, mapped : BOOLEAN]]
    BY <2>1, <2>2, <2>4, <2>5
  <2>7. QED
    BY <2>2, <2>3, <2>6
<1>10. RecordsOf(p)
  BY <1>3, <1>9 DEF RecordsOf
<1>11. StepOf(p)
  <2>1. \A q \in Process \ {p} : Untouched(q)
    BY <1>3, <1>8, <1>9 DEF Untouched
  <2>2. QED
    BY <1>3, <1>10, <2>1, RecordsKept, Quiet
<1>12. Types'
  <2>1. job' \in [p : Process, step : Steps]
    BY <1>3 DEF Steps
  <2>2. QED
    BY <1>3, <1>8, <1>9, <2>1 DEF Types, Inv
<1>13. StackPart(p)' = pages /\ FramebufferPart(p)' = {} /\ StackPart(p) = {}
  BY <1>2, <1>3, <1>4, <1>9 DEF StackPart, FramebufferPart
<1>14. SpaceOk(p)'
  <2>1. \A v \in pages : v \notin DOMAIN image[p] /\ v \notin DOMAIN space[p]
    BY <1>3, <1>4
  <2>2. DOMAIN space[p] \subseteq DOMAIN image[p]
    BY <1>2, <1>13 DEF SpaceOk
  <2>3. \A v \in DOMAIN space[p] : space'[p][v] = VmmFlags(PageFlags(file[p], v), image[p][v])
    BY <1>2, <1>8, <2>2 DEF SpaceOk
  <2>4. \A v \in pages : space'[p][v].frame \in S /\ space'[p][v].write = TRUE /\ space'[p][v].exec = FALSE
    BY <1>7, <1>8
  <2>5. QED
    BY <1>3, <1>8, <1>9, <1>13, <2>1, <2>2, <2>3, <2>4 DEF SpaceOk
<1>15. Process1(p)'
  BY <1>2, <1>3, <1>10, <1>14, RecordsKept DEF Process1
<1>16. Stage(p, "thread")'
  BY <1>3, <1>4, <1>8, <1>9 DEF Stage
<1>17. JobOk'
  <2>1. job'.p = p /\ job'.step = "thread"
    BY <1>3
  <2>2. QED
    BY <1>2, <1>3, <1>16, <2>1 DEF JobOk
<1>18. QED
  BY <1>11, <1>12, <1>15, <1>17, Assembled

LEMMA StartThreadInv == ASSUME Inv, StartThread PROVE Inv'
<1>1. job # None /\ job.step = "thread"
  BY DEF StartThread, At
<1> PICK p \in Process : p = job.p
  BY <1>1, JobProcess
<1>2. /\ kind[p] \in Kinds /\ kind[p] # None /\ thread[p] = "none" /\ owner # p
      /\ ImageOk(p) /\ SpaceOk(p) /\ DataOk(p) /\ Stage(p, "thread")
  BY <1>1, Launched DEF Launching
<1>3. /\ thread' = [thread EXCEPT ![p] = "running"] /\ job' = None
      /\ boot' = IF boot = "starting" THEN "up" ELSE boot
      /\ UNCHANGED <<kind, space, image, capacity, stack, file, pool, free, content, owner, slots>>
  BY DEF StartThread
<1>4. /\ thread'[p] = "running" /\ \A q \in Process \ {p} : thread'[q] = thread[q]
      /\ thread' \in [Process -> {"none", "running", "exited"}]
  BY <1>3 DEF Inv, Types
<1>5. RecordsOf(p) /\ \A q \in Process \ {p} : Untouched(q)
  BY <1>3, <1>4 DEF RecordsOf, Untouched
<1>6. StepOf(p)
  BY <1>3, <1>5, RecordsKept, Quiet
<1>7. Types'
  BY <1>3, <1>4 DEF Types, Inv
<1>8. StackPart(p)' = StackPart(p) /\ FramebufferPart(p)' = FramebufferPart(p)
  BY <1>3 DEF StackPart, FramebufferPart
<1>9. SpaceOk(p)'
  BY <1>2, <1>3, <1>8 DEF SpaceOk
<1>10. Built(p)'
  BY <1>2, <1>3 DEF Stage, Built
<1>11. Process1(p)'
  BY <1>2, <1>3, <1>4, <1>5, <1>9, <1>10, RecordsKept DEF Process1
<1>12. JobOk'
  BY <1>3 DEF JobOk
<1>13. QED
  BY <1>6, <1>7, <1>11, <1>12, Assembled

LEMMA StartTestInv == ASSUME Inv, NEW e \in Files, StartTest(e) PROVE Inv'
<1>1. Begin("test", e) /\ boot' = "testing" /\ slots' = slots
  BY DEF StartTest
<1>2. slots \in 0..SlotCount
  BY DEF Inv, Types
<1>3. QED
  BY <1>1, <1>2, Began DEF Kinds

LEMMA StartDesktopInv == ASSUME Inv, NEW e \in Files, StartDesktop(e) PROVE Inv'
<1>1. Begin("desktop", e) /\ boot' = "starting" /\ slots' = slots
  BY DEF StartDesktop
<1>2. slots \in 0..SlotCount
  BY DEF Inv, Types
<1>3. QED
  BY <1>1, <1>2, Began DEF Kinds

LEMMA SpawnInv == ASSUME Inv, NEW e \in Files, NEW p \in Process, NEW path \in Page, Spawn(p, path, e) PROVE Inv'
<1>1. Begin("application", e) /\ boot' = boot /\ slots < SlotCount /\ slots' = slots + 1
  BY DEF Spawn
<1>2. slots \in 0..SlotCount /\ boot \in {"ready", "testing", "tested", "starting", "up", "halted"}
  BY DEF Inv, Types
<1>3. slots' \in 0..SlotCount /\ slots' >= 1
  BY <1>1, <1>2, Sizes
<1>4. QED
  BY <1>1, <1>2, <1>3, Began DEF Kinds

-----------------------------------------------------------------------------
(* The end of a process.                                                    *)

\* Everything recorded for p is given back, and p is freed unless it still has
\* the framebuffer mapped.
LEMMA Dismantled ==
    ASSUME Inv, NEW p \in Process, kind[p] # None, thread[p] # "running", Dismantle(p), job' = None,
           boot' \in {"ready", "testing", "tested", "starting", "up", "halted"}, slots' \in 0..SlotCount,
           UNCHANGED <<pool, content, owner>>
    PROVE  Inv'
<1> PICK left : left = DOMAIN space[p] \ ReleasedPages(p)
  OBVIOUS
<1>1. /\ free' = free \cup ReleasedFrames(p)
      /\ image' = [image EXCEPT ![p] = Empty]
      /\ stack' = [stack EXCEPT ![p] = NoStack]
      /\ capacity' = [capacity EXCEPT ![p] = 0]
  BY DEF Dismantle
<1>2. \/ /\ left = {}
         /\ kind' = [kind EXCEPT ![p] = None] /\ thread' = [thread EXCEPT ![p] = "none"]
         /\ space' = [space EXCEPT ![p] = Empty] /\ file' = [file EXCEPT ![p] = None]
      \/ /\ left # {} /\ space' = [space EXCEPT ![p] = Restrict(@, left)]
         /\ UNCHANGED <<kind, thread, file>>
  BY DEF Dismantle, LowerHalfEmpty
<1>3. Types /\ ImageOk(p) /\ SpaceOk(p) /\ (thread[p] = "none" => owner # p)
  BY DEF Inv, Process1
<1>4. left = FramebufferPart(p)
  <2>1. ReleasedPages(p) = DOMAIN image[p] \cup StackPart(p)
    BY DEF ReleasedPages, StackPart
  <2>2. QED
    BY <1>3, <2>1 DEF SpaceOk
<1>5. left = {} <=> owner # p
  <2>1. FramebufferVas(FramebufferPages) # {}
    <3>1. FramebufferVa \in FramebufferVa..(FramebufferVa + FramebufferPages - 1)
      BY Sizes
    <3>2. QED
      BY <3>1 DEF FramebufferVas
  <2>2. QED
    BY <1>4, <2>1 DEF FramebufferPart
<1>6. /\ image'[p] = Empty /\ stack'[p] = NoStack
      /\ \A q \in Process \ {p} : image'[q] = image[q] /\ stack'[q] = stack[q] /\ capacity'[q] = capacity[q]
      /\ DOMAIN image' = Process /\ capacity' \in [Process -> Nat]
      /\ stack' \in [Process -> [frames : SUBSET pool, mapped : BOOLEAN]]
  <2>1. NoStack \in [frames : SUBSET pool, mapped : BOOLEAN]
    BY DEF NoStack
  <2>2. QED
    BY <1>1, <1>3, <2>1 DEF Types
<1>7. /\ \A q \in Process \ {p} : /\ kind'[q] = kind[q] /\ thread'[q] = thread[q]
                                  /\ space'[q] = space[q] /\ file'[q] = file[q]
      /\ kind' \in [Process -> Kinds \cup {None}] /\ thread' \in [Process -> {"none", "running", "exited"}]
      /\ DOMAIN space' = Process /\ DOMAIN file' = Process
      /\ owner # p => kind'[p] = None /\ thread'[p] = "none" /\ space'[p] = Empty
      /\ owner = p => /\ kind'[p] = kind[p] /\ thread'[p] = thread[p] /\ file'[p] = file[p]
                      /\ space'[p] = Restrict(space[p], left)
  <2>1. /\ kind \in [Process -> Kinds \cup {None}] /\ thread \in [Process -> {"none", "running", "exited"}]
        /\ DOMAIN space = Process /\ DOMAIN file = Process
    BY <1>3 DEF Types
  <2>2. CASE left = {}
    <3>1. /\ kind' = [kind EXCEPT ![p] = None] /\ thread' = [thread EXCEPT ![p] = "none"]
          /\ space' = [space EXCEPT ![p] = Empty] /\ file' = [file EXCEPT ![p] = None] /\ owner # p
      BY <1>2, <1>5, <2>2
    <3>2. (\A q \in Process \ {p} : kind'[q] = kind[q]) /\ kind'[p] = None /\ kind' \in [Process -> Kinds \cup {None}]
      BY <2>1, <3>1
    <3>3. /\ \A q \in Process \ {p} : thread'[q] = thread[q]
          /\ thread'[p] = "none" /\ thread' \in [Process -> {"none", "running", "exited"}]
      BY <2>1, <3>1
    <3>4. (\A q \in Process \ {p} : space'[q] = space[q]) /\ space'[p] = Empty /\ DOMAIN space' = Process
      BY <2>1, <3>1
    <3>5. (\A q \in Process \ {p} : file'[q] = file[q]) /\ DOMAIN file' = Process
      BY <2>1, <3>1
    <3>6. QED
      BY <3>1, <3>2, <3>3, <3>4, <3>5
  <2>3. CASE left # {}
    <3>1. /\ space' = [space EXCEPT ![p] = Restrict(@, left)] /\ owner = p
          /\ kind' = kind /\ thread' = thread /\ file' = file
      BY <1>2, <1>5, <2>3
    <3>2. /\ \A q \in Process \ {p} : space'[q] = space[q]
          /\ space'[p] = Restrict(space[p], left) /\ DOMAIN space' = Process
      BY <2>1, <3>1
    <3>3. QED
      BY <2>1, <3>1, <3>2
  <2>4. QED
    BY <2>2, <2>3
<1>8. DOMAIN image'[p] = {} /\ stack'[p].frames = {} /\ stack'[p].mapped = FALSE
  BY <1>6 DEF Empty, NoStack
<1>9. ReleasedFrames(p)' = {}
  BY <1>8 DEF ReleasedFrames
<1>10. StepOf(p)
  <2>1. \A q \in Process \ {p} : Untouched(q)
    BY <1>6, <1>7 DEF Untouched
  <2>2. QED
    BY <1>1, <1>9, <2>1 DEF StepOf
<1>11. Types'
  BY <1>3, <1>6, <1>7 DEF Types
<1>12. JobOk'
  BY DEF JobOk
<1>13. Process1(p)'
  <2>1. CASE owner # p
    BY <1>6, <1>7, <1>8, <2>1 DEF Process1, Gone, Empty
  <2>2. CASE owner = p
    <3>1. ImageOk(p)'
      BY <1>3, <1>7, <1>8, <2>2 DEF ImageOk
    <3>2. StackPart(p)' = {} /\ FramebufferPart(p)' = left
      BY <1>4, <1>8 DEF StackPart, FramebufferPart
    <3>3. DOMAIN space'[p] = left /\ \A va \in left : space'[p][va] = space[p][va]
      BY <1>7, <2>2 DEF Restrict
    <3>4. \A va \in left : space[p][va] = [frame |-> Device(va - FramebufferVa), write |-> TRUE, exec |-> FALSE]
      BY <1>3, <1>4 DEF SpaceOk
    <3>5. SpaceOk(p)'
      BY <1>8, <3>2, <3>3, <3>4 DEF SpaceOk
    <3>6. DataOk(p)'
      BY <1>9 DEF DataOk
    <3>7. QED
      BY <1>3, <1>7, <2>2, <3>1, <3>5, <3>6 DEF Process1
  <2>3. QED
    BY <2>1, <2>2
<1>14. QED
  BY <1>10, <1>11, <1>12, <1>13, Assembled

LEMMA LaunchFailsInv == ASSUME Inv, LaunchFails PROVE Inv'
<1>1. job # None
  BY DEF LaunchFails
<1> PICK p \in Process : p = job.p
  BY <1>1, JobProcess
<1>2. kind[p] # None /\ thread[p] = "none" /\ (kind[p] = "application" => slots >= 1)
  BY <1>1, Launched DEF Launching
<1>3. /\ Dismantle(p) /\ job' = None
      /\ slots' = IF kind[p] = "application" THEN slots - 1 ELSE slots
      /\ boot' = IF kind[p] = "application" THEN boot ELSE "halted"
      /\ UNCHANGED <<pool, content, owner>>
  BY DEF LaunchFails
<1>4. slots \in 0..SlotCount /\ boot \in {"ready", "testing", "tested", "starting", "up", "halted"}
  BY DEF Inv, Types
<1>5. slots' \in 0..SlotCount /\ boot' \in {"ready", "testing", "tested", "starting", "up", "halted"}
  BY <1>2, <1>3, <1>4, Sizes
<1>6. QED
  BY <1>2, <1>3, <1>5, Dismantled

LEMMA FinishTestInv == ASSUME Inv, NEW p \in Process, NEW passed, FinishTest(p, passed) PROVE Inv'
<1>1. /\ job = None /\ kind[p] = "test" /\ thread[p] = "exited" /\ Dismantle(p)
      /\ boot' \in {"tested", "halted"}
      /\ UNCHANGED <<job, pool, content, owner, slots>>
  BY DEF FinishTest, Testing
<1>2. kind[p] # None /\ slots \in 0..SlotCount
  BY <1>1, NoneAssumption DEF Inv, Types
<1>3. QED
  BY <1>1, <1>2, Dismantled

-----------------------------------------------------------------------------
(* What a process does to its own memory.                                   *)

\* A process in ring 3 has been built, and no launch is going on.
LEMMA RunningProcess ==
    ASSUME Inv, NEW p \in Process, thread[p] = "running"
    PROVE  kind[p] # None /\ ImageOk(p) /\ SpaceOk(p) /\ DataOk(p) /\ Built(p)
BY DEF Inv, Process1, Gone

\* A step that changes no more than what p has mapped, and the owner of the
\* framebuffer.
LEMMA Remapped ==
    ASSUME Inv, NEW p \in Process, thread[p] = "running", job = None, SpaceOk(p)',
           NEW s, space' = [space EXCEPT ![p] = s], ImagePages(file[p]) \subseteq DOMAIN s,
           owner' \in Process \cup {None}, \A q \in Process \ {p} : owner' = q <=> owner = q,
           UNCHANGED <<boot, kind, thread, image, capacity, stack, file, job, pool, free, content, slots>>
    PROVE  Inv'
<1>1. kind[p] # None /\ ImageOk(p) /\ SpaceOk(p) /\ DataOk(p) /\ Built(p)
  BY RunningProcess
<1>2. space'[p] = s /\ DOMAIN space' = Process /\ \A q \in Process \ {p} : space'[q] = space[q]
  BY DEF Inv, Types
<1>3. RecordsOf(p) /\ \A q \in Process \ {p} : Untouched(q)
  BY <1>2 DEF RecordsOf, Untouched
<1>4. StepOf(p)
  BY <1>3, RecordsKept, Quiet
<1>5. Types' /\ JobOk'
  BY <1>2 DEF Inv, Types, JobOk
<1>6. Built(p)'
  BY <1>1, <1>2 DEF Built
<1>7. Process1(p)'
  BY <1>1, <1>3, <1>6, RecordsKept DEF Process1
<1>8. QED
  BY <1>4, <1>5, <1>7, Assembled

LEMMA FramebufferMapInv ==
    ASSUME Inv, NEW p \in Process, thread[p] = "running", job = None, NEW n \in 0..FramebufferPages, FramebufferMap(p, n)
    PROVE  Inv'
<1> DEFINE F == FramebufferVas(n)
           D == DOMAIN space[p]
<1> PICK mapped : mapped = MapFirstPages(space[p], n)
  OBVIOUS
<1> PICK s : s = IF n = FramebufferPages THEN mapped ELSE UnmapFirstPages(mapped, n)
  OBVIOUS
<1>1. /\ owner = None /\ F \cap D = {} /\ space' = [space EXCEPT ![p] = s]
      /\ owner' = IF n = FramebufferPages THEN p ELSE owner
      /\ UNCHANGED <<boot, kind, thread, image, capacity, stack, file, job, pool, free, content, slots>>
  BY DEF FramebufferMap
<1>2. SpaceOk(p) /\ Built(p)
  BY RunningProcess
<1>3. /\ DOMAIN mapped = D \cup F
      /\ \A va \in F : mapped[va] = [frame |-> Device(va - FramebufferVa), write |-> TRUE, exec |-> FALSE]
      /\ \A va \in D : mapped[va] = space[p][va]
  BY <1>1 DEF MapFirstPages
<1>4. None \notin Process
  BY NoneAssumption
<1>5. space'[p] = s
  BY <1>1 DEF Inv, Types
<1>6. StackPart(p)' = StackPart(p) /\ FramebufferPart(p) = {}
  BY <1>1, <1>4 DEF StackPart, FramebufferPart
<1>7. CASE n = FramebufferPages
  <2>1. s = mapped /\ FramebufferPart(p)' = F /\ owner' = p
    BY <1>1, <1>7 DEF FramebufferPart
  <2>2. \A va \in F : va \notin DOMAIN image[p] /\ va \notin StackPart(p)
    <3>1. DOMAIN image[p] \subseteq D /\ StackPart(p) \subseteq D
      BY <1>2 DEF Built, SpaceOk
    <3>2. QED
      BY <1>1, <3>1
  <2> HIDE DEF F
  <2>3. SpaceOk(p)'
    BY <1>1, <1>2, <1>3, <1>5, <1>6, <2>1, <2>2 DEF SpaceOk
  <2>4. ImagePages(file[p]) \subseteq DOMAIN s
    BY <1>2, <1>3, <2>1 DEF Built
  <2>5. QED
    BY <1>1, <1>4, <2>1, <2>3, <2>4, Remapped
<1>8. CASE n # FramebufferPages
  <2>1. owner' = owner /\ FramebufferPart(p)' = {}
    BY <1>1, <1>4, <1>8 DEF FramebufferPart
  <2>2. DOMAIN s = D /\ \A va \in D : s[va] = space[p][va]
    BY <1>1, <1>3, <1>8 DEF UnmapFirstPages, Restrict
  <2>3. SpaceOk(p)'
    BY <1>1, <1>2, <1>5, <1>6, <2>1, <2>2 DEF SpaceOk
  <2>4. ImagePages(file[p]) \subseteq DOMAIN s
    BY <1>2, <2>2 DEF Built
  <2>5. QED
    BY <1>1, <2>1, <2>3, <2>4, Remapped
<1>9. QED
  BY <1>7, <1>8

LEMMA MemoryMapInv == ASSUME Inv, NEW p \in Process, MemoryMap(p) PROVE Inv'
<1>1. PICK n \in 0..FramebufferPages : FramebufferMap(p, n)
  BY DEF MemoryMap
<1>2. thread[p] = "running" /\ job = None
  BY DEF MemoryMap, Running
<1>3. QED
  BY <1>1, <1>2, FramebufferMapInv

LEMMA MemoryUnmapInv == ASSUME Inv, NEW p \in Process, MemoryUnmap(p) PROVE Inv'
<1> DEFINE F == FramebufferVas(FramebufferPages)
<1> PICK s : s = UnmapFirstPages(space[p], FramebufferPages)
  OBVIOUS
<1>1. /\ thread[p] = "running" /\ job = None /\ owner = p /\ owner' = None
      /\ UNCHANGED <<boot, kind, thread, image, capacity, stack, file, job, pool, free, content, slots>>
  BY DEF MemoryUnmap, FramebufferUnmap, Running
<1>2. space' = [space EXCEPT ![p] = s] /\ space'[p] = s
  BY DEF MemoryUnmap, FramebufferUnmap, Inv, Types
<1>3. SpaceOk(p) /\ Built(p)
  BY <1>1, RunningProcess
<1>4. DOMAIN s = DOMAIN space[p] \ F /\ \A va \in DOMAIN s : s[va] = space[p][va]
  BY DEF UnmapFirstPages, Restrict
<1>5. None \notin Process
  BY NoneAssumption
<1>6. StackPart(p)' = StackPart(p) /\ FramebufferPart(p) = F /\ FramebufferPart(p)' = {}
  BY <1>1, <1>5 DEF StackPart, FramebufferPart
<1> HIDE DEF F
<1>7. SpaceOk(p)'
  <2> DEFINE I == DOMAIN image[p]
             S == StackPart(p)
  <2>1. /\ DOMAIN s \subseteq I \cup S /\ S \subseteq DOMAIN s
        /\ \A va \in S : va \notin I
    BY <1>3, <1>4, <1>6 DEF SpaceOk
  <2>2. ASSUME NEW va \in DOMAIN s
        PROVE  /\ va \in I => s[va] = VmmFlags(PageFlags(file[p], va), image[p][va])
               /\ va \in S => s[va].frame \in stack[p].frames /\ s[va].write = TRUE /\ s[va].exec = FALSE
    BY <1>3, <1>4 DEF SpaceOk
  <2>3. QED
    BY <1>1, <1>2, <1>6, <2>1, <2>2 DEF SpaceOk
<1>8. ImagePages(file[p]) \subseteq DOMAIN s
  BY <1>3, <1>4, <1>6 DEF Built, SpaceOk
<1>9. QED
  BY <1>1, <1>2, <1>5, <1>7, <1>8, Remapped

\* A process, or a call of the kernel for it, writes to pages it may write.
LEMMA Written ==
    ASSUME Inv, NEW p \in Process, thread[p] = "running", job = None,
           NEW pages, \A va \in pages : va \in DOMAIN space[p] /\ space[p][va].write,
           NEW frames, frames = {space[p][va].frame : va \in pages}, Write(p, frames),
           UNCHANGED <<boot, processVars, job, pool, free, owner, slots>>
    PROVE  Inv'
<1>1. kind[p] # None /\ ImageOk(p) /\ SpaceOk(p) /\ DataOk(p) /\ Built(p)
  BY RunningProcess
<1>2. /\ kind' = kind /\ thread' = thread /\ space' = space /\ image' = image /\ capacity' = capacity
      /\ stack' = stack /\ file' = file
  BY DEF processVars
<1>3. /\ DOMAIN content' = Frame
      /\ \A f \in Frame : f \in frames => content'[f] = [by |-> p, what |-> "written"]
      /\ \A f \in Frame : f \notin frames => content'[f] = content[f]
  BY DEF Write
<1>4. ASSUME NEW va \in pages, space[p][va].frame \in Frame
      PROVE  va \notin FramebufferPart(p) /\ space[p][va].frame \in ReleasedFrames(p)
  BY <1>1, <1>4, SpaceOf
<1>5. RecordsOf(p) /\ \A q \in Process : Untouched(q)
  BY <1>2 DEF RecordsOf, Untouched
<1>6. StepOf(p)
  BY <1>3, <1>4, <1>5, RecordsKept, Quiet
<1>7. Types' /\ JobOk'
  BY <1>2, <1>3 DEF Inv, Types, JobOk
<1>8. StackPart(p)' = StackPart(p) /\ FramebufferPart(p)' = FramebufferPart(p)
  BY <1>2 DEF StackPart, FramebufferPart
<1>9. SpaceOk(p)'
  BY <1>1, <1>2, <1>8 DEF SpaceOk
<1>10. DataOk(p)'
  <2>1. ASSUME NEW f \in ReleasedFrames(p) PROVE Mine(p, f, content[f])'
    <3>1. f \in Frame
      BY FramesIn, Pool DEF Inv
    <3>2. CASE f \notin frames
      <4>1. content'[f] = content[f] /\ Mine(p, f, content[f])
        BY <1>1, <1>3, <3>1, <3>2 DEF DataOk
      <4>2. QED
        BY <1>2, <4>1 DEF Mine
    <3>3. CASE f \in frames
      <4>1. PICK vb \in pages : f = space[p][vb].frame
        BY <3>3
      <4>2. ASSUME NEW va \in DOMAIN image[p], image[p][va] = f PROVE "write" \in PageFlags(file[p], va)
        <5>1. vb \in DOMAIN space[p] /\ vb \notin FramebufferPart(p) /\ space[p][vb].write
          BY <1>4, <3>1, <4>1
        <5>2. vb \notin StackPart(p)
          <6>1. f \notin stack[p].frames
            BY <1>1, <4>2 DEF ImageOk
          <6>2. QED
            BY <1>1, <4>1, <5>1, <6>1, SpaceOf
        <5>3. vb \in DOMAIN image[p] /\ image[p][vb] = f
          BY <1>1, <4>1, <5>1, <5>2, SpaceOf
        <5>4. va = vb
          BY <1>1, <4>2, <5>3 DEF ImageOk
        <5>5. space[p][vb] = VmmFlags(PageFlags(file[p], vb), image[p][vb])
          BY <1>1, <5>1, <5>3 DEF SpaceOk
        <5>6. space[p][vb].write = ("write" \in PageFlags(file[p], vb))
          BY <5>5 DEF VmmFlags
        <5>7. QED
          BY <5>1, <5>4, <5>6
      <4>3. content'[f].by = p
        BY <1>3, <3>1, <3>3
      <4>4. QED
        BY <1>2, <4>2, <4>3 DEF Mine
    <3>4. QED
      BY <3>2, <3>3
  <2>2. QED
    BY <1>5, <2>1, RecordsKept DEF DataOk
<1>11. Process1(p)'
  BY <1>1, <1>2, <1>5, <1>9, <1>10, RecordsKept DEF Process1, Built
<1>12. QED
  BY <1>6, <1>7, <1>11, Assembled

LEMMA StoreInv == ASSUME Inv, NEW p \in Process, NEW va, Store(p, va) PROVE Inv'
<1>1. {space[p][v].frame : v \in {va}} = {space[p][va].frame}
  OBVIOUS
<1>2. QED
  BY <1>1, Written DEF Store, Running

LEMMA CopyToUserInv == ASSUME Inv, NEW p \in Process, NEW pages, CopyToUser(p, pages) PROVE Inv'
BY Written DEF CopyToUser, UserBufferValid, Running

LEMMA ExitInv == ASSUME Inv, NEW p \in Process, Exit(p) PROVE Inv'
<1>1. /\ thread[p] = "running" /\ job = None /\ thread' = [thread EXCEPT ![p] = "exited"]
      /\ UNCHANGED <<boot, kind, space, image, capacity, stack, file, job, pool, free, content, owner, slots>>
  BY DEF Exit, Running
<1>2. kind[p] # None /\ ImageOk(p) /\ SpaceOk(p) /\ DataOk(p)
  BY <1>1, RunningProcess
<1>3. /\ thread'[p] = "exited" /\ \A q \in Process \ {p} : thread'[q] = thread[q]
      /\ thread' \in [Process -> {"none", "running", "exited"}]
  BY <1>1 DEF Inv, Types
<1>4. RecordsOf(p) /\ \A q \in Process \ {p} : Untouched(q)
  BY <1>1, <1>3 DEF RecordsOf, Untouched
<1>5. StepOf(p)
  BY <1>1, <1>4, RecordsKept, Quiet
<1>6. Types' /\ JobOk'
  BY <1>1, <1>3 DEF Inv, Types, JobOk
<1>7. StackPart(p)' = StackPart(p) /\ FramebufferPart(p)' = FramebufferPart(p)
  BY <1>1 DEF StackPart, FramebufferPart
<1>8. SpaceOk(p)'
  BY <1>1, <1>2, <1>7 DEF SpaceOk
<1>9. Process1(p)'
  BY <1>1, <1>2, <1>3, <1>4, <1>8, RecordsKept DEF Process1
<1>10. QED
  BY <1>5, <1>6, <1>9, Assembled

-----------------------------------------------------------------------------
(* Every step.                                                              *)

LEMMA StutterInv == ASSUME Inv, UNCHANGED <<processVars, job, pool, free, content, owner, slots>>,
                          boot' \in {"ready", "testing", "tested", "starting", "up", "halted"}
                   PROVE Inv'
<1>1. /\ kind' = kind /\ thread' = thread /\ space' = space /\ image' = image /\ capacity' = capacity
      /\ stack' = stack /\ file' = file /\ job' = job /\ pool' = pool /\ free' = free /\ content' = content
      /\ owner' = owner /\ slots' = slots
  BY DEF processVars
<1>2. ASSUME NEW p \in Process PROVE Process1(p)' /\ ReleasedFrames(p)' = ReleasedFrames(p)
  BY <1>1, OtherProcess DEF Inv, Untouched
<1>3. Types' /\ FramesOk'
  BY <1>1, <1>2 DEF Inv, Types, FramesOk
<1>4. JobOk'
  BY <1>1 DEF Inv, JobOk, Stage
<1>5. QED
  BY <1>2, <1>3, <1>4 DEF Inv

LEMMA NextInv == Inv /\ [Next]_vars => Inv'
<1> SUFFICES ASSUME Inv, [Next]_vars PROVE Inv'
  OBVIOUS
<1>1. ASSUME NEW e \in Files, StartTest(e) PROVE Inv'
  BY <1>1, StartTestInv
<1>2. ASSUME NEW e \in Files, StartDesktop(e) PROVE Inv'
  BY <1>2, StartDesktopInv
<1>3. ASSUME NEW e \in Files, NEW p \in Process, NEW path \in Page, Spawn(p, path, e) PROVE Inv'
  BY <1>3, SpawnInv
<1>4. CASE TakePage \/ MapPage \/ CopySegments
  BY <1>4, TakePageInv, MapPageInv, CopySegmentsInv
<1>5. CASE TakeStack \/ MapStack \/ StartThread
  BY <1>5, TakeStackInv, MapStackInv, StartThreadInv
<1>6. CASE LaunchFails
  BY <1>6, LaunchFailsInv
<1>7. ASSUME NEW p \in Process, NEW passed \in BOOLEAN, FinishTest(p, passed) PROVE Inv'
  BY <1>7, FinishTestInv
<1>8. ASSUME NEW p \in Process, TestGivesUp(p) PROVE Inv'
  BY <1>8, StutterInv DEF TestGivesUp
<1>9. ASSUME NEW p \in Process, NEW va \in Page, Store(p, va) PROVE Inv'
  BY <1>9, StoreInv
<1>10. ASSUME NEW p \in Process, NEW va \in Page, CopyToUser(p, {va, va + 1}) PROVE Inv'
  BY <1>10, CopyToUserInv
<1>11. ASSUME NEW p \in Process, NEW va \in Page, Ioctl(p, {va}) PROVE Inv'
  BY <1>11, CopyToUserInv DEF Ioctl
<1>12. ASSUME NEW p \in Process, MemoryMap(p) \/ MemoryUnmap(p) \/ Exit(p) PROVE Inv'
  BY <1>12, MemoryMapInv, MemoryUnmapInv, ExitInv
<1>13. CASE UNCHANGED vars
  <2>1. boot' = boot /\ UNCHANGED <<processVars, job, pool, free, content, owner, slots>>
    BY <1>13 DEF vars
  <2>2. QED
    BY <2>1, StutterInv DEF Inv, Types
<1>14. QED
  BY <1>1, <1>2, <1>3, <1>4, <1>5, <1>6, <1>7, <1>8, <1>9, <1>10, <1>11, <1>12, <1>13 DEF Next

\* The invariant holds in every state of every behaviour.
THEOREM Invariance == Spec => []Inv
<1>1. QED
  BY InitInv, NextInv, PTL DEF Spec

-----------------------------------------------------------------------------
(* The properties.                                                          *)

\* Every frame is free or recorded once, in the image or the stack of one
\* process, and what a process reaches is recorded for it: elf64_load, release_pages
\* and the failure labels of user.c neither leak a frame nor leave one mapped.
THEOREM FramesCorrect == Spec => []FramesExact
<1>1. Inv => FramesExact
  <2> SUFFICES ASSUME Inv PROVE FramesExact
    OBVIOUS
  <2>1. TypeOK
    <3>1. Types /\ free \subseteq pool
      BY DEF Inv, FramesOk
    <3>2. QED
      BY <3>1 DEF TypeOK, Types, Kinds
  <2>2. free = pool \ UNION {ReleasedFrames(p) : p \in Live}
    <3>1. \A p \in Process \ Live : ReleasedFrames(p) = {}
      BY DEF Inv, Process1, Gone, Live, ReleasedFrames, NoStack
    <3>2. UNION {ReleasedFrames(p) : p \in Process} = UNION {ReleasedFrames(p) : p \in Live}
      BY <3>1 DEF Live
    <3>3. QED
      BY <3>2 DEF Inv, FramesOk
  <2>3. ASSUME NEW p \in Live
        PROVE  /\ Cardinality(DOMAIN image[p]) <= capacity[p]
               /\ Cardinality(ReleasedFrames(p)) = Cardinality(DOMAIN image[p]) + Cardinality(stack[p].frames)
               /\ \A q \in Live \ {p} : ReleasedFrames(p) \cap ReleasedFrames(q) = {}
               /\ \A va \in DOMAIN space[p] : space[p][va].frame \in Frame => space[p][va].frame \in ReleasedFrames(p)
    <3> DEFINE D == DOMAIN image[p]
               I == {image[p][va] : va \in D}
               S == stack[p].frames
               f == [va \in D |-> image[p][va]]
    <3>1. p \in Process /\ kind[p] # None
      BY DEF Live
    <3>2. ImageOk(p)
      BY <3>1 DEF Inv, Process1
    <3>3. D \subseteq ImagePages(file[p]) /\ file[p] \in Files /\ (D # {} => capacity[p] = PageCapacity(file[p]))
      BY <3>2 DEF ImageOk
    <3>4. IsFiniteSet(D) /\ Cardinality(D) \in Nat /\ Cardinality(D) <= PageCapacity(file[p])
      <4>1. /\ IsFiniteSet(ImagePages(file[p])) /\ PageCapacity(file[p]) \in Nat
            /\ Cardinality(ImagePages(file[p])) <= PageCapacity(file[p])
        BY <3>3, ImagePagesBounded
      <4>2. IsFiniteSet(D) /\ Cardinality(D) <= Cardinality(ImagePages(file[p]))
        BY <3>3, <4>1, FS_Subset
      <4>3. Cardinality(D) \in Nat /\ Cardinality(ImagePages(file[p])) \in Nat
        BY <4>1, <4>2, FS_CardinalityType
      <4>4. QED
        BY <4>1, <4>2, <4>3
    <3>5. Cardinality(D) <= capacity[p]
      <4>1. capacity[p] \in Nat
        BY <3>1 DEF Inv, Types
      <4>2. CASE D = {}
        <5>1. Cardinality(D) = 0
          BY <4>2, FS_EmptySet
        <5>2. QED
          BY <4>1, <5>1
      <4>3. QED
        BY <3>3, <3>4, <4>2
    <3>6. IsFiniteSet(I) /\ Cardinality(I) = Cardinality(D)
      <4>1. f \in [D -> I] /\ \A va, vb \in D : f[va] = f[vb] => va = vb
        BY <3>2 DEF ImageOk
      <4>2. \A x \in I : \E va \in D : f[va] = x
        OBVIOUS
      <4> HIDE DEF f, D, I
      <4>3. f \in Bijection(D, I)
        BY <4>1, <4>2 DEF Bijection, Injection, Surjection, IsInjective
      <4>4. QED
        BY <3>4, <4>3, FS_Bijection DEF ExistsBijection
    <3>7. I \cap S = {} /\ IsFiniteSet(S)
      <4>1. stack[p] \in [frames : SUBSET pool, mapped : BOOLEAN]
        BY <3>1 DEF Inv, Types
      <4>2. IsFiniteSet(S)
        BY <4>1, Pool, FS_Subset DEF Inv
      <4>3. QED
        BY <3>2, <4>2 DEF ImageOk
    <3>8. Cardinality(ReleasedFrames(p)) = Cardinality(D) + Cardinality(S)
      <4>1. ReleasedFrames(p) = I \cup S
        BY DEF ReleasedFrames
      <4> HIDE DEF I, S, D
      <4>2. Cardinality(I \cup S) = Cardinality(I) + Cardinality(S) - Cardinality(I \cap S)
        BY <3>6, <3>7, FS_Union
      <4>3. Cardinality(I \cap S) = 0
        BY <3>7, FS_EmptySet
      <4>4. Cardinality(I) \in Nat /\ Cardinality(S) \in Nat
        BY <3>6, <3>7, FS_CardinalityType
      <4>5. QED
        BY <3>6, <4>1, <4>2, <4>3, <4>4
    <3>9. \A q \in Live \ {p} : ReleasedFrames(p) \cap ReleasedFrames(q) = {}
      BY <3>1 DEF Inv, FramesOk, Live
    <3>10. ASSUME NEW va \in DOMAIN space[p], space[p][va].frame \in Frame
           PROVE  space[p][va].frame \in ReleasedFrames(p)
      BY <3>1, <3>10, SpaceOf
    <3>11. QED
      BY <3>5, <3>8, <3>9, <3>10
  <2>4. QED
    BY <2>1, <2>2, <2>3 DEF FramesExact, ReleasedFrames
<1>2. QED
  BY <1>1, Invariance, PTL

\* The page an address is in.
LEMMA ByteOfPage ==
    ASSUME NEW a \in Nat
    PROVE  PageFloor(a) \in Nat /\ a \in Bytes(PageFloor(a))
<1> DEFINE P == PageSize
           q == a \div P
           w == q * P
           x == (q + 1) * P
<1>1. P \in Nat \ {0} /\ q \in Nat
  BY Sizes, Floor
<1>2. w <= a /\ ~ (x <= a)
  <2>1. q + 1 \in Nat /\ q <= q /\ ~ (q + 1 <= q)
    BY <1>1
  <2>2. QED
    BY <1>1, <2>1, Floor
<1>3. w \in Nat /\ x = w + P
  BY <1>1
<1>4. PageFloor(a) = q /\ Bytes(q) = w..(w + P - 1)
  BY DEF PageFloor, Bytes
<1> HIDE DEF w, x, q, P
<1>5. QED
  BY <1>1, <1>2, <1>3, <1>4

\* A process in ring 3 has mapped just the pages its file's segments have bytes
\* in, with their rights, a stack up to the top and at most the framebuffer, and
\* none of it both writable and executable: what analyze_elf accepts and
\* elf64_load maps is what the file describes.
THEOREM ImageCorrect == Spec => []ImageAsDescribed
<1>1. Inv => ImageAsDescribed
  <2> SUFFICES ASSUME Inv, NEW p \in Live, thread[p] = "running"
               PROVE  LET touching(va) == {s \in file[p].segments : \E b \in Bytes(va) : Covers(s, b)}
                          mapped == {va \in DOMAIN space[p] : space[p][va].frame \in Frame}
                      IN  /\ mapped = {va \in Page : touching(va) # {}} \cup StackVa(kind[p])
                          /\ \A va \in mapped \ StackVa(kind[p]) :
                               /\ space[p][va].write = (\E s \in touching(va) : "write" \in s.flags)
                               /\ space[p][va].exec = (\E s \in touching(va) : "exec" \in s.flags)
                          /\ \A va \in DOMAIN space[p] :
                               /\ ~ (space[p][va].write /\ space[p][va].exec)
                               /\ Bytes(va) \subseteq UserBase..(UserTop - 1)
                          /\ \A va \in StackVa(kind[p]) : space[p][va].write
                          /\ \E va \in mapped : file[p].entry \in Bytes(va) /\ space[p][va].exec
    BY DEF ImageAsDescribed
  <2> DEFINE e == file[p]
             D == DOMAIN image[p]
             V == StackVa(kind[p])
             F == FramebufferPart(p)
             touching(va) == {s \in e.segments : \E b \in Bytes(va) : Covers(s, b)}
             mapped == {va \in DOMAIN space[p] : space[p][va].frame \in Frame}
  <2>1. p \in Process /\ kind[p] # None /\ kind[p] \in Kinds
    BY DEF Inv, Types, Live
  <2>2. ImageOk(p) /\ SpaceOk(p) /\ Built(p)
    BY <2>1, RunningProcess
  <2>3. e \in Files /\ Analyze(e) /\ NoWritableCode(e) /\ D = ImagePages(e) /\ StackPart(p) = V
    BY <2>2 DEF ImageOk, Built, StackPart
  <2>4. DOMAIN space[p] = D \cup V \cup F /\ V \cap D = {} /\ F \cap D = {} /\ V \cap F = {}
    BY <2>2, <2>3 DEF SpaceOk, Built
  <2>5. \A va \in D \cup V : space[p][va].frame \in Frame
    <3>1. \A va \in D \cup V : space[p][va].frame \in ReleasedFrames(p)
      BY <2>1, <2>3, <2>4, SpaceOf
    <3>2. ReleasedFrames(p) \subseteq Frame
      BY <2>1, FramesIn, Pool DEF Inv
    <3>3. QED
      BY <3>1, <3>2
  <2>6. \A va \in F : space[p][va].frame \notin Frame
    BY <2>1, <2>4, SpaceOf
  <2>7. mapped = D \cup V
    BY <2>4, <2>5, <2>6
  <2>8. ASSUME NEW va \in Nat PROVE touching(va) = {s \in Loadable(e) : va \in Span(s)}
    <3>1. \A s \in e.segments : (\E b \in Bytes(va) : Covers(s, b)) => s \in Loadable(e)
      <4> SUFFICES ASSUME NEW s \in e.segments, NEW b \in Bytes(va), Covers(s, b) PROVE s \in Loadable(e)
        OBVIOUS
      <4>1. s.va \in Nat /\ s.memsz \in Nat
        BY <2>3, SegmentType
      <4>2. s.load /\ b >= s.va /\ b < s.va + s.memsz
        BY DEF Covers
      <4>3. b \in Int
        <5>1. va * PageSize \in Int
          BY Sizes
        <5>2. QED
          BY <5>1, Sizes DEF Bytes
      <4>4. s.memsz # 0
        BY <4>1, <4>2, <4>3
      <4>5. QED
        BY <4>2, <4>4 DEF Loadable
    <3>2. \A s \in Loadable(e) : va \in Span(s) <=> \E b \in Bytes(va) : Covers(s, b)
      BY <2>3, SpanBytes
    <3>3. Loadable(e) \subseteq e.segments
      BY DEF Loadable
    <3>4. QED
      BY <3>1, <3>2, <3>3
  <2>9. \A va \in D : va \in Page /\ va \in Nat /\ Bytes(va) \subseteq UserBase..(UserTop - 1)
    <3> SUFFICES ASSUME NEW va \in D PROVE va \in Page /\ va \in Nat /\ Bytes(va) \subseteq UserBase..(UserTop - 1)
      OBVIOUS
    <3>1. PICK s \in Loadable(e) : va \in Span(s)
      BY <2>3 DEF ImagePages
    <3>2. SegmentOk(e, s)
      BY <2>3 DEF Analyze
    <3>3. QED
      BY <2>3, <3>1, <3>2, SpanInside, SpanBytes
  <2>10. mapped = {va \in Page : touching(va) # {}} \cup V
    <3>1. \A va \in Page : va \in Nat
      BY DEF Page
    <3>2. \A va \in Page : touching(va) # {} <=> va \in ImagePages(e)
      BY <2>8, <3>1 DEF ImagePages
    <3> HIDE DEF touching, mapped, V
    <3>3. QED
      BY <2>3, <2>7, <2>9, <3>2
  <2>11. ASSUME NEW va \in D
         PROVE  /\ space[p][va].write = (\E s \in touching(va) : "write" \in s.flags)
                /\ space[p][va].exec = (\E s \in touching(va) : "exec" \in s.flags)
                /\ ~ (space[p][va].write /\ space[p][va].exec)
    <3>1. space[p][va] = VmmFlags(PageFlags(e, va), image[p][va])
      BY <2>2, <2>4 DEF SpaceOk
    <3>2. /\ space[p][va].write = ("write" \in PageFlags(e, va))
          /\ space[p][va].exec = ("exec" \in PageFlags(e, va))
      BY <3>1 DEF VmmFlags
    <3>3. PageFlags(e, va) = UNION {s.flags : s \in touching(va)}
      BY <2>8, <2>9 DEF PageFlags
    <3>4. ~ {"write", "exec"} \subseteq PageFlags(e, va)
      BY <2>3 DEF NoWritableCode
    <3> HIDE DEF touching
    <3>5. \A x : x \in PageFlags(e, va) <=> \E s \in touching(va) : x \in s.flags
      BY <3>3
    <3>6. ASSUME NEW x, NEW w, w = (x \in PageFlags(e, va))
          PROVE  w = (\E s \in touching(va) : x \in s.flags)
      <4>1. CASE x \in PageFlags(e, va)
        BY <3>5, <3>6, <4>1
      <4>2. CASE x \notin PageFlags(e, va)
        <5>1. (x \in PageFlags(e, va)) = FALSE
          BY <4>2
        <5>2. w = FALSE
          BY <3>6, <5>1, Zenon
        <5>3. ~ \E s \in touching(va) : x \in s.flags
          BY <3>5, <4>2
        <5>4. QED
          BY <5>2, <5>3
      <4>3. QED
        BY <4>1, <4>2
    <3>7. space[p][va].write = (\E s \in touching(va) : "write" \in s.flags)
      BY <3>2, <3>6, Zenon
    <3>8. space[p][va].exec = (\E s \in touching(va) : "exec" \in s.flags)
      BY <3>2, <3>6, Zenon
    <3>9. ~ ("write" \in PageFlags(e, va) /\ "exec" \in PageFlags(e, va))
      BY <3>4
    <3>10. ~ (space[p][va].write /\ space[p][va].exec)
      BY <3>2, <3>9, Zenon
    <3>11. QED
      BY <3>7, <3>8, <3>10
  <2>12. \A va \in V : space[p][va].write = TRUE /\ space[p][va].exec = FALSE /\ Bytes(va) \subseteq UserBase..(UserTop - 1)
    <3>1. \A va \in V : space[p][va].write = TRUE /\ space[p][va].exec = FALSE
      BY <2>2, <2>3, <2>4 DEF SpaceOk
    <3>2. QED
      BY <2>1, <3>1, StackInside DEF Kinds
  <2>13. \A va \in F : ~ space[p][va].exec /\ Bytes(va) \subseteq UserBase..(UserTop - 1)
    <3>1. \A va \in F : space[p][va] = [frame |-> Device(va - FramebufferVa), write |-> TRUE, exec |-> FALSE]
      BY <2>2, <2>4 DEF SpaceOk
    <3>2. \A va \in F : va \in FramebufferVas(FramebufferPages)
      BY DEF FramebufferPart
    <3>3. ASSUME NEW va \in F PROVE space[p][va].exec = FALSE
      <4>1. space[p][va] = [frame |-> Device(va - FramebufferVa), write |-> TRUE, exec |-> FALSE]
        BY <3>1
      <4>2. QED
        BY <4>1
    <3>4. QED
      BY <3>2, <3>3, FramebufferInside
  <2>14. \E va \in mapped : e.entry \in Bytes(va) /\ space[p][va].exec
    <3>1. PICK s \in Loadable(e) : "exec" \in s.flags /\ e.entry >= s.va /\ e.entry < s.va + s.filesz
      BY <2>3 DEF Analyze, EntryOk
    <3>2. s \in e.segments /\ s.load /\ SegmentOk(e, s)
      BY <2>3 DEF Analyze, Loadable
    <3>3. s.va \in Nat /\ s.memsz \in Nat /\ s.filesz \in Nat /\ s.filesz <= s.memsz /\ e.entry \in Nat
      BY <2>3, <3>2, SegmentType, FilesAssumption DEF SegmentOk
    <3>4. Covers(s, e.entry)
      BY <3>1, <3>2, <3>3 DEF Covers
    <3> DEFINE v == PageFloor(e.entry)
    <3>5. v \in Nat /\ e.entry \in Bytes(v)
      BY <3>3, ByteOfPage
    <3>6. v \in Span(s)
      BY <2>3, <3>4, <3>5, SpanBytes
    <3>7. v \in D /\ s \in touching(v)
      BY <2>3, <2>8, <3>5, <3>6 DEF ImagePages
    <3>8. space[p][v].exec
      <4>1. space[p][v].exec = (\E t \in touching(v) : "exec" \in t.flags)
        BY <2>11, <3>7
      <4>2. QED
        BY <3>1, <3>7, <4>1
    <3>9. QED
      BY <2>7, <3>5, <3>7, <3>8
  <2> HIDE DEF mapped, touching
  <2>15. \A va \in mapped \ V : va \in D
    BY <2>7
  <2>16. \A va \in DOMAIN space[p] : ~ (space[p][va].write /\ space[p][va].exec) /\ Bytes(va) \subseteq UserBase..(UserTop - 1)
    BY <2>4, <2>9, <2>11, <2>12, <2>13
  <2>17. /\ mapped = {va \in Page : touching(va) # {}} \cup V
         /\ \A va \in mapped \ V :
               /\ space[p][va].write = (\E s \in touching(va) : "write" \in s.flags)
               /\ space[p][va].exec = (\E s \in touching(va) : "exec" \in s.flags)
         /\ \A va \in DOMAIN space[p] :
               /\ ~ (space[p][va].write /\ space[p][va].exec)
               /\ Bytes(va) \subseteq UserBase..(UserTop - 1)
         /\ \A va \in V : space[p][va].write
         /\ \E va \in mapped : e.entry \in Bytes(va) /\ space[p][va].exec
    BY <2>10, <2>11, <2>12, <2>14, <2>15, <2>16
  <2>18. QED
    BY <2>17 DEF mapped, touching
<1>2. QED
  BY <1>1, Invariance, PTL

\* A process finds in its memory zeros, its file and what it wrote itself, never
\* what another left in a frame, and neither its own stores nor copy_to_user
\* change a page it may not write.
THEOREM DataCorrect == Spec => []OwnDataOnly
<1>1. Inv => OwnDataOnly
  <2> SUFFICES ASSUME Inv, NEW p \in Live, NEW va \in DOMAIN space[p], space[p][va].frame \in Frame
               PROVE  /\ content[space[p][va].frame] = Zero \/ content[space[p][va].frame].by = p
                      /\ content[space[p][va].frame].what = "written" => space[p][va].write
    BY DEF OwnDataOnly
  <2> DEFINE f == space[p][va].frame
  <2>1. p \in Process /\ kind[p] # None
    BY DEF Live
  <2>2. ImageOk(p) /\ SpaceOk(p) /\ DataOk(p)
    BY <2>1 DEF Inv, Process1
  <2>3. va \notin FramebufferPart(p) /\ f \in ReleasedFrames(p)
    BY <2>1, SpaceOf
  <2>4. Mine(p, f, content[f])
    BY <2>2, <2>3 DEF DataOk
  <2>5. content[f] = Zero \/ content[f].by = p
    BY <2>4 DEF Mine
  <2>6. ASSUME content[f].what = "written" PROVE space[p][va].write
    <3>1. CASE va \in StackPart(p)
      BY <2>2, <3>1 DEF SpaceOk
    <3>2. CASE va \in DOMAIN image[p]
      <4>1. image[p][va] = f
        BY <2>1, <3>2, SpaceOf
      <4>2. content[f] # Zero
        BY <2>6 DEF Zero
      <4>3. "write" \in PageFlags(file[p], va)
        BY <2>4, <2>6, <3>2, <4>1, <4>2 DEF Mine
      <4>4. space[p][va] = VmmFlags(PageFlags(file[p], va), image[p][va])
        BY <2>2, <3>2 DEF SpaceOk
      <4>5. space[p][va].write = ("write" \in PageFlags(file[p], va))
        BY <4>4 DEF VmmFlags
      <4>6. QED
        BY <4>3, <4>5
    <3>3. QED
      BY <2>1, <2>3, <3>1, <3>2, SpaceOf
  <2>7. QED
    BY <2>5, <2>6
<1>2. QED
  BY <1>1, Invariance, PTL

\* The framebuffer is mapped whole in the process framebuffer.c remembers and in
\* no other, and that process still exists: framebuffer_map undoes a mapping it
\* cannot finish, and a process that has it mapped is not freed.
THEOREM FramebufferCorrect == Spec => []FramebufferOwned
<1>1. Inv => FramebufferOwned
  <2> SUFFICES ASSUME Inv PROVE FramebufferOwned
    OBVIOUS
  <2>1. owner # None => owner \in Live
    BY DEF Inv, Types, Process1, Gone, Live
  <2>2. ASSUME NEW p \in Live
        PROVE  {space[p][va].frame : va \in DOMAIN space[p]} \ Frame =
                   IF p = owner THEN {Device(k) : k \in 0..(FramebufferPages - 1)} ELSE {}
    <3> DEFINE G == FramebufferPart(p)
    <3>1. p \in Process /\ kind[p] # None /\ SpaceOk(p)
      BY DEF Inv, Process1, Live
    <3>2. ReleasedFrames(p) \subseteq Frame
      BY <3>1, FramesIn, Pool DEF Inv
    <3>3. \A va \in DOMAIN space[p] : space[p][va].frame \notin Frame <=> va \in G
      BY <3>1, <3>2, SpaceOf
    <3>4. /\ G \subseteq DOMAIN space[p]
          /\ \A va \in G : space[p][va] = [frame |-> Device(va - FramebufferVa), write |-> TRUE, exec |-> FALSE]
      BY <3>1 DEF SpaceOk
    <3>5. {space[p][va].frame : va \in DOMAIN space[p]} \ Frame = {Device(va - FramebufferVa) : va \in G}
      <4>1. ASSUME NEW va \in G PROVE space[p][va].frame = Device(va - FramebufferVa)
        <5>1. space[p][va] = [frame |-> Device(va - FramebufferVa), write |-> TRUE, exec |-> FALSE]
          BY <3>4
        <5>2. QED
          BY <5>1
      <4> HIDE DEF G
      <4>2. QED
        BY <3>3, <3>4, <4>1
    <3>6. CASE p # owner
      BY <3>5, <3>6 DEF FramebufferPart
    <3>7. CASE p = owner
      <4> DEFINE N == 0..(FramebufferPages - 1)
      <4>1. G = FramebufferVa..(FramebufferVa + FramebufferPages - 1)
        BY <3>7 DEF FramebufferPart, FramebufferVas
      <4>2. \A va \in G : va - FramebufferVa \in N
        BY <4>1, Sizes
      <4>3. \A k \in N : FramebufferVa + k \in G /\ (FramebufferVa + k) - FramebufferVa = k
        BY <4>1, Sizes
      <4> HIDE DEF G, N
      <4>4. {Device(va - FramebufferVa) : va \in G} = {Device(k) : k \in N}
        <5>1. \A va \in G : Device(va - FramebufferVa) \in {Device(k) : k \in N}
          BY <4>2
        <5>2. \A k \in N : Device(k) \in {Device(va - FramebufferVa) : va \in G}
          BY <4>3
        <5>3. QED
          BY <5>1, <5>2
      <4>5. QED
        BY <3>5, <3>7, <4>4 DEF N
    <3>8. QED
      BY <3>6, <3>7
  <2>3. QED
    BY <2>1, <2>2 DEF FramebufferOwned
<1>2. QED
  BY <1>1, Invariance, PTL
=============================================================================
