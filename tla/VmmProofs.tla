----------------------------- MODULE VmmProofs -----------------------------
(***************************************************************************)
(* The page tables of Vmm.tla, for any number of entries, frames and       *)
(* processes and any hierarchy the boot loader may leave.                  *)
(***************************************************************************)
EXTENDS Vmm, WellFoundedInduction, SequenceTheorems, TLAPS

TablesIn == [Frame \cup BootFrame -> [Index -> Entry]]

-----------------------------------------------------------------------------
(* A well-formed hierarchy.  T holds the tables; used are the frames that   *)
(* are tables, R those that are top-level tables and K the kernel's.  Each  *)
(* used frame has a level, and own are the tables of the lower halves of    *)
(* the processes.                                                           *)

\* An entry of a top level for the kernel's top level, as Limine may leave one.
SelfEntry(T, R, K, f, i) == f \in R /\ i >= KernelFirst /\ IsRecursive(BootRoot, i) /\ T[f][i].at = K

IsTable(T, f, i) == T[f][i].kind = "table"

\* The entries a process has for itself.
Lower(R, K, own, f, i) == f \in own \/ (f \in R \ {K} /\ i < KernelFirst)

Sets(T, used, R, K, level, own) ==
    /\ T \in TablesIn
    /\ used \subseteq Frame
    /\ R \subseteq used
    /\ K \in R
    /\ level \in [Frame -> 1..4]
    /\ own \subseteq used \ R

\* The level of a table says what its entries may be.
Leveled(T, used, R, K, level) ==
    /\ \A f \in used : level[f] = 4 <=> f \in R
    /\ \A f \in used, i \in Index :
        /\ T[f][i].kind = "absent" => T[f][i] = Absent
        /\ T[f][i].kind = "page" => level[f] = 1
        /\ T[f][i].kind = "large" => level[f] \in {2, 3}
        /\ IsTable(T, f, i) =>
            /\ T[f][i].at \in used
            /\ T[f][i].owned
            /\ level[f] = level[T[f][i].at] + 1 \/ SelfEntry(T, R, K, f, i)

\* Every table but a top level hangs somewhere.
Held(T, used, R) == \A f \in used \ R : \E g \in used, i \in Index : IsTable(T, g, i) /\ T[g][i].at = f

\* It hangs in one place, those of the upper half in the same place of every top level.
Single(T, used, R) ==
    \A f, g \in used, i, j \in Index :
        IsTable(T, f, i) /\ IsTable(T, g, j) /\ T[f][i].at = T[g][j].at
            => (f = g /\ i = j) \/ (i = j /\ i >= KernelFirst /\ f \in R /\ g \in R)

\* The tables of a process are open to ring 3 and writable.
Owned(T, used, R, K, own) ==
    \A f \in used, i \in Index :
        IsTable(T, f, i) =>
            /\ T[f][i].at \in own <=> Lower(R, K, own, f, i)
            /\ Lower(R, K, own, f, i) => T[f][i].user /\ T[f][i].writable

\* The upper half of a process is the kernel's, closed to ring 3.
Shared(T, R, K) ==
    \A r \in R \ {K}, i \in Index : i >= KernelFirst => T[r][i] = [T[K][i] EXCEPT !.user = FALSE]

Blank(T, used) == \A f \in Frame \ used : T[f] = EmptyTable

Well(T, used, R, K, level, own) ==
    /\ Sets(T, used, R, K, level, own)
    /\ Leveled(T, used, R, K, level)
    /\ Held(T, used, R)
    /\ Single(T, used, R)
    /\ Owned(T, used, R, K, own)
    /\ Shared(T, R, K)
    /\ Blank(T, used)

\* What an entry holds, and that an empty table is one.
LEMMA EntryFields ==
    /\ Absent \in Entry
    /\ EmptyTable \in [Index -> Entry]
    /\ \A i \in Index : EmptyTable[i] = Absent
    /\ \A e \in Entry : e.kind \in {"absent", "table", "large", "page"} /\ e.user \in BOOLEAN /\ e.writable \in BOOLEAN
    /\ Absent.kind = "absent" /\ Absent.at = Nowhere
  BY DEF Absent, Entry, EmptyTable

\* A new, empty table is hung under a table that had nothing there.
LEMMA LinkWell ==
    ASSUME NEW T, NEW used, NEW R, NEW K, NEW level, NEW own, Well(T, used, R, K, level, own),
           NEW t \in used, NEW i \in Index, level[t] # 1, T[t][i] = Absent,
           NEW n \in Frame \ used, NEW e \in Entry, e.kind = "table", e.at = n, e.owned,
           NEW T2 \in TablesIn, T2[t][i] = e, T2[n] = EmptyTable,
           \A f \in Frame, j \in Index : f # n /\ (f # t \/ j # i) => T2[f][j] = T[f][j],
           t \in R /\ i >= KernelFirst => R = {K},
           Lower(R, K, own, t, i) => e.user /\ e.writable
    PROVE  \E level2, own2 : Well(T2, used \cup {n}, R, K, level2, own2)
<1>1. PICK l2 : l2 = [level EXCEPT ![n] = level[t] - 1]
  OBVIOUS
<1>2. PICK o2 : o2 = IF Lower(R, K, own, t, i) THEN own \cup {n} ELSE own
  OBVIOUS
<1>3. PICK u2 : u2 = used \cup {n}
  OBVIOUS
<1>4. /\ T \in TablesIn /\ used \subseteq Frame /\ R \subseteq used /\ K \in R
      /\ level \in [Frame -> 1..4] /\ own \subseteq used \ R
  BY DEF Well, Sets
<1>5. /\ l2 \in [Frame -> 1..4] /\ l2[n] = level[t] - 1
      /\ \A f \in Frame : f # n => l2[f] = level[f]
  BY <1>1, <1>4
<1>6. /\ n \notin used /\ t # n /\ t \in Frame
      /\ \A f \in used : f # n
      /\ \A f \in used, j \in Index : f # t \/ j # i => T2[f][j] = T[f][j]
      /\ \A j \in Index : T2[n][j] = Absent
  BY <1>4, EntryFields
<1>7. Sets(T2, u2, R, K, l2, o2)
  BY <1>2, <1>3, <1>4, <1>5 DEF Sets
<1>8. /\ IsTable(T2, t, i) /\ T2[t][i].at = n
      /\ \A j \in Index : ~ IsTable(T2, n, j)
      /\ \A f \in used, j \in Index : f # t \/ j # i => (IsTable(T2, f, j) <=> IsTable(T, f, j))
      /\ ~ IsTable(T, t, i)
  BY <1>6, EntryFields DEF IsTable
<1>9. Leveled(T2, u2, R, K, l2)
  <2>1. Leveled(T, used, R, K, level)
    BY DEF Well
  <2>2. ASSUME NEW f \in u2 PROVE l2[f] = 4 <=> f \in R
    BY <1>3, <1>4, <1>5, <1>6, <2>1 DEF Leveled
  <2>3. ASSUME NEW f \in u2, NEW j \in Index
        PROVE  /\ T2[f][j].kind = "absent" => T2[f][j] = Absent
               /\ T2[f][j].kind = "page" => l2[f] = 1
               /\ T2[f][j].kind = "large" => l2[f] \in {2, 3}
               /\ IsTable(T2, f, j) =>
                    /\ T2[f][j].at \in u2
                    /\ T2[f][j].owned
                    /\ l2[f] = l2[T2[f][j].at] + 1 \/ SelfEntry(T2, R, K, f, j)
    <3>1. CASE f = n
      BY <1>6, <1>8, <3>1, EntryFields
    <3>2. CASE f = t /\ j = i
      BY <1>3, <1>4, <1>5, <1>6, <3>2 DEF IsTable
    <3>3. CASE f # n /\ (f # t \/ j # i)
      <4>1. f \in used /\ T2[f][j] = T[f][j] /\ l2[f] = level[f]
        BY <1>3, <1>4, <1>5, <1>6, <3>3
      <4>2. IsTable(T, f, j) => T[f][j].at \in used /\ l2[T[f][j].at] = level[T[f][j].at]
        BY <1>4, <1>5, <1>6, <2>1, <4>1 DEF Leveled
      <4>3. QED
        BY <1>3, <2>1, <4>1, <4>2 DEF Leveled, IsTable, SelfEntry
    <3>4. QED
      BY <3>1, <3>2, <3>3
  <2>4. QED
    BY <2>2, <2>3 DEF Leveled
<1>10. Held(T2, u2, R)
  <2> SUFFICES ASSUME NEW f \in u2 \ R PROVE \E g \in u2, j \in Index : IsTable(T2, g, j) /\ T2[g][j].at = f
    BY DEF Held
  <2>1. CASE f = n
    BY <1>3, <1>8, <2>1
  <2>2. CASE f # n
    <3>1. PICK g \in used, j \in Index : IsTable(T, g, j) /\ T[g][j].at = f
      BY <1>3, <2>2 DEF Well, Held
    <3>2. g # t \/ j # i
      BY <1>8, <3>1
    <3>3. QED
      BY <1>3, <1>6, <1>8, <3>1, <3>2
  <2>3. QED
    BY <2>1, <2>2
<1>11. \A f \in used, j \in Index : IsTable(T, f, j) => T[f][j].at \in used
  BY DEF Well, Leveled
<1>12. Single(T2, u2, R)
  <2> SUFFICES ASSUME NEW f \in u2, NEW g \in u2, NEW j \in Index, NEW k \in Index,
                      IsTable(T2, f, j), IsTable(T2, g, k), T2[f][j].at = T2[g][k].at
               PROVE  (f = g /\ j = k) \/ (j = k /\ j >= KernelFirst /\ f \in R /\ g \in R)
    BY DEF Single
  <2>1. f \in used /\ g \in used
    BY <1>3, <1>8
  <2>2. CASE f = t /\ j = i
    BY <1>6, <1>8, <1>11, <2>1, <2>2
  <2>3. CASE g = t /\ k = i
    BY <1>6, <1>8, <1>11, <2>1, <2>3
  <2>4. CASE (f # t \/ j # i) /\ (g # t \/ k # i)
    <3>1. IsTable(T, f, j) /\ IsTable(T, g, k) /\ T[f][j].at = T[g][k].at
      BY <1>6, <1>8, <2>1, <2>4
    <3>2. QED
      BY <2>1, <3>1 DEF Well, Single
  <2>5. QED
    BY <2>2, <2>3, <2>4
<1>13. Owned(T2, u2, R, K, o2)
  <2> SUFFICES ASSUME NEW f \in u2, NEW j \in Index, IsTable(T2, f, j)
               PROVE  /\ T2[f][j].at \in o2 <=> Lower(R, K, o2, f, j)
                      /\ Lower(R, K, o2, f, j) => T2[f][j].user /\ T2[f][j].writable
    BY DEF Owned
  <2>1. f \in used /\ f # n
    BY <1>3, <1>6, <1>8
  <2>2. Lower(R, K, o2, f, j) <=> Lower(R, K, own, f, j)
    BY <1>2, <2>1 DEF Lower
  <2>3. CASE f = t /\ j = i
    BY <1>2, <1>4, <1>8, <2>2, <2>3
  <2>4. CASE f # t \/ j # i
    <3>1. IsTable(T, f, j) /\ T2[f][j] = T[f][j]
      BY <1>6, <1>8, <2>1, <2>4
    <3>2. T[f][j].at # n
      BY <1>6, <1>11, <2>1, <3>1
    <3>3. T[f][j].at \in o2 <=> T[f][j].at \in own
      BY <1>2, <3>2
    <3>4. QED
      BY <2>1, <2>2, <3>1, <3>3 DEF Well, Owned
  <2>5. QED
    BY <2>3, <2>4
<1>14. Shared(T2, R, K)
  <2> SUFFICES ASSUME NEW r \in R \ {K}, NEW j \in Index, j >= KernelFirst
               PROVE  T2[r][j] = [T2[K][j] EXCEPT !.user = FALSE]
    BY DEF Shared
  <2>1. r \in used /\ K \in used
    BY <1>4
  <2>2. (r # t \/ j # i) /\ (K # t \/ j # i)
    BY <1>4
  <2>3. T2[r][j] = T[r][j] /\ T2[K][j] = T[K][j]
    BY <1>6, <2>1, <2>2
  <2>4. QED
    BY <2>3 DEF Well, Shared
<1>15. Blank(T2, u2)
  <2> SUFFICES ASSUME NEW f \in Frame, f \notin u2 PROVE T2[f] = EmptyTable
    BY DEF Blank
  <2>1. T[f] = EmptyTable /\ f # n /\ f # t
    BY <1>3 DEF Well, Blank
  <2>2. T2[f] \in [Index -> Entry] /\ T[f] \in [Index -> Entry] /\ \A j \in Index : T2[f][j] = T[f][j]
    BY <1>4, <2>1 DEF TablesIn
  <2>3. T2[f] = T[f]
    BY <2>2
  <2>4. QED
    BY <2>1, <2>3
<1>16. Well(T2, u2, R, K, l2, o2)
  BY <1>7, <1>9, <1>10, <1>12, <1>13, <1>14, <1>15 DEF Well
<1>17. QED
  BY <1>3, <1>16

\* An entry of a last table is set to a page or cleared.
LEMMA LeafWell ==
    ASSUME NEW T, NEW used, NEW R, NEW K, NEW level, NEW own, Well(T, used, R, K, level, own),
           NEW t \in used, NEW i \in Index, level[t] = 1,
           NEW T2 \in TablesIn, T2[t][i] = Absent \/ T2[t][i].kind = "page",
           \A f \in Frame, j \in Index : f # t \/ j # i => T2[f][j] = T[f][j]
    PROVE  Well(T2, used, R, K, level, own)
<1>1. /\ T \in TablesIn /\ used \subseteq Frame /\ R \subseteq used /\ K \in R
      /\ level \in [Frame -> 1..4] /\ own \subseteq used \ R
  BY DEF Well, Sets
<1>2. \A f \in used, j \in Index : f # t \/ j # i => T2[f][j] = T[f][j]
  BY <1>1
<1>3. ~ IsTable(T2, t, i) /\ ~ IsTable(T, t, i) /\ t \notin R
  <2>1. Leveled(T, used, R, K, level)
    BY DEF Well
  <2>2. t \notin R
    BY <2>1 DEF Leveled
  <2>3. \A f \in used : level[f] # 0
    BY <1>1
  <2>4. ~ IsTable(T, t, i)
    <3> SUFFICES ASSUME IsTable(T, t, i) PROVE FALSE
      OBVIOUS
    <3>1. T[t][i].at \in used /\ level[t] = level[T[t][i].at] + 1
      BY <2>1, <2>2 DEF Leveled, SelfEntry
    <3>2. level[T[t][i].at] \in 1..4
      BY <1>1, <3>1
    <3>3. QED
      BY <3>1, <3>2
  <2>5. QED
    BY <2>2, <2>4, EntryFields DEF IsTable
<1>4. \A f \in used, j \in Index : IsTable(T2, f, j) <=> IsTable(T, f, j)
  BY <1>2, <1>3 DEF IsTable
<1>5. \A f \in used, j \in Index : IsTable(T2, f, j) => T2[f][j] = T[f][j]
  BY <1>2, <1>3
<1>6. Sets(T2, used, R, K, level, own)
  BY <1>1 DEF Sets
<1>7. Leveled(T2, used, R, K, level)
  <2>1. Leveled(T, used, R, K, level)
    BY DEF Well
  <2>2. ASSUME NEW f \in used, NEW j \in Index
        PROVE  /\ T2[f][j].kind = "absent" => T2[f][j] = Absent
               /\ T2[f][j].kind = "page" => level[f] = 1
               /\ T2[f][j].kind = "large" => level[f] \in {2, 3}
               /\ IsTable(T2, f, j) =>
                    /\ T2[f][j].at \in used
                    /\ T2[f][j].owned
                    /\ level[f] = level[T2[f][j].at] + 1 \/ SelfEntry(T2, R, K, f, j)
    <3>1. CASE f = t /\ j = i
      BY <1>3, <3>1, EntryFields
    <3>2. CASE f # t \/ j # i
      <4>1. T2[f][j] = T[f][j]
        BY <1>2, <3>2
      <4>2. QED
        BY <2>1, <4>1 DEF Leveled, IsTable, SelfEntry
    <3>3. QED
      BY <3>1, <3>2
  <2>3. QED
    BY <2>1, <2>2 DEF Leveled
<1>8. Held(T2, used, R)
  BY <1>4, <1>5 DEF Well, Held
<1>9. Single(T2, used, R)
  <2> SUFFICES ASSUME NEW f \in used, NEW g \in used, NEW j \in Index, NEW k \in Index,
                      IsTable(T2, f, j), IsTable(T2, g, k), T2[f][j].at = T2[g][k].at
               PROVE  (f = g /\ j = k) \/ (j = k /\ j >= KernelFirst /\ f \in R /\ g \in R)
    BY DEF Single
  <2>1. IsTable(T, f, j) /\ IsTable(T, g, k) /\ T[f][j].at = T[g][k].at
    BY <1>4, <1>5
  <2>2. QED
    BY <2>1 DEF Well, Single
<1>10. Owned(T2, used, R, K, own)
  <2> SUFFICES ASSUME NEW f \in used, NEW j \in Index, IsTable(T2, f, j)
               PROVE  /\ T2[f][j].at \in own <=> Lower(R, K, own, f, j)
                      /\ Lower(R, K, own, f, j) => T2[f][j].user /\ T2[f][j].writable
    BY DEF Owned
  <2>1. IsTable(T, f, j) /\ T2[f][j] = T[f][j]
    BY <1>4, <1>5
  <2>2. QED
    BY <2>1 DEF Well, Owned
<1>11. Shared(T2, R, K)
  <2> SUFFICES ASSUME NEW r \in R \ {K}, NEW j \in Index, j >= KernelFirst
               PROVE  T2[r][j] = [T2[K][j] EXCEPT !.user = FALSE]
    BY DEF Shared
  <2>1. T2[r][j] = T[r][j] /\ T2[K][j] = T[K][j]
    BY <1>1, <1>2, <1>3
  <2>2. QED
    BY <2>1 DEF Well, Shared
<1>12. Blank(T2, used)
  <2> SUFFICES ASSUME NEW f \in Frame, f \notin used PROVE T2[f] = EmptyTable
    BY DEF Blank
  <2>1. T[f] = EmptyTable /\ f # t
    BY DEF Well, Blank
  <2>2. T2[f] \in [Index -> Entry] /\ T[f] \in [Index -> Entry] /\ \A j \in Index : T2[f][j] = T[f][j]
    BY <1>1, <2>1 DEF TablesIn
  <2>3. QED
    BY <2>1, <2>2
<1>13. QED
  BY <1>6, <1>7, <1>8, <1>9, <1>10, <1>11, <1>12 DEF Well

\* An empty table is taken from the place it hangs in and given back.
LEMMA UnlinkWell ==
    ASSUME NEW T, NEW used, NEW R, NEW K, NEW level, NEW own, Well(T, used, R, K, level, own),
           NEW t \in used, NEW i \in Index, NEW c \in used, IsTable(T, t, i), T[t][i].at = c, c \notin R,
           \A j \in Index : T[c][j].kind = "absent",
           NEW T2 \in TablesIn, T2[t][i] = Absent, T2[c] = EmptyTable,
           \A f \in Frame, j \in Index : f # c /\ (f # t \/ j # i) => T2[f][j] = T[f][j],
           t \in R /\ i >= KernelFirst => R = {K}
    PROVE  \E own2 : Well(T2, used \ {c}, R, K, level, own2)
<1>1. /\ T \in TablesIn /\ used \subseteq Frame /\ R \subseteq used /\ K \in R
      /\ level \in [Frame -> 1..4] /\ own \subseteq used \ R
  BY DEF Well, Sets
<1>2. PICK u2 : u2 = used \ {c}
  OBVIOUS
<1>3. PICK o2 : o2 = own \ {c}
  OBVIOUS
<1>4. /\ ~ IsTable(T2, t, i)
      /\ \A j \in Index : T2[c][j] = Absent /\ ~ IsTable(T, c, j)
      /\ \A f \in u2, j \in Index : f # t \/ j # i => T2[f][j] = T[f][j]
      /\ t # c
  BY <1>1, <1>2, EntryFields DEF IsTable
<1>5. Leveled(T, used, R, K, level)
  BY DEF Well
\* c hangs only there
<1>6. ASSUME NEW f \in used, NEW j \in Index, IsTable(T, f, j), T[f][j].at = c PROVE f = t /\ j = i
  <2>1. (f = t /\ j = i) \/ (j = i /\ i >= KernelFirst /\ f \in R /\ t \in R)
    BY <1>6 DEF Well, Single
  <2>2. QED
    BY <2>1
<1>7. \A f \in u2, j \in Index :
        IsTable(T2, f, j) => f \in used /\ IsTable(T, f, j) /\ T2[f][j] = T[f][j] /\ T[f][j].at # c
  BY <1>2, <1>4, <1>6 DEF IsTable
<1>8. Sets(T2, u2, R, K, level, o2)
  BY <1>1, <1>2, <1>3 DEF Sets
<1>9. Leveled(T2, u2, R, K, level)
  <2>1. ASSUME NEW f \in u2, NEW j \in Index
        PROVE  /\ T2[f][j].kind = "absent" => T2[f][j] = Absent
               /\ T2[f][j].kind = "page" => level[f] = 1
               /\ T2[f][j].kind = "large" => level[f] \in {2, 3}
               /\ IsTable(T2, f, j) =>
                    /\ T2[f][j].at \in u2
                    /\ T2[f][j].owned
                    /\ level[f] = level[T2[f][j].at] + 1 \/ SelfEntry(T2, R, K, f, j)
    <3>1. CASE f = t /\ j = i
      BY <1>4, <3>1, EntryFields
    <3>2. CASE f # t \/ j # i
      <4>1. T2[f][j] = T[f][j] /\ f \in used
        BY <1>2, <1>4, <3>2
      <4>2. IsTable(T2, f, j) => T[f][j].at \in u2
        BY <1>2, <1>5, <1>7, <4>1 DEF Leveled
      <4>3. QED
        BY <1>5, <4>1, <4>2 DEF Leveled, IsTable, SelfEntry
    <3>3. QED
      BY <3>1, <3>2
  <2>2. QED
    BY <1>2, <1>5, <2>1 DEF Leveled
<1>10. Held(T2, u2, R)
  <2> SUFFICES ASSUME NEW f \in u2 \ R PROVE \E g \in u2, j \in Index : IsTable(T2, g, j) /\ T2[g][j].at = f
    BY DEF Held
  <2>1. PICK g \in used, j \in Index : IsTable(T, g, j) /\ T[g][j].at = f
    BY <1>2 DEF Well, Held
  <2>2. g # c /\ (g # t \/ j # i)
    BY <1>2, <1>4, <2>1
  <2>3. g \in u2 /\ T2[g][j] = T[g][j]
    BY <1>2, <1>4, <2>2
  <2>4. QED
    BY <2>1, <2>3 DEF IsTable
<1>11. Single(T2, u2, R)
  <2> SUFFICES ASSUME NEW f \in u2, NEW g \in u2, NEW j \in Index, NEW k \in Index,
                      IsTable(T2, f, j), IsTable(T2, g, k), T2[f][j].at = T2[g][k].at
               PROVE  (f = g /\ j = k) \/ (j = k /\ j >= KernelFirst /\ f \in R /\ g \in R)
    BY DEF Single
  <2>1. f \in used /\ g \in used /\ IsTable(T, f, j) /\ IsTable(T, g, k) /\ T[f][j].at = T[g][k].at
    BY <1>7
  <2>2. QED
    BY <2>1 DEF Well, Single
<1>12. Owned(T2, u2, R, K, o2)
  <2> SUFFICES ASSUME NEW f \in u2, NEW j \in Index, IsTable(T2, f, j)
               PROVE  /\ T2[f][j].at \in o2 <=> Lower(R, K, o2, f, j)
                      /\ Lower(R, K, o2, f, j) => T2[f][j].user /\ T2[f][j].writable
    BY DEF Owned
  <2>1. f \in used /\ IsTable(T, f, j) /\ T2[f][j] = T[f][j] /\ T[f][j].at # c
    BY <1>7
  <2>2. Lower(R, K, o2, f, j) <=> Lower(R, K, own, f, j)
    BY <1>2, <1>3 DEF Lower
  <2>3. T[f][j].at \in o2 <=> T[f][j].at \in own
    BY <1>3, <2>1
  <2>4. QED
    BY <2>1, <2>2, <2>3 DEF Well, Owned
<1>13. Shared(T2, R, K)
  <2> SUFFICES ASSUME NEW r \in R \ {K}, NEW j \in Index, j >= KernelFirst
               PROVE  T2[r][j] = [T2[K][j] EXCEPT !.user = FALSE]
    BY DEF Shared
  <2>1. r \in u2 /\ K \in u2
    BY <1>1, <1>2
  <2>2. (r # t \/ j # i) /\ (K # t \/ j # i)
    BY <1>1
  <2>3. T2[r][j] = T[r][j] /\ T2[K][j] = T[K][j]
    BY <1>4, <2>1, <2>2
  <2>4. QED
    BY <2>3 DEF Well, Shared
<1>14. Blank(T2, u2)
  <2> SUFFICES ASSUME NEW f \in Frame, f \notin u2, f # c PROVE T2[f] = EmptyTable
    BY DEF Blank
  <2>1. T[f] = EmptyTable /\ f # t
    BY <1>2 DEF Well, Blank
  <2>2. T2[f] \in [Index -> Entry] /\ T[f] \in [Index -> Entry] /\ \A j \in Index : T2[f][j] = T[f][j]
    BY <1>1, <2>1 DEF TablesIn
  <2>3. QED
    BY <2>1, <2>2
<1>15. Well(T2, u2, R, K, level, o2)
  BY <1>8, <1>9, <1>10, <1>11, <1>12, <1>13, <1>14 DEF Well
<1>16. QED
  BY <1>2, <1>15

-----------------------------------------------------------------------------
(* Translations, level by level.                                            *)

\* What the translation of va has found after each level.
Walk(T, r, va) ==
    [d \in 1..4 |->
        CASE d = 1 -> T[r][va[1]]
          [] d = 2 -> Under(T, T[r][va[1]], va[2])
          [] d = 3 -> Under(T, Under(T, T[r][va[1]], va[2]), va[3])
          [] d = 4 -> Under(T, Under(T, Under(T, T[r][va[1]], va[2]), va[3]), va[4])]

\* The walk s from r comes to a table at depth d, which is At(s, r, d).
Deep(s, d) == d = 1 \/ s[d - 1].kind = "table"

At(s, r, d) == IF d = 1 THEN r ELSE s[d - 1].at

\* The steps of a walk, one level at a time.
LEMMA WalkSteps ==
    ASSUME NEW T, NEW r, NEW va, NEW s, s = Walk(T, r, va)
    PROVE  /\ s[1] = T[r][va[1]]
           /\ \A d \in 1..3 : s[d + 1] = Under(T, s[d], va[d + 1])
           /\ TranslateIn(T, r, va) = s[4]
<1>1. s[1] = T[r][va[1]] /\ s[2] = Under(T, s[1], va[2])
  BY DEF Walk
<1>2. s[3] = Under(T, s[2], va[3])
  BY <1>1 DEF Walk
<1>3. s[4] = Under(T, s[3], va[4])
  BY <1>1, <1>2 DEF Walk
<1>4. \A d \in 1..3 : s[d + 1] = Under(T, s[d], va[d + 1])
  <2> TAKE d \in 1..3
  <2>1. d = 1 \/ d = 2 \/ d = 3
    OBVIOUS
  <2>2. QED
    BY <1>1, <1>2, <1>3, <2>1
<1>5. TranslateIn(T, r, va) = s[4]
  BY DEF TranslateIn, Walk
<1>6. QED
  BY <1>1, <1>4, <1>5

\* The parts of an entry that is found under another one.
LEMMA UnderFields ==
    ASSUME NEW T, NEW e, NEW i, NEW b, b = T[e.at][i], b \in Entry, e.kind = "table", e \in Entry
    PROVE  /\ Under(T, e, i) \in Entry
           /\ Under(T, e, i).kind = b.kind
           /\ Under(T, e, i).at = b.at
           /\ Under(T, e, i).owned = b.owned
           /\ Under(T, e, i).user <=> b.user /\ e.user
           /\ Under(T, e, i).writable <=> b.writable /\ e.writable
<1>1. PICK x : x = [b EXCEPT !.user = b.user /\ e.user, !.writable = b.writable /\ e.writable]
  OBVIOUS
<1>2. Under(T, e, i) = x
  BY <1>1 DEF Under
<1>3. b.user \in BOOLEAN /\ e.user \in BOOLEAN /\ b.writable \in BOOLEAN /\ e.writable \in BOOLEAN
  BY DEF Entry
<1>4. x \in Entry
  BY <1>1, <1>3 DEF Entry
<1>5. x.kind = b.kind /\ x.at = b.at /\ x.owned = b.owned
  BY <1>1 DEF Entry
<1>6. x.user = (b.user /\ e.user) /\ x.writable = (b.writable /\ e.writable)
  BY <1>1 DEF Entry
<1>7. QED
  BY <1>2, <1>4, <1>5, <1>6

\* A walk that met a page, or nothing, stays there.
LEMMA UnderOther ==
    ASSUME NEW T, NEW e, NEW i, e.kind # "table"
    PROVE  Under(T, e, i) = e
  BY DEF Under

\* An address that does not go through the entry Limine's top level has for itself.
Plain == {va \in Page : ~ IsRecursive(BootRoot, va[1])}

\* Along a walk each table is in use, at its level, and the entry met is the table's.
LEMMA PathWell ==
    ASSUME NEW T, NEW used, NEW R, NEW K, NEW level, NEW own, Well(T, used, R, K, level, own),
           NEW r \in R, NEW va \in Plain, NEW s, s = Walk(T, r, va)
    PROVE  /\ \A d \in 1..4 : s[d] \in Entry
           /\ \A d \in 1..4 : Deep(s, d) =>
                /\ At(s, r, d) \in used
                /\ level[At(s, r, d)] = 5 - d
                /\ s[d].kind = T[At(s, r, d)][va[d]].kind
                /\ s[d].at = T[At(s, r, d)][va[d]].at
                /\ s[d].owned = T[At(s, r, d)][va[d]].owned
           /\ s[4].kind # "table"
           /\ \A d \in 1..3 : Deep(s, d + 1) => Deep(s, d)
<1>1. /\ T \in TablesIn /\ used \subseteq Frame /\ R \subseteq used /\ level \in [Frame -> 1..4]
  BY DEF Well, Sets
<1>2. Leveled(T, used, R, K, level)
  BY DEF Well
<1>3. va \in Page /\ \A d \in 1..4 : va[d] \in Index
  BY DEF Plain, Page
<1>4. /\ s[1] = T[r][va[1]]
      /\ \A d \in 1..3 : s[d + 1] = Under(T, s[d], va[d + 1])
  BY WalkSteps
<1> DEFINE Fine(d) ==
        /\ s[d] \in Entry
        /\ Deep(s, d) =>
            /\ At(s, r, d) \in used
            /\ level[At(s, r, d)] = 5 - d
            /\ s[d].kind = T[At(s, r, d)][va[d]].kind
            /\ s[d].at = T[At(s, r, d)][va[d]].at
            /\ s[d].owned = T[At(s, r, d)][va[d]].owned
<1>5. \A f \in used, i \in Index : T[f][i] \in Entry
  BY <1>1 DEF TablesIn
<1>6. Fine(1)
  <2>1. At(s, r, 1) = r /\ r \in used /\ level[r] = 4
    BY <1>1, <1>2 DEF At, Leveled
  <2>2. QED
    BY <1>3, <1>4, <1>5, <2>1
<1>7. ASSUME NEW d \in 1..3, Fine(d), d = 1 \/ Deep(s, d) \/ ~ Deep(s, d + 1)
      PROVE  Fine(d + 1)
  <2>1. s[d + 1] = Under(T, s[d], va[d + 1]) /\ va[d + 1] \in Index
    BY <1>3, <1>4
  <2>2. Deep(s, d + 1) <=> s[d].kind = "table"
    BY DEF Deep
  <2>3. CASE ~ Deep(s, d + 1)
    BY <1>7, <2>1, <2>2, <2>3, UnderOther
  <2>4. CASE Deep(s, d + 1)
    <3>1. Deep(s, d)
      BY <1>7, <2>4 DEF Deep
    <3>2. PICK t : t = At(s, r, d)
      OBVIOUS
    <3>3. /\ t \in used /\ level[t] = 5 - d /\ IsTable(T, t, va[d]) /\ s[d].at = T[t][va[d]].at
          /\ va[d] \in Index
      BY <1>3, <1>7, <2>2, <2>4, <3>1, <3>2 DEF IsTable
    <3>4. ~ SelfEntry(T, R, K, t, va[d])
      <4>1. CASE d = 1
        BY <4>1 DEF Plain, SelfEntry
      <4>2. CASE d # 1
        BY <1>2, <3>3, <4>2 DEF Leveled, SelfEntry
      <4>3. QED
        BY <4>1, <4>2
    <3>5. PICK c : c = s[d].at
      OBVIOUS
    <3>6. c \in used /\ level[t] = level[c] + 1
      BY <1>2, <3>3, <3>4, <3>5 DEF Leveled
    <3>7. At(s, r, d + 1) = c
      BY <3>5 DEF At
    <3>8. level[c] \in 1..4 /\ level[c] = 5 - (d + 1)
      BY <1>1, <3>3, <3>6
    <3>9. PICK b : b = T[c][va[d + 1]] /\ b \in Entry
      BY <1>5, <2>1, <3>6
    <3>10. /\ s[d + 1] \in Entry /\ s[d + 1].kind = b.kind /\ s[d + 1].at = b.at /\ s[d + 1].owned = b.owned
      BY <1>7, <2>1, <2>2, <2>4, <3>5, <3>9, UnderFields
    <3>11. QED
      BY <3>6, <3>7, <3>8, <3>9, <3>10
  <2>5. QED
    BY <2>3, <2>4
<1>8. ASSUME NEW d \in 2..3, ~ Deep(s, d) PROVE ~ Deep(s, d + 1)
  <2>1. PICK c \in 1..3 : d = c + 1
    BY <1>8
  <2>2. s[d] = s[c] /\ s[c].kind # "table"
    BY <1>4, <1>8, <2>1, UnderOther DEF Deep
  <2>3. QED
    BY <2>2 DEF Deep
<1>9. Fine(2)
  BY <1>6, <1>7
<1>10. Fine(3)
  <2>1. Deep(s, 2) \/ ~ Deep(s, 3)
    BY <1>8
  <2>2. QED
    BY <1>7, <1>9, <2>1
<1>11. Fine(4)
  <2>1. Deep(s, 3) \/ ~ Deep(s, 4)
    BY <1>8
  <2>2. QED
    BY <1>7, <1>10, <2>1
<1>12. s[4].kind # "table"
  <2> SUFFICES ASSUME s[4].kind = "table" PROVE FALSE
    OBVIOUS
  <2>1. Deep(s, 4)
    <3> SUFFICES ASSUME ~ Deep(s, 4) PROVE FALSE
      OBVIOUS
    <3>1. s[4] = s[3] /\ s[3].kind # "table"
      BY <1>4, UnderOther DEF Deep
    <3>2. QED
      BY <3>1
  <2>2. PICK t : t = At(s, r, 4)
    OBVIOUS
  <2>3. t \in used /\ level[t] = 1 /\ IsTable(T, t, va[4]) /\ va[4] \in Index
    BY <1>3, <1>11, <2>1, <2>2 DEF IsTable
  <2>4. T[t][va[4]].at \in used /\ level[t] = level[T[t][va[4]].at] + 1
    BY <1>2, <2>3 DEF Leveled, SelfEntry
  <2>5. level[T[t][va[4]].at] \in 1..4
    BY <1>1, <2>4
  <2>6. QED
    BY <2>3, <2>4, <2>5
<1>13. \A d \in 1..4 : Fine(d)
  <2> TAKE d \in 1..4
  <2>1. d = 1 \/ d = 2 \/ d = 3 \/ d = 4
    OBVIOUS
  <2>2. QED
    BY <1>6, <1>9, <1>10, <1>11, <2>1
<1>14. \A d \in 1..3 : Deep(s, d + 1) => Deep(s, d)
  <2> TAKE d \in 1..3
  <2>1. d = 1 => Deep(s, d)
    BY DEF Deep
  <2>2. QED
    BY <1>8, <2>1
<1>15. QED
  BY <1>12, <1>13, <1>14

\* T2 agrees with T on the entries the walk s looks at on its first n levels.
AgreeOn(T, T2, s, r, va, n) == \A d \in 1..n : Deep(s, d) => T2[At(s, r, d)][va[d]] = T[At(s, r, d)][va[d]]

\* Tables that agree on the entries a walk looks at give the same walk.
LEMMA SameWalk ==
    ASSUME NEW T, NEW T2, NEW r, NEW va, NEW s, s = Walk(T, r, va), NEW s2, s2 = Walk(T2, r, va),
           NEW n \in 1..4, AgreeOn(T, T2, s, r, va, n)
    PROVE  \A d \in 1..n : s2[d] = s[d]
<1>1. /\ s[1] = T[r][va[1]]
      /\ \A d \in 1..3 : s[d + 1] = Under(T, s[d], va[d + 1])
  BY WalkSteps
<1>2. /\ s2[1] = T2[r][va[1]]
      /\ \A d \in 1..3 : s2[d + 1] = Under(T2, s2[d], va[d + 1])
  BY WalkSteps
<1>3. s2[1] = s[1]
  <2>1. Deep(s, 1) /\ At(s, r, 1) = r
    BY DEF Deep, At
  <2>2. QED
    BY <1>1, <1>2, <2>1 DEF AgreeOn
<1>4. ASSUME NEW d \in 1..3, d + 1 <= n, s2[d] = s[d] PROVE s2[d + 1] = s[d + 1]
  <2>1. s[d + 1] = Under(T, s[d], va[d + 1]) /\ s2[d + 1] = Under(T2, s[d], va[d + 1])
    BY <1>1, <1>2, <1>4
  <2>2. CASE s[d].kind # "table"
    BY <2>1, <2>2, UnderOther
  <2>3. CASE s[d].kind = "table"
    <3>1. Deep(s, d + 1) /\ At(s, r, d + 1) = s[d].at
      BY <2>3 DEF Deep, At
    <3>2. d + 1 \in 1..n
      BY <1>4
    <3>3. T2[s[d].at][va[d + 1]] = T[s[d].at][va[d + 1]]
      BY <3>1, <3>2 DEF AgreeOn
    <3>4. Under(T2, s[d], va[d + 1]) = Under(T, s[d], va[d + 1])
      BY <3>3 DEF Under
    <3>5. QED
      BY <2>1, <3>4
  <2>4. QED
    BY <2>2, <2>3
<1>5. 2 <= n => s2[2] = s[2]
  BY <1>3, <1>4
<1>6. 3 <= n => s2[3] = s[3]
  BY <1>4, <1>5
<1>7. 4 <= n => s2[4] = s[4]
  BY <1>4, <1>6
<1>8. QED
  <2> TAKE d \in 1..n
  <2>1. d = 1 \/ d = 2 \/ d = 3 \/ d = 4
    OBVIOUS
  <2>2. QED
    BY <1>3, <1>5, <1>6, <1>7, <2>1

\* Walks that meet in a table took the same way to it, but for the top level they
\* began with when the way is in the upper half.
LEMMA SamePlace ==
    ASSUME NEW T, NEW used, NEW R, NEW K, NEW level, NEW own, Well(T, used, R, K, level, own),
           NEW r \in R, NEW va \in Plain, NEW s, s = Walk(T, r, va),
           NEW q \in R, NEW vb \in Plain, NEW z, z = Walk(T, q, vb),
           NEW d \in 1..4, NEW e \in 1..4, Deep(s, d), Deep(z, e), At(s, r, d) = At(z, q, e)
    PROVE  /\ d = e
           /\ \A c \in 1..4 : c < d => va[c] = vb[c]
           /\ r = q \/ (d # 1 /\ va[1] >= KernelFirst)
<1>1. /\ \A c \in 1..4 : Deep(s, c) =>
            At(s, r, c) \in used /\ level[At(s, r, c)] = 5 - c
            /\ s[c].kind = T[At(s, r, c)][va[c]].kind /\ s[c].at = T[At(s, r, c)][va[c]].at
      /\ \A c \in 1..3 : Deep(s, c + 1) => Deep(s, c)
  BY PathWell
<1>2. /\ \A c \in 1..4 : Deep(z, c) =>
            At(z, q, c) \in used /\ level[At(z, q, c)] = 5 - c
            /\ z[c].kind = T[At(z, q, c)][vb[c]].kind /\ z[c].at = T[At(z, q, c)][vb[c]].at
      /\ \A c \in 1..3 : Deep(z, c + 1) => Deep(z, c)
  BY PathWell
<1>3. d = e
  BY <1>1, <1>2
<1>4. \A c \in 1..4 : va[c] \in Index /\ vb[c] \in Index
  BY DEF Plain, Page
<1>5. Leveled(T, used, R, K, level)
  BY DEF Well
<1>6. ASSUME NEW c \in 1..3, Deep(s, c + 1), Deep(z, c + 1), At(s, r, c + 1) = At(z, q, c + 1)
      PROVE  /\ Deep(s, c) /\ Deep(z, c) /\ va[c] = vb[c]
             /\ At(s, r, c) = At(z, q, c) \/ (c = 1 /\ va[1] >= KernelFirst)
  <2>1. Deep(s, c) /\ Deep(z, c) /\ s[c].kind = "table" /\ z[c].kind = "table" /\ s[c].at = z[c].at
    BY <1>1, <1>2, <1>6 DEF Deep, At
  <2>2. PICK f, g : f = At(s, r, c) /\ g = At(z, q, c)
    OBVIOUS
  <2>3. /\ f \in used /\ g \in used /\ level[f] = 5 - c
        /\ IsTable(T, f, va[c]) /\ IsTable(T, g, vb[c]) /\ T[f][va[c]].at = T[g][vb[c]].at
    <3>1. c \in 1..4
      OBVIOUS
    <3>2. f \in used /\ level[f] = 5 - c /\ s[c].kind = T[f][va[c]].kind /\ s[c].at = T[f][va[c]].at
      BY <1>1, <2>1, <2>2, <3>1
    <3>3. g \in used /\ z[c].kind = T[g][vb[c]].kind /\ z[c].at = T[g][vb[c]].at
      BY <1>2, <2>1, <2>2, <3>1
    <3>4. QED
      BY <2>1, <3>2, <3>3 DEF IsTable
  <2>4. (f = g /\ va[c] = vb[c]) \/ (va[c] = vb[c] /\ va[c] >= KernelFirst /\ f \in R /\ g \in R)
    BY <1>4, <2>3 DEF Well, Single
  <2>5. f \in R => c = 1
    BY <1>5, <2>3 DEF Leveled
  <2>6. QED
    BY <2>1, <2>2, <2>4, <2>5
<1>7. At(s, r, 1) = r /\ At(z, q, 1) = q
  BY DEF At
<1>8. CASE d = 1
  BY <1>3, <1>7, <1>8
<1>9. CASE d = 2
  BY <1>3, <1>6, <1>7, <1>9
<1>10. CASE d = 3
  <2>1. Deep(s, 2) /\ Deep(z, 2) /\ va[2] = vb[2] /\ At(s, r, 2) = At(z, q, 2)
    BY <1>3, <1>6, <1>10
  <2>2. QED
    BY <1>3, <1>6, <1>7, <1>10, <2>1
<1>11. CASE d = 4
  <2>1. Deep(s, 3) /\ Deep(z, 3) /\ va[3] = vb[3] /\ At(s, r, 3) = At(z, q, 3)
    BY <1>3, <1>6, <1>11
  <2>2. Deep(s, 2) /\ Deep(z, 2) /\ va[2] = vb[2] /\ At(s, r, 2) = At(z, q, 2)
    BY <1>6, <2>1
  <2>3. QED
    BY <1>3, <1>6, <1>7, <1>11, <2>1, <2>2
<1>12. QED
  BY <1>8, <1>9, <1>10, <1>11

\* Walks of the same address in the upper half meet, from any top level.
LEMMA UpperWalks ==
    ASSUME NEW T, NEW used, NEW R, NEW K, NEW level, NEW own, Well(T, used, R, K, level, own),
           NEW va \in Plain, va[1] >= KernelFirst,
           NEW r \in R, NEW s, s = Walk(T, r, va), NEW q \in R, NEW z, z = Walk(T, q, va)
    PROVE  \A d \in 1..4 :
            /\ Deep(s, d) <=> Deep(z, d)
            /\ d # 1 /\ Deep(s, d) => At(s, r, d) = At(z, q, d)
            /\ s[d].kind = z[d].kind /\ s[d].at = z[d].at /\ s[d].owned = z[d].owned /\ s[d].writable = z[d].writable
<1>1. /\ s[1] = T[r][va[1]]
      /\ \A d \in 1..3 : s[d + 1] = Under(T, s[d], va[d + 1])
  BY WalkSteps
<1>2. /\ z[1] = T[q][va[1]]
      /\ \A d \in 1..3 : z[d + 1] = Under(T, z[d], va[d + 1])
  BY WalkSteps
<1>3. /\ \A d \in 1..4 : s[d] \in Entry
      /\ \A d \in 1..4 : Deep(s, d) => At(s, r, d) \in used
  BY PathWell
<1>4. \A d \in 1..4 : z[d] \in Entry
  BY PathWell
<1>5. T \in TablesIn /\ used \subseteq Frame /\ R \subseteq used /\ \A d \in 1..4 : va[d] \in Index
  BY DEF Well, Sets, Plain, Page
<1>6. \A f \in used, i \in Index : T[f][i] \in Entry
  BY <1>5 DEF TablesIn
<1>7. ASSUME NEW p \in R
      PROVE  /\ T[p][va[1]].kind = T[K][va[1]].kind /\ T[p][va[1]].at = T[K][va[1]].at
             /\ T[p][va[1]].owned = T[K][va[1]].owned /\ T[p][va[1]].writable = T[K][va[1]].writable
  <2>1. CASE p = K
    BY <2>1
  <2>2. CASE p # K
    <3>1. T[p][va[1]] = [T[K][va[1]] EXCEPT !.user = FALSE]
      BY <1>5, <2>2 DEF Well, Shared
    <3>2. T[K][va[1]] \in Entry
      BY <1>5, <1>6 DEF Well, Sets
    <3>3. QED
      BY <3>1, <3>2 DEF Entry
  <2>3. QED
    BY <2>1, <2>2
<1> DEFINE Alike(d) ==
        s[d].kind = z[d].kind /\ s[d].at = z[d].at /\ s[d].owned = z[d].owned /\ s[d].writable = z[d].writable
<1>8. Alike(1)
  BY <1>1, <1>2, <1>7
<1>9. ASSUME NEW d \in 1..3, Alike(d) PROVE Alike(d + 1)
  <2>1. s[d + 1] = Under(T, s[d], va[d + 1]) /\ z[d + 1] = Under(T, z[d], va[d + 1]) /\ va[d + 1] \in Index
    BY <1>1, <1>2, <1>5
  <2>2. CASE s[d].kind # "table"
    BY <1>9, <2>1, <2>2, UnderOther
  <2>3. CASE s[d].kind = "table"
    <3>1. PICK c : c = s[d].at
      OBVIOUS
    <3>2. Deep(s, d + 1) /\ At(s, r, d + 1) = c /\ d + 1 \in 1..4
      BY <2>3, <3>1 DEF Deep, At
    <3>3. PICK b : b = T[c][va[d + 1]] /\ b \in Entry
      BY <1>3, <1>6, <2>1, <3>2
    <3>4. s[d] \in Entry /\ z[d] \in Entry
      BY <1>3, <1>4
    <3>5. /\ s[d + 1].kind = b.kind /\ s[d + 1].at = b.at /\ s[d + 1].owned = b.owned
          /\ s[d + 1].writable <=> b.writable /\ s[d].writable
      BY <2>1, <2>3, <3>1, <3>3, <3>4, UnderFields
    <3>6. /\ z[d + 1].kind = b.kind /\ z[d + 1].at = b.at /\ z[d + 1].owned = b.owned
          /\ z[d + 1].writable <=> b.writable /\ z[d].writable
      <4>1. z[d].kind = "table" /\ b = T[z[d].at][va[d + 1]]
        BY <1>9, <2>3, <3>1, <3>3
      <4>2. QED
        BY <2>1, <3>3, <3>4, <4>1, UnderFields
    <3>7. d + 1 \in 1..4 /\ s[d + 1] \in Entry /\ z[d + 1] \in Entry
      BY <1>3, <1>4
    <3>8. s[d + 1].writable \in BOOLEAN /\ z[d + 1].writable \in BOOLEAN
      BY <3>7, EntryFields
    <3>9. s[d + 1].writable = z[d + 1].writable
      BY <1>9, <3>5, <3>6, <3>8
    <3>10. QED
      BY <3>5, <3>6, <3>9
  <2>4. QED
    BY <2>2, <2>3
<1>10. \A d \in 1..4 : Alike(d)
  <2>1. Alike(2)
    BY <1>8, <1>9
  <2>2. Alike(3)
    BY <1>9, <2>1
  <2>3. Alike(4)
    BY <1>9, <2>2
  <2> TAKE d \in 1..4
  <2>4. d = 1 \/ d = 2 \/ d = 3 \/ d = 4
    OBVIOUS
  <2>5. QED
    BY <1>8, <2>1, <2>2, <2>3, <2>4
<1>11. QED
  <2> TAKE d \in 1..4
  <2>1. CASE d = 1
    BY <1>10, <2>1 DEF Deep
  <2>2. CASE d # 1
    <3>1. PICK c \in 1..3 : d = c + 1
      BY <2>2
    <3>2. Alike(c) /\ Alike(d)
      BY <1>10, <3>1
    <3>3. QED
      BY <3>1, <3>2 DEF Deep, At
  <2>3. QED
    BY <2>1, <2>2

\* A page set or cleared in a last table is seen at the one address that leads there,
\* from one top level or, in the upper half, from all of them.
LEMMA LeafWalks ==
    ASSUME NEW T, NEW used, NEW R, NEW K, NEW level, NEW own, Well(T, used, R, K, level, own),
           NEW r \in R, NEW va \in Plain, NEW s, s = Walk(T, r, va), Deep(s, 4),
           NEW t, t = At(s, r, 4),
           NEW T2, \A f \in Frame, j \in Index : f # t \/ j # va[4] => T2[f][j] = T[f][j],
           NEW q \in R, NEW vb \in Plain
    PROVE  /\ vb = va /\ (q = r \/ va[1] >= KernelFirst) =>
                /\ \A d \in 1..3 : Walk(T2, q, vb)[d] = Walk(T, q, vb)[d]
                /\ Walk(T, q, vb)[3].kind = "table"
                /\ Walk(T, q, vb)[3].at = t
           /\ ~ (vb = va /\ (q = r \/ va[1] >= KernelFirst)) => TranslateIn(T2, q, vb) = TranslateIn(T, q, vb)
<1>1. PICK z : z = Walk(T, q, vb)
  OBVIOUS
<1>2. PICK z2 : z2 = Walk(T2, q, vb)
  OBVIOUS
<1>3. \A c \in 1..4 : Deep(z, c) => At(z, q, c) \in used /\ level[At(z, q, c)] = 5 - c
  BY <1>1, PathWell
<1>4. used \subseteq Frame /\ \A c \in 1..4 : va[c] \in Index /\ vb[c] \in Index
  BY DEF Well, Sets, Plain, Page
<1>5. level[t] = 1
  BY PathWell
<1>6. TranslateIn(T, q, vb) = z[4] /\ TranslateIn(T2, q, vb) = z2[4]
  BY <1>1, <1>2, WalkSteps
<1>7. ASSUME NEW d \in 1..4, Deep(z, d), At(z, q, d) # t \/ vb[d] # va[4]
      PROVE  T2[At(z, q, d)][vb[d]] = T[At(z, q, d)][vb[d]]
  BY <1>3, <1>4, <1>7
<1>8. CASE vb = va /\ (q = r \/ va[1] >= KernelFirst)
  <2>1. \A d \in 1..3 : Deep(z, d) => At(z, q, d) # t
    BY <1>3, <1>5
  <2>2. AgreeOn(T, T2, z, q, vb, 3)
    BY <1>7, <2>1 DEF AgreeOn
  <2>3. 3 \in 1..4
    OBVIOUS
  <2>4. \A d \in 1..3 : z2[d] = z[d]
    BY <1>1, <1>2, <2>2, <2>3, SameWalk
  <2>5. Deep(z, 4) /\ At(z, q, 4) = t
    <3>1. CASE q = r
      BY <1>1, <1>8, <3>1
    <3>2. CASE va[1] >= KernelFirst
      <4>1. z = Walk(T, q, va)
        BY <1>1, <1>8
      <4>2. 4 \in 1..4 /\ 4 # 1
        OBVIOUS
      <4>3. QED
        BY <3>2, <4>1, <4>2, UpperWalks
    <3>3. QED
      BY <1>8, <3>1, <3>2
  <2>6. z[3].kind = "table" /\ z[3].at = t
    BY <2>5 DEF Deep, At
  <2>7. QED
    BY <1>1, <1>2, <1>8, <2>4, <2>6
<1>9. CASE ~ (vb = va /\ (q = r \/ va[1] >= KernelFirst))
  <2>1. ASSUME NEW d \in 1..4, Deep(z, d) PROVE At(z, q, d) # t \/ vb[d] # va[4]
    <3> SUFFICES ASSUME At(z, q, d) = t, vb[d] = va[4] PROVE FALSE
      OBVIOUS
    <3>1. 4 \in 1..4 /\ At(s, r, 4) = At(z, q, d)
      OBVIOUS
    <3>2. /\ 4 = d /\ \A c \in 1..4 : c < 4 => va[c] = vb[c]
          /\ r = q \/ va[1] >= KernelFirst
      BY <1>1, <2>1, <3>1, SamePlace
    <3>3. \A c \in 1..4 : va[c] = vb[c]
      BY <3>2
    <3>4. va = vb
      BY <3>3 DEF Plain, Page
    <3>5. QED
      BY <1>9, <3>2, <3>4
  <2>2. AgreeOn(T, T2, z, q, vb, 4)
    BY <1>7, <2>1 DEF AgreeOn
  <2>3. 4 \in 1..4
    OBVIOUS
  <2>4. \A d \in 1..4 : z2[d] = z[d]
    BY <1>1, <1>2, <2>2, <2>3, SameWalk
  <2>5. QED
    BY <1>6, <1>9, <2>3, <2>4
<1>10. QED
  BY <1>8, <1>9

\* An empty table hung where nothing was changes no translation.
LEMMA LinkTranslations ==
    ASSUME NEW T, NEW used, NEW R, NEW K, NEW level, NEW own, Well(T, used, R, K, level, own),
           NEW t \in used, NEW i \in Index, level[t] # 1, T[t][i] = Absent,
           NEW n, NEW T2, T2[t][i] \in Entry, IsTable(T2, t, i), T2[t][i].at = n,
           \A j \in Index : T2[n][j] = Absent,
           \A f \in used, j \in Index : f # t \/ j # i => T2[f][j] = T[f][j],
           NEW q \in R, NEW va \in Plain
    PROVE  TranslateIn(T2, q, va) = TranslateIn(T, q, va)
<1>1. PICK z : z = Walk(T, q, va)
  OBVIOUS
<1>2. PICK z2 : z2 = Walk(T2, q, va)
  OBVIOUS
<1>3. /\ \A c \in 1..4 : z[c] \in Entry
      /\ \A c \in 1..4 : Deep(z, c) =>
            At(z, q, c) \in used /\ level[At(z, q, c)] = 5 - c /\ z[c].kind = T[At(z, q, c)][va[c]].kind
      /\ \A c \in 1..3 : Deep(z, c + 1) => Deep(z, c)
  BY <1>1, PathWell
<1>4. \A c \in 1..4 : va[c] \in Index
  BY DEF Plain, Page
<1>5. TranslateIn(T, q, va) = z[4] /\ TranslateIn(T2, q, va) = z2[4]
  BY <1>1, <1>2, WalkSteps
<1>6. CASE \A d \in 1..4 : Deep(z, d) => At(z, q, d) # t \/ va[d] # i
  <2>1. AgreeOn(T, T2, z, q, va, 4)
    BY <1>3, <1>4, <1>6 DEF AgreeOn
  <2>2. 4 \in 1..4
    OBVIOUS
  <2>3. \A d \in 1..4 : z2[d] = z[d]
    BY <1>1, <1>2, <2>1, <2>2, SameWalk
  <2>4. QED
    BY <1>5, <2>2, <2>3
<1>7. CASE \E d \in 1..4 : Deep(z, d) /\ At(z, q, d) = t /\ va[d] = i
  <2>1. PICK d \in 1..4 : Deep(z, d) /\ At(z, q, d) = t /\ va[d] = i
    BY <1>7
  <2>2. d # 4
    BY <1>3, <2>1
  <2>3. /\ z[1] = T[q][va[1]]
        /\ \A c \in 1..3 : z[c + 1] = Under(T, z[c], va[c + 1])
    BY <1>1, WalkSteps
  <2>4. /\ z2[1] = T2[q][va[1]]
        /\ \A c \in 1..3 : z2[c + 1] = Under(T2, z2[c], va[c + 1])
    BY <1>2, WalkSteps
  \* the first walk ends at the absent entry
  <2>5. z[d] = Absent
    <3>1. CASE d = 1
      <4>1. q = t
        BY <2>1, <3>1 DEF At
      <4>2. QED
        BY <2>1, <2>3, <3>1, <4>1
    <3>2. CASE d # 1
      <4>1. PICK c \in 1..3 : d = c + 1
        BY <3>2
      <4>2. z[c].kind = "table" /\ z[c].at = t /\ z[c] \in Entry
        BY <1>3, <2>1, <3>2, <4>1 DEF Deep, At
      <4>3. z[d] = Under(T, z[c], i)
        BY <2>1, <2>3, <4>1
      <4>4. Under(T, z[c], i) = [Absent EXCEPT !.user = FALSE, !.writable = FALSE]
        <5>1. PICK a : a = z[c]
          OBVIOUS
        <5>2. a.user \in BOOLEAN /\ a.writable \in BOOLEAN /\ T[a.at][i] = Absent /\ a.kind = "table"
          BY <4>2, <5>1 DEF Entry
        <5>3. Under(T, a, i) = [Absent EXCEPT !.user = Absent.user /\ a.user, !.writable = Absent.writable /\ a.writable]
          BY <5>2 DEF Under
        <5>4. (Absent.user /\ a.user) = FALSE /\ (Absent.writable /\ a.writable) = FALSE
          BY DEF Absent
        <5>5. QED
          BY <5>1, <5>3, <5>4
      <4>5. QED
        BY <4>3, <4>4 DEF Absent
    <3>3. QED
      BY <3>1, <3>2
  <2>6. ASSUME NEW x, NEW S, x[d] = Absent, \A c \in 1..3 : x[c + 1] = Under(S, x[c], va[c + 1]) PROVE x[4] = Absent
    <3>1. \A c \in 1..3 : x[c] = Absent => x[c + 1] = Absent
      BY <2>6, UnderOther, EntryFields
    <3>2. d = 1 \/ d = 2 \/ d = 3
      BY <2>2
    <3>3. x[2] = Absent => x[3] = Absent
      BY <3>1
    <3>4. x[3] = Absent => x[4] = Absent
      BY <3>1
    <3>5. x[1] = Absent => x[2] = Absent
      BY <3>1
    <3>6. QED
      BY <2>6, <3>2, <3>3, <3>4, <3>5
  <2>7. z[4] = Absent
    BY <2>3, <2>5, <2>6
  \* the second goes one table further
  <2>8. \A c \in 1..4 : c < d /\ Deep(z, c) => At(z, q, c) # t
    BY <1>3, <2>1
  <2>9. z2[d].kind = "table" /\ z2[d].at = n /\ z2[d] \in Entry
    <3>1. CASE d = 1
      <4>1. q = t
        BY <2>1, <3>1 DEF At
      <4>2. QED
        BY <2>1, <2>4, <3>1, <4>1 DEF IsTable
    <3>2. CASE d # 1
      <4>1. PICK c \in 1..3 : d = c + 1
        BY <3>2
      <4>2. AgreeOn(T, T2, z, q, va, c)
        <5> SUFFICES ASSUME NEW k \in 1..c, Deep(z, k) PROVE T2[At(z, q, k)][va[k]] = T[At(z, q, k)][va[k]]
          BY DEF AgreeOn
        <5>1. k \in 1..4 /\ k < d
          BY <4>1
        <5>2. QED
          BY <1>3, <1>4, <2>8, <5>1
      <4>3. c \in 1..4 /\ c \in 1..c
        OBVIOUS
      <4>4. z2[c] = z[c]
        <5>1. \A k \in 1..c : z2[k] = z[k]
          BY <1>1, <1>2, <4>2, <4>3, SameWalk
        <5>2. QED
          BY <4>3, <5>1
      <4>5. z2[c].kind = "table" /\ z2[c].at = t /\ z2[c] \in Entry
        BY <1>3, <2>1, <3>2, <4>1, <4>3, <4>4 DEF Deep, At
      <4>6. z2[d] = Under(T2, z2[c], i)
        BY <2>1, <2>4, <4>1
      <4>7. PICK b : b = T2[t][i] /\ b \in Entry /\ b.kind = "table" /\ b.at = n
        BY DEF IsTable
      <4>8. QED
        BY <4>5, <4>6, <4>7, UnderFields
    <3>3. QED
      BY <3>1, <3>2
  <2>10. PICK k \in 1..4 : k = d + 1
    BY <2>2
  <2>11. z2[k] = Absent
    <3>1. z2[k] = Under(T2, z2[d], va[k])
      BY <2>2, <2>4, <2>10
    <3>2. PICK a : a = z2[d]
      OBVIOUS
    <3>3. a.kind = "table" /\ T2[a.at][va[k]] = Absent
      BY <1>4, <2>9, <3>2
    <3>4. Under(T2, a, va[k]) = [Absent EXCEPT !.user = Absent.user /\ a.user, !.writable = Absent.writable /\ a.writable]
      BY <3>3 DEF Under
    <3>5. (Absent.user /\ a.user) = FALSE /\ (Absent.writable /\ a.writable) = FALSE
      BY DEF Absent
    <3>6. Under(T2, a, va[k]) = [Absent EXCEPT !.user = FALSE, !.writable = FALSE]
      BY <3>4, <3>5
    <3>7. QED
      BY <3>1, <3>2, <3>6 DEF Absent
  <2>12. z2[4] = Absent
    <3>1. \A c \in 1..3 : z2[c] = Absent => z2[c + 1] = Absent
      BY <2>4, UnderOther, EntryFields
    <3>2. k = 2 \/ k = 3 \/ k = 4
      BY <2>10
    <3>3. z2[2] = Absent => z2[3] = Absent
      BY <3>1
    <3>4. z2[3] = Absent => z2[4] = Absent
      BY <3>1
    <3>5. QED
      BY <2>11, <3>2, <3>3, <3>4
  <2>13. QED
    BY <1>5, <2>7, <2>12
<1>8. QED
  BY <1>6, <1>7

-----------------------------------------------------------------------------
(* The memory: the tables and the free frames.                              *)

Memory == [table : TablesIn, free : SUBSET Frame]

\* The frames of the allocator that are not free are a well-formed hierarchy.
Fit(F, m, R, K) ==
    /\ m \in Memory
    /\ F \subseteq Frame
    /\ m.free \subseteq F
    /\ \E level, own : Well(m.table, F \ m.free, R, K, level, own)

\* Two memories in which every address is translated alike.
Alike(m, m2, R) == \A q \in R, va \in Plain : TranslateIn(m2.table, q, va) = TranslateIn(m.table, q, va)

\* Memories with the same free frames and the same entries are equal.
LEMMA MemoryEqual ==
    ASSUME NEW m \in Memory, NEW m2 \in Memory, m2.free = m.free,
           \A f \in Frame \cup BootFrame, j \in Index : m2.table[f][j] = m.table[f][j]
    PROVE  m2 = m
<1>1. m.table \in TablesIn /\ m2.table \in TablesIn
  BY DEF Memory
<1>2. ASSUME NEW f \in Frame \cup BootFrame PROVE m2.table[f] = m.table[f]
  <2>1. m2.table[f] \in [Index -> Entry] /\ m.table[f] \in [Index -> Entry]
    BY <1>1 DEF TablesIn
  <2>2. QED
    BY <2>1
<1>3. m2.table = m.table
  BY <1>1, <1>2 DEF TablesIn
<1>4. QED
  BY <1>3 DEF Memory

\* Writing an entry changes that entry alone.
LEMMA SetEntryIs ==
    ASSUME NEW m \in Memory, NEW t \in Frame \cup BootFrame, NEW i \in Index, NEW e \in Entry, NEW o, o = SetEntry(m, t, i, e)
    PROVE  /\ o \in Memory /\ o.free = m.free
           /\ o.table[t][i] = e
           /\ \A f \in Frame \cup BootFrame, j \in Index : f # t \/ j # i => o.table[f][j] = m.table[f][j]
<1>1. m.table \in TablesIn /\ m.table[t] \in [Index -> Entry]
  BY DEF Memory, TablesIn
<1>2. PICK x : x = [m.table[t] EXCEPT ![i] = e]
  OBVIOUS
<1>3. x \in [Index -> Entry] /\ x[i] = e /\ \A j \in Index : j # i => x[j] = m.table[t][j]
  BY <1>1, <1>2
<1>4. PICK T2 : T2 = [m.table EXCEPT ![t] = x]
  OBVIOUS
<1>5. T2 \in TablesIn /\ T2[t] = x /\ \A f \in Frame \cup BootFrame : f # t => T2[f] = m.table[f]
  BY <1>1, <1>3, <1>4 DEF TablesIn
<1>6. o = [m EXCEPT !.table = T2]
  BY <1>2, <1>4 DEF SetEntry
<1>7. o.table = T2 /\ o.free = m.free /\ o \in Memory
  BY <1>5, <1>6 DEF Memory
<1>8. QED
  BY <1>3, <1>5, <1>7

\* An allocation takes one free frame and clears it.
LEMMA AllocateIs ==
    ASSUME NEW m \in Memory, m.free # {}, NEW o, o = Allocate(m), NEW n, n = NextFrame(m)
    PROVE  /\ n \in m.free /\ n \in Frame
           /\ o \in Memory /\ o.free = m.free \ {n}
           /\ o.table[n] = EmptyTable
           /\ \A f \in Frame \cup BootFrame : f # n => o.table[f] = m.table[f]
<1>1. n \in m.free
  BY DEF NextFrame
<1>2. m.table \in TablesIn /\ m.free \subseteq Frame
  BY DEF Memory
<1>3. PICK T2 : T2 = [m.table EXCEPT ![n] = EmptyTable]
  OBVIOUS
<1>4. T2 \in TablesIn /\ T2[n] = EmptyTable /\ \A f \in Frame \cup BootFrame : f # n => T2[f] = m.table[f]
  BY <1>1, <1>2, <1>3, EntryFields DEF TablesIn
<1>5. o = [table |-> T2, free |-> m.free \ {n}]
  BY <1>3 DEF Allocate
<1>6. QED
  BY <1>1, <1>2, <1>4, <1>5 DEF Memory

\* Giving a frame back changes no other table.
LEMMA FreeIs ==
    ASSUME NEW m \in Memory, NEW c \in Frame, NEW o, o = Free(m, c)
    PROVE  /\ o \in Memory /\ o.free = m.free \cup {c}
           /\ o.table[c] = EmptyTable
           /\ \A f \in Frame \cup BootFrame : f # c => o.table[f] = m.table[f]
<1>1. m.table \in TablesIn /\ m.free \subseteq Frame
  BY DEF Memory
<1>2. PICK T2 : T2 = [m.table EXCEPT ![c] = EmptyTable]
  OBVIOUS
<1>3. T2 \in TablesIn /\ T2[c] = EmptyTable /\ \A f \in Frame \cup BootFrame : f # c => T2[f] = m.table[f]
  BY <1>1, <1>2, EntryFields DEF TablesIn
<1>4. o = [table |-> T2, free |-> m.free \cup {c}]
  BY <1>2 DEF Free
<1>5. QED
  BY <1>1, <1>3, <1>4 DEF Memory

\* rollback_new_tables clears the new tables and the entries that point to them.
LEMMA RollbackIs ==
    ASSUME NEW m \in Memory, NEW made, \A c \in made : c.frame \in Frame, NEW o, o = RollbackNewTables(m, made)
    PROVE  /\ o \in Memory
           /\ \A x : x \in o.free <=> x \in m.free \/ \E c \in made : c.frame = x
           /\ \A f \in Frame \cup BootFrame, j \in Index :
                o.table[f][j] = IF (\E c \in made : c.frame = f) \/ (\E c \in made : c.table = f /\ c.index = j)
                                THEN Absent ELSE m.table[f][j]
<1>1. m.table \in TablesIn /\ m.free \subseteq Frame /\ DOMAIN m.table = Frame \cup BootFrame
  BY DEF Memory, TablesIn
<1> DEFINE row(f) == IF \E c \in made : c.frame = f
                     THEN EmptyTable
                     ELSE [i \in Index |-> IF \E c \in made : c.table = f /\ c.index = i THEN Absent ELSE m.table[f][i]]
<1>2. PICK T2 : T2 = [f \in Frame \cup BootFrame |-> row(f)]
  OBVIOUS
<1>3. PICK free2 : free2 = m.free \cup {c.frame : c \in made}
  OBVIOUS
<1>4. o = [table |-> T2, free |-> free2]
  BY <1>1, <1>2, <1>3 DEF RollbackNewTables, Cleared
<1>5. ASSUME NEW f \in Frame \cup BootFrame
      PROVE  /\ T2[f] \in [Index -> Entry]
             /\ \A j \in Index :
                  T2[f][j] = IF (\E c \in made : c.frame = f) \/ (\E c \in made : c.table = f /\ c.index = j)
                             THEN Absent ELSE m.table[f][j]
  <2>1. T2[f] = row(f)
    BY <1>2
  <2>2. m.table[f] \in [Index -> Entry]
    BY <1>1 DEF TablesIn
  <2>3. CASE \E c \in made : c.frame = f
    BY <2>1, <2>3, EntryFields
  <2>4. CASE ~ \E c \in made : c.frame = f
    BY <2>1, <2>2, <2>4, EntryFields
  <2>5. QED
    BY <2>3, <2>4
<1>6. T2 \in TablesIn
  BY <1>2, <1>5 DEF TablesIn
<1>7. free2 \subseteq Frame
  BY <1>1, <1>3
<1>8. o \in Memory /\ o.table = T2 /\ o.free = free2
  BY <1>4, <1>6, <1>7 DEF Memory
<1>9. QED
  BY <1>3, <1>5, <1>8

-----------------------------------------------------------------------------
(* Walking down to a last table.                                            *)

\* path are the tables the translation of va comes to on its first d levels.
On(T, r, va, path, d) ==
    \A c \in 1..d : Deep(Walk(T, r, va), c) /\ At(Walk(T, r, va), r, c) = path[c]

\* A walk is in the tables of its process on all levels or on none.
LEMMA PathLower ==
    ASSUME NEW T, NEW used, NEW R, NEW K, NEW level, NEW own, Well(T, used, R, K, level, own),
           NEW r \in R, NEW va \in Plain, NEW s, s = Walk(T, r, va), NEW d \in 1..4, Deep(s, d)
    PROVE  Lower(R, K, own, At(s, r, d), va[d]) <=> r # K /\ va[1] < KernelFirst
<1>1. /\ \A c \in 1..4 : Deep(s, c) =>
            At(s, r, c) \in used /\ level[At(s, r, c)] = 5 - c
            /\ s[c].kind = T[At(s, r, c)][va[c]].kind /\ s[c].at = T[At(s, r, c)][va[c]].at
      /\ \A c \in 1..3 : Deep(s, c + 1) => Deep(s, c)
  BY PathWell
<1>2. \A c \in 1..4 : va[c] \in Index
  BY DEF Plain, Page
<1>3. own \subseteq used \ R
  BY DEF Well, Sets
<1>4. Leveled(T, used, R, K, level)
  BY DEF Well
<1> DEFINE P(c) == Lower(R, K, own, At(s, r, c), va[c]) <=> r # K /\ va[1] < KernelFirst
<1>5. P(1)
  BY <1>3 DEF At, Lower
<1>6. ASSUME NEW c \in 1..3, Deep(s, c + 1), P(c) PROVE P(c + 1)
  <2>1. PICK f, g : f = At(s, r, c) /\ g = At(s, r, c + 1)
    OBVIOUS
  <2>2. Deep(s, c) /\ s[c].kind = "table" /\ g = s[c].at /\ c \in 1..4 /\ c + 1 \in 1..4
    BY <1>1, <1>6, <2>1 DEF Deep, At
  <2>3. f \in used /\ IsTable(T, f, va[c]) /\ T[f][va[c]].at = g
    BY <1>1, <2>1, <2>2 DEF IsTable
  <2>4. g \in used /\ level[g] = 5 - (c + 1)
    BY <1>1, <1>6, <2>1, <2>2
  <2>5. g \notin R
    BY <1>4, <2>4 DEF Leveled
  <2>6. g \in own <=> Lower(R, K, own, f, va[c])
    BY <1>2, <2>2, <2>3 DEF Well, Owned
  <2>7. Lower(R, K, own, g, va[c + 1]) <=> g \in own
    BY <2>5 DEF Lower
  <2>8. QED
    BY <1>6, <2>1, <2>6, <2>7
<1>7. CASE d = 1
  BY <1>5, <1>7
<1>8. CASE d = 2
  BY <1>5, <1>6, <1>8
<1>9. CASE d = 3
  <2>1. P(2)
    BY <1>1, <1>5, <1>6, <1>9
  <2>2. QED
    BY <1>6, <1>9, <2>1
<1>10. CASE d = 4
  <2>1. Deep(s, 3) /\ Deep(s, 2)
    BY <1>1, <1>10
  <2>2. P(2)
    BY <1>5, <1>6, <2>1
  <2>3. P(3)
    BY <1>6, <2>1, <2>2
  <2>4. QED
    BY <1>6, <1>10, <2>3
<1>11. QED
  BY <1>7, <1>8, <1>9, <1>10

\* A change in the table at the end of a path leaves the path.
LEMMA KeepPath ==
    ASSUME NEW T, NEW used, NEW R, NEW K, NEW level, NEW own, Well(T, used, R, K, level, own),
           NEW r \in R, NEW va \in Plain, NEW d \in 1..4, NEW path, On(T, r, va, path, d),
           NEW T2, \A f \in used, j \in Index : level[f] > 5 - d => T2[f][j] = T[f][j]
    PROVE  On(T2, r, va, path, d)
<1>1. PICK s, s2 : s = Walk(T, r, va) /\ s2 = Walk(T2, r, va)
  OBVIOUS
<1>2. \A c \in 1..4 : Deep(s, c) => At(s, r, c) \in used /\ level[At(s, r, c)] = 5 - c
  BY <1>1, PathWell
<1>3. \A c \in 1..4 : va[c] \in Index
  BY DEF Plain, Page
<1>4. \A c \in 1..d : Deep(s, c) /\ At(s, r, c) = path[c]
  BY <1>1 DEF On
<1>5. CASE d = 1
  BY <1>1, <1>4, <1>5 DEF On, Deep, At
<1>6. CASE d # 1
  <2>1. PICK e \in 1..3 : d = e + 1
    BY <1>6
  <2>2. AgreeOn(T, T2, s, r, va, e)
    <3> SUFFICES ASSUME NEW k \in 1..e, Deep(s, k) PROVE T2[At(s, r, k)][va[k]] = T[At(s, r, k)][va[k]]
      BY DEF AgreeOn
    <3>1. k \in 1..4 /\ k < d
      BY <2>1
    <3>2. QED
      BY <1>2, <1>3, <3>1
  <2>3. e \in 1..4
    OBVIOUS
  <2>4. \A c \in 1..e : s2[c] = s[c]
    BY <1>1, <2>2, <2>3, SameWalk
  <2>5. ASSUME NEW c \in 1..d PROVE Deep(s2, c) /\ At(s2, r, c) = path[c]
    <3>1. CASE c = 1
      BY <1>4, <3>1 DEF Deep, At
    <3>2. CASE c # 1
      <4>1. c - 1 \in 1..e
        BY <2>1, <3>2
      <4>2. s2[c - 1] = s[c - 1]
        BY <2>4, <4>1
      <4>3. QED
        BY <1>4, <4>2 DEF Deep, At
    <3>3. QED
      BY <3>1, <3>2
  <2>6. QED
    BY <1>1, <2>5 DEF On
<1>7. QED
  BY <1>5, <1>6

\* A path goes on through an entry for a table.
LEMMA OnFurther ==
    ASSUME NEW T, NEW used, NEW R, NEW K, NEW level, NEW own, Well(T, used, R, K, level, own),
           NEW r \in R, NEW va \in Plain, NEW d \in 1..3, NEW path, On(T, r, va, path, d),
           IsTable(T, path[d], va[d]),
           NEW path2, \A c \in 1..d : path2[c] = path[c], path2[d + 1] = T[path[d]][va[d]].at
    PROVE  On(T, r, va, path2, d + 1)
<1>1. PICK s : s = Walk(T, r, va)
  OBVIOUS
<1>2. \A c \in 1..4 : Deep(s, c) => s[c].kind = T[At(s, r, c)][va[c]].kind /\ s[c].at = T[At(s, r, c)][va[c]].at
  BY <1>1, PathWell
<1>3. \A c \in 1..d : Deep(s, c) /\ At(s, r, c) = path[c]
  BY <1>1 DEF On
<1>4. d \in 1..4 /\ d \in 1..d
  OBVIOUS
<1>5. s[d].kind = "table" /\ s[d].at = path2[d + 1]
  BY <1>2, <1>3, <1>4 DEF IsTable
<1>6. Deep(s, d + 1) /\ At(s, r, d + 1) = path2[d + 1]
  BY <1>5 DEF Deep, At
<1>7. \A c \in 1..(d + 1) : c \in 1..d \/ c = d + 1
  OBVIOUS
<1>8. QED
  BY <1>1, <1>3, <1>6, <1>7 DEF On

\* T2 is T with the empty table n hung at entry i of t, by the entry e.
Hung(T, used, R, K, level, own, t, i, n, e, T2) ==
    /\ Well(T, used, R, K, level, own)
    /\ t \in used /\ i \in Index /\ level[t] # 1 /\ T[t][i] = Absent
    /\ n \in Frame \ used /\ e \in Entry /\ e.kind = "table" /\ e.at = n /\ e.owned
    /\ T2 \in TablesIn /\ T2[t][i] = e /\ T2[n] = EmptyTable
    /\ \A f \in Frame, j \in Index : f # n /\ (f # t \/ j # i) => T2[f][j] = T[f][j]
    /\ t \in R /\ i >= KernelFirst => R = {K}
    /\ Lower(R, K, own, t, i) => e.user /\ e.writable

\* A hierarchy stays well-formed when an empty table is hung into it.
LEMMA HangWell ==
    ASSUME NEW T, NEW used, NEW R, NEW K, NEW level, NEW own, NEW t, NEW i, NEW n, NEW e, NEW T2,
           Hung(T, used, R, K, level, own, t, i, n, e, T2)
    PROVE  \E level2, own2 : Well(T2, used \cup {n}, R, K, level2, own2)
<1>1. /\ Well(T, used, R, K, level, own)
      /\ t \in used /\ i \in Index /\ level[t] # 1 /\ T[t][i] = Absent
      /\ n \in Frame \ used /\ e \in Entry /\ e.kind = "table" /\ e.at = n /\ e.owned
      /\ T2 \in TablesIn /\ T2[t][i] = e /\ T2[n] = EmptyTable
      /\ \A f \in Frame, j \in Index : f # n /\ (f # t \/ j # i) => T2[f][j] = T[f][j]
      /\ t \in R /\ i >= KernelFirst => R = {K}
      /\ Lower(R, K, own, t, i) => e.user /\ e.writable
  BY DEF Hung
<1>2. QED
  BY <1>1, LinkWell

\* Undoing the creation of one more table as well is the same.
LEMMA RollbackLink ==
    ASSUME NEW m \in Memory, NEW made, \A c \in made : c.frame \in Frame,
           NEW t \in Frame, NEW i \in Index, NEW n \in m.free, m.table[n] = EmptyTable, m.table[t][i] = Absent,
           NEW m2 \in Memory, m2.free = m.free \ {n},
           \A f \in Frame \cup BootFrame, j \in Index : f # n /\ (f # t \/ j # i) => m2.table[f][j] = m.table[f][j],
           NEW made2, made2 = made \cup {[table |-> t, index |-> i, frame |-> n]}
    PROVE  RollbackNewTables(m2, made2) = RollbackNewTables(m, made)
<1>1. PICK o, o2 : o = RollbackNewTables(m, made) /\ o2 = RollbackNewTables(m2, made2)
  OBVIOUS
<1>2. n \in Frame
  BY DEF Memory
<1>3. PICK x : x = [table |-> t, index |-> i, frame |-> n]
  OBVIOUS
<1>4. x.table = t /\ x.index = i /\ x.frame = n
  BY <1>3
<1>5. \A c : c \in made2 <=> c \in made \/ c = x
  BY <1>3
<1>6. \A c \in made2 : c.frame \in Frame
  BY <1>2, <1>4, <1>5
<1>7. /\ o \in Memory
      /\ \A f : f \in o.free <=> f \in m.free \/ \E c \in made : c.frame = f
      /\ \A f \in Frame \cup BootFrame, j \in Index :
            o.table[f][j] = IF (\E c \in made : c.frame = f) \/ (\E c \in made : c.table = f /\ c.index = j)
                            THEN Absent ELSE m.table[f][j]
  BY <1>1, RollbackIs
<1>8. /\ o2 \in Memory
      /\ \A f : f \in o2.free <=> f \in m2.free \/ \E c \in made2 : c.frame = f
      /\ \A f \in Frame \cup BootFrame, j \in Index :
            o2.table[f][j] = IF (\E c \in made2 : c.frame = f) \/ (\E c \in made2 : c.table = f /\ c.index = j)
                             THEN Absent ELSE m2.table[f][j]
  BY <1>1, <1>6, RollbackIs
<1>9. \A f : f \in o2.free <=> f \in o.free
  BY <1>4, <1>5, <1>7, <1>8
<1>10. o2.free = o.free
  BY <1>9
<1>11. ASSUME NEW f \in Frame \cup BootFrame, NEW j \in Index PROVE o2.table[f][j] = o.table[f][j]
  <2>1. CASE f = n
    <3>1. m.table[f][j] = Absent
      BY <2>1, EntryFields
    <3>2. o.table[f][j] = Absent
      BY <1>7, <3>1
    <3>3. \E c \in made2 : c.frame = f
      BY <1>4, <1>5, <2>1
    <3>4. o2.table[f][j] = Absent
      BY <1>8, <3>3
    <3>5. QED
      BY <3>2, <3>4
  <2>2. CASE f = t /\ j = i
    <3>1. o.table[f][j] = Absent
      BY <1>7, <2>2
    <3>2. \E c \in made2 : c.table = f /\ c.index = j
      BY <1>4, <1>5, <2>2
    <3>3. o2.table[f][j] = Absent
      BY <1>8, <3>2
    <3>4. QED
      BY <3>1, <3>3
  <2>3. CASE f # n /\ (f # t \/ j # i)
    <3>1. m2.table[f][j] = m.table[f][j]
      BY <2>3
    <3>2. (\E c \in made2 : c.frame = f) <=> (\E c \in made : c.frame = f)
      BY <1>4, <1>5, <2>3
    <3>3. (\E c \in made2 : c.table = f /\ c.index = j) <=> (\E c \in made : c.table = f /\ c.index = j)
      BY <1>4, <1>5, <2>3
    <3>4. QED
      BY <1>7, <1>8, <3>1, <3>2, <3>3
  <2>4. QED
    BY <2>1, <2>2, <2>3
<1>12. o2 = o
  BY <1>7, <1>8, <1>10, <1>11, MemoryEqual
<1>13. QED
  BY <1>1, <1>12

\* What the callers of walk_to_leaf keep to: rights for ring 3 are asked for in the lower
\* half of a process only, and the kernel needs no new entry in a shared top level.
Walkable(m, R, K, r, va, create, user) ==
    /\ r \in R /\ va \in Plain
    /\ create \in BOOLEAN /\ user \in BOOLEAN
    /\ user => r # K /\ va[1] < KernelFirst
    /\ create /\ r # K => user
    /\ create /\ va[1] >= KernelFirst => r = K /\ (R = {K} \/ m.table[K][va[1]].kind # "absent")

\* The entry for a new table, and that of an existing one opened for ring 3.
NewEntry(n, user) == [kind |-> "table", at |-> n, owned |-> TRUE, user |-> user, writable |-> TRUE]

Promoted(e, user) == [e EXCEPT !.user = e.user \/ user, !.writable = e.writable \/ user]

\* What a step of the walk makes of s when it hangs a new table, and when it follows an entry.
Linked(s, t, i, user) ==
    [ok |-> TRUE, mem |-> SetEntry(Allocate(s.mem), t, i, NewEntry(NextFrame(s.mem), user)),
     path |-> Append(s.path, NextFrame(s.mem)),
     made |-> s.made \cup {[table |-> t, index |-> i, frame |-> NextFrame(s.mem)]}]

Followed(s, t, i, user) ==
    [ok |-> TRUE, mem |-> SetEntry(s.mem, t, i, Promoted(s.mem.table[t][i], user)),
     path |-> Append(s.path, s.mem.table[t][i].at), made |-> s.made]

\* The walk has come to depth d.
Descent(F, m, R, K, r, va, create, d, s) ==
    /\ s.ok = TRUE
    /\ Fit(F, s.mem, R, K)
    /\ Alike(m, s.mem, R)
    /\ s.path \in Seq(Frame) /\ Len(s.path) = d
    /\ On(s.mem.table, r, va, s.path, d)
    /\ \A c \in s.made : c.frame \in Frame
    /\ RollbackNewTables(s.mem, s.made) = m
    /\ d = 1 \/ ~ create => s.mem = m

Failed(m, r, va, create, s) ==
    s.ok = FALSE /\ s.mem = m /\ (create \/ ~ Deep(Walk(m.table, r, va), 4))

\* A new table is hung below the last one of the path.
LEMMA DescentLink ==
    ASSUME NEW F, NEW m, NEW R, NEW K, NEW r, NEW va, NEW user, Walkable(m, R, K, r, va, TRUE, user),
           NEW d \in 1..3, NEW s, Descent(F, m, R, K, r, va, TRUE, d, s),
           s.mem.table[s.path[d]][va[d]].kind = "absent", s.mem.free # {}
    PROVE  Descent(F, m, R, K, r, va, TRUE, d + 1, Linked(s, s.path[d], va[d], user))
<1>01. PICK t, i : t = s.path[d] /\ i = va[d]
  OBVIOUS
<1>02. PICK n : n = NextFrame(s.mem)
  OBVIOUS
<1>03. PICK e : e = NewEntry(n, user)
  OBVIOUS
<1>04. PICK o : o = Linked(s, t, i, user)
  OBVIOUS
<1>1. PICK m1, m2, m3 : m1 = s.mem /\ m2 = Allocate(s.mem) /\ m3 = SetEntry(m2, t, i, e)
  OBVIOUS
<1>2. PICK path2 : path2 = Append(s.path, n)
  OBVIOUS
<1>3. PICK made2 : made2 = s.made \cup {[table |-> t, index |-> i, frame |-> n]}
  OBVIOUS
<1>4. o = [ok |-> TRUE, mem |-> m3, path |-> path2, made |-> made2]
  BY <1>02, <1>03, <1>04, <1>1, <1>2, <1>3 DEF Linked
<1>5. m1 \in Memory /\ F \subseteq Frame /\ m1.free \subseteq F
  BY <1>1 DEF Descent, Fit
<1>6. PICK u : u = F \ m1.free
  OBVIOUS
<1>7. PICK level, own : Well(m1.table, u, R, K, level, own)
  BY <1>1, <1>6 DEF Descent, Fit
<1>8. r \in R /\ va \in Plain /\ i \in Index
  BY <1>01 DEF Walkable, Plain, Page
<1>9. PICK w : w = Walk(m1.table, r, va)
  OBVIOUS
<1>10. d \in 1..4 /\ d \in 1..d /\ 1 \in 1..d
  OBVIOUS
<1>11. Deep(w, d) /\ At(w, r, d) = t /\ s.path[1] = r
  BY <1>01, <1>1, <1>9, <1>10 DEF Descent, On, At
<1>12. t \in u /\ level[t] = 5 - d /\ t \in Frame
  <2>1. t \in u /\ level[t] = 5 - d
    BY <1>7, <1>8, <1>9, <1>10, <1>11, PathWell
  <2>2. QED
    BY <1>5, <1>6, <2>1
<1>13. Leveled(m1.table, u, R, K, level) /\ Blank(m1.table, u)
  BY <1>7 DEF Well
<1>14. m1.table[t][i] = Absent
  BY <1>1, <1>8, <1>12, <1>13, <1>01 DEF Leveled
<1>15. /\ n \in m1.free /\ n \in Frame /\ m2 \in Memory /\ m2.free = m1.free \ {n} /\ m2.table[n] = EmptyTable
       /\ \A f \in Frame \cup BootFrame : f # n => m2.table[f] = m1.table[f]
  BY <1>1, <1>02, <1>5, AllocateIs
<1>16. e \in Entry /\ e.kind = "table" /\ e.at = n /\ e.owned /\ e.user = user /\ e.writable = TRUE
  BY <1>03, <1>15 DEF Walkable, Entry, NewEntry
<1>17. t \in Frame \cup BootFrame
  BY <1>12
<1>18. /\ m3 \in Memory /\ m3.free = m2.free /\ m3.table[t][i] = e
       /\ \A f \in Frame \cup BootFrame, j \in Index : f # t \/ j # i => m3.table[f][j] = m2.table[f][j]
  BY <1>1, <1>8, <1>15, <1>16, <1>17, SetEntryIs
<1>19. n # t /\ n \in Frame \ u /\ n \notin u
  BY <1>6, <1>12, <1>15
<1>20. \A j \in Index : m3.table[n][j] = Absent
  BY <1>15, <1>18, <1>19, EntryFields
<1>21. m3.table \in TablesIn
  BY <1>18 DEF Memory
<1>22. m3.table[n] = EmptyTable
  <2>1. m3.table[n] \in [Index -> Entry]
    BY <1>15, <1>21 DEF TablesIn
  <2>2. QED
    BY <1>20, <2>1, EntryFields
<1>23. \A f \in Frame \cup BootFrame, j \in Index : f # n /\ (f # t \/ j # i) => m3.table[f][j] = m1.table[f][j]
  BY <1>15, <1>18
<1>24. \A f \in Frame, j \in Index : f # n /\ (f # t \/ j # i) => m3.table[f][j] = m1.table[f][j]
  BY <1>23
<1>25. t \in R /\ i >= KernelFirst => R = {K}
  <2> SUFFICES ASSUME t \in R, i >= KernelFirst, R # {K} PROVE FALSE
    OBVIOUS
  <2>1. d = 1
    BY <1>12, <1>13 DEF Leveled
  <2>2. r = K /\ m.table[K][va[1]].kind # "absent"
    BY <1>01, <2>1 DEF Walkable
  <2>3. m1 = m /\ t = K
    BY <1>1, <1>11, <2>1, <2>2 DEF Descent
  <2>4. QED
    BY <1>01, <1>1, <2>1, <2>2, <2>3
<1>26. Lower(R, K, own, t, i) => e.user /\ e.writable
  <2>1. Lower(R, K, own, t, i) <=> r # K /\ va[1] < KernelFirst
    BY <1>01, <1>7, <1>8, <1>9, <1>10, <1>11, PathLower
  <2>2. QED
    BY <1>16, <2>1 DEF Walkable
<1>27. level[t] # 1
  BY <1>12
<1>28. \E level2, own2 : Well(m3.table, u \cup {n}, R, K, level2, own2)
  <2>1. m3.table[t][i] = e /\ t \in u /\ i \in Index /\ n \in Frame \ u
    BY <1>8, <1>12, <1>18, <1>19
  <2>2. PICK T, T2 : T = m1.table /\ T2 = m3.table
    OBVIOUS
  <2>3. Well(T, u, R, K, level, own) /\ T[t][i] = Absent
    BY <1>7, <1>14, <2>2
  <2>4. T2 \in TablesIn /\ T2[t][i] = e /\ T2[n] = EmptyTable
    BY <1>21, <1>22, <2>1, <2>2
  <2>5. \A f \in Frame, j \in Index : f # n /\ (f # t \/ j # i) => T2[f][j] = T[f][j]
    BY <1>24, <2>2
  <2>6. e \in Entry /\ e.kind = "table" /\ e.at = n /\ e.owned
    BY <1>16
  <2>7. /\ t \in u /\ i \in Index /\ level[t] # 1 /\ n \in Frame \ u
        /\ t \in R /\ i >= KernelFirst => R = {K}
    BY <1>25, <1>27, <2>1
  <2>8. Lower(R, K, own, t, i) => e.user /\ e.writable
    BY <1>26
  <2>9. Hung(T, u, R, K, level, own, t, i, n, e, T2)
    BY <2>3, <2>4, <2>5, <2>6, <2>7, <2>8, Zenon DEF Hung
  <2>10. QED
    BY <2>2, <2>9, HangWell
<1>29. F \ m3.free = u \cup {n}
  BY <1>5, <1>6, <1>15, <1>18
<1>30. Fit(F, m3, R, K)
  <2>1. m3.free \subseteq F
    BY <1>5, <1>15, <1>18
  <2>2. PICK level2, own2 : Well(m3.table, u \cup {n}, R, K, level2, own2)
    BY <1>28
  <2>3. Well(m3.table, F \ m3.free, R, K, level2, own2)
    BY <1>29, <2>2
  <2>4. QED
    BY <1>5, <1>18, <2>1, <2>3 DEF Fit
<1>31. Alike(m, m3, R)
  <2> SUFFICES ASSUME NEW q \in R, NEW vb \in Plain
               PROVE  TranslateIn(m3.table, q, vb) = TranslateIn(m.table, q, vb)
    BY DEF Alike
  <2>1. IsTable(m3.table, t, i) /\ m3.table[t][i].at = n /\ m3.table[t][i] \in Entry
    BY <1>16, <1>18 DEF IsTable
  <2>2. \A f \in u, j \in Index : f # t \/ j # i => m3.table[f][j] = m1.table[f][j]
    BY <1>5, <1>6, <1>19, <1>24
  <2>3. TranslateIn(m3.table, q, vb) = TranslateIn(m1.table, q, vb)
    BY <1>7, <1>8, <1>12, <1>14, <1>20, <1>27, <2>1, <2>2, LinkTranslations
  <2>4. TranslateIn(m1.table, q, vb) = TranslateIn(m.table, q, vb)
    BY <1>1 DEF Descent, Alike
  <2>5. QED
    BY <2>3, <2>4
<1>32. s.path \in Seq(Frame) /\ Len(s.path) = d
  BY DEF Descent
<1>33. path2 \in Seq(Frame) /\ Len(path2) = d + 1 /\ path2[d + 1] = n /\ \A c \in 1..d : path2[c] = s.path[c]
  BY <1>2, <1>15, <1>32, AppendProperties
<1>34. On(m3.table, r, va, path2, d + 1)
  <2>1. On(m1.table, r, va, s.path, d)
    BY <1>1 DEF Descent
  <2>2. \A f \in u, j \in Index : level[f] > 5 - d => m3.table[f][j] = m1.table[f][j]
    <3>1. \A f \in u : level[f] > 5 - d => f # t /\ f # n /\ f \in Frame
      BY <1>5, <1>6, <1>12, <1>19
    <3>2. QED
      BY <1>24, <3>1
  <2>3. On(m3.table, r, va, s.path, d)
    BY <1>7, <1>8, <1>10, <2>1, <2>2, KeepPath
  <2>4. IsTable(m3.table, s.path[d], va[d]) /\ path2[d + 1] = m3.table[s.path[d]][va[d]].at
    BY <1>01, <1>16, <1>18, <1>33 DEF IsTable
  <2>5. QED
    BY <1>8, <1>28, <1>33, <2>3, <2>4, OnFurther
<1>35. RollbackNewTables(m3, made2) = m
  <2>1. m3.free = m1.free \ {n} /\ m1.table[n] = EmptyTable
    BY <1>13, <1>15, <1>18, <1>19 DEF Blank
  <2>2. \A c \in s.made : c.frame \in Frame
    BY DEF Descent
  <2>3. RollbackNewTables(m3, made2) = RollbackNewTables(m1, s.made)
    BY <1>3, <1>5, <1>8, <1>12, <1>14, <1>15, <1>18, <1>23, <2>1, <2>2, RollbackLink
  <2>4. QED
    BY <1>1, <2>3 DEF Descent
<1>36. \A c \in made2 : c.frame \in Frame
  BY <1>3, <1>15 DEF Descent
<1>37. o.mem = m3 /\ o.path = path2 /\ o.made = made2 /\ o.ok = TRUE
  BY <1>4
<1>38. QED
  BY <1>01, <1>04, <1>30, <1>31, <1>33, <1>34, <1>35, <1>36, <1>37 DEF Descent

\* The walk follows an entry for a table, whose rights it does not change.
LEMMA DescentFollow ==
    ASSUME NEW F, NEW m, NEW R, NEW K, NEW r, NEW va, NEW create, NEW user, Walkable(m, R, K, r, va, create, user),
           NEW d \in 1..3, NEW s, Descent(F, m, R, K, r, va, create, d, s),
           s.mem.table[s.path[d]][va[d]].kind = "table"
    PROVE  Descent(F, m, R, K, r, va, create, d + 1, Followed(s, s.path[d], va[d], user))
<1>01. PICK t, i : t = s.path[d] /\ i = va[d]
  OBVIOUS
<1>02. PICK e : e = s.mem.table[t][i]
  OBVIOUS
<1>03. PICK e2 : e2 = Promoted(e, user)
  OBVIOUS
<1>04. PICK o : o = Followed(s, t, i, user)
  OBVIOUS
<1>1. PICK m1, m2 : m1 = s.mem /\ m2 = SetEntry(m1, t, i, e2)
  OBVIOUS
<1>2. PICK path2 : path2 = Append(s.path, e.at)
  OBVIOUS
<1>3. o = [ok |-> TRUE, mem |-> m2, path |-> path2, made |-> s.made]
  BY <1>02, <1>03, <1>04, <1>1, <1>2 DEF Followed
<1>4. m1 \in Memory /\ F \subseteq Frame /\ m1.free \subseteq F
  BY <1>1 DEF Descent, Fit
<1>5. PICK u : u = F \ m1.free
  OBVIOUS
<1>6. PICK level, own : Well(m1.table, u, R, K, level, own)
  BY <1>1, <1>5 DEF Descent, Fit
<1>7. r \in R /\ va \in Plain /\ i \in Index
  BY <1>01 DEF Walkable, Plain, Page
<1>8. PICK w : w = Walk(m1.table, r, va)
  OBVIOUS
<1>9. d \in 1..4 /\ d \in 1..d /\ 1 \in 1..d
  OBVIOUS
<1>10. Deep(w, d) /\ At(w, r, d) = t
  BY <1>01, <1>1, <1>8, <1>9 DEF Descent, On
<1>11. t \in u /\ t \in Frame
  <2>1. t \in u
    BY <1>6, <1>7, <1>8, <1>9, <1>10, PathWell
  <2>2. QED
    BY <1>4, <1>5, <2>1
<1>12. e \in Entry /\ m1.table[t][i] = e /\ IsTable(m1.table, t, i)
  <2>1. m1.table \in TablesIn
    BY <1>4 DEF Memory
  <2>2. QED
    BY <1>01, <1>02, <1>1, <1>7, <1>11, <2>1 DEF TablesIn, IsTable
<1>13. e.at \in u /\ e.at \in Frame
  <2>1. Leveled(m1.table, u, R, K, level)
    BY <1>6 DEF Well
  <2>2. e.at \in u
    BY <1>7, <1>11, <1>12, <2>1 DEF Leveled
  <2>3. QED
    BY <1>4, <1>5, <2>2
<1>14. e2 = e
  <2>1. e.user \in BOOLEAN /\ e.writable \in BOOLEAN /\ user \in BOOLEAN
    BY <1>12 DEF Entry, Walkable
  <2>2. user => e.user /\ e.writable
    <3>1. Lower(R, K, own, t, i) <=> r # K /\ va[1] < KernelFirst
      BY <1>01, <1>6, <1>7, <1>8, <1>9, <1>10, PathLower
    <3>2. user => Lower(R, K, own, t, i)
      BY <3>1 DEF Walkable
    <3>3. QED
      BY <1>6, <1>7, <1>11, <1>12, <3>2 DEF Well, Owned
  <2>3. (e.user \/ user) = e.user /\ (e.writable \/ user) = e.writable
    BY <2>1, <2>2
  <2>4. QED
    BY <1>03, <1>12, <2>3 DEF Entry, Promoted
<1>15. m2 = m1
  <2>1. t \in Frame \cup BootFrame
    BY <1>11
  <2>2. /\ m2 \in Memory /\ m2.free = m1.free /\ m2.table[t][i] = e
        /\ \A f \in Frame \cup BootFrame, j \in Index : f # t \/ j # i => m2.table[f][j] = m1.table[f][j]
    BY <1>1, <1>4, <1>7, <1>12, <1>14, <2>1, SetEntryIs
  <2>3. \A f \in Frame \cup BootFrame, j \in Index : m2.table[f][j] = m1.table[f][j]
    BY <1>12, <2>2
  <2>4. QED
    BY <1>4, <2>2, <2>3, MemoryEqual
<1>16. s.path \in Seq(Frame) /\ Len(s.path) = d
  BY DEF Descent
<1>17. path2 \in Seq(Frame) /\ Len(path2) = d + 1 /\ path2[d + 1] = e.at /\ \A c \in 1..d : path2[c] = s.path[c]
  BY <1>2, <1>13, <1>16, AppendProperties
<1>18. On(m1.table, r, va, path2, d + 1)
  <2>1. On(m1.table, r, va, s.path, d)
    BY <1>1 DEF Descent
  <2>2. IsTable(m1.table, s.path[d], va[d]) /\ path2[d + 1] = m1.table[s.path[d]][va[d]].at
    BY <1>01, <1>12, <1>17
  <2>3. QED
    BY <1>6, <1>7, <1>17, <2>1, <2>2, OnFurther
<1>19. /\ o.mem = s.mem /\ o.path = path2 /\ o.made = s.made
       /\ o.ok = TRUE
  BY <1>1, <1>3, <1>15
<1>20. d + 1 = 1 \/ ~ create => s.mem = m
  BY DEF Descent
<1>21. QED
  BY <1>01, <1>04, <1>1, <1>17, <1>18, <1>19, <1>20 DEF Descent

\* A walk begins at the top level.
LEMMA DescentStart ==
    ASSUME NEW F, NEW m, NEW R, NEW K, NEW r, NEW va, NEW create, NEW user, Walkable(m, R, K, r, va, create, user),
           Fit(F, m, R, K), NEW s, s = [ok |-> TRUE, mem |-> m, path |-> <<r>>, made |-> {}]
    PROVE  Descent(F, m, R, K, r, va, create, 1, s)
<1>1. PICK path, made : path = <<r>> /\ made = {}
  OBVIOUS
<1>2. s.ok = TRUE /\ s.mem = m /\ s.path = path /\ s.made = made
  BY <1>1
<1>3. m \in Memory /\ r \in Frame
  BY DEF Fit, Walkable, Well, Sets
<1>4. path \in Seq(Frame) /\ Len(path) = 1 /\ path[1] = r
  BY <1>1, <1>3
<1>5. On(m.table, r, va, path, 1)
  BY <1>4 DEF On, Deep, At
<1>6. RollbackNewTables(m, made) = m
  <2>1. \A c \in made : c.frame \in Frame
    BY <1>1
  <2>2. PICK o : o = RollbackNewTables(m, made)
    OBVIOUS
  <2>3. /\ o \in Memory
        /\ \A x : x \in o.free <=> x \in m.free \/ \E c \in made : c.frame = x
        /\ \A f \in Frame \cup BootFrame, j \in Index :
             o.table[f][j] = IF (\E c \in made : c.frame = f) \/ (\E c \in made : c.table = f /\ c.index = j)
                             THEN Absent ELSE m.table[f][j]
    BY <1>3, <2>1, <2>2, RollbackIs
  <2>4. o.free = m.free /\ \A f \in Frame \cup BootFrame, j \in Index : o.table[f][j] = m.table[f][j]
    BY <1>1, <2>3
  <2>5. o = m
    BY <1>3, <2>3, <2>4, MemoryEqual
  <2>6. QED
    BY <2>2, <2>5
<1>7. Alike(m, m, R)
  BY DEF Alike
<1>8. \A c \in s.made : c.frame \in Frame
  BY <1>1, <1>2
<1>9. QED
  BY <1>2, <1>4, <1>5, <1>6, <1>7, <1>8 DEF Descent

\* One level of the walk: it comes to the next table or ends with the memory as it was.
LEMMA WalkStepIs ==
    ASSUME NEW F, NEW m, NEW R, NEW K, NEW r, NEW va, NEW create, NEW user, Walkable(m, R, K, r, va, create, user),
           NEW d \in 1..3, NEW s, Descent(F, m, R, K, r, va, create, d, s)
    PROVE  \/ Descent(F, m, R, K, r, va, create, d + 1, WalkStep(s, va, create, user))
           \/ Failed(m, r, va, create, WalkStep(s, va, create, user))
<1>1. PICK t, i : t = s.path[d] /\ i = va[d]
  OBVIOUS
<1>2. PICK e : e = s.mem.table[t][i]
  OBVIOUS
<1>3. s.ok = TRUE /\ Len(s.path) = d
  BY DEF Descent
<1>4. PICK o : o = WalkStep(s, va, create, user)
  OBVIOUS
<1>5. create \in BOOLEAN
  BY DEF Walkable
<1>6. CASE e.kind = "absent" /\ create /\ s.mem.free # {}
  <2>1. o = Linked(s, t, i, user)
    BY <1>1, <1>2, <1>3, <1>4, <1>6, ZenonT(60) DEF WalkStep, Linked, NewEntry
  <2>2. create = TRUE
    BY <1>5, <1>6
  <2>3. QED
    BY <1>1, <1>2, <1>4, <1>6, <2>1, <2>2, DescentLink
<1>7. CASE e.kind = "table"
  <2>1. o = Followed(s, t, i, user)
    BY <1>1, <1>2, <1>3, <1>4, <1>7, ZenonT(60) DEF WalkStep, Followed, Promoted
  <2>2. QED
    BY <1>1, <1>2, <1>4, <1>7, <2>1, DescentFollow
<1>8. CASE ~ (e.kind = "absent" /\ create /\ s.mem.free # {}) /\ e.kind # "table"
  <2>1. o.ok = FALSE /\ o.mem = RollbackNewTables(s.mem, s.made)
    BY <1>1, <1>2, <1>3, <1>4, <1>8, ZenonT(60) DEF WalkStep
  <2>2. o.mem = m
    BY <2>1 DEF Descent
  <2>3. ASSUME ~ create, Deep(Walk(m.table, r, va), 4) PROVE FALSE
    <3>1. s.mem = m /\ Fit(F, m, R, K)
      BY <2>3 DEF Descent
    <3>2. PICK w : w = Walk(m.table, r, va)
      OBVIOUS
    <3>3. PICK level, own : Well(m.table, F \ m.free, R, K, level, own)
      BY <3>1 DEF Fit
    <3>4. r \in R /\ va \in Plain
      BY DEF Walkable
    <3>5. /\ \A c \in 1..4 : Deep(w, c) => w[c].kind = m.table[At(w, r, c)][va[c]].kind
          /\ \A c \in 1..3 : Deep(w, c + 1) => Deep(w, c)
      BY <3>2, <3>3, <3>4, PathWell
    <3>6. Deep(w, d) /\ At(w, r, d) = t
      <4>1. d \in 1..d
        OBVIOUS
      <4>2. QED
        BY <1>1, <3>1, <3>2, <4>1 DEF Descent, On
    <3>7. d \in 1..4
      OBVIOUS
    <3>8. w[d].kind # "table"
      BY <1>1, <1>2, <1>8, <3>1, <3>5, <3>6, <3>7
    <3>9. ~ Deep(w, d + 1)
      BY <3>8 DEF Deep
    <3>10. d = 1 \/ d = 2 \/ d = 3
      OBVIOUS
    <3>11. ~ Deep(w, 4)
      <4>1. Deep(w, 4) => Deep(w, 3)
        BY <3>5
      <4>2. Deep(w, 3) => Deep(w, 2)
        BY <3>5
      <4>3. QED
        BY <3>9, <3>10, <4>1, <4>2
    <3>12. QED
      BY <2>3, <3>2, <3>11
  <2>4. QED
    BY <1>4, <2>1, <2>2, <2>3 DEF Failed
<1>9. QED
  BY <1>6, <1>7, <1>8

\* A walk that failed stays failed.
LEMMA WalkStepFailed ==
    ASSUME NEW s, s.ok = FALSE, NEW va, NEW create, NEW user
    PROVE  WalkStep(s, va, create, user) = s
  BY DEF WalkStep

\* walk_to_leaf comes to the last table, through new ones at most, or leaves the memory as it was.
LEMMA WalkToLeafIs ==
    ASSUME NEW F, NEW m, NEW R, NEW K, NEW r, NEW va, NEW create, NEW user, Walkable(m, R, K, r, va, create, user),
           Fit(F, m, R, K)
    PROVE  \/ Descent(F, m, R, K, r, va, create, 4, WalkToLeaf(m, r, va, create, user))
           \/ Failed(m, r, va, create, WalkToLeaf(m, r, va, create, user))
<1>1. PICK s1 : s1 = [ok |-> TRUE, mem |-> m, path |-> <<r>>, made |-> {}]
  OBVIOUS
<1>2. PICK s2 : s2 = WalkStep(s1, va, create, user)
  OBVIOUS
<1>3. PICK s3 : s3 = WalkStep(s2, va, create, user)
  OBVIOUS
<1>4. PICK s4 : s4 = WalkStep(s3, va, create, user)
  OBVIOUS
<1>5. WalkToLeaf(m, r, va, create, user) = s4
  BY <1>1, <1>2, <1>3, <1>4 DEF WalkToLeaf
<1>6. Descent(F, m, R, K, r, va, create, 1, s1)
  BY <1>1, DescentStart
<1>7. Descent(F, m, R, K, r, va, create, 2, s2) \/ Failed(m, r, va, create, s2)
  <2>1. 1 \in 1..3 /\ 1 + 1 = 2
    OBVIOUS
  <2>2. \/ Descent(F, m, R, K, r, va, create, 1 + 1, WalkStep(s1, va, create, user))
        \/ Failed(m, r, va, create, WalkStep(s1, va, create, user))
    BY <1>6, <2>1, WalkStepIs, Zenon
  <2>3. QED
    BY <1>2, <2>1, <2>2
<1>8. Descent(F, m, R, K, r, va, create, 3, s3) \/ Failed(m, r, va, create, s3)
  <2>1. CASE Failed(m, r, va, create, s2)
    <3>1. s3 = s2
      BY <1>3, <2>1, WalkStepFailed DEF Failed
    <3>2. QED
      BY <2>1, <3>1
  <2>2. CASE Descent(F, m, R, K, r, va, create, 2, s2)
    <3>1. 2 \in 1..3 /\ 2 + 1 = 3
      OBVIOUS
    <3>2. \/ Descent(F, m, R, K, r, va, create, 2 + 1, WalkStep(s2, va, create, user))
          \/ Failed(m, r, va, create, WalkStep(s2, va, create, user))
      BY <2>2, <3>1, WalkStepIs, Zenon
    <3>3. QED
      BY <1>3, <3>1, <3>2
  <2>3. QED
    BY <1>7, <2>1, <2>2
<1>9. Descent(F, m, R, K, r, va, create, 4, s4) \/ Failed(m, r, va, create, s4)
  <2>1. CASE Failed(m, r, va, create, s3)
    <3>1. s4 = s3
      BY <1>4, <2>1, WalkStepFailed DEF Failed
    <3>2. QED
      BY <2>1, <3>1
  <2>2. CASE Descent(F, m, R, K, r, va, create, 3, s3)
    <3>1. 3 \in 1..3 /\ 3 + 1 = 4
      OBVIOUS
    <3>2. \/ Descent(F, m, R, K, r, va, create, 3 + 1, WalkStep(s3, va, create, user))
          \/ Failed(m, r, va, create, WalkStep(s3, va, create, user))
      BY <2>2, <3>1, WalkStepIs, Zenon
    <3>3. QED
      BY <1>4, <3>1, <3>2
  <2>3. QED
    BY <1>8, <2>1, <2>2
<1>10. QED
  BY <1>5, <1>9

-----------------------------------------------------------------------------
(* The entry in the last table.                                             *)

\* The spaces that have the page va of the space with top level r.
Seen(r, va, q) == q = r \/ va[1] >= KernelFirst

\* t is the last table for va.
AtLeaf(F, m, R, K, r, va, t) ==
    /\ Fit(F, m, R, K)
    /\ r \in R /\ va \in Plain /\ t \in Frame
    /\ Deep(Walk(m.table, r, va), 4) /\ At(Walk(m.table, r, va), r, 4) = t

\* A translation that finds nothing finds the absent entry.
LEMMA AbsentWell ==
    ASSUME NEW T, NEW used, NEW R, NEW K, NEW level, NEW own, Well(T, used, R, K, level, own),
           NEW r \in R, NEW va \in Plain, TranslateIn(T, r, va).kind = "absent"
    PROVE  TranslateIn(T, r, va) = Absent
<1>1. PICK s : s = Walk(T, r, va)
  OBVIOUS
<1>2. /\ \A d \in 1..4 : s[d] \in Entry
      /\ \A d \in 1..4 : Deep(s, d) =>
            At(s, r, d) \in used /\ s[d].kind = T[At(s, r, d)][va[d]].kind
  BY <1>1, PathWell
<1>3. /\ s[1] = T[r][va[1]]
      /\ \A d \in 1..3 : s[d + 1] = Under(T, s[d], va[d + 1])
      /\ TranslateIn(T, r, va) = s[4]
  BY <1>1, WalkSteps
<1>4. \A d \in 1..4 : va[d] \in Index
  BY DEF Plain, Page
<1>5. \A f \in used, i \in Index : T[f][i].kind = "absent" => T[f][i] = Absent
  BY DEF Well, Leveled
<1>6. s[1].kind = "absent" => s[1] = Absent
  <2>1. r \in used
    BY DEF Well, Sets
  <2>2. QED
    BY <1>3, <1>4, <1>5, <2>1
<1>7. ASSUME NEW d \in 1..3, s[d].kind = "absent" => s[d] = Absent, s[d + 1].kind = "absent" PROVE s[d + 1] = Absent
  <2>1. s[d + 1] = Under(T, s[d], va[d + 1])
    BY <1>3
  <2>2. CASE s[d].kind # "table"
    BY <1>7, <2>1, <2>2, UnderOther
  <2>3. CASE s[d].kind = "table"
    <3>1. PICK a : a = s[d] /\ a \in Entry
      BY <1>2
    <3>2. Deep(s, d + 1) /\ At(s, r, d + 1) = a.at
      BY <2>3, <3>1 DEF Deep, At
    <3>3. d + 1 \in 1..4
      OBVIOUS
    <3>4. a.at \in used /\ T[a.at][va[d + 1]].kind = "absent"
      BY <1>2, <1>7, <3>2, <3>3
    <3>5. T[a.at][va[d + 1]] = Absent
      BY <1>4, <1>5, <3>3, <3>4
    <3>6. a.user \in BOOLEAN /\ a.writable \in BOOLEAN /\ a.kind = "table"
      BY <2>3, <3>1 DEF Entry
    <3>7. Under(T, a, va[d + 1]) = [Absent EXCEPT !.user = Absent.user /\ a.user, !.writable = Absent.writable /\ a.writable]
      BY <3>5, <3>6 DEF Under
    <3>8. (Absent.user /\ a.user) = FALSE /\ (Absent.writable /\ a.writable) = FALSE
      BY DEF Absent
    <3>9. Under(T, a, va[d + 1]) = [Absent EXCEPT !.user = FALSE, !.writable = FALSE]
      BY <3>7, <3>8
    <3>10. QED
      BY <2>1, <3>1, <3>9 DEF Absent
  <2>4. QED
    BY <2>2, <2>3
<1>8. s[2].kind = "absent" => s[2] = Absent
  BY <1>6, <1>7
<1>9. s[3].kind = "absent" => s[3] = Absent
  BY <1>7, <1>8
<1>10. s[4].kind = "absent" => s[4] = Absent
  BY <1>7, <1>9
<1>11. QED
  BY <1>3, <1>10

\* What the last table holds is what the spaces that have the page see.
LEMMA LeafSeen ==
    ASSUME NEW F, NEW m, NEW R, NEW K, NEW r, NEW va, NEW t, AtLeaf(F, m, R, K, r, va, t),
           NEW q \in R, Seen(r, va, q)
    PROVE  /\ TranslateIn(m.table, q, va) \in Entry
           /\ TranslateIn(m.table, q, va).kind = m.table[t][va[4]].kind
           /\ TranslateIn(m.table, q, va).at = m.table[t][va[4]].at
           /\ TranslateIn(m.table, q, va).owned = m.table[t][va[4]].owned
<1>1. PICK T : T = m.table
  OBVIOUS
<1>2. PICK level, own : Well(T, F \ m.free, R, K, level, own)
  BY <1>1 DEF AtLeaf, Fit
<1>3. PICK s, z : s = Walk(T, r, va) /\ z = Walk(T, q, va)
  OBVIOUS
<1>4. r \in R /\ va \in Plain /\ Deep(s, 4) /\ At(s, r, 4) = t
  BY <1>1, <1>3 DEF AtLeaf
<1>5. 4 \in 1..4 /\ 4 # 1
  OBVIOUS
<1>6. Deep(z, 4) /\ At(z, q, 4) = t
  <2>1. CASE q = r
    BY <1>3, <1>4, <2>1
  <2>2. CASE va[1] >= KernelFirst
    BY <1>2, <1>3, <1>4, <1>5, <2>2, UpperWalks
  <2>3. QED
    BY <2>1, <2>2 DEF Seen
<1>7. z[4] \in Entry /\ z[4].kind = T[t][va[4]].kind /\ z[4].at = T[t][va[4]].at /\ z[4].owned = T[t][va[4]].owned
  BY <1>2, <1>3, <1>4, <1>5, <1>6, PathWell
<1>8. TranslateIn(T, q, va) = z[4]
  BY <1>3, WalkSteps
<1>9. QED
  BY <1>1, <1>7, <1>8

\* The tables on the way to a page of a process grant ring 3 all that its last entry does.
LEMMA OpenWalk ==
    ASSUME NEW T, NEW used, NEW R, NEW K, NEW level, NEW own, Well(T, used, R, K, level, own),
           NEW r \in R, r # K, NEW va \in Plain, va[1] < KernelFirst, NEW s, s = Walk(T, r, va), Deep(s, 4)
    PROVE  s[3].user /\ s[3].writable
<1>1. /\ \A d \in 1..4 : s[d] \in Entry
      /\ \A d \in 1..4 : Deep(s, d) => /\ At(s, r, d) \in used
                                      /\ s[d].kind = T[At(s, r, d)][va[d]].kind
      /\ \A d \in 1..3 : Deep(s, d + 1) => Deep(s, d)
  BY PathWell
<1>2. s[1] = T[r][va[1]] /\ \A d \in 1..3 : s[d + 1] = Under(T, s[d], va[d + 1])
  BY WalkSteps
<1>3. \A d \in 1..4 : va[d] \in Index
  BY DEF Plain, Page
<1>4. T \in TablesIn /\ used \subseteq Frame /\ Owned(T, used, R, K, own)
  BY DEF Well, Sets
\* each entry on the way is one the process has for itself
<1>5. ASSUME NEW d \in 1..3, Deep(s, d + 1)
      PROVE  T[At(s, r, d)][va[d]].user /\ T[At(s, r, d)][va[d]].writable
  <2>1. d \in 1..4 /\ d + 1 # 1 /\ d + 1 - 1 = d
    OBVIOUS
  <2>2. Deep(s, d) /\ s[d].kind = "table"
    BY <1>1, <1>5, <2>1 DEF Deep
  <2>3. Lower(R, K, own, At(s, r, d), va[d])
    BY <2>1, <2>2, PathLower
  <2>4. At(s, r, d) \in used /\ IsTable(T, At(s, r, d), va[d])
    BY <1>1, <2>1, <2>2 DEF IsTable
  <2>5. QED
    BY <1>3, <1>4, <2>1, <2>3, <2>4 DEF Owned
<1>6. Deep(s, 3) /\ Deep(s, 2)
  <2>1. 3 \in 1..3 /\ 2 \in 1..3 /\ 3 + 1 = 4 /\ 2 + 1 = 3
    OBVIOUS
  <2>2. QED
    BY <1>1, <2>1
<1>7. s[1].user /\ s[1].writable
  <2>1. 1 \in 1..3 /\ 1 + 1 = 2
    OBVIOUS
  <2>2. T[At(s, r, 1)][va[1]].user /\ T[At(s, r, 1)][va[1]].writable
    BY <1>5, <1>6, <2>1
  <2>3. QED
    BY <1>2, <2>2 DEF At
<1>8. ASSUME NEW d \in 1..2, Deep(s, d + 2), s[d].user, s[d].writable
      PROVE  s[d + 1].user /\ s[d + 1].writable
  <2>1. PICK c : c = d + 1
    OBVIOUS
  <2>2. c \in 1..3 /\ c \in 1..4 /\ d \in 1..3 /\ d \in 1..4 /\ c # 1 /\ c - 1 = d /\ c + 1 = d + 2
    BY <2>1
  <2>3. PICK e, b : e = s[d] /\ b = T[e.at][va[c]]
    OBVIOUS
  <2>4. At(s, r, c) = e.at
    BY <2>2, <2>3 DEF At
  <2>5. Deep(s, c)
    BY <1>1, <1>8, <2>2
  <2>6. e.kind = "table" /\ e \in Entry
    BY <1>1, <2>2, <2>3, <2>5 DEF Deep
  <2>7. b.user /\ b.writable
    BY <1>5, <1>8, <2>2, <2>3, <2>4
  <2>8. b \in Entry
    <3>1. e.at \in Frame
      BY <1>1, <1>4, <2>2, <2>4, <2>5
    <3>2. QED
      BY <1>3, <1>4, <2>2, <2>3, <3>1 DEF TablesIn
  <2>9. s[c] = Under(T, e, va[c])
    BY <1>2, <2>1, <2>2, <2>3
  <2>10. (s[c].user <=> b.user /\ e.user) /\ (s[c].writable <=> b.writable /\ e.writable)
    BY <2>3, <2>6, <2>8, <2>9, UnderFields
  <2>11. QED
    BY <1>8, <2>1, <2>3, <2>7, <2>10
<1>9. s[2].user /\ s[2].writable
  <2>1. 1 \in 1..2 /\ 1 + 1 = 2 /\ 1 + 2 = 3
    OBVIOUS
  <2>2. QED
    BY <1>6, <1>7, <1>8, <2>1
<1>10. QED
  <2>1. 2 \in 1..2 /\ 2 + 1 = 3 /\ 2 + 2 = 4
    OBVIOUS
  <2>2. QED
    BY <1>8, <1>9, <2>1

\* Entries with equal fields are equal.
LEMMA EntryEqual ==
    ASSUME NEW x \in Entry, NEW y \in Entry,
           x.kind = y.kind, x.at = y.at, x.owned = y.owned, x.user = y.user, x.writable = y.writable
    PROVE  x = y
  BY DEF Entry

\* The last table of a walk holds pages only.
LEMMA LastKinds ==
    ASSUME NEW F, NEW m, NEW R, NEW K, NEW r, NEW va, NEW t, AtLeaf(F, m, R, K, r, va, t)
    PROVE  /\ m.table[t][va[4]] \in Entry
           /\ m.table[t][va[4]].kind \in {"absent", "page"}
           /\ m.table[t][va[4]].kind = "absent" => m.table[t][va[4]] = Absent
           /\ m \in Memory /\ va[4] \in Index
<1>1. PICK T : T = m.table
  OBVIOUS
<1>2. PICK u : u = F \ m.free
  OBVIOUS
<1>3. PICK level, own : Well(T, u, R, K, level, own)
  BY <1>1, <1>2 DEF AtLeaf, Fit
<1>4. PICK i : i = va[4] /\ i \in Index
  BY DEF AtLeaf, Plain, Page
<1>5. PICK s : s = Walk(T, r, va)
  OBVIOUS
<1>6. r \in R /\ va \in Plain /\ Deep(s, 4) /\ At(s, r, 4) = t /\ 4 \in 1..4
  BY <1>1, <1>5 DEF AtLeaf
<1>7. t \in u /\ level[t] = 1
  BY <1>3, <1>5, <1>6, PathWell
<1>8. T \in TablesIn /\ level \in [Frame -> 1..4] /\ u \subseteq Frame
  BY <1>3 DEF Well, Sets
<1>9. T[t][i] \in Entry
  BY <1>4, <1>7, <1>8 DEF TablesIn
<1>10. Leveled(T, u, R, K, level)
  BY <1>3 DEF Well
<1>11. T[t][i].kind # "large" /\ (T[t][i].kind = "absent" => T[t][i] = Absent)
  BY <1>4, <1>7, <1>10 DEF Leveled
<1>12. T[t][i].kind # "table"
  <2> SUFFICES ASSUME T[t][i].kind = "table" PROVE FALSE
    OBVIOUS
  <2>1. T[t][i].at \in u /\ (level[t] = level[T[t][i].at] + 1 \/ t \in R)
    BY <1>4, <1>7, <1>10 DEF Leveled, IsTable, SelfEntry
  <2>2. t \notin R
    BY <1>7, <1>10 DEF Leveled
  <2>3. level[T[t][i].at] \in 1..4
    BY <1>8, <2>1
  <2>4. QED
    BY <1>7, <2>1, <2>2, <2>3
<1>13. T[t][i].kind \in {"absent", "page"}
  BY <1>9, <1>11, <1>12, EntryFields
<1>14. QED
  BY <1>1, <1>4, <1>9, <1>11, <1>13 DEF AtLeaf, Fit

\* b grants nothing that e does not, and both grant the same.
Fewer(b, e) == (b.user => e.user) /\ (b.writable => e.writable)

Equal(b, e) == (b.user <=> e.user) /\ (b.writable <=> e.writable)

\* A page has at most the rights of its last entry, and those of a process have all of them.
LEMMA LeafRights ==
    ASSUME NEW F, NEW m, NEW R, NEW K, NEW r, NEW va, NEW t, AtLeaf(F, m, R, K, r, va, t),
           NEW e, e = m.table[t][va[4]]
    PROVE  /\ Fewer(TranslateIn(m.table, r, va), e)
           /\ r # K /\ va[1] < KernelFirst => Equal(TranslateIn(m.table, r, va), e)
<1>1. PICK T : T = m.table
  OBVIOUS
<1>2. PICK level, own : Well(T, F \ m.free, R, K, level, own)
  BY <1>1 DEF AtLeaf, Fit
<1>3. PICK s : s = Walk(T, r, va)
  OBVIOUS
<1>4. r \in R /\ va \in Plain /\ Deep(s, 4) /\ At(s, r, 4) = t /\ t \in Frame
  BY <1>1, <1>3 DEF AtLeaf
<1>5. PICK x : x = s[3]
  OBVIOUS
<1>6. x.kind = "table" /\ x.at = t
  <2>1. 4 # 1 /\ 4 - 1 = 3
    OBVIOUS
  <2>2. QED
    BY <1>4, <1>5, <2>1 DEF Deep, At
<1>7. TranslateIn(T, r, va) = Under(T, x, va[4])
  <2>1. 3 \in 1..3 /\ 3 + 1 = 4
    OBVIOUS
  <2>2. TranslateIn(T, r, va) = s[4] /\ s[3 + 1] = Under(T, s[3], va[3 + 1])
    BY <1>3, <2>1, WalkSteps
  <2>3. QED
    BY <1>5, <2>1, <2>2
<1>8. x \in Entry
  <2>1. 3 \in 1..4
    OBVIOUS
  <2>2. QED
    BY <1>2, <1>3, <1>4, <1>5, <2>1, PathWell
<1>9. e \in Entry /\ e = T[x.at][va[4]]
  BY <1>1, <1>6, LastKinds
<1>10. PICK b : b = Under(T, x, va[4])
  OBVIOUS
<1>11. (b.user <=> e.user /\ x.user) /\ (b.writable <=> e.writable /\ x.writable)
  BY <1>6, <1>8, <1>9, <1>10, UnderFields
<1>12. Fewer(b, e)
  BY <1>11, Zenon DEF Fewer
<1>13. ASSUME r # K, va[1] < KernelFirst PROVE Equal(b, e)
  <2>1. x.user /\ x.writable
    BY <1>2, <1>3, <1>4, <1>5, <1>13, OpenWalk
  <2>2. QED
    BY <1>11, <2>1, Zenon DEF Equal
<1>14. QED
  BY <1>1, <1>7, <1>10, <1>12, <1>13

\* Nothing changes but the page va of r; and that is b for all who have it.
Others(m, o, R, r, va) ==
    \A q \in R, vb \in Plain :
        ~ (vb = va /\ Seen(r, va, q)) => TranslateIn(o.table, q, vb) = TranslateIn(m.table, q, vb)

Everywhere(m, R, r, va, b) == \A q \in R : Seen(r, va, q) => TranslateIn(m.table, q, va) = b

\* The entry for va in its last table t is set to e, a page or nothing.
LeafSet(F, m, R, K, r, va, t, e, o) ==
    /\ AtLeaf(F, m, R, K, r, va, t)
    /\ e \in Entry /\ (e = Absent \/ e.kind = "page")
    /\ va[1] >= KernelFirst => e.user = FALSE
    /\ o = SetEntry(m, t, va[4], e)

\* Writing an entry of the last table changes that one page, wherever the table is seen.
LEMMA SetLeaf ==
    ASSUME NEW F, NEW m, NEW R, NEW K, NEW r, NEW va, NEW t, NEW e, NEW o, LeafSet(F, m, R, K, r, va, t, e, o)
    PROVE  /\ AtLeaf(F, o, R, K, r, va, t)
           /\ Others(m, o, R, r, va)
           /\ \E b \in Entry : b.kind = e.kind /\ b.at = e.at /\ b.owned = e.owned /\ Everywhere(o, R, r, va, b)
<1>00. /\ AtLeaf(F, m, R, K, r, va, t)
       /\ e \in Entry /\ (e = Absent \/ e.kind = "page")
       /\ va[1] >= KernelFirst => e.user = FALSE
       /\ o = SetEntry(m, t, va[4], e)
  BY DEF LeafSet
<1> USE <1>00
<1>1. PICK T, T2 : T = m.table /\ T2 = o.table
  OBVIOUS
<1>2. PICK u : u = F \ m.free
  OBVIOUS
<1>3. PICK level, own : Well(T, u, R, K, level, own)
  BY <1>1, <1>2 DEF AtLeaf, Fit
<1>4. PICK i : i = va[4] /\ i \in Index
  BY DEF AtLeaf, Plain, Page
<1>5. PICK s : s = Walk(T, r, va)
  OBVIOUS
<1>6. r \in R /\ va \in Plain /\ Deep(s, 4) /\ At(s, r, 4) = t /\ 4 \in 1..4 /\ t \in Frame
  BY <1>1, <1>5 DEF AtLeaf
<1>7. t \in u /\ level[t] = 1
  BY <1>3, <1>5, <1>6, PathWell
<1>8. t \in Frame \cup BootFrame /\ m \in Memory /\ F \subseteq Frame /\ m.free \subseteq F
  BY <1>6 DEF AtLeaf, Fit
<1>9. /\ o \in Memory /\ o.free = m.free /\ T2[t][i] = e
      /\ \A f \in Frame \cup BootFrame, j \in Index : f # t \/ j # i => T2[f][j] = T[f][j]
  BY <1>1, <1>4, <1>8, SetEntryIs
<1>10. T2 \in TablesIn /\ \A f \in Frame, j \in Index : f # t \/ j # i => T2[f][j] = T[f][j]
  BY <1>1, <1>9 DEF Memory
<1>11. T2[t][i] = Absent \/ T2[t][i].kind = "page"
  BY <1>9
<1>12. Well(T2, u, R, K, level, own)
  BY <1>3, <1>4, <1>7, <1>10, <1>11, LeafWell
<1>13. Fit(F, o, R, K)
  <2>1. F \ o.free = u /\ o.free \subseteq F
    BY <1>2, <1>8, <1>9
  <2>2. Well(o.table, F \ o.free, R, K, level, own)
    BY <1>1, <1>12, <2>1
  <2>3. QED
    BY <1>8, <1>9, <2>1, <2>2 DEF Fit
<1>14. \A f \in Frame, j \in Index : f # t \/ j # va[4] => T2[f][j] = T[f][j]
  BY <1>4, <1>10
<1>15. ASSUME NEW q \in R, NEW vb \in Plain
       PROVE  /\ vb = va /\ (q = r \/ va[1] >= KernelFirst) =>
                   /\ \A d \in 1..3 : Walk(T2, q, vb)[d] = Walk(T, q, vb)[d]
                   /\ Walk(T, q, vb)[3].kind = "table"
                   /\ Walk(T, q, vb)[3].at = t
              /\ ~ (vb = va /\ (q = r \/ va[1] >= KernelFirst)) => TranslateIn(T2, q, vb) = TranslateIn(T, q, vb)
  BY <1>3, <1>5, <1>6, <1>14, LeafWalks
<1>16. Others(m, o, R, r, va)
  BY <1>1, <1>15 DEF Others, Seen
<1>17. ASSUME NEW q \in R, Seen(r, va, q) PROVE Walk(T2, q, va)[3].kind = "table" /\ Walk(T2, q, va)[3].at = t
  <2>1. q = r \/ va[1] >= KernelFirst
    BY <1>17 DEF Seen
  <2>2. 3 \in 1..3
    OBVIOUS
  <2>3. QED
    BY <1>6, <1>15, <2>1, <2>2
<1>18. AtLeaf(F, o, R, K, r, va, t)
  <2>1. Seen(r, va, r)
    BY DEF Seen
  <2>2. Walk(T2, r, va)[3].kind = "table" /\ Walk(T2, r, va)[3].at = t
    BY <1>6, <1>17, <2>1
  <2>3. Deep(Walk(T2, r, va), 4) /\ At(Walk(T2, r, va), r, 4) = t
    BY <2>2 DEF Deep, At
  <2>4. QED
    BY <1>1, <1>6, <1>13, <2>3 DEF AtLeaf
<1>19. PICK b : b = TranslateIn(T2, r, va)
  OBVIOUS
<1>20. ASSUME NEW q \in R, Seen(r, va, q)
       PROVE  /\ TranslateIn(T2, q, va) \in Entry
              /\ TranslateIn(T2, q, va).kind = e.kind
              /\ TranslateIn(T2, q, va).at = e.at
              /\ TranslateIn(T2, q, va).owned = e.owned
  <2>1. /\ TranslateIn(o.table, q, va) \in Entry
        /\ TranslateIn(o.table, q, va).kind = o.table[t][va[4]].kind
        /\ TranslateIn(o.table, q, va).at = o.table[t][va[4]].at
        /\ TranslateIn(o.table, q, va).owned = o.table[t][va[4]].owned
    BY <1>18, <1>20, LeafSeen
  <2>2. QED
    BY <1>1, <1>4, <1>9, <2>1
<1>21. b \in Entry /\ b.kind = e.kind /\ b.at = e.at /\ b.owned = e.owned
  <2>1. Seen(r, va, r)
    BY DEF Seen
  <2>2. QED
    BY <1>6, <1>19, <1>20, <2>1
\* in the upper half no one sees it from ring 3, and everyone sees whether it is writable
<1>22. ASSUME NEW q \in R, q # r, va[1] >= KernelFirst PROVE TranslateIn(T2, q, va) = b
  <2>1. PICK z, x : z = Walk(T2, q, va) /\ x = Walk(T2, r, va)
    OBVIOUS
  <2>2. Seen(r, va, q) /\ Seen(r, va, r)
    BY <1>22 DEF Seen
  <2>3. z[3].kind = "table" /\ z[3].at = t /\ x[3].kind = "table" /\ x[3].at = t
    BY <1>6, <1>17, <2>1, <2>2
  <2>4. /\ TranslateIn(T2, q, va) = z[4] /\ TranslateIn(T2, r, va) = x[4]
        /\ z[4] = Under(T2, z[3], va[4]) /\ x[4] = Under(T2, x[3], va[4])
    <3>1. 3 \in 1..3 /\ 3 + 1 = 4
      OBVIOUS
    <3>2. TranslateIn(T2, q, va) = z[4] /\ z[3 + 1] = Under(T2, z[3], va[3 + 1])
      BY <2>1, <3>1, WalkSteps
    <3>3. TranslateIn(T2, r, va) = x[4] /\ x[3 + 1] = Under(T2, x[3], va[3 + 1])
      BY <2>1, <3>1, WalkSteps
    <3>4. QED
      BY <3>1, <3>2, <3>3
  <2>5. \A d \in 1..4 : z[d] \in Entry
    BY <1>6, <1>12, <2>1, PathWell
  <2>6. \A d \in 1..4 : x[d] \in Entry
    BY <1>6, <1>12, <2>1, PathWell
  <2>7. 3 \in 1..4 /\ 4 \in 1..4
    OBVIOUS
  <2>8. z[3] \in Entry /\ x[3] \in Entry /\ z[4] \in Entry /\ x[4] \in Entry
    BY <2>5, <2>6, <2>7
  <2>9. /\ z[4].user <=> e.user /\ z[3].user
        /\ x[4].user <=> e.user /\ x[3].user
    <3>1. PICK z3, x3 : z3 = z[3] /\ x3 = x[3]
      OBVIOUS
    <3>2. e = T2[z3.at][va[4]] /\ z3 \in Entry /\ z3.kind = "table"
      BY <1>4, <1>9, <2>3, <2>8, <3>1
    <3>3. e = T2[x3.at][va[4]] /\ x3 \in Entry /\ x3.kind = "table"
      BY <1>4, <1>9, <2>3, <2>8, <3>1
    <3>4. Under(T2, z3, va[4]).user <=> e.user /\ z3.user
      BY <3>2, UnderFields
    <3>5. Under(T2, x3, va[4]).user <=> e.user /\ x3.user
      BY <3>3, UnderFields
    <3>6. QED
      BY <2>4, <3>1, <3>4, <3>5
  <2>10. z[4].user = FALSE /\ x[4].user = FALSE
    <3>1. z[4].user \in BOOLEAN /\ x[4].user \in BOOLEAN
      BY <2>8 DEF Entry
    <3>2. QED
      BY <1>22, <2>9, <3>1
  <2>11. \A d \in 1..4 : /\ z[d].kind = x[d].kind /\ z[d].at = x[d].at
                         /\ z[d].owned = x[d].owned /\ z[d].writable = x[d].writable
    BY <1>6, <1>12, <1>22, <2>1, UpperWalks
  <2>12. z[4].kind = x[4].kind /\ z[4].at = x[4].at /\ z[4].owned = x[4].owned /\ z[4].writable = x[4].writable
    BY <2>7, <2>11
  <2>13. z[4].user = x[4].user
    BY <2>10
  <2>14. z[4] = x[4]
    BY <2>8, <2>12, <2>13, EntryEqual
  <2>15. QED
    BY <1>19, <2>4, <2>14
<1>23. Everywhere(o, R, r, va, b)
  BY <1>1, <1>19, <1>22 DEF Everywhere, Seen
<1>24. QED
  BY <1>16, <1>18, <1>21, <1>23

\* The last table of a completed walk.
LEMMA DescentLeaf ==
    ASSUME NEW F, NEW m, NEW R, NEW K, NEW r, NEW va, NEW create, NEW user, Walkable(m, R, K, r, va, create, user),
           NEW w, Descent(F, m, R, K, r, va, create, 4, w)
    PROVE  AtLeaf(F, w.mem, R, K, r, va, w.path[4])
<1>1. 4 \in 1..4
  OBVIOUS
<1>2. Deep(Walk(w.mem.table, r, va), 4) /\ At(Walk(w.mem.table, r, va), r, 4) = w.path[4]
  BY <1>1 DEF Descent, On
<1>3. w.path[4] \in Frame /\ Fit(F, w.mem, R, K)
  BY DEF Descent
<1>4. QED
  BY <1>2, <1>3 DEF AtLeaf, Walkable

\* What is found where frame was mapped with rights: in the kernel's space the tables above
\* may deny writing, in a process they grant all that was asked for.
Granted(b, frame, rights) ==
    /\ b.kind = "page" /\ b.owned /\ b.at = frame
    /\ b.user = rights.user
    /\ b.writable => rights.writable
    /\ rights.user => b.writable = rights.writable

\* vmm_map_page_locked
LEMMA MapPageIs ==
    ASSUME NEW F, NEW m, NEW R, NEW K, NEW r, NEW va, NEW frame \in Data, NEW rights \in Rights,
           Walkable(m, R, K, r, va, TRUE, rights.user), Fit(F, m, R, K),
           NEW o, o = MapPage(m, r, va, frame, rights)
    PROVE  /\ o.ok \in BOOLEAN
           /\ Fit(F, o.mem, R, K)
           /\ ~ o.ok => Alike(m, o.mem, R)
           /\ o.ok => /\ Others(m, o.mem, R, r, va)
                      /\ Everywhere(m, R, r, va, Absent)
                      /\ \E b \in Entry : Granted(b, frame, rights) /\ Everywhere(o.mem, R, r, va, b)
<1>1. PICK user : user = rights.user
  OBVIOUS
<1>2. Walkable(m, R, K, r, va, TRUE, user)
  BY <1>1
<1>3. PICK w : w = WalkToLeaf(m, r, va, TRUE, user)
  OBVIOUS
<1>4. Descent(F, m, R, K, r, va, TRUE, 4, w) \/ Failed(m, r, va, TRUE, w)
  BY <1>2, <1>3, WalkToLeafIs
<1>5. PICK e : e = [kind |-> "page", at |-> frame, owned |-> TRUE, user |-> user, writable |-> rights.writable]
  OBVIOUS
<1>6. /\ e \in Entry /\ e.kind = "page" /\ e.owned = TRUE /\ e.at = frame
      /\ e.user = user /\ e.writable = rights.writable
  BY <1>1, <1>5 DEF Rights, Entry
<1>7. /\ ~ w.ok \/ Leaf(w, va).kind # "absent" => o.ok = FALSE /\ o.mem = w.mem
      /\ w.ok /\ Leaf(w, va).kind = "absent" => o.ok = TRUE /\ o.mem = SetEntry(w.mem, w.path[4], va[4], e)
  BY <1>1, <1>3, <1>5 DEF MapPage, Result
<1>8. Alike(m, m, R)
  BY DEF Alike
<1>9. CASE Failed(m, r, va, TRUE, w)
  BY <1>7, <1>8, <1>9 DEF Failed
<1>10. CASE Descent(F, m, R, K, r, va, TRUE, 4, w) /\ Leaf(w, va).kind # "absent"
  BY <1>7, <1>10 DEF Descent
<1>11. CASE Descent(F, m, R, K, r, va, TRUE, 4, w) /\ Leaf(w, va).kind = "absent"
  <2>1. PICK t, m1, m2 : t = w.path[4] /\ m1 = w.mem /\ m2 = o.mem
    OBVIOUS
  <2>2. o.ok = TRUE /\ m2 = SetEntry(m1, t, va[4], e)
    BY <1>7, <1>11, <2>1 DEF Descent
  <2>3. AtLeaf(F, m1, R, K, r, va, t)
    BY <1>2, <1>11, <2>1, DescentLeaf
  <2>4. va[1] >= KernelFirst => e.user = FALSE
    <3>1. user \in BOOLEAN /\ (user => va[1] < KernelFirst) /\ va[1] \in Int /\ KernelFirst \in Int
      BY <1>2, ConstantsAssumption DEF Walkable, Plain, Page, Index
    <3>2. QED
      BY <1>6, <3>1
  <2>5. /\ AtLeaf(F, m2, R, K, r, va, t)
        /\ Others(m1, m2, R, r, va)
        /\ \E b \in Entry : b.kind = e.kind /\ b.at = e.at /\ b.owned = e.owned /\ Everywhere(m2, R, r, va, b)
    <3>1. e \in Entry /\ (e = Absent \/ e.kind = "page") /\ m2 = SetEntry(m1, t, va[4], e)
      BY <1>6, <2>2
    <3>2. LeafSet(F, m1, R, K, r, va, t, e, m2)
      BY <2>3, <2>4, <3>1, Zenon DEF LeafSet
    <3>3. QED
      BY <3>2, SetLeaf
  <2>6. Alike(m, m1, R)
    BY <1>11, <2>1 DEF Descent
  <2>7. Others(m, m2, R, r, va)
    BY <2>5, <2>6 DEF Others, Alike
  <2>8. Everywhere(m, R, r, va, Absent)
    <3> SUFFICES ASSUME NEW q \in R, Seen(r, va, q) PROVE TranslateIn(m.table, q, va) = Absent
      BY DEF Everywhere
    <3>1. TranslateIn(m1.table, q, va).kind = m1.table[t][va[4]].kind
      BY <2>3, LeafSeen
    <3>2. TranslateIn(m1.table, q, va).kind = "absent"
      BY <1>11, <2>1, <3>1 DEF Leaf
    <3>3. va \in Plain
      BY <2>3 DEF AtLeaf
    <3>4. PICK level, own : Well(m1.table, F \ m1.free, R, K, level, own)
      BY <2>3 DEF AtLeaf, Fit
    <3>5. TranslateIn(m1.table, q, va) = Absent
      BY <3>2, <3>3, <3>4, AbsentWell
    <3>6. QED
      BY <2>6, <3>3, <3>5 DEF Alike
  <2>9. Fit(F, m2, R, K)
    BY <2>5 DEF AtLeaf
  <2>10. PICK b \in Entry : b.kind = e.kind /\ b.at = e.at /\ b.owned = e.owned /\ Everywhere(m2, R, r, va, b)
    BY <2>5
  <2>11. b = TranslateIn(m2.table, r, va)
    BY <1>2, <2>10 DEF Everywhere, Seen, Walkable
  <2>12. m2.table[t][va[4]] = e
    <3>1. t \in Frame \cup BootFrame /\ va[4] \in Index /\ m1 \in Memory
      BY <2>3, LastKinds DEF AtLeaf
    <3>2. QED
      BY <1>6, <2>2, <3>1, SetEntryIs
  <2>13. Fewer(b, e) /\ (user => Equal(b, e))
    <3>1. user => r # K /\ va[1] < KernelFirst
      BY <1>2 DEF Walkable
    <3>2. QED
      BY <2>5, <2>11, <2>12, <3>1, LeafRights
  <2>14. Granted(b, frame, rights)
    <3>1. b.user \in BOOLEAN /\ b.writable \in BOOLEAN /\ user \in BOOLEAN /\ rights.writable \in BOOLEAN
      BY <1>1, EntryFields DEF Rights
    <3>2. b.user = user /\ (b.writable => rights.writable) /\ (user => b.writable = rights.writable)
      BY <1>6, <2>13, <3>1, Zenon DEF Fewer, Equal
    <3>3. b.kind = "page" /\ b.owned /\ b.at = frame
      BY <1>6, <2>10
    <3>4. QED
      BY <1>1, <3>2, <3>3, Zenon DEF Granted
  <2>15. QED
    BY <2>1, <2>2, <2>7, <2>8, <2>9, <2>10, <2>14
<1>12. QED
  BY <1>4, <1>9, <1>10, <1>11

\* vmm_protect_page is for the pages of processes.
Protectable(F, m, R, K, r, va, rights) ==
    /\ rights \in Rights
    /\ Walkable(m, R, K, r, va, FALSE, rights.user)
    /\ Fit(F, m, R, K)
    /\ r # K /\ va[1] < KernelFirst

\* A page has the rights asked for.
RightsAre(b, rights) == b.user = rights.user /\ b.writable = rights.writable

\* vmm_protect_page_locked, which is called for the pages of processes
LEMMA ProtectPageIs ==
    ASSUME NEW F, NEW m, NEW R, NEW K, NEW r, NEW va, NEW rights, Protectable(F, m, R, K, r, va, rights),
           NEW o, o = ProtectPage(m, r, va, rights)
    PROVE  /\ Fit(F, o.mem, R, K)
           /\ ~ o.ok => o.mem = m
           /\ o.ok => /\ Others(m, o.mem, R, r, va)
                      /\ TranslateIn(m.table, r, va).kind = "page"
                      /\ TranslateIn(o.mem.table, r, va) \in Entry
                      /\ TranslateIn(o.mem.table, r, va).kind = "page"
                      /\ TranslateIn(o.mem.table, r, va).at = TranslateIn(m.table, r, va).at
                      /\ RightsAre(TranslateIn(o.mem.table, r, va), rights)
<1>1. PICK user : user = rights.user
  OBVIOUS
<1>2. /\ Walkable(m, R, K, r, va, FALSE, user) /\ rights \in Rights /\ Fit(F, m, R, K)
      /\ r # K /\ va[1] < KernelFirst
  BY <1>1 DEF Protectable
<1>3. PICK w : w = WalkToLeaf(m, r, va, FALSE, user)
  OBVIOUS
<1>4. Descent(F, m, R, K, r, va, FALSE, 4, w) \/ Failed(m, r, va, FALSE, w)
  BY <1>2, <1>3, WalkToLeafIs
<1>5. PICK leaf : leaf = Leaf(w, va)
  OBVIOUS
<1>6. PICK e : e = [leaf EXCEPT !.user = user, !.writable = rights.writable]
  OBVIOUS
<1>7. /\ ~ w.ok \/ leaf.kind = "absent" \/ ~ leaf.owned => o.ok = FALSE /\ o.mem = w.mem
      /\ w.ok /\ leaf.kind # "absent" /\ leaf.owned => o.ok = TRUE /\ o.mem = SetEntry(w.mem, w.path[4], va[4], e)
  BY <1>1, <1>3, <1>5, <1>6 DEF ProtectPage, Result
<1>8. CASE Failed(m, r, va, FALSE, w)
  <2>1. o.ok = FALSE /\ o.mem = m
    BY <1>7, <1>8 DEF Failed
  <2>2. QED
    BY <1>2, <2>1
<1>9. CASE Descent(F, m, R, K, r, va, FALSE, 4, w) /\ (leaf.kind = "absent" \/ ~ leaf.owned)
  <2>1. o.ok = FALSE /\ o.mem = m
    BY <1>7, <1>9 DEF Descent
  <2>2. QED
    BY <1>2, <2>1
<1>10. CASE Descent(F, m, R, K, r, va, FALSE, 4, w) /\ leaf.kind # "absent" /\ leaf.owned
  <2>1. PICK t, m2 : t = w.path[4] /\ m2 = o.mem
    OBVIOUS
  <2>2. w.mem = m /\ w.ok = TRUE
    BY <1>10 DEF Descent
  <2>3. o.ok = TRUE /\ m2 = SetEntry(m, t, va[4], e)
    BY <1>7, <1>10, <2>1, <2>2
  <2>4. AtLeaf(F, m, R, K, r, va, t)
    BY <1>2, <1>10, <2>1, <2>2, DescentLeaf
  <2>5. leaf = m.table[t][va[4]]
    BY <1>5, <2>1, <2>2 DEF Leaf
  <2>6. leaf \in Entry /\ leaf.kind = "page"
    BY <1>10, <2>4, <2>5, LastKinds
  <2>7. e \in Entry /\ e.kind = "page" /\ e.at = leaf.at /\ e.user = user /\ e.writable = rights.writable
    <3>1. user \in BOOLEAN /\ rights.writable \in BOOLEAN
      BY <1>1, <1>2 DEF Rights
    <3>2. QED
      BY <1>6, <2>6, <3>1 DEF Entry
  <2>8. ~ (va[1] >= KernelFirst)
    <3>1. va[1] \in Int /\ KernelFirst \in Int
      BY <1>2, ConstantsAssumption DEF Walkable, Plain, Page, Index
    <3>2. va[1] < KernelFirst
      BY <1>2
    <3>3. QED
      BY <3>1, <3>2
  <2>9. va[1] >= KernelFirst => e.user = FALSE
    BY <2>8
  <2>10. /\ AtLeaf(F, m2, R, K, r, va, t)
         /\ Others(m, m2, R, r, va)
         /\ \E b \in Entry : b.kind = e.kind /\ b.at = e.at /\ b.owned = e.owned /\ Everywhere(m2, R, r, va, b)
    <3>1. e \in Entry /\ (e = Absent \/ e.kind = "page") /\ m2 = SetEntry(m, t, va[4], e)
      BY <2>3, <2>7
    <3>2. LeafSet(F, m, R, K, r, va, t, e, m2)
      BY <2>4, <2>9, <3>1, Zenon DEF LeafSet
    <3>3. QED
      BY <3>2, SetLeaf
  <2>11. Seen(r, va, r) /\ r \in R
    BY <1>2 DEF Seen, Walkable
  <2>12. /\ TranslateIn(m2.table, r, va) \in Entry
         /\ TranslateIn(m2.table, r, va).kind = "page"
         /\ TranslateIn(m2.table, r, va).at = leaf.at
    BY <2>7, <2>10, <2>11 DEF Everywhere
  <2>13. TranslateIn(m.table, r, va).kind = leaf.kind /\ TranslateIn(m.table, r, va).at = leaf.at
    BY <2>4, <2>5, <2>11, LeafSeen
  <2>14. RightsAre(TranslateIn(m2.table, r, va), rights)
    <3>1. m2.table[t][va[4]] = e
      <4>1. t \in Frame \cup BootFrame /\ va[4] \in Index /\ m \in Memory
        BY <2>4, LastKinds DEF AtLeaf
      <4>2. QED
        BY <2>3, <2>7, <4>1, SetEntryIs
    <3>2. PICK b : b = TranslateIn(m2.table, r, va)
      OBVIOUS
    <3>3. Equal(b, e)
      BY <1>2, <2>10, <3>1, <3>2, LeafRights
    <3>4. b.user \in BOOLEAN /\ b.writable \in BOOLEAN /\ e.user \in BOOLEAN /\ e.writable \in BOOLEAN
      BY <2>7, <2>12, <3>2, EntryFields
    <3>5. b.user = e.user /\ b.writable = e.writable
      BY <3>3, <3>4, Zenon DEF Equal
    <3>6. QED
      BY <1>1, <2>7, <3>2, <3>5 DEF RightsAre
  <2>15. QED
    BY <2>1, <2>3, <2>6, <2>10, <2>12, <2>13, <2>14 DEF AtLeaf
<1>11. QED
  BY <1>4, <1>8, <1>9, <1>10

-----------------------------------------------------------------------------
(* Giving back the tables that became empty.                                *)

\* T2 is T with the empty table c taken from entry i of t.
Unhung(T, used, R, K, level, own, t, i, c, T2) ==
    /\ Well(T, used, R, K, level, own)
    /\ t \in used /\ i \in Index /\ c \in used \ R /\ IsTable(T, t, i) /\ T[t][i].at = c
    /\ \A j \in Index : T[c][j].kind = "absent"
    /\ T2 \in TablesIn /\ T2[t][i] = Absent /\ T2[c] = EmptyTable
    /\ \A f \in Frame, j \in Index : f # c /\ (f # t \/ j # i) => T2[f][j] = T[f][j]
    /\ t \in R /\ i >= KernelFirst => R = {K}

\* A hierarchy stays well-formed when an empty table is taken out of it.
LEMMA UnhangWell ==
    ASSUME NEW T, NEW used, NEW R, NEW K, NEW level, NEW own, NEW t, NEW i, NEW c, NEW T2,
           Unhung(T, used, R, K, level, own, t, i, c, T2)
    PROVE  \E own2 : Well(T2, used \ {c}, R, K, level, own2)
<1>1. /\ Well(T, used, R, K, level, own)
      /\ t \in used /\ i \in Index /\ c \in used /\ c \notin R /\ IsTable(T, t, i) /\ T[t][i].at = c
      /\ \A j \in Index : T[c][j].kind = "absent"
      /\ T2 \in TablesIn /\ T2[t][i] = Absent /\ T2[c] = EmptyTable
      /\ \A f \in Frame, j \in Index : f # c /\ (f # t \/ j # i) => T2[f][j] = T[f][j]
      /\ t \in R /\ i >= KernelFirst => R = {K}
  BY DEF Unhung
<1>2. QED
  BY <1>1, UnlinkWell

\* The kernel unmaps in the upper half, and beside a page that stays once processes share it.
Stays(m, R, K, r, va) ==
    va[1] >= KernelFirst =>
        /\ r = K
        /\ R = {K} \/ \E b \in Plain : b # va /\ b[1] = va[1] /\ Leads(TranslateIn(m.table, K, b))

\* The tables below depth d have been given back; if s.ok the loop goes on with that at depth d.
Climb(F, m, R, K, r, va, path, d, s) ==
    /\ s.ok \in BOOLEAN
    /\ Fit(F, s.mem, R, K)
    /\ Alike(m, s.mem, R)
    /\ s.ok => On(s.mem.table, r, va, path, d)

\* A table that some page is reached through is not empty.
LEMMA NotEmpty ==
    ASSUME NEW T, NEW used, NEW R, NEW K, NEW level, NEW own, Well(T, used, R, K, level, own),
           NEW r \in R, NEW b \in Plain, NEW c, T[r][b[1]].kind = "table", T[r][b[1]].at = c,
           \A j \in Index : T[c][j].kind = "absent"
    PROVE  ~ Leads(TranslateIn(T, r, b))
<1>1. PICK z : z = Walk(T, r, b)
  OBVIOUS
<1>2. /\ z[1] = T[r][b[1]]
      /\ \A d \in 1..3 : z[d + 1] = Under(T, z[d], b[d + 1])
      /\ TranslateIn(T, r, b) = z[4]
  BY <1>1, WalkSteps
<1>3. Deep(z, 2) /\ At(z, r, 2) = c
  BY <1>2 DEF Deep, At
<1>4. b[2] \in Index /\ 2 \in 1..4
  BY DEF Plain, Page
<1>5. z[2].kind = T[c][b[2]].kind
  BY <1>1, <1>3, <1>4, PathWell
<1>6. z[2].kind = "absent"
  BY <1>4, <1>5
<1>7. z[3] = Under(T, z[2], b[3])
  <2>1. 2 \in 1..3 /\ 2 + 1 = 3
    OBVIOUS
  <2>2. z[2 + 1] = Under(T, z[2], b[2 + 1])
    BY <1>2, <2>1
  <2>3. QED
    BY <2>1, <2>2
<1>8. z[3].kind = "absent"
  BY <1>6, <1>7, UnderOther
<1>9. z[4] = Under(T, z[3], b[4])
  <2>1. 3 \in 1..3 /\ 3 + 1 = 4
    OBVIOUS
  <2>2. z[3 + 1] = Under(T, z[3], b[3 + 1])
    BY <1>2, <2>1
  <2>3. QED
    BY <2>1, <2>2
<1>10. z[4].kind = "absent"
  BY <1>8, <1>9, UnderOther
<1>11. QED
  BY <1>2, <1>10 DEF Leads

\* One turn of the reclaiming loop frees an empty table that no other walk needs, or stops.
LEMMA ReclaimTableIs ==
    ASSUME NEW F, NEW m, NEW R, NEW K, NEW r \in R, NEW va \in Plain, NEW path \in Seq(Frame), Len(path) = 4,
           Stays(m, R, K, r, va), NEW e \in 1..3, NEW s, Climb(F, m, R, K, r, va, path, e + 1, s)
    PROVE  Climb(F, m, R, K, r, va, path, e, ReclaimTable(s, path, va, e + 1))
<1>1. PICK t, c, i : t = path[e] /\ c = path[e + 1] /\ i = va[e]
  OBVIOUS
<1>2. PICK parent : parent = s.mem.table[t][i]
  OBVIOUS
<1>3. PICK o : o = ReclaimTable(s, path, va, e + 1)
  OBVIOUS
<1>4. e + 1 - 1 = e
  OBVIOUS
<1>12. o = IF s.ok /\ TableEmpty(s.mem, c) /\ parent.owned
           THEN Result(TRUE, Free(SetEntry(s.mem, t, i, Absent), parent.at))
           ELSE Result(FALSE, s.mem)
  <2>1. PICK d : d = e + 1
    OBVIOUS
  <2>2. d - 1 = e
    BY <2>1
  <2>3. t = path[d - 1] /\ c = path[d] /\ i = va[d - 1]
    BY <1>1, <2>1, <2>2
  <2>4. ReclaimTable(s, path, va, d) =
          IF s.ok /\ TableEmpty(s.mem, c) /\ parent.owned
          THEN Result(TRUE, Free(SetEntry(s.mem, t, i, Absent), parent.at))
          ELSE Result(FALSE, s.mem)
    BY <1>2, <2>3, ZenonT(60) DEF ReclaimTable
  <2>5. QED
    BY <1>3, <2>1, <2>4, Zenon
<1>5. s.ok \in BOOLEAN /\ Fit(F, s.mem, R, K) /\ Alike(m, s.mem, R)
  BY DEF Climb
<1>6. CASE ~ (s.ok /\ TableEmpty(s.mem, c) /\ parent.owned)
  <2>1. o = Result(FALSE, s.mem)
    BY <1>6, <1>12, Zenon
  <2>2. o.ok = FALSE /\ o.mem = s.mem
    BY <2>1 DEF Result
  <2>3. QED
    BY <1>3, <1>5, <2>2 DEF Climb
<1>7. CASE s.ok /\ TableEmpty(s.mem, c) /\ parent.owned
  <2>1. PICK m1, m2, m3 : m1 = s.mem /\ m2 = SetEntry(m1, t, i, Absent) /\ m3 = Free(m2, parent.at)
    OBVIOUS
  <2>2. o.ok = TRUE /\ o.mem = m3
    <3>1. o = Result(TRUE, m3)
      BY <1>7, <1>12, <2>1, Zenon
    <3>2. QED
      BY <3>1 DEF Result
  <2>3. PICK T, T3 : T = m1.table /\ T3 = m3.table
    OBVIOUS
  <2>4. PICK u : u = F \ m1.free
    OBVIOUS
  <2>5. m1 \in Memory /\ F \subseteq Frame /\ m1.free \subseteq F
    BY <1>5, <2>1 DEF Fit
  <2>6. PICK level, own : Well(T, u, R, K, level, own)
    BY <1>5, <2>1, <2>3, <2>4 DEF Fit
  <2>7. T \in TablesIn /\ u \subseteq Frame /\ level \in [Frame -> 1..4] /\ Leveled(T, u, R, K, level)
    BY <2>6 DEF Well, Sets
  <2>8. PICK w : w = Walk(T, r, va)
    OBVIOUS
  <2>9. e \in 1..(e + 1) /\ e + 1 \in 1..(e + 1) /\ e \in 1..4 /\ e + 1 \in 1..4 /\ e \in 1..e
    OBVIOUS
  <2>10. On(T, r, va, path, e + 1)
    BY <1>7, <2>1, <2>3 DEF Climb
  <2>11. Deep(w, e) /\ At(w, r, e) = t /\ Deep(w, e + 1) /\ At(w, r, e + 1) = c
    BY <1>1, <2>8, <2>9, <2>10 DEF On
  <2>12. i \in Index
    BY <1>1, <2>9 DEF Plain, Page
  <2>13. /\ t \in u /\ level[t] = 5 - e /\ w[e].kind = T[t][i].kind /\ w[e].at = T[t][i].at
    BY <1>1, <2>6, <2>8, <2>9, <2>11, PathWell
  <2>14. c \in u /\ level[c] = 5 - (e + 1)
    BY <2>6, <2>8, <2>9, <2>11, PathWell
  <2>15. IsTable(T, t, i) /\ T[t][i].at = c
    <3>1. w[e].kind = "table" /\ w[e].at = c
      BY <2>11, <1>4 DEF Deep, At
    <3>2. QED
      BY <2>13, <3>1 DEF IsTable
  <2>16. parent.at = c /\ parent = T[t][i] /\ parent \in Entry
    BY <1>2, <2>1, <2>3, <2>7, <2>12, <2>13, <2>15 DEF TablesIn
  <2>17. c \notin R /\ t # c /\ level[t] # 1
    BY <2>7, <2>13, <2>14 DEF Leveled
  <2>18. t \in Frame /\ c \in Frame /\ t \in Frame \cup BootFrame
    BY <2>7, <2>13, <2>14
  <2>19. Absent \in Entry
    BY EntryFields
  <2>20. /\ m2 \in Memory /\ m2.free = m1.free /\ m2.table[t][i] = Absent
         /\ \A f \in Frame \cup BootFrame, j \in Index : f # t \/ j # i => m2.table[f][j] = m1.table[f][j]
    BY <2>1, <2>5, <2>12, <2>18, <2>19, SetEntryIs
  <2>21. m3 = Free(m2, c)
    BY <2>1, <2>16
  <2>22. /\ m3 \in Memory /\ m3.free = m2.free \cup {c} /\ m3.table[c] = EmptyTable
         /\ \A f \in Frame \cup BootFrame : f # c => m3.table[f] = m2.table[f]
    BY <2>18, <2>20, <2>21, FreeIs
  <2>23. T3 \in TablesIn /\ T3[t][i] = Absent /\ T3[c] = EmptyTable
    BY <2>3, <2>17, <2>18, <2>20, <2>22 DEF Memory
  <2>24. \A f \in Frame, j \in Index : f # c /\ (f # t \/ j # i) => T3[f][j] = T[f][j]
    BY <2>3, <2>20, <2>22
  <2>25. \A j \in Index : T[c][j].kind = "absent"
    BY <1>7, <2>1, <2>3 DEF TableEmpty
  <2>26. t \in R /\ i >= KernelFirst => R = {K}
    <3> SUFFICES ASSUME t \in R, i >= KernelFirst, R # {K} PROVE FALSE
      OBVIOUS
    <3>1. e = 1
      BY <2>7, <2>13 DEF Leveled
    <3>2. i = va[1] /\ t = r
      BY <1>1, <2>11, <3>1 DEF At
    <3>3. PICK b \in Plain : r = K /\ b[1] = va[1] /\ Leads(TranslateIn(m.table, K, b))
      BY <3>2 DEF Stays
    <3>4. Leads(TranslateIn(T, r, b))
      BY <1>5, <2>1, <2>3, <3>3 DEF Alike
    <3>5. T[r][b[1]].kind = "table" /\ T[r][b[1]].at = c
      BY <2>15, <3>2, <3>3 DEF IsTable
    <3>6. ~ Leads(TranslateIn(T, r, b))
      BY <2>6, <2>25, <3>5, NotEmpty
    <3>7. QED
      BY <3>4, <3>6
  <2>27. PICK own2 : Well(T3, u \ {c}, R, K, level, own2)
    <3>1. t \in u /\ i \in Index /\ c \in u \ R /\ IsTable(T, t, i) /\ T[t][i].at = c
      BY <2>12, <2>13, <2>14, <2>15, <2>17
    <3>2. Unhung(T, u, R, K, level, own, t, i, c, T3)
      BY <2>6, <2>23, <2>24, <2>25, <2>26, <3>1, Zenon DEF Unhung
    <3>3. QED
      BY <3>2, UnhangWell
  <2>28. Fit(F, m3, R, K)
    <3>1. F \ m3.free = u \ {c} /\ m3.free \subseteq F
      BY <2>4, <2>5, <2>14, <2>20, <2>22
    <3>2. Well(m3.table, F \ m3.free, R, K, level, own2)
      BY <2>3, <2>27, <3>1
    <3>3. QED
      BY <2>5, <2>22, <3>1, <3>2 DEF Fit
  <2>29. Alike(m, m3, R)
    <3> SUFFICES ASSUME NEW q \in R, NEW vb \in Plain
                 PROVE  TranslateIn(m3.table, q, vb) = TranslateIn(m.table, q, vb)
      BY DEF Alike
    <3>1. \A j \in Index : T[c][j] = Absent
      BY <2>7, <2>14, <2>25 DEF Leveled
    <3>2. \A f \in u \ {c}, j \in Index : f # t \/ j # i => T[f][j] = T3[f][j]
      BY <2>7, <2>24
    <3>3. t \in u \ {c} /\ T[t][i] \in Entry /\ T3[t][i] = Absent
      BY <2>13, <2>16, <2>17, <2>23
    <3>4. TranslateIn(T, q, vb) = TranslateIn(T3, q, vb)
      BY <2>12, <2>15, <2>17, <2>27, <3>1, <3>2, <3>3, LinkTranslations
    <3>5. TranslateIn(m1.table, q, vb) = TranslateIn(m.table, q, vb)
      BY <1>5, <2>1 DEF Alike
    <3>6. QED
      BY <2>3, <3>4, <3>5
  <2>30. On(T3, r, va, path, e)
    <3>1. On(T, r, va, path, e)
      <4>1. \A k \in 1..e : k \in 1..(e + 1)
        OBVIOUS
      <4>2. QED
        BY <2>10, <4>1 DEF On
    <3>2. \A f \in u, j \in Index : level[f] > 5 - e => T3[f][j] = T[f][j]
      <4>1. \A f \in u : level[f] > 5 - e => f # t /\ f # c /\ f \in Frame
        BY <2>7, <2>13, <2>14
      <4>2. QED
        BY <2>24, <4>1
    <3>3. QED
      BY <2>6, <2>9, <3>1, <3>2, KeepPath
  <2>31. QED
    BY <1>3, <2>2, <2>3, <2>28, <2>29, <2>30 DEF Climb
<1>8. QED
  BY <1>6, <1>7

\* The loop that gives back tables keeps the hierarchy and every translation.
LEMMA ReclaimIs ==
    ASSUME NEW F, NEW m, NEW R, NEW K, NEW r \in R, NEW va \in Plain, NEW path \in Seq(Frame), Len(path) = 4,
           Stays(m, R, K, r, va), Fit(F, m, R, K), On(m.table, r, va, path, 4)
    PROVE  Fit(F, Reclaim(m, path, va), R, K) /\ Alike(m, Reclaim(m, path, va), R)
<1>1. PICK s4 : s4 = Result(TRUE, m)
  OBVIOUS
<1>2. PICK s3 : s3 = ReclaimTable(s4, path, va, 4)
  OBVIOUS
<1>3. PICK s2 : s2 = ReclaimTable(s3, path, va, 3)
  OBVIOUS
<1>4. PICK s1 : s1 = ReclaimTable(s2, path, va, 2)
  OBVIOUS
<1>5. Reclaim(m, path, va) = s1.mem
  BY <1>1, <1>2, <1>3, <1>4 DEF Reclaim
<1>6. Climb(F, m, R, K, r, va, path, 4, s4)
  BY <1>1 DEF Climb, Alike, Result
<1>7. Climb(F, m, R, K, r, va, path, 3, s3)
  <2>1. 3 \in 1..3 /\ 3 + 1 = 4
    OBVIOUS
  <2>2. Climb(F, m, R, K, r, va, path, 3 + 1, s4)
    BY <1>6, <2>1
  <2>3. Climb(F, m, R, K, r, va, path, 3, ReclaimTable(s4, path, va, 3 + 1))
    BY <2>1, <2>2, ReclaimTableIs, Zenon
  <2>4. QED
    BY <1>2, <2>1, <2>3
<1>8. Climb(F, m, R, K, r, va, path, 2, s2)
  <2>1. 2 \in 1..3 /\ 2 + 1 = 3
    OBVIOUS
  <2>2. Climb(F, m, R, K, r, va, path, 2 + 1, s3)
    BY <1>7, <2>1
  <2>3. Climb(F, m, R, K, r, va, path, 2, ReclaimTable(s3, path, va, 2 + 1))
    BY <2>1, <2>2, ReclaimTableIs, Zenon
  <2>4. QED
    BY <1>3, <2>1, <2>3
<1>9. Climb(F, m, R, K, r, va, path, 1, s1)
  <2>1. 1 \in 1..3 /\ 1 + 1 = 2
    OBVIOUS
  <2>2. Climb(F, m, R, K, r, va, path, 1 + 1, s2)
    BY <1>8, <2>1
  <2>3. Climb(F, m, R, K, r, va, path, 1, ReclaimTable(s2, path, va, 1 + 1))
    BY <2>1, <2>2, ReclaimTableIs, Zenon
  <2>4. QED
    BY <1>4, <2>1, <2>3
<1>10. QED
  BY <1>5, <1>9 DEF Climb

\* A 4 KiB page is found in a last table only.
LEMMA PageDeep ==
    ASSUME NEW T, NEW used, NEW R, NEW K, NEW level, NEW own, Well(T, used, R, K, level, own),
           NEW r \in R, NEW va \in Plain, TranslateIn(T, r, va).kind = "page"
    PROVE  Deep(Walk(T, r, va), 4)
<1>1. PICK s : s = Walk(T, r, va)
  OBVIOUS
<1>2. \A d \in 1..4 : Deep(s, d) =>
        At(s, r, d) \in used /\ level[At(s, r, d)] = 5 - d /\ s[d].kind = T[At(s, r, d)][va[d]].kind
  BY <1>1, PathWell
<1>3. /\ \A d \in 1..3 : s[d + 1] = Under(T, s[d], va[d + 1])
      /\ TranslateIn(T, r, va) = s[4]
  BY <1>1, WalkSteps
<1>4. \A d \in 1..4 : va[d] \in Index
  BY DEF Plain, Page
<1>5. Leveled(T, used, R, K, level)
  BY DEF Well
<1>6. ASSUME NEW d \in 1..3, s[d].kind = "page" PROVE ~ Deep(s, d)
  <2> SUFFICES ASSUME Deep(s, d) PROVE FALSE
    OBVIOUS
  <2>1. d \in 1..4
    OBVIOUS
  <2>2. PICK t : t = At(s, r, d)
    OBVIOUS
  <2>3. t \in used /\ level[t] = 5 - d /\ T[t][va[d]].kind = "page" /\ va[d] \in Index
    BY <1>2, <1>4, <1>6, <2>1, <2>2
  <2>4. level[t] = 1
    BY <1>5, <2>3 DEF Leveled
  <2>5. QED
    BY <2>3, <2>4
<1>7. ASSUME NEW d \in 1..3, s[d + 1].kind = "page", ~ Deep(s, d + 1) PROVE s[d].kind = "page"
  <2>1. s[d].kind # "table"
    BY <1>7 DEF Deep
  <2>2. QED
    BY <1>3, <1>7, <2>1, UnderOther
<1>8. SUFFICES ASSUME ~ Deep(s, 4) PROVE FALSE
  BY <1>1
<1>9. s[3].kind = "page"
  BY <1>3, <1>7, <1>8
<1>10. s[2].kind = "page"
  BY <1>6, <1>7, <1>9
<1>11. s[1].kind = "page"
  BY <1>6, <1>7, <1>10
<1>12. ~ Deep(s, 1)
  BY <1>6, <1>11
<1>13. QED
  BY <1>12 DEF Deep

\* vmm_unmap_page_locked
LEMMA UnmapPageIs ==
    ASSUME NEW F, NEW m, NEW R, NEW K, NEW r \in R, NEW va \in Plain, Fit(F, m, R, K),
           TranslateIn(m.table, r, va).owned => Stays(m, R, K, r, va),
           NEW o, o = UnmapPage(m, r, va)
    PROVE  /\ Fit(F, o.mem, R, K)
           /\ ~ o.ok => /\ o.mem = m
                        /\ ~ (TranslateIn(m.table, r, va).kind = "page" /\ TranslateIn(m.table, r, va).owned)
           /\ o.ok => /\ TranslateIn(m.table, r, va).kind = "page" /\ TranslateIn(m.table, r, va).owned
                      /\ Others(m, o.mem, R, r, va)
                      /\ Everywhere(o.mem, R, r, va, Absent)
<1>1. Walkable(m, R, K, r, va, FALSE, FALSE)
  BY DEF Walkable
<1>2. PICK w : w = WalkToLeaf(m, r, va, FALSE, FALSE)
  OBVIOUS
<1>3. Descent(F, m, R, K, r, va, FALSE, 4, w) \/ Failed(m, r, va, FALSE, w)
  BY <1>1, <1>2, WalkToLeafIs
<1>4. PICK leaf : leaf = Leaf(w, va)
  OBVIOUS
<1>5. /\ ~ w.ok \/ leaf.kind = "absent" \/ ~ leaf.owned => o.ok = FALSE /\ o.mem = w.mem
      /\ w.ok /\ leaf.kind # "absent" /\ leaf.owned =>
            o.ok = TRUE /\ o.mem = Reclaim(SetEntry(w.mem, w.path[4], va[4], Absent), w.path, va)
  BY <1>2, <1>4 DEF UnmapPage, Result
<1>6. Seen(r, va, r)
  BY DEF Seen
<1>7. CASE Failed(m, r, va, FALSE, w)
  <2>1. o.ok = FALSE /\ o.mem = m /\ ~ Deep(Walk(m.table, r, va), 4)
    BY <1>5, <1>7 DEF Failed
  <2>2. PICK level, own : Well(m.table, F \ m.free, R, K, level, own)
    BY DEF Fit
  <2>3. TranslateIn(m.table, r, va).kind # "page"
    BY <2>1, <2>2, PageDeep
  <2>4. QED
    BY <2>1, <2>3
<1>8. ASSUME Descent(F, m, R, K, r, va, FALSE, 4, w)
      PROVE  /\ w.mem = m /\ w.ok = TRUE
             /\ w.path \in Seq(Frame) /\ Len(w.path) = 4
             /\ AtLeaf(F, m, R, K, r, va, w.path[4])
             /\ leaf = m.table[w.path[4]][va[4]]
             /\ TranslateIn(m.table, r, va).kind = leaf.kind
             /\ TranslateIn(m.table, r, va).owned = leaf.owned
  <2>1. w.mem = m /\ w.ok = TRUE /\ w.path \in Seq(Frame) /\ Len(w.path) = 4
    BY <1>8 DEF Descent
  <2>2. AtLeaf(F, m, R, K, r, va, w.path[4])
    BY <1>1, <1>8, <2>1, DescentLeaf
  <2>3. leaf = m.table[w.path[4]][va[4]]
    BY <1>4, <2>1 DEF Leaf
  <2>4. QED
    BY <1>6, <2>1, <2>2, <2>3, LeafSeen
<1>9. CASE Descent(F, m, R, K, r, va, FALSE, 4, w) /\ (leaf.kind = "absent" \/ ~ leaf.owned)
  BY <1>5, <1>8, <1>9
<1>10. CASE Descent(F, m, R, K, r, va, FALSE, 4, w) /\ leaf.kind # "absent" /\ leaf.owned
  <2>1. PICK t, path, m1, m2 : t = w.path[4] /\ path = w.path /\ m1 = SetEntry(m, t, va[4], Absent) /\ m2 = o.mem
    OBVIOUS
  <2>2. o.ok = TRUE /\ m2 = Reclaim(m1, path, va)
    BY <1>5, <1>8, <1>10, <2>1
  <2>3. AtLeaf(F, m, R, K, r, va, t) /\ path \in Seq(Frame) /\ Len(path) = 4
    BY <1>8, <1>10, <2>1
  <2>4. LeafSet(F, m, R, K, r, va, t, Absent, m1)
    <3>1. Absent \in Entry /\ Absent.user = FALSE
      BY EntryFields DEF Absent
    <3>2. QED
      BY <2>1, <2>3, <3>1, Zenon DEF LeafSet
  <2>5. /\ AtLeaf(F, m1, R, K, r, va, t)
        /\ Others(m, m1, R, r, va)
        /\ \E b \in Entry : b.kind = Absent.kind /\ b.at = Absent.at /\ b.owned = Absent.owned /\ Everywhere(m1, R, r, va, b)
    BY <2>4, SetLeaf
  <2>6. Everywhere(m1, R, r, va, Absent)
    <3> SUFFICES ASSUME NEW q \in R, Seen(r, va, q) PROVE TranslateIn(m1.table, q, va) = Absent
      BY DEF Everywhere
    <3>1. TranslateIn(m1.table, q, va).kind = "absent"
      BY <2>5, EntryFields DEF Everywhere
    <3>2. PICK level, own : Well(m1.table, F \ m1.free, R, K, level, own)
      BY <2>5 DEF AtLeaf, Fit
    <3>3. QED
      BY <3>1, <3>2, AbsentWell
  <2>7. Stays(m1, R, K, r, va)
    <3>1. Stays(m, R, K, r, va)
      BY <1>8, <1>10
    <3>2. ASSUME va[1] >= KernelFirst, R # {K}
          PROVE  \E b \in Plain : b # va /\ b[1] = va[1] /\ Leads(TranslateIn(m1.table, K, b))
      <4>1. r = K
        BY <3>1, <3>2 DEF Stays
      <4>2. PICK b \in Plain : b # va /\ b[1] = va[1] /\ Leads(TranslateIn(m.table, K, b))
        BY <3>1, <3>2 DEF Stays
      <4>3. TranslateIn(m1.table, K, b) = TranslateIn(m.table, K, b)
        BY <2>5, <4>1, <4>2 DEF Others
      <4>4. QED
        BY <4>2, <4>3
    <3>3. QED
      BY <3>1, <3>2 DEF Stays
  <2>8. Fit(F, m1, R, K)
    BY <2>5 DEF AtLeaf
  <2>9. On(m1.table, r, va, path, 4)
    <3>1. On(m.table, r, va, path, 4)
      BY <1>8, <1>10, <2>1 DEF Descent
    <3>2. PICK T, T2 : T = m.table /\ T2 = m1.table
      OBVIOUS
    <3>3. PICK level, own : Well(T, F \ m.free, R, K, level, own)
      BY <3>2 DEF Fit
    <3>4. 4 \in 1..4 /\ 5 - 4 = 1 /\ va[4] \in Index
      BY DEF Plain, Page
    <3>5. level[t] = 1
      <4>1. Deep(Walk(T, r, va), 4) /\ At(Walk(T, r, va), r, 4) = t
        BY <2>3, <3>2 DEF AtLeaf
      <4>2. PICK s : s = Walk(T, r, va)
        OBVIOUS
      <4>3. level[At(s, r, 4)] = 5 - 4
        BY <3>3, <3>4, <4>1, <4>2, PathWell
      <4>4. QED
        BY <3>4, <4>1, <4>2, <4>3
    <3>6. \A f \in F \ m.free, j \in Index : level[f] > 5 - 4 => T2[f][j] = T[f][j]
      <4>1. m \in Memory /\ t \in Frame \cup BootFrame /\ Absent \in Entry /\ F \subseteq Frame
        BY <2>3, EntryFields DEF AtLeaf, Fit
      <4>2. \A f \in Frame \cup BootFrame, j \in Index : f # t \/ j # va[4] => T2[f][j] = T[f][j]
        BY <2>1, <3>2, <3>4, <4>1, SetEntryIs
      <4>3. \A f \in F \ m.free : level[f] > 5 - 4 => f # t /\ f \in Frame \cup BootFrame
        BY <3>5, <4>1
      <4>4. QED
        BY <4>2, <4>3
    <3>7. On(T, r, va, path, 4)
      BY <3>1, <3>2
    <3>8. On(T2, r, va, path, 4)
      BY <3>3, <3>4, <3>6, <3>7, KeepPath
    <3>9. QED
      BY <3>2, <3>8
  <2>10. Fit(F, m2, R, K) /\ Alike(m1, m2, R)
    BY <2>2, <2>3, <2>7, <2>8, <2>9, ReclaimIs
  <2>11. Others(m, m2, R, r, va)
    BY <2>5, <2>10 DEF Others, Alike
  <2>12. Everywhere(m2, R, r, va, Absent)
    BY <2>6, <2>10 DEF Everywhere, Alike
  <2>13. leaf.kind = "page"
    BY <1>8, <1>10, LastKinds
  <2>14. QED
    BY <1>8, <1>10, <2>1, <2>2, <2>10, <2>11, <2>12, <2>13
<1>11. QED
  BY <1>3, <1>7, <1>9, <1>10

-----------------------------------------------------------------------------
(* The loops of vmm_map_pages_locked.                                       *)

\* Induction over the natural numbers, for a set.
LEMMA SetInduction ==
    ASSUME NEW S \in SUBSET Nat, 0 \in S, \A n \in S : n + 1 \in S
    PROVE  \A n \in Nat : n \in S
<1> DEFINE Less == {ss \in Nat \X Nat : ss[1] < ss[2]}
<1>1. \A i, j \in Nat : i < j => <<i, j>> \in Less
  OBVIOUS
<1>2. IsWellFoundedOn(Less, Nat)
  BY NatLessThanWellFounded DEF OpToRel
<1> HIDE DEF Less
<1>3. PICK N : N = Nat \ S
  OBVIOUS
<1>4. SUFFICES ASSUME N # {} PROVE FALSE
  BY <1>3
<1>5. N \in SUBSET Nat
  BY <1>3
<1>6. PICK n \in N : \A k \in N : ~ (<<k, n>> \in Less)
  BY <1>2, <1>4, <1>5, WFMin
<1>7. n \in Nat /\ n # 0 /\ n - 1 \in Nat
  BY <1>3
<1>8. n - 1 \notin N
  <2>1. n - 1 < n
    BY <1>7
  <2>2. <<n - 1, n>> \in Less
    BY <1>1, <1>7, <2>1
  <2>3. QED
    BY <1>6, <2>2
<1>9. n - 1 + 1 \in S
  BY <1>3, <1>7, <1>8
<1>10. QED
  BY <1>3, <1>6, <1>7, <1>9

MapSteps(after, m, root, run, base, rights) ==
    /\ after[0] = [ok |-> TRUE, mem |-> m, mapped |-> 0]
    /\ \A k \in 1..Len(run) : after[k] = MapNext(after[k - 1], root, run, base, rights, k)

\* The recursive function of the loop exists.
LEMMA MappingIs ==
    ASSUME NEW m, NEW root, NEW run \in Seq(Plain), NEW base, NEW rights,
           NEW after, after = Mapping(m, root, run, base, rights)
    PROVE  MapSteps(after, m, root, run, base, rights)
<1> DEFINE G(x, k) == MapNext(x, root, run, base, rights, k)
           a == [ok |-> TRUE, mem |-> m, mapped |-> 0]
           P(n) == \E f : f = [k \in 0..n |-> IF k = 0 THEN a ELSE G(f[k - 1], k)]
           S == {n \in Nat : P(n)}
<1>0. Len(run) \in Nat
  OBVIOUS
<1>1. after = CHOOSE f : f = [k \in 0..Len(run) |-> IF k = 0 THEN a ELSE G(f[k - 1], k)]
  BY DEF Mapping
<1> HIDE DEF G, a
<1>2. P(0)
  <2>1. PICK f : f = [k \in 0..0 |-> a]
    OBVIOUS
  <2>2. f = [k \in 0..0 |-> IF k = 0 THEN a ELSE G(f[k - 1], k)]
    BY <2>1
  <2>3. QED
    BY <2>2
<1>3. ASSUME NEW n \in Nat, P(n) PROVE P(n + 1)
  <2>1. PICK f : f = [k \in 0..n |-> IF k = 0 THEN a ELSE G(f[k - 1], k)]
    BY <1>3
  <2>2. PICK h : h = [k \in 0..(n + 1) |-> IF k = n + 1 THEN G(f[n], n + 1) ELSE f[k]]
    OBVIOUS
  <2>3. ASSUME NEW k \in 0..(n + 1) PROVE h[k] = IF k = 0 THEN a ELSE G(h[k - 1], k)
    <3>1. CASE k = 0
      BY <2>1, <2>2, <3>1
    <3>2. CASE k # 0
      <4>1. k - 1 \in 0..n /\ k - 1 # n + 1 /\ k - 1 \in 0..(n + 1)
        BY <3>2
      <4>2. h[k - 1] = f[k - 1]
        BY <2>2, <4>1
      <4>3. CASE k = n + 1
        BY <2>2, <3>2, <4>2, <4>3
      <4>4. CASE k # n + 1
        <5>1. k \in 0..n
          BY <4>4
        <5>2. h[k] = f[k] /\ f[k] = G(f[k - 1], k)
          BY <2>1, <2>2, <3>2, <4>4, <5>1
        <5>3. QED
          BY <3>2, <4>2, <5>2
      <4>5. QED
        BY <4>3, <4>4
    <3>3. QED
      BY <3>1, <3>2
  <2>4. h = [k \in 0..(n + 1) |-> IF k = 0 THEN a ELSE G(h[k - 1], k)]
    BY <2>2, <2>3
  <2>5. QED
    BY <2>4
<1>4. \A n \in Nat : n \in S
  <2>1. S \in SUBSET Nat /\ 0 \in S
    BY <1>2
  <2>2. ASSUME NEW n \in S PROVE n + 1 \in S
    <3>1. n \in Nat /\ P(n)
      OBVIOUS
    <3>2. P(n + 1)
      BY <1>3, <3>1
    <3>3. n + 1 \in Nat
      BY <3>1
    <3>4. QED
      BY <3>2, <3>3
  <2> HIDE DEF S
  <2>3. QED
    BY <2>1, <2>2, SetInduction
<1>5. after = [k \in 0..Len(run) |-> IF k = 0 THEN a ELSE G(after[k - 1], k)]
  <2>1. P(Len(run))
    BY <1>0, <1>4
  <2>2. QED
    BY <1>1, <2>1
<1>6. after[0] = a
  BY <1>5
<1>7. \A k \in 1..Len(run) : after[k] = G(after[k - 1], k)
  <2> TAKE k \in 1..Len(run)
  <2>1. k \in 0..Len(run) /\ k # 0
    OBVIOUS
  <2>2. QED
    BY <1>5, <2>1
<1>8. QED
  BY <1>6, <1>7 DEF G, a, MapSteps

\* The steps of the undo, as the recursive function defines them.
LEMMA UnmappingIs ==
    ASSUME NEW m, NEW root, NEW run, NEW n \in Nat, NEW after, after = Unmapping(m, root, run, n)
    PROVE  /\ after[0] = m
           /\ \A k \in 1..n : after[k] = UnmapPage(after[k - 1], root, run[n - k + 1]).mem
<1> DEFINE G(x, k) == UnmapPage(x, root, run[n - k + 1]).mem
           P(j) == \E f : f = [k \in 0..j |-> IF k = 0 THEN m ELSE G(f[k - 1], k)]
           S == {j \in Nat : P(j)}
<1>1. after = CHOOSE f : f = [k \in 0..n |-> IF k = 0 THEN m ELSE G(f[k - 1], k)]
  BY DEF Unmapping
<1> HIDE DEF G
<1>2. P(0)
  <2>1. PICK f : f = [k \in 0..0 |-> m]
    OBVIOUS
  <2>2. f = [k \in 0..0 |-> IF k = 0 THEN m ELSE G(f[k - 1], k)]
    BY <2>1
  <2>3. QED
    BY <2>2
<1>3. ASSUME NEW j \in Nat, P(j) PROVE P(j + 1)
  <2>1. PICK f : f = [k \in 0..j |-> IF k = 0 THEN m ELSE G(f[k - 1], k)]
    BY <1>3
  <2>2. PICK h : h = [k \in 0..(j + 1) |-> IF k = j + 1 THEN G(f[j], j + 1) ELSE f[k]]
    OBVIOUS
  <2>3. ASSUME NEW k \in 0..(j + 1) PROVE h[k] = IF k = 0 THEN m ELSE G(h[k - 1], k)
    <3>1. CASE k = 0
      BY <2>1, <2>2, <3>1
    <3>2. CASE k # 0
      <4>1. k - 1 \in 0..j /\ k - 1 # j + 1 /\ k - 1 \in 0..(j + 1)
        BY <3>2
      <4>2. h[k - 1] = f[k - 1]
        BY <2>2, <4>1
      <4>3. CASE k = j + 1
        BY <2>2, <3>2, <4>2, <4>3
      <4>4. CASE k # j + 1
        <5>1. k \in 0..j
          BY <4>4
        <5>2. h[k] = f[k] /\ f[k] = G(f[k - 1], k)
          BY <2>1, <2>2, <3>2, <4>4, <5>1
        <5>3. QED
          BY <3>2, <4>2, <5>2
      <4>5. QED
        BY <4>3, <4>4
    <3>3. QED
      BY <3>1, <3>2
  <2>4. h = [k \in 0..(j + 1) |-> IF k = 0 THEN m ELSE G(h[k - 1], k)]
    BY <2>2, <2>3
  <2>5. QED
    BY <2>4
<1>4. \A j \in Nat : j \in S
  <2>1. S \in SUBSET Nat /\ 0 \in S
    BY <1>2
  <2>2. \A j \in S : j + 1 \in S
    BY <1>3
  <2> HIDE DEF S
  <2>3. QED
    BY <2>1, <2>2, SetInduction
<1>5. after = [k \in 0..n |-> IF k = 0 THEN m ELSE G(after[k - 1], k)]
  <2>1. P(n)
    BY <1>4
  <2>2. QED
    BY <1>1, <2>1
<1>6. \A k \in 1..n : after[k] = G(after[k - 1], k)
  <2> TAKE k \in 1..n
  <2>1. k \in 0..n /\ k # 0
    OBVIOUS
  <2>2. QED
    BY <1>5, <2>1
<1>7. QED
  BY <1>5, <1>6 DEF G

\* Once there are processes the kernel maps beside a page that is there already.
Beside(m, R, K, va) == R = {K} \/ \E b \in Plain : b[1] = va[1] /\ Leads(TranslateIn(m.table, K, b))

Runnable(m, R, K, root, run, base, rights) ==
    /\ root \in R /\ run \in Seq(Plain) /\ rights \in Rights
    /\ rights.user <=> root # K
    /\ \A k \in 1..Len(run) :
        /\ base + k - 1 \in Data
        /\ rights.user => run[k][1] < KernelFirst
        /\ run[k][1] >= KernelFirst => root = K /\ Beside(m, R, K, run[k])

\* m2 is m with the first n pages of run mapped in addition, to the frames from base on.
Extended(m, m2, R, root, run, base, rights, n) ==
    /\ \A j \in 1..n :
        /\ Everywhere(m, R, root, run[j], Absent)
        /\ \E b \in Entry : Granted(b, base + j - 1, rights) /\ Everywhere(m2, R, root, run[j], b)
    /\ \A q \in R, vb \in Plain :
        (\A j \in 1..n : ~ (vb = run[j] /\ Seen(root, vb, q))) =>
            TranslateIn(m2.table, q, vb) = TranslateIn(m.table, q, vb)
    /\ \A i, j \in 1..n : run[i] = run[j] => i = j

\* Before the loop nothing is mapped.
LEMMA ExtendedStart ==
    ASSUME NEW m, NEW R, NEW root, NEW run, NEW base, NEW rights
    PROVE  Extended(m, m, R, root, run, base, rights, 0)
  BY DEF Extended

\* What a later change does not show leaves the pages mapped.
LEMMA ExtendedAlike ==
    ASSUME NEW m, NEW m2, NEW m3, NEW R, NEW root, NEW run \in Seq(Plain), NEW base, NEW rights, NEW n \in 0..Len(run),
           Extended(m, m2, R, root, run, base, rights, n), Alike(m2, m3, R)
    PROVE  Extended(m, m3, R, root, run, base, rights, n)
<1>1. \A q \in R, vb \in Plain : TranslateIn(m3.table, q, vb) = TranslateIn(m2.table, q, vb)
  BY DEF Alike
<1>2. \A j \in 1..n : run[j] \in Plain
  OBVIOUS
<1>3. ASSUME NEW j \in 1..n
      PROVE  \E b \in Entry : Granted(b, base + j - 1, rights) /\ Everywhere(m3, R, root, run[j], b)
  <2>1. PICK b \in Entry : Granted(b, base + j - 1, rights) /\ Everywhere(m2, R, root, run[j], b)
    BY DEF Extended
  <2>2. Everywhere(m3, R, root, run[j], b)
    BY <1>1, <1>2, <2>1 DEF Everywhere
  <2>3. QED
    BY <2>1, <2>2
<1>4. QED
  BY <1>1, <1>3 DEF Extended

\* One more page is mapped.
LEMMA ExtendedMore ==
    ASSUME NEW m, NEW m2, NEW m3, NEW R, NEW root \in R, NEW run \in Seq(Plain), NEW base, NEW rights, NEW n \in 1..Len(run),
           Extended(m, m2, R, root, run, base, rights, n - 1),
           NEW va, va = run[n], Others(m2, m3, R, root, va), Everywhere(m2, R, root, va, Absent),
           NEW b \in Entry, Granted(b, base + n - 1, rights), Everywhere(m3, R, root, va, b)
    PROVE  Extended(m, m3, R, root, run, base, rights, n)
<1>1. Absent.kind # "page" /\ Seen(root, va, root)
  BY DEF Absent, Seen
<1>2. \A j \in 1..(n - 1) : j \in 1..Len(run) /\ j \in 1..n /\ run[j] \in Plain
  OBVIOUS
<1>3. ASSUME NEW j \in 1..(n - 1) PROVE run[j] # va
  <2>1. PICK c \in Entry : c.kind = "page" /\ Everywhere(m2, R, root, run[j], c)
    BY DEF Extended, Granted
  <2>2. SUFFICES ASSUME run[j] = va PROVE FALSE
    OBVIOUS
  <2>3. TranslateIn(m2.table, root, va) = c /\ TranslateIn(m2.table, root, va) = Absent
    BY <1>1, <2>1, <2>2 DEF Everywhere
  <2>4. QED
    BY <1>1, <2>1, <2>3
<1>4. va \in Plain /\ n \in Nat /\ \A j \in 1..n : j = n \/ j \in 1..(n - 1)
  OBVIOUS
<1>5. Everywhere(m, R, root, va, Absent)
  <2> SUFFICES ASSUME NEW q \in R, Seen(root, va, q) PROVE TranslateIn(m.table, q, va) = Absent
    BY DEF Everywhere
  <2>1. TranslateIn(m2.table, q, va) = Absent
    BY DEF Everywhere
  <2>2. TranslateIn(m2.table, q, va) = TranslateIn(m.table, q, va)
    BY <1>3, <1>4 DEF Extended
  <2>3. QED
    BY <2>1, <2>2
<1>6. ASSUME NEW j \in 1..n
      PROVE  /\ Everywhere(m, R, root, run[j], Absent)
             /\ \E c \in Entry : Granted(c, base + j - 1, rights) /\ Everywhere(m3, R, root, run[j], c)
  <2>1. CASE j = n
    BY <1>5, <2>1
  <2>2. CASE j # n
    <3>1. j \in 1..(n - 1)
      BY <2>2
    <3>2. PICK c \in Entry : Granted(c, base + j - 1, rights) /\ Everywhere(m2, R, root, run[j], c)
      BY <3>1 DEF Extended
    <3>3. Everywhere(m3, R, root, run[j], c)
      BY <1>2, <1>3, <3>1, <3>2 DEF Everywhere, Others
    <3>4. Everywhere(m, R, root, run[j], Absent)
      BY <3>1 DEF Extended
    <3>5. QED
      BY <3>2, <3>3, <3>4
  <2>3. QED
    BY <2>1, <2>2
<1>7. ASSUME NEW q \in R, NEW vb \in Plain, \A j \in 1..n : ~ (vb = run[j] /\ Seen(root, vb, q))
      PROVE  TranslateIn(m3.table, q, vb) = TranslateIn(m.table, q, vb)
  <2>1. ~ (vb = va /\ Seen(root, vb, q))
    BY <1>7
  <2>2. TranslateIn(m3.table, q, vb) = TranslateIn(m2.table, q, vb)
    BY <2>1 DEF Others
  <2>3. TranslateIn(m2.table, q, vb) = TranslateIn(m.table, q, vb)
    BY <1>2, <1>7 DEF Extended
  <2>4. QED
    BY <2>2, <2>3
<1>8. ASSUME NEW i \in 1..n, NEW j \in 1..n, run[i] = run[j] PROVE i = j
  <2>1. CASE i = n \/ j = n
    BY <1>3, <1>4, <1>8, <2>1
  <2>2. CASE i # n /\ j # n
    <3>1. i \in 1..(n - 1) /\ j \in 1..(n - 1)
      BY <2>2
    <3>2. QED
      BY <1>8, <3>1 DEF Extended
  <2>3. QED
    BY <2>1, <2>2
<1>9. QED
  BY <1>6, <1>7, <1>8 DEF Extended

\* The last page is unmapped again.
LEMMA ExtendedLess ==
    ASSUME NEW m, NEW m2, NEW m3, NEW R, NEW root \in R, NEW run \in Seq(Plain), NEW base, NEW rights, NEW n \in 1..Len(run),
           Extended(m, m2, R, root, run, base, rights, n),
           NEW va, va = run[n], Others(m2, m3, R, root, va), Everywhere(m3, R, root, va, Absent)
    PROVE  Extended(m, m3, R, root, run, base, rights, n - 1)
<1>1. n \in 1..n /\ \A j \in 1..(n - 1) : j \in 1..Len(run) /\ j \in 1..n /\ j # n /\ run[j] \in Plain
  OBVIOUS
<1>2. ASSUME NEW j \in 1..(n - 1) PROVE run[j] # va
  BY <1>1 DEF Extended
<1>3. ASSUME NEW j \in 1..(n - 1)
      PROVE  /\ Everywhere(m, R, root, run[j], Absent)
             /\ \E c \in Entry : Granted(c, base + j - 1, rights) /\ Everywhere(m3, R, root, run[j], c)
  <2>1. PICK c \in Entry : Granted(c, base + j - 1, rights) /\ Everywhere(m2, R, root, run[j], c)
    BY <1>1 DEF Extended
  <2>2. Everywhere(m3, R, root, run[j], c)
    BY <1>1, <1>2, <2>1 DEF Everywhere, Others
  <2>3. Everywhere(m, R, root, run[j], Absent)
    BY <1>1 DEF Extended
  <2>4. QED
    BY <2>1, <2>2, <2>3
<1>4. ASSUME NEW q \in R, NEW vb \in Plain, \A j \in 1..(n - 1) : ~ (vb = run[j] /\ Seen(root, vb, q))
      PROVE  TranslateIn(m3.table, q, vb) = TranslateIn(m.table, q, vb)
  <2>1. CASE vb = va /\ Seen(root, vb, q)
    <3>1. TranslateIn(m3.table, q, vb) = Absent
      BY <2>1 DEF Everywhere
    <3>2. Everywhere(m, R, root, va, Absent)
      BY <1>1 DEF Extended
    <3>3. TranslateIn(m.table, q, vb) = Absent
      BY <2>1, <3>2 DEF Everywhere
    <3>4. QED
      BY <3>1, <3>3
  <2>2. CASE ~ (vb = va /\ Seen(root, vb, q))
    <3>1. \A j \in 1..n : j = n \/ j \in 1..(n - 1)
      OBVIOUS
    <3>2. \A j \in 1..n : ~ (vb = run[j] /\ Seen(root, vb, q))
      BY <1>4, <2>2, <3>1
    <3>3. TranslateIn(m2.table, q, vb) = TranslateIn(m.table, q, vb)
      BY <3>2 DEF Extended
    <3>4. TranslateIn(m3.table, q, vb) = TranslateIn(m2.table, q, vb)
      BY <2>2 DEF Others
    <3>5. QED
      BY <3>3, <3>4
  <2>3. QED
    BY <2>1, <2>2
<1>5. \A i, j \in 1..(n - 1) : run[i] = run[j] => i = j
  BY <1>1 DEF Extended
<1>6. QED
  BY <1>3, <1>4, <1>5 DEF Extended

\* The pages mapped so far are not those that were there.
LEMMA ExtendedKeeps ==
    ASSUME NEW m, NEW m2, NEW R, NEW root \in R, NEW run \in Seq(Plain), NEW base, NEW rights, NEW n \in 0..Len(run),
           Extended(m, m2, R, root, run, base, rights, n), NEW b \in Plain, Leads(TranslateIn(m.table, root, b))
    PROVE  /\ TranslateIn(m2.table, root, b) = TranslateIn(m.table, root, b)
           /\ \A j \in 1..n : b # run[j]
<1>1. ~ Leads(Absent) /\ \A v : Seen(root, v, root)
  BY DEF Absent, Leads, Seen
<1>2. ASSUME NEW j \in 1..n PROVE b # run[j]
  <2>1. SUFFICES ASSUME b = run[j] PROVE FALSE
    OBVIOUS
  <2>2. Everywhere(m, R, root, b, Absent)
    BY <2>1 DEF Extended
  <2>3. TranslateIn(m.table, root, b) = Absent
    BY <1>1, <2>2 DEF Everywhere
  <2>4. QED
    BY <1>1, <2>3
<1>3. QED
  BY <1>2 DEF Extended

\* A page that is mapped has an entry in the top level.
LEMMA LeadsTop ==
    ASSUME NEW T, NEW r, NEW b, Leads(TranslateIn(T, r, b))
    PROVE  T[r][b[1]].kind # "absent"
<1>1. PICK e : e = T[r][b[1]]
  OBVIOUS
<1>2. SUFFICES ASSUME e.kind = "absent" PROVE FALSE
  BY <1>1
<1>3. TranslateIn(T, r, b) = e
  BY <1>1, <1>2 DEF TranslateIn, Under
<1>4. QED
  BY <1>2, <1>3 DEF Leads

\* After k pages of the loop: those mapped are the first s.mapped of run.
MapState(F, m, R, K, root, run, base, rights, k, s) ==
    /\ s.ok \in BOOLEAN
    /\ s.mapped \in 0..k
    /\ s.ok => s.mapped = k
    /\ Fit(F, s.mem, R, K)
    /\ Extended(m, s.mem, R, root, run, base, rights, s.mapped)

\* The k-th page can be walked to while the pages before it are mapped.
LEMMA RunWalkable ==
    ASSUME NEW m, NEW m2, NEW R, NEW K, NEW root, NEW run, NEW base, NEW rights, Runnable(m, R, K, root, run, base, rights),
           NEW n \in 0..Len(run), Extended(m, m2, R, root, run, base, rights, n), NEW k \in 1..Len(run)
    PROVE  Walkable(m2, R, K, root, run[k], TRUE, rights.user)
<1>1. /\ root \in R /\ run \in Seq(Plain) /\ rights \in Rights
      /\ rights.user <=> root # K
      /\ rights.user => run[k][1] < KernelFirst
      /\ run[k][1] >= KernelFirst => root = K /\ Beside(m, R, K, run[k])
  BY DEF Runnable
<1>2. run[k] \in Plain /\ rights.user \in BOOLEAN
  BY <1>1 DEF Rights
<1>3. ASSUME run[k][1] >= KernelFirst, R # {K} PROVE m2.table[K][run[k][1]].kind # "absent"
  <2>1. PICK b \in Plain : b[1] = run[k][1] /\ Leads(TranslateIn(m.table, K, b))
    BY <1>1, <1>3 DEF Beside
  <2>2. TranslateIn(m2.table, K, b) = TranslateIn(m.table, K, b)
    BY <1>1, <1>3, <2>1, ExtendedKeeps
  <2>3. QED
    BY <2>1, <2>2, LeadsTop
<1>4. QED
  BY <1>1, <1>2, <1>3 DEF Walkable

\* One turn of the mapping loop adds a page, or fails and leaves those mapped so far.
LEMMA MapNextIs ==
    ASSUME NEW F, NEW m, NEW R, NEW K, NEW root, NEW run, NEW base, NEW rights, Runnable(m, R, K, root, run, base, rights),
           NEW k \in 1..Len(run), NEW s, MapState(F, m, R, K, root, run, base, rights, k - 1, s),
           NEW t, t = MapNext(s, root, run, base, rights, k)
    PROVE  MapState(F, m, R, K, root, run, base, rights, k, t)
<1>1. /\ root \in R /\ run \in Seq(Plain) /\ rights \in Rights /\ base + k - 1 \in Data
  BY DEF Runnable
<1>2. /\ s.ok \in BOOLEAN /\ s.mapped \in 0..(k - 1) /\ (s.ok => s.mapped = k - 1)
      /\ Fit(F, s.mem, R, K) /\ Extended(m, s.mem, R, root, run, base, rights, s.mapped)
  BY DEF MapState
<1>3. Len(run) \in Nat /\ k \in Nat /\ k - 1 \in 0..Len(run) /\ s.mapped \in 0..k /\ s.mapped \in 0..Len(run)
  BY <1>1, <1>2
<1>4. CASE ~ s.ok
  <2>1. t = s
    BY <1>4 DEF MapNext
  <2>2. QED
    BY <1>2, <1>3, <1>4, <2>1 DEF MapState
<1>5. CASE s.ok
  <2>1. PICK sm : sm = s.mem
    OBVIOUS
  <2>2. PICK frame : frame = base + k - 1
    OBVIOUS
  <2>3. PICK va : va = run[k]
    OBVIOUS
  <2>4. PICK next : next = MapPage(sm, root, va, frame, rights)
    OBVIOUS
  <2>5. Extended(m, sm, R, root, run, base, rights, k - 1) /\ Fit(F, sm, R, K) /\ frame \in Data
    BY <1>1, <1>2, <1>5, <2>1, <2>2
  <2>6. Walkable(sm, R, K, root, va, TRUE, rights.user)
    BY <1>3, <2>3, <2>5, RunWalkable
  <2>7. /\ next.ok \in BOOLEAN
        /\ Fit(F, next.mem, R, K)
        /\ ~ next.ok => Alike(sm, next.mem, R)
        /\ next.ok => /\ Others(sm, next.mem, R, root, va)
                      /\ Everywhere(sm, R, root, va, Absent)
                      /\ \E b \in Entry : Granted(b, frame, rights) /\ Everywhere(next.mem, R, root, va, b)
    BY <1>1, <2>4, <2>5, <2>6, MapPageIs
  <2>8. t = IF next.ok THEN [ok |-> TRUE, mem |-> next.mem, mapped |-> k]
                       ELSE [ok |-> FALSE, mem |-> next.mem, mapped |-> k - 1]
    BY <1>5, <2>1, <2>2, <2>3, <2>4 DEF MapNext
  <2>9. PICK nm : nm = next.mem
    OBVIOUS
  <2>10. CASE next.ok
    <3>1. t.ok = TRUE /\ t.mem = nm /\ t.mapped = k
      BY <2>8, <2>9, <2>10
    <3>2. PICK b \in Entry : Granted(b, frame, rights) /\ Everywhere(nm, R, root, va, b)
      BY <2>7, <2>9, <2>10
    <3>3. Others(sm, nm, R, root, va) /\ Everywhere(sm, R, root, va, Absent)
      BY <2>7, <2>9, <2>10
    <3>4. Extended(m, nm, R, root, run, base, rights, k)
      BY <1>1, <2>2, <2>3, <2>5, <3>2, <3>3, ExtendedMore
    <3>5. Fit(F, t.mem, R, K) /\ Extended(m, t.mem, R, root, run, base, rights, t.mapped)
      BY <2>7, <2>9, <3>1, <3>4
    <3>6. t.mapped \in 0..k /\ t.mapped = k
      BY <1>3, <3>1
    <3>7. t.ok \in BOOLEAN
      BY <3>1, Zenon
    <3>8. QED
      BY <3>5, <3>6, <3>7, Zenon DEF MapState
  <2>11. CASE ~ next.ok
    <3>1. t.ok = FALSE /\ t.mem = nm /\ t.mapped = k - 1
      BY <2>8, <2>9, <2>11
    <3>2. Alike(sm, nm, R)
      BY <2>7, <2>9, <2>11
    <3>3. Extended(m, nm, R, root, run, base, rights, k - 1)
      BY <1>1, <1>3, <2>5, <3>2, ExtendedAlike
    <3>4. Fit(F, t.mem, R, K) /\ Extended(m, t.mem, R, root, run, base, rights, t.mapped)
      BY <2>7, <2>9, <3>1, <3>3
    <3>5. t.mapped \in 0..k
      BY <1>3, <3>1
    <3>6. t.ok \in BOOLEAN /\ ~ t.ok
      BY <3>1, Zenon
    <3>7. QED
      BY <3>4, <3>5, <3>6, Zenon DEF MapState
  <2>12. QED
    BY <2>10, <2>11
<1>6. QED
  BY <1>4, <1>5

\* The mapping loop, from the first page to the last.
LEMMA MappingLoop ==
    ASSUME NEW F, NEW m, NEW R, NEW K, NEW root, NEW run, NEW base, NEW rights, Runnable(m, R, K, root, run, base, rights),
           Fit(F, m, R, K), NEW end, end = Mapping(m, root, run, base, rights)[Len(run)]
    PROVE  MapState(F, m, R, K, root, run, base, rights, Len(run), end)
<1>1. Len(run) \in Nat /\ run \in Seq(Plain)
  BY DEF Runnable
<1>2. PICK after : after = Mapping(m, root, run, base, rights)
  OBVIOUS
<1>3. /\ after[0] = [ok |-> TRUE, mem |-> m, mapped |-> 0]
      /\ \A k \in 1..Len(run) : after[k] = MapNext(after[k - 1], root, run, base, rights, k)
  <2>1. MapSteps(after, m, root, run, base, rights)
    BY <1>1, <1>2, MappingIs
  <2>2. QED
    BY <2>1, Zenon DEF MapSteps
<1>4. MapState(F, m, R, K, root, run, base, rights, 0, after[0])
  <2>1. after[0].ok = TRUE /\ after[0].mem = m /\ after[0].mapped = 0
    BY <1>3
  <2>2. Extended(m, m, R, root, run, base, rights, 0)
    BY ExtendedStart
  <2>3. Fit(F, after[0].mem, R, K) /\ Extended(m, after[0].mem, R, root, run, base, rights, after[0].mapped)
    BY <2>1, <2>2
  <2>4. after[0].mapped \in 0..0 /\ after[0].mapped = 0
    BY <2>1
  <2>5. after[0].ok \in BOOLEAN
    BY <2>1, Zenon
  <2>6. QED
    BY <2>3, <2>4, <2>5, Zenon DEF MapState
<1>5. PICK S : S = {k \in Nat : k <= Len(run) => MapState(F, m, R, K, root, run, base, rights, k, after[k])}
  OBVIOUS
<1>6. ASSUME NEW k \in S PROVE k + 1 \in S
  <2>1. k \in Nat /\ (k <= Len(run) => MapState(F, m, R, K, root, run, base, rights, k, after[k]))
    BY <1>5
  <2>2. SUFFICES ASSUME k + 1 <= Len(run) PROVE MapState(F, m, R, K, root, run, base, rights, k + 1, after[k + 1])
    BY <1>5, <2>1
  <2>3. PICK l : l = k + 1
    OBVIOUS
  <2>4. l \in 1..Len(run) /\ l - 1 = k /\ k <= Len(run)
    BY <1>1, <2>1, <2>2, <2>3
  <2>5. after[l] = MapNext(after[k], root, run, base, rights, l)
    BY <1>3, <2>4
  <2>6. MapState(F, m, R, K, root, run, base, rights, l - 1, after[k])
    BY <2>1, <2>4
  <2>7. MapState(F, m, R, K, root, run, base, rights, l, after[l])
    BY <2>4, <2>5, <2>6, MapNextIs
  <2>8. QED
    BY <2>3, <2>7
<1>7. S \in SUBSET Nat /\ 0 \in S
  BY <1>4, <1>5
<1>8. Len(run) \in S
  BY <1>1, <1>6, <1>7, SetInduction
<1>9. QED
  BY <1>1, <1>2, <1>5, <1>8

\* The pages that stay while the run is undone.
LEMMA RunStays ==
    ASSUME NEW m, NEW m2, NEW R, NEW K, NEW root, NEW run, NEW base, NEW rights, Runnable(m, R, K, root, run, base, rights),
           NEW n \in 0..Len(run), Extended(m, m2, R, root, run, base, rights, n), NEW k \in 1..n
    PROVE  Stays(m2, R, K, root, run[k])
<1>1. root \in R /\ run \in Seq(Plain) /\ k \in 1..Len(run)
  BY DEF Runnable
<1>2. SUFFICES ASSUME run[k][1] >= KernelFirst
               PROVE  /\ root = K
                      /\ R = {K} \/ \E b \in Plain : b # run[k] /\ b[1] = run[k][1] /\ Leads(TranslateIn(m2.table, K, b))
  BY DEF Stays
<1>3. root = K /\ Beside(m, R, K, run[k])
  BY <1>1, <1>2 DEF Runnable
<1>4. ASSUME R # {K}
      PROVE  \E b \in Plain : b # run[k] /\ b[1] = run[k][1] /\ Leads(TranslateIn(m2.table, K, b))
  <2>1. PICK b \in Plain : b[1] = run[k][1] /\ Leads(TranslateIn(m.table, K, b))
    BY <1>3, <1>4 DEF Beside
  <2>2. TranslateIn(m2.table, K, b) = TranslateIn(m.table, K, b) /\ b # run[k]
    BY <1>1, <1>3, <2>1, ExtendedKeeps
  <2>3. QED
    BY <2>1, <2>2
<1>5. QED
  BY <1>3, <1>4

\* One turn of the undo takes the last page back.
LEMMA UnmapNextIs ==
    ASSUME NEW F, NEW m, NEW R, NEW K, NEW root, NEW run, NEW base, NEW rights, Runnable(m, R, K, root, run, base, rights),
           NEW n \in 1..Len(run), NEW m2, Fit(F, m2, R, K), Extended(m, m2, R, root, run, base, rights, n),
           NEW m3, m3 = UnmapPage(m2, root, run[n]).mem
    PROVE  Fit(F, m3, R, K) /\ Extended(m, m3, R, root, run, base, rights, n - 1)
<1>1. root \in R /\ run \in Seq(Plain) /\ Len(run) \in Nat /\ n \in 0..Len(run) /\ n \in 1..n
  BY DEF Runnable
<1>2. PICK va : va = run[n]
  OBVIOUS
<1>3. va \in Plain /\ Seen(root, va, root)
  BY <1>1, <1>2 DEF Seen
<1>4. Stays(m2, R, K, root, va)
  BY <1>1, <1>2, RunStays
<1>5. PICK o : o = UnmapPage(m2, root, va)
  OBVIOUS
<1>6. PICK b \in Entry : b.kind = "page" /\ b.owned /\ Everywhere(m2, R, root, va, b)
  BY <1>1, <1>2 DEF Extended, Granted
<1>7. TranslateIn(m2.table, root, va).kind = "page" /\ TranslateIn(m2.table, root, va).owned
  BY <1>1, <1>3, <1>6 DEF Everywhere
<1>8. /\ Fit(F, o.mem, R, K)
      /\ Others(m2, o.mem, R, root, va) /\ Everywhere(o.mem, R, root, va, Absent)
  BY <1>1, <1>3, <1>4, <1>5, <1>7, UnmapPageIs
<1>9. m3 = o.mem
  BY <1>2, <1>5
<1>10. Fit(F, m3, R, K) /\ Others(m2, m3, R, root, va) /\ Everywhere(m3, R, root, va, Absent)
  BY <1>8, <1>9
<1>11. Extended(m, m3, R, root, run, base, rights, n - 1)
  BY <1>1, <1>2, <1>10, ExtendedLess
<1>12. QED
  BY <1>10, <1>11

\* The undo takes all of them back.
LEMMA UnmappingLoop ==
    ASSUME NEW F, NEW m, NEW R, NEW K, NEW root, NEW run, NEW base, NEW rights, Runnable(m, R, K, root, run, base, rights),
           NEW n \in 0..Len(run), NEW m2, Fit(F, m2, R, K), Extended(m, m2, R, root, run, base, rights, n),
           NEW m3, m3 = Unmapping(m2, root, run, n)[n]
    PROVE  Fit(F, m3, R, K) /\ Alike(m, m3, R)
<1>1. Len(run) \in Nat /\ n \in Nat
  BY DEF Runnable
<1>2. PICK after : after = Unmapping(m2, root, run, n)
  OBVIOUS
<1>3. /\ after[0] = m2
      /\ \A k \in 1..n : after[k] = UnmapPage(after[k - 1], root, run[n - k + 1]).mem
  BY <1>1, <1>2, UnmappingIs
<1>4. PICK S : S = {k \in Nat : k <= n => Fit(F, after[k], R, K) /\ Extended(m, after[k], R, root, run, base, rights, n - k)}
  OBVIOUS
<1>5. n - 0 = n
  BY <1>1
<1>6. S \in SUBSET Nat /\ 0 \in S
  BY <1>3, <1>4, <1>5
<1>7. ASSUME NEW k \in S PROVE k + 1 \in S
  <2>1. k \in Nat /\ (k <= n => Fit(F, after[k], R, K) /\ Extended(m, after[k], R, root, run, base, rights, n - k))
    BY <1>4
  <2>2. SUFFICES ASSUME k + 1 <= n
                 PROVE  Fit(F, after[k + 1], R, K) /\ Extended(m, after[k + 1], R, root, run, base, rights, n - (k + 1))
    BY <1>4, <2>1
  <2>3. PICK l : l = n - k
    OBVIOUS
  <2>4. l \in 1..Len(run) /\ k + 1 \in 1..n /\ n - (k + 1) + 1 = l /\ n - (k + 1) = l - 1 /\ k + 1 - 1 = k /\ k <= n
    BY <1>1, <2>1, <2>2, <2>3
  <2>5. after[k + 1] = UnmapPage(after[k], root, run[l]).mem
    <3>1. PICK h : h = k + 1
      OBVIOUS
    <3>2. h \in 1..n /\ h - 1 = k /\ n - h + 1 = l
      BY <1>1, <2>1, <2>3, <2>4, <3>1
    <3>3. after[h] = UnmapPage(after[h - 1], root, run[n - h + 1]).mem
      BY <1>3, <3>2
    <3>4. QED
      BY <3>1, <3>2, <3>3
  <2>6. Fit(F, after[k], R, K) /\ Extended(m, after[k], R, root, run, base, rights, l)
    BY <2>1, <2>3, <2>4
  <2>7. Fit(F, after[k + 1], R, K) /\ Extended(m, after[k + 1], R, root, run, base, rights, l - 1)
    BY <2>4, <2>5, <2>6, UnmapNextIs
  <2>8. QED
    BY <2>4, <2>7
<1>8. n \in S
  BY <1>1, <1>6, <1>7, SetInduction
<1>9. Fit(F, m3, R, K) /\ Extended(m, m3, R, root, run, base, rights, 0)
  <2>1. n - n = 0 /\ n <= n
    BY <1>1
  <2>2. m3 = after[n]
    BY <1>2
  <2>3. QED
    BY <1>4, <1>8, <2>1, <2>2
<1>10. Alike(m, m3, R)
  BY <1>9 DEF Extended, Alike
<1>11. QED
  BY <1>9, <1>10

\* vmm_map_pages_locked maps the whole run or changes no translation.
LEMMA MapRunIs ==
    ASSUME NEW F, NEW m, NEW R, NEW K, NEW root, NEW run, NEW base, NEW rights, Runnable(m, R, K, root, run, base, rights),
           Fit(F, m, R, K), NEW o, o = MapRun(m, root, run, base, rights)
    PROVE  /\ Fit(F, o, R, K)
           /\ Alike(m, o, R) \/ Extended(m, o, R, root, run, base, rights, Len(run))
<1>1. PICK end : end = Mapping(m, root, run, base, rights)[Len(run)]
  OBVIOUS
<1>2. MapState(F, m, R, K, root, run, base, rights, Len(run), end)
  BY <1>1, MappingLoop
<1>3. /\ end.ok \in BOOLEAN /\ end.mapped \in 0..Len(run) /\ (end.ok => end.mapped = Len(run))
      /\ Fit(F, end.mem, R, K) /\ Extended(m, end.mem, R, root, run, base, rights, end.mapped)
  BY <1>2 DEF MapState
<1>4. o = IF end.ok THEN end.mem ELSE Unmapping(end.mem, root, run, end.mapped)[end.mapped]
  BY <1>1 DEF MapRun
<1>5. CASE end.ok
  BY <1>3, <1>4, <1>5
<1>6. CASE ~ end.ok
  <2>1. o = Unmapping(end.mem, root, run, end.mapped)[end.mapped]
    BY <1>4, <1>6
  <2>2. PICK em, k : em = end.mem /\ k = end.mapped
    OBVIOUS
  <2>3. QED
    BY <1>3, <2>1, <2>2, UnmappingLoop
<1>7. QED
  BY <1>5, <1>6

-----------------------------------------------------------------------------
(* The top-level table of a process.                                        *)

\* A translation looks at its own top level and no other.
LEMMA KeepTranslation ==
    ASSUME NEW T, NEW used, NEW R, NEW K, NEW level, NEW own, Well(T, used, R, K, level, own),
           NEW q \in R, NEW va \in Plain,
           NEW T2, \A f \in used, j \in Index : f = q \/ f \notin R => T2[f][j] = T[f][j]
    PROVE  TranslateIn(T2, q, va) = TranslateIn(T, q, va)
<1>1. PICK s : s = Walk(T, q, va)
  OBVIOUS
<1>2. PICK z : z = Walk(T2, q, va)
  OBVIOUS
<1>3. \A d \in 1..4 : Deep(s, d) => At(s, q, d) \in used /\ level[At(s, q, d)] = 5 - d
  BY <1>1, PathWell
<1>4. ASSUME NEW d \in 1..4, Deep(s, d) PROVE T2[At(s, q, d)][va[d]] = T[At(s, q, d)][va[d]]
  <2>1. At(s, q, d) \in used /\ level[At(s, q, d)] = 5 - d
    BY <1>3, <1>4
  <2>2. d # 1 => At(s, q, d) \notin R
    BY <2>1 DEF Well, Leveled
  <2>3. d = 1 => At(s, q, d) = q
    BY DEF At
  <2>4. va[d] \in Index
    BY DEF Plain, Page
  <2>5. QED
    BY <2>1, <2>2, <2>3, <2>4
<1>5. 4 \in 1..4 /\ AgreeOn(T, T2, s, q, va, 4)
  BY <1>4 DEF AgreeOn
<1>6. z[4] = s[4]
  BY <1>1, <1>2, <1>5, SameWalk
<1>7. QED
  BY <1>1, <1>2, <1>6, WalkSteps

\* T2 is T with the new top level n.
Rooted(T, used, R, K, level, own, n, T2) ==
    /\ Well(T, used, R, K, level, own)
    /\ n \in Frame \ used /\ T2 \in TablesIn
    /\ \A f \in Frame : f # n => T2[f] = T[f]
    /\ \A i \in Index : T2[n][i] = IF i < KernelFirst THEN Absent ELSE [T[K][i] EXCEPT !.user = FALSE]

\* A hierarchy stays well-formed with one more top level that shares the kernel's half.
LEMMA RootWell ==
    ASSUME NEW T, NEW used, NEW R, NEW K, NEW level, NEW own, NEW n, NEW T2, Rooted(T, used, R, K, level, own, n, T2)
    PROVE  \E level2 : Well(T2, used \cup {n}, R \cup {n}, K, level2, own)
<1>1. /\ Well(T, used, R, K, level, own)
      /\ n \in Frame /\ n \notin used /\ T2 \in TablesIn
      /\ \A f \in Frame : f # n => T2[f] = T[f]
      /\ \A i \in Index : T2[n][i] = IF i < KernelFirst THEN Absent ELSE [T[K][i] EXCEPT !.user = FALSE]
  BY DEF Rooted
<1>2. PICK l2 : l2 = [level EXCEPT ![n] = 4]
  OBVIOUS
<1>3. PICK u2, R2 : u2 = used \cup {n} /\ R2 = R \cup {n}
  OBVIOUS
<1>4. /\ T \in TablesIn /\ used \subseteq Frame /\ R \subseteq used /\ K \in R
      /\ level \in [Frame -> 1..4] /\ own \subseteq used \ R
  BY <1>1 DEF Well, Sets
<1>5. /\ l2 \in [Frame -> 1..4] /\ l2[n] = 4
      /\ \A f \in Frame : f # n => l2[f] = level[f]
  BY <1>1, <1>2, <1>4
<1>6. /\ K # n /\ K \in used /\ level[K] = 4 /\ K \in Frame
      /\ \A f \in used : f \in Frame /\ f # n /\ T2[f] = T[f] /\ l2[f] = level[f]
  <2>1. \A f \in used : f \in Frame /\ f # n
    BY <1>1, <1>4
  <2>2. level[K] = 4
    BY <1>1, <1>4 DEF Well, Leveled
  <2>3. QED
    BY <1>1, <1>4, <1>5, <2>1, <2>2
<1>7. ASSUME NEW i \in Index
      PROVE  /\ i < KernelFirst => T2[n][i] = Absent
             /\ ~ (i < KernelFirst) =>
                  /\ T2[n][i].kind = T[K][i].kind /\ T2[n][i].at = T[K][i].at /\ T2[n][i].owned = T[K][i].owned
                  /\ T[K][i] = Absent => T2[n][i] = Absent
  <2>1. T[K][i] \in Entry
    BY <1>4, <1>6 DEF TablesIn
  <2>2. [Absent EXCEPT !.user = FALSE] = Absent
    <3>1. PICK x : x = [Absent EXCEPT !.user = FALSE]
      OBVIOUS
    <3>2. x \in Entry /\ Absent \in Entry
      BY <3>1, EntryFields DEF Entry
    <3>3. /\ x.kind = Absent.kind /\ x.at = Absent.at /\ x.owned = Absent.owned
          /\ x.user = Absent.user /\ x.writable = Absent.writable
      BY <3>1 DEF Absent
    <3>4. QED
      BY <3>1, <3>2, <3>3, EntryEqual
  <2>3. QED
    BY <1>1, <2>1, <2>2 DEF Entry
<1>8. /\ \A f \in used, i \in Index : IsTable(T2, f, i) <=> IsTable(T, f, i)
      /\ \A i \in Index : IsTable(T2, n, i) => i >= KernelFirst /\ IsTable(T, K, i) /\ T2[n][i].at = T[K][i].at
  <2>1. \A i \in Index : i >= KernelFirst \/ i < KernelFirst
    BY ConstantsAssumption DEF Index
  <2>2. QED
    BY <1>6, <1>7, <2>1, EntryFields DEF IsTable
<1>9. Sets(T2, u2, R2, K, l2, own)
  BY <1>1, <1>3, <1>4, <1>5 DEF Sets
<1>10. Leveled(T2, u2, R2, K, l2)
  <2>1. Leveled(T, used, R, K, level)
    BY <1>1 DEF Well
  <2>2. ASSUME NEW f \in u2 PROVE l2[f] = 4 <=> f \in R2
    BY <1>3, <1>5, <1>6, <2>1 DEF Leveled
  <2>3. ASSUME NEW f \in u2, NEW j \in Index
        PROVE  /\ T2[f][j].kind = "absent" => T2[f][j] = Absent
               /\ T2[f][j].kind = "page" => l2[f] = 1
               /\ T2[f][j].kind = "large" => l2[f] \in {2, 3}
               /\ IsTable(T2, f, j) =>
                    /\ T2[f][j].at \in u2
                    /\ T2[f][j].owned
                    /\ l2[f] = l2[T2[f][j].at] + 1 \/ SelfEntry(T2, R2, K, f, j)
    <3>1. CASE f = n
      <4>1. /\ T[K][j].kind = "absent" => T[K][j] = Absent
            /\ T[K][j].kind # "page" /\ T[K][j].kind # "large"
            /\ IsTable(T, K, j) =>
                /\ T[K][j].at \in used
                /\ T[K][j].owned
                /\ level[T[K][j].at] = 3 \/ SelfEntry(T, R, K, K, j)
        <5>1. level[K] # 1 /\ level[K] \notin {2, 3}
          BY <1>6
        <5>2. \A x \in 1..4 : 4 = x + 1 => x = 3
          OBVIOUS
        <5>3. \A x \in used : level[x] \in 1..4
          BY <1>4
        <5>4. QED
          BY <1>6, <2>1, <5>1, <5>2, <5>3 DEF Leveled
      <4>2. CASE j < KernelFirst
        BY <1>7, <3>1, <4>2, EntryFields DEF IsTable
      <4>3. CASE ~ (j < KernelFirst)
        <5>1. /\ T2[n][j].kind = T[K][j].kind /\ T2[n][j].at = T[K][j].at /\ T2[n][j].owned = T[K][j].owned
              /\ T[K][j] = Absent => T2[n][j] = Absent
          BY <1>7, <4>3
        <5>2. SelfEntry(T, R, K, K, j) => SelfEntry(T2, R2, K, n, j)
          BY <1>3, <5>1 DEF SelfEntry
        <5>3. \A x \in used : level[x] = 3 => l2[n] = l2[x] + 1
          BY <1>5, <1>6
        <5>4. QED
          BY <1>3, <3>1, <4>1, <5>1, <5>2, <5>3 DEF IsTable
      <4>4. QED
        BY <4>2, <4>3
    <3>2. CASE f # n
      <4>1. f \in used /\ T2[f][j] = T[f][j] /\ l2[f] = level[f]
        BY <1>3, <1>6, <3>2
      <4>2. IsTable(T, f, j) => T[f][j].at \in used /\ l2[T[f][j].at] = level[T[f][j].at]
        BY <1>6, <2>1, <4>1 DEF Leveled
      <4>3. SelfEntry(T, R, K, f, j) => SelfEntry(T2, R2, K, f, j)
        BY <1>3, <4>1 DEF SelfEntry
      <4>4. QED
        BY <1>3, <2>1, <4>1, <4>2, <4>3 DEF Leveled, IsTable
    <3>3. QED
      BY <3>1, <3>2
  <2>4. QED
    BY <2>2, <2>3 DEF Leveled
<1>11. Held(T2, u2, R2)
  <2> SUFFICES ASSUME NEW f \in u2 \ R2 PROVE \E g \in u2, j \in Index : IsTable(T2, g, j) /\ T2[g][j].at = f
    BY DEF Held
  <2>1. PICK g \in used, j \in Index : IsTable(T, g, j) /\ T[g][j].at = f
    BY <1>1, <1>3 DEF Well, Held
  <2>2. QED
    BY <1>3, <1>6, <1>8, <2>1
<1>12. Single(T2, u2, R2)
  <2> SUFFICES ASSUME NEW f \in u2, NEW g \in u2, NEW j \in Index, NEW k \in Index,
                      IsTable(T2, f, j), IsTable(T2, g, k), T2[f][j].at = T2[g][k].at
               PROVE  (f = g /\ j = k) \/ (j = k /\ j >= KernelFirst /\ f \in R2 /\ g \in R2)
    BY DEF Single
  <2>1. \A h \in u2, i \in Index : IsTable(T2, h, i) =>
            \E x \in used : /\ IsTable(T, x, i) /\ T2[h][i].at = T[x][i].at
                            /\ x = h \/ (h = n /\ x = K /\ i >= KernelFirst)
    BY <1>3, <1>6, <1>8
  <2>2. PICK x \in used : IsTable(T, x, j) /\ T2[f][j].at = T[x][j].at /\ (x = f \/ (f = n /\ x = K /\ j >= KernelFirst))
    BY <2>1
  <2>3. PICK y \in used : IsTable(T, y, k) /\ T2[g][k].at = T[y][k].at /\ (y = g \/ (g = n /\ y = K /\ k >= KernelFirst))
    BY <2>1
  <2>4. (x = y /\ j = k) \/ (j = k /\ j >= KernelFirst /\ x \in R /\ y \in R)
    BY <1>1, <2>2, <2>3 DEF Well, Single
  <2>5. \A h : h \in R \/ h = n => h \in R2
    BY <1>3
  <2>6. QED
    BY <1>4, <2>2, <2>3, <2>4, <2>5
<1>13. Owned(T2, u2, R2, K, own)
  <2>1. Owned(T, used, R, K, own)
    BY <1>1 DEF Well
  <2> SUFFICES ASSUME NEW f \in u2, NEW j \in Index, IsTable(T2, f, j)
               PROVE  /\ T2[f][j].at \in own <=> Lower(R2, K, own, f, j)
                      /\ Lower(R2, K, own, f, j) => T2[f][j].user /\ T2[f][j].writable
    BY DEF Owned
  <2>2. CASE f = n
    <3>1. j >= KernelFirst /\ IsTable(T, K, j) /\ T2[n][j].at = T[K][j].at
      BY <1>8, <2>2
    <3>2. ~ Lower(R, K, own, K, j)
      BY <1>4 DEF Lower
    <3>3. T[K][j].at \notin own
      BY <1>6, <2>1, <3>1, <3>2 DEF Owned
    <3>4. ~ (j < KernelFirst)
      BY <3>1, ConstantsAssumption DEF Index
    <3>5. ~ Lower(R2, K, own, n, j)
      BY <1>1, <1>4, <3>4 DEF Lower
    <3>6. QED
      BY <2>2, <3>1, <3>3, <3>5
  <2>3. CASE f # n
    <3>1. f \in used /\ T2[f][j] = T[f][j] /\ IsTable(T, f, j)
      BY <1>3, <1>6, <1>8, <2>3
    <3>2. Lower(R2, K, own, f, j) <=> Lower(R, K, own, f, j)
      BY <1>3, <2>3 DEF Lower
    <3>3. QED
      BY <2>1, <3>1, <3>2 DEF Owned
  <2>4. QED
    BY <2>2, <2>3
<1>14. Shared(T2, R2, K)
  <2> SUFFICES ASSUME NEW r \in R2 \ {K}, NEW i \in Index, i >= KernelFirst
               PROVE  T2[r][i] = [T2[K][i] EXCEPT !.user = FALSE]
    BY DEF Shared
  <2>1. T2[K] = T[K] /\ ~ (i < KernelFirst)
    BY <1>6, ConstantsAssumption DEF Index
  <2>2. CASE r = n
    BY <1>1, <2>1, <2>2
  <2>3. CASE r # n
    <3>1. r \in R \ {K} /\ T2[r] = T[r]
      BY <1>3, <1>4, <1>6, <2>3
    <3>2. QED
      BY <1>1, <2>1, <3>1 DEF Well, Shared
  <2>4. QED
    BY <2>2, <2>3
<1>15. Blank(T2, u2)
  BY <1>1, <1>3 DEF Well, Blank
<1>16. Well(T2, u2, R2, K, l2, own)
  BY <1>9, <1>10, <1>11, <1>12, <1>13, <1>14, <1>15 DEF Well
<1>17. QED
  BY <1>3, <1>16

\* T2 is T without the top level n, whose lower half is empty.
Unrooted(T, used, R, K, level, own, n, T2) ==
    /\ Well(T, used, R, K, level, own)
    /\ n \in R \ {K} /\ T2 \in TablesIn
    /\ \A f \in Frame : f # n => T2[f] = T[f]
    /\ T2[n] = EmptyTable
    /\ \A i \in Index : i < KernelFirst => T[n][i].kind = "absent"

\* A hierarchy stays well-formed without a top level whose lower half is empty.
LEMMA UnrootWell ==
    ASSUME NEW T, NEW used, NEW R, NEW K, NEW level, NEW own, NEW n, NEW T2, Unrooted(T, used, R, K, level, own, n, T2)
    PROVE  Well(T2, used \ {n}, R \ {n}, K, level, own)
<1>1. /\ Well(T, used, R, K, level, own)
      /\ n \in R /\ n # K /\ T2 \in TablesIn
      /\ \A f \in Frame : f # n => T2[f] = T[f]
      /\ T2[n] = EmptyTable
      /\ \A i \in Index : i < KernelFirst => T[n][i].kind = "absent"
  BY DEF Unrooted
<1>2. PICK u2, R2 : u2 = used \ {n} /\ R2 = R \ {n}
  OBVIOUS
<1>3. /\ T \in TablesIn /\ used \subseteq Frame /\ R \subseteq used /\ K \in R
      /\ level \in [Frame -> 1..4] /\ own \subseteq used \ R
  BY <1>1 DEF Well, Sets
<1>4. Leveled(T, used, R, K, level)
  BY <1>1 DEF Well
<1>5. \A f \in u2 : f \in used /\ f \in Frame /\ f # n /\ T2[f] = T[f]
  BY <1>1, <1>2, <1>3
<1>6. \A f \in u2, i \in Index : IsTable(T2, f, i) <=> IsTable(T, f, i)
  BY <1>5 DEF IsTable
<1>7. Sets(T2, u2, R2, K, level, own)
  BY <1>1, <1>2, <1>3 DEF Sets
<1>8. Leveled(T2, u2, R2, K, level)
  <2>1. ASSUME NEW f \in u2 PROVE level[f] = 4 <=> f \in R2
    BY <1>2, <1>4, <1>5 DEF Leveled
  <2>2. ASSUME NEW f \in u2, NEW j \in Index
        PROVE  /\ T2[f][j].kind = "absent" => T2[f][j] = Absent
               /\ T2[f][j].kind = "page" => level[f] = 1
               /\ T2[f][j].kind = "large" => level[f] \in {2, 3}
               /\ IsTable(T2, f, j) =>
                    /\ T2[f][j].at \in u2
                    /\ T2[f][j].owned
                    /\ level[f] = level[T2[f][j].at] + 1 \/ SelfEntry(T2, R2, K, f, j)
    <3>1. f \in used /\ f # n /\ T2[f][j] = T[f][j]
      BY <1>5
    <3>2. SelfEntry(T, R, K, f, j) => SelfEntry(T2, R2, K, f, j)
      BY <1>2, <3>1 DEF SelfEntry
    <3>3. ASSUME IsTable(T, f, j) PROVE T[f][j].at # n
      <4>1. SUFFICES ASSUME T[f][j].at = n PROVE FALSE
        OBVIOUS
      <4>2. level[n] = 4 /\ level[f] \in 1..4
        BY <1>1, <1>3, <1>4, <3>1 DEF Leveled
      <4>3. level[f] = level[T[f][j].at] + 1 \/ SelfEntry(T, R, K, f, j)
        BY <1>4, <3>1, <3>3 DEF Leveled
      <4>4. SelfEntry(T, R, K, f, j) => T[f][j].at = K
        BY DEF SelfEntry
      <4>5. QED
        BY <1>1, <4>1, <4>2, <4>3, <4>4
    <3>4. QED
      BY <1>2, <1>4, <3>1, <3>2, <3>3 DEF Leveled, IsTable
  <2>3. QED
    BY <2>1, <2>2 DEF Leveled
<1>9. Held(T2, u2, R2)
  <2> SUFFICES ASSUME NEW f \in u2 \ R2 PROVE \E g \in u2, j \in Index : IsTable(T2, g, j) /\ T2[g][j].at = f
    BY DEF Held
  <2>1. PICK g \in used, j \in Index : IsTable(T, g, j) /\ T[g][j].at = f
    BY <1>1, <1>2 DEF Well, Held
  <2>2. CASE g = n
    <3>1. ~ (j < KernelFirst)
      BY <1>1, <2>1, <2>2 DEF IsTable
    <3>2. j >= KernelFirst
      BY <3>1, ConstantsAssumption DEF Index
    <3>3. T[n][j] = [T[K][j] EXCEPT !.user = FALSE]
      BY <1>1, <3>2 DEF Well, Shared
    <3>4. T[K][j] \in Entry
      BY <1>3 DEF TablesIn
    <3>5. IsTable(T, K, j) /\ T[K][j].at = f
      BY <2>1, <2>2, <3>3, <3>4 DEF IsTable, Entry
    <3>6. K \in u2
      BY <1>1, <1>2, <1>3
    <3>7. QED
      BY <1>5, <1>6, <3>5, <3>6
  <2>3. CASE g # n
    <3>1. g \in u2
      BY <1>2, <2>3
    <3>2. QED
      BY <1>5, <1>6, <2>1, <3>1
  <2>4. QED
    BY <2>2, <2>3
<1>10. Single(T2, u2, R2)
  <2> SUFFICES ASSUME NEW f \in u2, NEW g \in u2, NEW j \in Index, NEW k \in Index,
                      IsTable(T2, f, j), IsTable(T2, g, k), T2[f][j].at = T2[g][k].at
               PROVE  (f = g /\ j = k) \/ (j = k /\ j >= KernelFirst /\ f \in R2 /\ g \in R2)
    BY DEF Single
  <2>1. f \in used /\ g \in used /\ IsTable(T, f, j) /\ IsTable(T, g, k) /\ T[f][j].at = T[g][k].at
    BY <1>5, <1>6
  <2>2. (f = g /\ j = k) \/ (j = k /\ j >= KernelFirst /\ f \in R /\ g \in R)
    BY <1>1, <2>1 DEF Well, Single
  <2>3. QED
    BY <1>2, <1>5, <2>2
<1>11. Owned(T2, u2, R2, K, own)
  <2> SUFFICES ASSUME NEW f \in u2, NEW j \in Index, IsTable(T2, f, j)
               PROVE  /\ T2[f][j].at \in own <=> Lower(R2, K, own, f, j)
                      /\ Lower(R2, K, own, f, j) => T2[f][j].user /\ T2[f][j].writable
    BY DEF Owned
  <2>1. f \in used /\ f # n /\ T2[f][j] = T[f][j] /\ IsTable(T, f, j)
    BY <1>5, <1>6
  <2>2. Lower(R2, K, own, f, j) <=> Lower(R, K, own, f, j)
    BY <1>2, <2>1 DEF Lower
  <2>3. QED
    BY <1>1, <2>1, <2>2 DEF Well, Owned
<1>12. Shared(T2, R2, K)
  <2> SUFFICES ASSUME NEW r \in R2 \ {K}, NEW i \in Index, i >= KernelFirst
               PROVE  T2[r][i] = [T2[K][i] EXCEPT !.user = FALSE]
    BY DEF Shared
  <2>1. r \in R \ {K} /\ T2[r] = T[r] /\ T2[K] = T[K]
    BY <1>1, <1>2, <1>3
  <2>2. QED
    BY <1>1, <2>1 DEF Well, Shared
<1>13. Blank(T2, u2)
  BY <1>1, <1>2 DEF Well, Blank
<1>14. Well(T2, u2, R2, K, level, own)
  BY <1>7, <1>8, <1>9, <1>10, <1>11, <1>12, <1>13 DEF Well
<1>15. QED
  BY <1>2, <1>14

-----------------------------------------------------------------------------
(* Cloning.                                                                 *)

\* The levels of the tables Limine leaves.
BootLevels(lv) ==
    /\ lv \in [BootFrame -> 1..4]
    /\ lv[BootRoot] = 4
    /\ \A f \in BootFrame, i \in Index :
        /\ Boot[f][i].kind = "absent" => Boot[f][i] = Absent
        /\ Boot[f][i].kind = "page" => lv[f] = 1
        /\ Boot[f][i].kind = "large" => lv[f] \in {2, 3}
        /\ Leads(Boot[f][i]) => ~ Boot[f][i].owned
        /\ Boot[f][i].kind = "table" =>
            /\ Boot[f][i].at \in BootFrame
            /\ lv[f] = lv[Boot[f][i].at] + 1 \/ (IsRecursive(f, i) /\ i >= KernelFirst)

\* The boot loader's tables have levels.
LEMMA BootLevelsExist == \E lv : BootLevels(lv)
  BY BootAssumption DEF BootLevels

\* The boot tables are as they were and the free frames are clear.
Ready(m) ==
    /\ m \in Memory
    /\ \A f \in BootFrame : m.table[f] = Boot[f]
    /\ \A f \in m.free : m.table[f] = EmptyTable

\* Entry i of f is that of phi[f], but leads to the copy of the table; t is the first copy.
EntryCopied(T, X, t, phi, f, i) ==
    /\ Boot[phi[f]][i].kind # "table" => T[f][i] = Boot[phi[f]][i]
    /\ Boot[phi[f]][i].kind = "table" =>
        /\ T[f][i].kind = "table" /\ T[f][i].owned /\ T[f][i].at \in X
        /\ T[f][i].user <=> Boot[phi[f]][i].user
        /\ T[f][i].writable <=> Boot[phi[f]][i].writable
        /\ IsRecursive(phi[f], i) => T[f][i].at = t
        /\ ~ IsRecursive(phi[f], i) => T[f][i].at # t /\ phi[T[f][i].at] = Boot[phi[f]][i].at

\* n is m with copies in the frames X: each f of X of the boot table phi[f], of t the first k entries.
Copied(lv, m, n, X, t, phi, k) ==
    /\ n \in Memory /\ X \subseteq m.free /\ n.free = m.free \ X
    /\ t \in X /\ phi \in [X -> BootFrame]
    /\ \A f \in X \ {t} : lv[phi[f]] < lv[phi[t]]
    /\ \A f \in Frame \cup BootFrame : f \notin X => n.table[f] = m.table[f]
    /\ \A f \in X, i \in Index :
        IF f = t /\ i >= k THEN n.table[f][i] = Absent ELSE EntryCopied(n.table, X, t, phi, f, i)
    /\ \A f \in X \ {t} : \E g \in X, i \in Index : n.table[g][i].kind = "table" /\ n.table[g][i].at = f
    /\ \A f, g \in X, i, j \in Index :
        n.table[f][i].kind = "table" /\ n.table[g][j].kind = "table" /\ n.table[f][i].at = n.table[g][j].at
            => f = g /\ i = j

\* The boot loader's frames are not the allocator's.
LEMMA Apart == \A f \in Frame : f \notin BootFrame
  BY ConstantsAssumption

\* Copying leaves the boot loader's tables as they are.
LEMMA CopyReady ==
    ASSUME NEW lv, NEW m, Ready(m), NEW n, NEW X, NEW t, NEW phi, NEW k, Copied(lv, m, n, X, t, phi, k)
    PROVE  Ready(n)
<1>1. /\ m \in Memory /\ n \in Memory /\ X \subseteq m.free /\ n.free = m.free \ X
      /\ \A f \in Frame \cup BootFrame : f \notin X => n.table[f] = m.table[f]
  BY DEF Ready, Copied
<1>2. m.free \subseteq Frame
  BY <1>1 DEF Memory
<1>3. \A f \in BootFrame : n.table[f] = Boot[f]
  BY <1>1, <1>2, Apart DEF Ready
<1>4. \A f \in n.free : n.table[f] = EmptyTable
  BY <1>1, <1>2 DEF Ready
<1>5. QED
  BY <1>1, <1>3, <1>4 DEF Ready

\* The first frame of a copy.
LEMMA CopyStart ==
    ASSUME NEW lv, NEW m, Ready(m), m.free # {}, NEW source \in BootFrame, NEW n, n = Allocate(m), NEW t, t = NextFrame(m),
           NEW phi, phi = [f \in {t} |-> source]
    PROVE  Copied(lv, m, n, {t}, t, phi, 0) /\ phi[t] = source
<1>1. /\ t \in m.free /\ t \in Frame /\ n \in Memory /\ n.free = m.free \ {t} /\ n.table[t] = EmptyTable
      /\ \A f \in Frame \cup BootFrame : f # t => n.table[f] = m.table[f]
  BY AllocateIs DEF Ready
<1>2. \A i \in Index : n.table[t][i] = Absent /\ n.table[t][i].kind # "table"
  BY <1>1, EntryFields
<1>3. \A i \in Index : i >= 0
  BY ConstantsAssumption DEF Index
<1>4. phi \in [{t} -> BootFrame] /\ phi[t] = source
  OBVIOUS
<1>5. \A f \in {t}, i \in Index :
        IF f = t /\ i >= 0 THEN n.table[f][i] = Absent ELSE EntryCopied(n.table, {t}, t, phi, f, i)
  BY <1>2, <1>3
<1>6. \A f, g \in {t}, i, j \in Index :
        n.table[f][i].kind = "table" /\ n.table[g][j].kind = "table" /\ n.table[f][i].at = n.table[g][j].at
            => f = g /\ i = j
  BY <1>2
<1>7. {t} \subseteq m.free /\ t \in {t} /\ {t} \ {t} = {}
  BY <1>1
<1>8. QED
  BY <1>1, <1>4, <1>5, <1>6, <1>7 DEF Copied

\* n2 is n with the next entry of t copied, which leads to no new table.
RowCopied(n, n2, X, t, phi, i) ==
    /\ n2 \in Memory /\ n2.free = n.free
    /\ \A f \in Frame \cup BootFrame, j \in Index : f # t \/ j # i => n2.table[f][j] = n.table[f][j]
    /\ \/ Boot[phi[t]][i].kind # "table" /\ n2.table[t][i] = Boot[phi[t]][i]
       \/ /\ IsRecursive(phi[t], i)
          /\ n2.table[t][i].kind = "table" /\ n2.table[t][i].owned /\ n2.table[t][i].at = t
          /\ n2.table[t][i].user <=> Boot[phi[t]][i].user
          /\ n2.table[t][i].writable <=> Boot[phi[t]][i].writable

\* An entry that is no table to be copied is copied as it is.
LEMMA CopyRow ==
    ASSUME NEW lv, BootLevels(lv), NEW m, Ready(m), NEW n, NEW X, NEW t, NEW phi, NEW i \in Index, Copied(lv, m, n, X, t, phi, i),
           NEW n2, RowCopied(n, n2, X, t, phi, i)
    PROVE  Copied(lv, m, n2, X, t, phi, i + 1)
<1>1. /\ n \in Memory /\ X \subseteq m.free /\ n.free = m.free \ X /\ t \in X /\ phi \in [X -> BootFrame]
      /\ \A f \in X \ {t} : lv[phi[f]] < lv[phi[t]]
      /\ \A f \in Frame \cup BootFrame : f \notin X => n.table[f] = m.table[f]
      /\ \A f \in X, j \in Index :
            IF f = t /\ j >= i THEN n.table[f][j] = Absent ELSE EntryCopied(n.table, X, t, phi, f, j)
      /\ \A f \in X \ {t} : \E g \in X, j \in Index : n.table[g][j].kind = "table" /\ n.table[g][j].at = f
      /\ \A f, g \in X, h, j \in Index :
            n.table[f][h].kind = "table" /\ n.table[g][j].kind = "table" /\ n.table[f][h].at = n.table[g][j].at
                => f = g /\ h = j
  BY DEF Copied
<1>2. /\ n2 \in Memory /\ n2.free = n.free
      /\ \A f \in Frame \cup BootFrame, j \in Index : f # t \/ j # i => n2.table[f][j] = n.table[f][j]
  BY DEF RowCopied
<1>3. X \subseteq Frame /\ \A f \in X : f \in Frame \cup BootFrame
  BY <1>1 DEF Ready, Memory
<1>4. i >= i /\ \A j \in Index : (j >= i /\ j # i <=> j >= i + 1) /\ (j >= i + 1 => j >= i)
  BY ConstantsAssumption DEF Index
<1>5. n.table[t][i] = Absent
  BY <1>1, <1>4
<1>6. EntryCopied(n2.table, X, t, phi, t, i)
  <2>1. CASE Boot[phi[t]][i].kind # "table" /\ n2.table[t][i] = Boot[phi[t]][i]
    BY <2>1, Zenon DEF EntryCopied
  <2>2. CASE /\ IsRecursive(phi[t], i)
             /\ n2.table[t][i].kind = "table" /\ n2.table[t][i].owned /\ n2.table[t][i].at = t
             /\ n2.table[t][i].user <=> Boot[phi[t]][i].user
             /\ n2.table[t][i].writable <=> Boot[phi[t]][i].writable
    <3>1. Boot[phi[t]][i].kind = "table" /\ t \in X
      BY <1>1, <2>2 DEF IsRecursive
    <3>2. QED
      BY <2>2, <3>1, Zenon DEF EntryCopied
  <2>3. QED
    BY <2>1, <2>2, Zenon DEF RowCopied
<1>7. ASSUME NEW f \in Frame \cup BootFrame, f \notin X PROVE n2.table[f] = m.table[f]
  <2>1. f # t
    BY <1>1, <1>7
  <2>2. n2.table[f] \in [Index -> Entry] /\ n.table[f] \in [Index -> Entry]
    BY <1>1, <1>2 DEF Memory, TablesIn
  <2>3. \A j \in Index : n2.table[f][j] = n.table[f][j]
    BY <1>2, <2>1
  <2>4. n2.table[f] = n.table[f]
    BY <2>2, <2>3
  <2>5. QED
    BY <1>1, <1>7, <2>4
<1>8. ASSUME NEW f \in X, NEW j \in Index
      PROVE  IF f = t /\ j >= i + 1 THEN n2.table[f][j] = Absent ELSE EntryCopied(n2.table, X, t, phi, f, j)
  <2>1. CASE f = t /\ j = i
    <3>1. ~ (j >= i + 1)
      BY <1>4, <2>1
    <3>2. QED
      BY <1>6, <2>1, <3>1
  <2>2. CASE ~ (f = t /\ j = i)
    <3>1. n2.table[f][j] = n.table[f][j]
      BY <1>2, <1>3, <2>2
    <3>2. CASE f = t /\ j >= i + 1
      BY <1>1, <1>4, <3>1, <3>2
    <3>3. CASE ~ (f = t /\ j >= i + 1)
      <4>1. ~ (f = t /\ j >= i)
        BY <1>4, <2>2, <3>3
      <4>2. EntryCopied(n.table, X, t, phi, f, j)
        BY <1>1, <4>1
      <4>3. EntryCopied(n2.table, X, t, phi, f, j)
        BY <3>1, <4>2 DEF EntryCopied
      <4>4. QED
        BY <3>3, <4>3
    <3>4. QED
      BY <3>2, <3>3
  <2>3. QED
    BY <2>1, <2>2
<1>9. ASSUME NEW f \in X \ {t} PROVE \E g \in X, j \in Index : n2.table[g][j].kind = "table" /\ n2.table[g][j].at = f
  <2>1. PICK g \in X, j \in Index : n.table[g][j].kind = "table" /\ n.table[g][j].at = f
    BY <1>1
  <2>2. g # t \/ j # i
    BY <1>5, <2>1, EntryFields
  <2>3. QED
    BY <1>2, <1>3, <2>1, <2>2
\* Nothing but this entry leads to the first table.
<1>10. ASSUME NEW f \in X, NEW j \in Index, f # t \/ j # i, n2.table[f][j].kind = "table",
              n2.table[t][i].kind = "table"
       PROVE  n2.table[f][j].at # n2.table[t][i].at
  <2>1. SUFFICES ASSUME n2.table[f][j].at = n2.table[t][i].at PROVE FALSE
    OBVIOUS
  <2>2. n2.table[f][j] = n.table[f][j]
    BY <1>2, <1>3, <1>10
  <2>3. IsRecursive(phi[t], i) /\ n2.table[t][i].at = t
    BY <1>10 DEF RowCopied
  <2>4. ~ (f = t /\ j >= i) /\ EntryCopied(n.table, X, t, phi, f, j)
    BY <1>1, <1>10, <2>2, EntryFields
  <2>5. Boot[phi[f]][j].kind = "table"
    BY <1>10, <2>2, <2>4 DEF EntryCopied
  <2>6. IsRecursive(phi[f], j)
    BY <2>1, <2>2, <2>3, <2>4, <2>5 DEF EntryCopied
  <2>7. phi[f] = phi[t] /\ Boot[phi[f]][j].at = Boot[phi[t]][i].at /\ Boot[phi[t]][i].kind = "table"
    BY <2>3, <2>6 DEF IsRecursive
  <2>8. phi[f] \in BootFrame /\ lv[phi[f]] \in 1..4
    BY <1>1 DEF BootLevels
  <2>9. f = t
    BY <1>1, <2>7, <2>8
  <2>10. j = i
    BY <2>5, <2>7, <2>8, BootAssumption
  <2>11. QED
    BY <1>10, <2>9, <2>10
<1>11. ASSUME NEW f \in X, NEW g \in X, NEW h \in Index, NEW j \in Index,
              n2.table[f][h].kind = "table", n2.table[g][j].kind = "table", n2.table[f][h].at = n2.table[g][j].at
       PROVE  f = g /\ h = j
  <2>1. CASE f = t /\ h = i
    BY <1>10, <1>11, <2>1
  <2>2. CASE g = t /\ j = i
    BY <1>10, <1>11, <2>2
  <2>3. CASE ~ (f = t /\ h = i) /\ ~ (g = t /\ j = i)
    <3>1. n2.table[f][h] = n.table[f][h] /\ n2.table[g][j] = n.table[g][j]
      BY <1>2, <1>3, <2>3
    <3>2. QED
      BY <1>1, <1>11, <3>1
  <2>4. QED
    BY <2>1, <2>2, <2>3
<1>12. n2.free = m.free \ X
  BY <1>1, <1>2
<1>13. QED
  BY <1>1, <1>2, <1>7, <1>8, <1>9, <1>11, <1>12 DEF Copied

\* n2 is n1 with entry i of t leading to the copy u.
SubCopied(n1, n2, t, phi, i, u) ==
    /\ n2 \in Memory /\ n2.free = n1.free
    /\ \A f \in Frame \cup BootFrame, j \in Index : f # t \/ j # i => n2.table[f][j] = n1.table[f][j]
    /\ n2.table[t][i].kind = "table" /\ n2.table[t][i].owned /\ n2.table[t][i].at = u
    /\ n2.table[t][i].user <=> Boot[phi[t]][i].user
    /\ n2.table[t][i].writable <=> Boot[phi[t]][i].writable

\* A table below t has been copied to the frames Y.
LEMMA CopySub ==
    ASSUME NEW lv, BootLevels(lv), NEW m, Ready(m), NEW n, NEW X, NEW t, NEW phi, NEW i \in Index, Copied(lv, m, n, X, t, phi, i),
           Boot[phi[t]][i].kind = "table", ~ IsRecursive(phi[t], i),
           NEW n1, NEW Y, NEW u, NEW psi, Copied(lv, n, n1, Y, u, psi, EntryCount), psi[u] = Boot[phi[t]][i].at,
           NEW n2, SubCopied(n1, n2, t, phi, i, u)
    PROVE  \E Z, chi : Copied(lv, m, n2, Z, t, chi, i + 1) /\ chi[t] = phi[t]
<1>1. /\ n \in Memory /\ X \subseteq m.free /\ n.free = m.free \ X /\ t \in X /\ phi \in [X -> BootFrame]
      /\ \A f \in X \ {t} : lv[phi[f]] < lv[phi[t]]
      /\ \A f \in Frame \cup BootFrame : f \notin X => n.table[f] = m.table[f]
      /\ \A f \in X, j \in Index :
            IF f = t /\ j >= i THEN n.table[f][j] = Absent ELSE EntryCopied(n.table, X, t, phi, f, j)
      /\ \A f \in X \ {t} : \E g \in X, j \in Index : n.table[g][j].kind = "table" /\ n.table[g][j].at = f
      /\ \A f, g \in X, h, j \in Index :
            n.table[f][h].kind = "table" /\ n.table[g][j].kind = "table" /\ n.table[f][h].at = n.table[g][j].at
                => f = g /\ h = j
  BY DEF Copied
<1>2. /\ n1 \in Memory /\ Y \subseteq n.free /\ n1.free = n.free \ Y /\ u \in Y /\ psi \in [Y -> BootFrame]
      /\ \A f \in Y \ {u} : lv[psi[f]] < lv[psi[u]]
      /\ \A f \in Frame \cup BootFrame : f \notin Y => n1.table[f] = n.table[f]
      /\ \A f \in Y, j \in Index :
            IF f = u /\ j >= EntryCount THEN n1.table[f][j] = Absent ELSE EntryCopied(n1.table, Y, u, psi, f, j)
      /\ \A f \in Y \ {u} : \E g \in Y, j \in Index : n1.table[g][j].kind = "table" /\ n1.table[g][j].at = f
      /\ \A f, g \in Y, h, j \in Index :
            n1.table[f][h].kind = "table" /\ n1.table[g][j].kind = "table" /\ n1.table[f][h].at = n1.table[g][j].at
                => f = g /\ h = j
  BY DEF Copied
<1>3. /\ n2 \in Memory /\ n2.free = n1.free
      /\ \A f \in Frame \cup BootFrame, j \in Index : f # t \/ j # i => n2.table[f][j] = n1.table[f][j]
      /\ n2.table[t][i].kind = "table" /\ n2.table[t][i].at = u
  BY DEF SubCopied
<1>4. PICK Z, chi : Z = X \cup Y /\ chi = [f \in Z |-> IF f \in X THEN phi[f] ELSE psi[f]]
  OBVIOUS
<1>5. /\ X \subseteq Frame /\ Y \subseteq Frame /\ X \cap Y = {} /\ Z \subseteq m.free /\ n2.free = m.free \ Z
      /\ t \notin Y /\ u \notin X
  BY <1>1, <1>2, <1>3, <1>4 DEF Ready, Memory
<1>6. /\ chi \in [Z -> BootFrame]
      /\ \A f \in X : chi[f] = phi[f]
      /\ \A f \in Y : chi[f] = psi[f]
  BY <1>1, <1>2, <1>4, <1>5
<1>7. i >= i /\ \A j \in Index : (j >= i /\ j # i <=> j >= i + 1) /\ (j >= i + 1 => j >= i) /\ ~ (j >= EntryCount)
  BY ConstantsAssumption DEF Index
<1>8. n.table[t][i].kind # "table"
  BY <1>1, <1>7, EntryFields
<1>9. /\ \A f \in BootFrame : lv[f] \in 1..4
      /\ psi[u] \in BootFrame /\ phi[t] \in BootFrame
      /\ lv[phi[t]] = lv[psi[u]] + 1
  BY <1>1, <1>2 DEF BootLevels
\* No entry below the top level is for the top level itself.
<1>10. ASSUME NEW f \in Y PROVE lv[psi[f]] < lv[phi[t]] /\ \A j \in Index : ~ IsRecursive(psi[f], j)
  <2>1. psi[f] \in BootFrame /\ lv[psi[f]] \in 1..4 /\ lv[psi[u]] \in 1..4 /\ lv[phi[t]] \in 1..4
    BY <1>2, <1>9
  <2>2. lv[psi[f]] <= lv[psi[u]]
    BY <1>2, <2>1
  <2>3. lv[psi[f]] < lv[phi[t]] /\ lv[psi[f]] # 4
    BY <1>9, <2>1, <2>2
  <2>4. QED
    BY <2>3 DEF IsRecursive, BootLevels
<1>11. ASSUME NEW f \in X, NEW j \in Index, f # t \/ j # i
       PROVE  /\ n2.table[f][j] = n.table[f][j]
              /\ n2.table[f][j].kind = "table" => EntryCopied(n.table, X, t, phi, f, j) /\ n2.table[f][j].at \in X
  <2>1. f \notin Y /\ f \in Frame \cup BootFrame
    BY <1>5
  <2>2. n2.table[f][j] = n1.table[f][j] /\ n1.table[f][j] = n.table[f][j]
    BY <1>2, <1>3, <1>11, <2>1
  <2>3. ASSUME n.table[f][j].kind = "table" PROVE EntryCopied(n.table, X, t, phi, f, j) /\ n.table[f][j].at \in X
    <3>1. ~ (f = t /\ j >= i)
      BY <1>1, <2>3, EntryFields
    <3>2. EntryCopied(n.table, X, t, phi, f, j)
      BY <1>1, <3>1
    <3>3. QED
      BY <2>3, <3>2 DEF EntryCopied
  <2>4. QED
    BY <2>2, <2>3
<1>12. ASSUME NEW f \in Y, NEW j \in Index
       PROVE  /\ n2.table[f][j] = n1.table[f][j]
              /\ EntryCopied(n1.table, Y, u, psi, f, j)
              /\ n2.table[f][j].kind = "table" => n2.table[f][j].at \in Y \ {u}
  <2>1. f # t /\ f \in Frame \cup BootFrame
    BY <1>5
  <2>2. n2.table[f][j] = n1.table[f][j]
    BY <1>3, <2>1
  <2>3. EntryCopied(n1.table, Y, u, psi, f, j)
    BY <1>2, <1>7
  <2>4. n1.table[f][j].kind = "table" => n1.table[f][j].at \in Y \ {u}
    BY <1>10, <2>3 DEF EntryCopied
  <2>5. QED
    BY <2>2, <2>3, <2>4
<1>13. ASSUME NEW f \in Z \ {t} PROVE lv[chi[f]] < lv[chi[t]]
  BY <1>1, <1>4, <1>6, <1>10
<1>14. ASSUME NEW f \in Frame \cup BootFrame, f \notin Z PROVE n2.table[f] = m.table[f]
  <2>1. f # t /\ f \notin X /\ f \notin Y
    BY <1>1, <1>4, <1>14
  <2>2. n2.table[f] \in [Index -> Entry] /\ n1.table[f] \in [Index -> Entry]
    BY <1>2, <1>3 DEF Memory, TablesIn
  <2>3. \A j \in Index : n2.table[f][j] = n1.table[f][j]
    BY <1>3, <2>1
  <2>4. n2.table[f] = n1.table[f]
    BY <2>2, <2>3
  <2>5. QED
    BY <1>1, <1>2, <2>1, <2>4
<1>15. ASSUME NEW f \in Z, NEW j \in Index
       PROVE  IF f = t /\ j >= i + 1 THEN n2.table[f][j] = Absent ELSE EntryCopied(n2.table, Z, t, chi, f, j)
  <2>1. CASE f = t /\ j = i
    <3>1. ~ (j >= i + 1)
      BY <1>7, <2>1
    <3>2. u \in Z /\ u # t /\ chi[u] = Boot[phi[t]][i].at /\ chi[t] = phi[t]
      BY <1>1, <1>2, <1>4, <1>5, <1>6
    <3>3. EntryCopied(n2.table, Z, t, chi, t, i)
      BY <3>2, Zenon DEF EntryCopied, SubCopied
    <3>4. QED
      BY <2>1, <3>1, <3>3
  <2>2. CASE f \in X /\ (f # t \/ j # i)
    <3>1. n2.table[f][j] = n.table[f][j]
      BY <1>11, <2>2
    <3>2. CASE f = t /\ j >= i + 1
      BY <1>1, <1>7, <3>1, <3>2
    <3>3. CASE ~ (f = t /\ j >= i + 1)
      <4>1. ~ (f = t /\ j >= i)
        BY <1>7, <2>2, <3>3
      <4>2. EntryCopied(n.table, X, t, phi, f, j)
        BY <1>1, <2>2, <4>1
      <4>3. chi[f] = phi[f] /\ X \subseteq Z /\ \A g \in X : chi[g] = phi[g]
        BY <1>4, <1>6, <2>2
      <4>4. EntryCopied(n2.table, Z, t, chi, f, j)
        BY <3>1, <4>2, <4>3, Zenon DEF EntryCopied
      <4>5. QED
        BY <3>3, <4>4
    <3>4. QED
      BY <3>2, <3>3
  <2>3. CASE f \in Y
    <3>1. /\ n2.table[f][j] = n1.table[f][j] /\ EntryCopied(n1.table, Y, u, psi, f, j)
          /\ n2.table[f][j].kind = "table" => n2.table[f][j].at \in Y \ {u}
      BY <1>12, <2>3
    <3>2. chi[f] = psi[f] /\ Y \subseteq Z /\ f # t /\ ~ IsRecursive(psi[f], j) /\ \A g \in Y : chi[g] = psi[g] /\ g # t
      BY <1>4, <1>5, <1>6, <1>10, <2>3
    <3>3. EntryCopied(n2.table, Z, t, chi, f, j)
      BY <3>1, <3>2, Zenon DEF EntryCopied
    <3>4. QED
      BY <3>2, <3>3
  <2>4. QED
    BY <1>4, <2>1, <2>2, <2>3
<1>16. ASSUME NEW f \in Z \ {t} PROVE \E g \in Z, j \in Index : n2.table[g][j].kind = "table" /\ n2.table[g][j].at = f
  <2>1. CASE f = u
    BY <1>1, <1>3, <1>4, <2>1
  <2>2. CASE f \in X
    <3>1. PICK g \in X, j \in Index : n.table[g][j].kind = "table" /\ n.table[g][j].at = f
      BY <1>1, <2>2
    <3>2. g # t \/ j # i
      BY <1>8, <3>1
    <3>3. n2.table[g][j] = n.table[g][j]
      BY <1>11, <3>2
    <3>4. QED
      BY <1>4, <3>1, <3>3
  <2>3. CASE f \in Y /\ f # u
    <3>1. PICK g \in Y, j \in Index : n1.table[g][j].kind = "table" /\ n1.table[g][j].at = f
      BY <1>2, <2>3
    <3>2. n2.table[g][j] = n1.table[g][j]
      BY <1>12
    <3>3. QED
      BY <1>4, <3>1, <3>2
  <2>4. QED
    BY <1>4, <2>1, <2>2, <2>3
\* Where an entry leads says where it is.
<1>17. ASSUME NEW f \in Z, NEW j \in Index, n2.table[f][j].kind = "table"
       PROVE  \/ f = t /\ j = i /\ n2.table[f][j].at = u
              \/ f \in X /\ n2.table[f][j] = n.table[f][j] /\ n2.table[f][j].at \in X
              \/ f \in Y /\ n2.table[f][j] = n1.table[f][j] /\ n2.table[f][j].at \in Y \ {u}
  <2>1. CASE f = t /\ j = i
    BY <1>3, <2>1
  <2>2. CASE f \in X /\ (f # t \/ j # i)
    BY <1>11, <1>17, <2>2
  <2>3. CASE f \in Y
    BY <1>12, <1>17, <2>3
  <2>4. QED
    BY <1>4, <2>1, <2>2, <2>3
<1>18. ASSUME NEW f \in Z, NEW g \in Z, NEW h \in Index, NEW j \in Index,
              n2.table[f][h].kind = "table", n2.table[g][j].kind = "table", n2.table[f][h].at = n2.table[g][j].at
       PROVE  f = g /\ h = j
  <2>1. \/ f = t /\ h = i /\ n2.table[f][h].at = u
        \/ f \in X /\ n2.table[f][h] = n.table[f][h] /\ n2.table[f][h].at \in X
        \/ f \in Y /\ n2.table[f][h] = n1.table[f][h] /\ n2.table[f][h].at \in Y \ {u}
    BY <1>17, <1>18
  <2>2. \/ g = t /\ j = i /\ n2.table[g][j].at = u
        \/ g \in X /\ n2.table[g][j] = n.table[g][j] /\ n2.table[g][j].at \in X
        \/ g \in Y /\ n2.table[g][j] = n1.table[g][j] /\ n2.table[g][j].at \in Y \ {u}
    BY <1>17, <1>18
  <2>3. CASE f = t /\ h = i /\ n2.table[f][h].at = u
    BY <1>2, <1>5, <1>18, <2>2, <2>3
  <2>4. CASE f \in X /\ n2.table[f][h] = n.table[f][h] /\ n2.table[f][h].at \in X
    BY <1>1, <1>5, <1>18, <2>2, <2>4
  <2>5. CASE f \in Y /\ n2.table[f][h] = n1.table[f][h] /\ n2.table[f][h].at \in Y \ {u}
    BY <1>2, <1>5, <1>18, <2>2, <2>5
  <2>6. QED
    BY <2>1, <2>3, <2>4, <2>5
<1>19. t \in Z /\ chi[t] = phi[t]
  BY <1>1, <1>4, <1>6
<1>20. Copied(lv, m, n2, Z, t, chi, i + 1)
  <2>1. \A f \in Z, j \in Index :
          IF f = t /\ j >= i + 1 THEN n2.table[f][j] = Absent ELSE EntryCopied(n2.table, Z, t, chi, f, j)
    BY <1>15
  <2>2. \A f, g \in Z, h, j \in Index :
          n2.table[f][h].kind = "table" /\ n2.table[g][j].kind = "table" /\ n2.table[f][h].at = n2.table[g][j].at
              => f = g /\ h = j
    BY <1>18
  <2>3. QED
    BY <1>3, <1>5, <1>6, <1>13, <1>14, <1>16, <1>19, <2>1, <2>2, Zenon DEF Copied
<1>21. QED
  BY <1>19, <1>20

\* Which tables destroy_cloned_table comes to next.
LEMMA OwnTablesAre ==
    ASSUME NEW m, NEW tables, NEW c
    PROVE  c \in OwnTables(m, tables) <=>
             \E f \in tables, i \in Index : m.table[f][i].kind = "table" /\ m.table[f][i].owned /\ m.table[f][i].at = c
<1>1. PICK D : D = {d \in tables \X Index : m.table[d[1]][d[2]].kind = "table" /\ m.table[d[1]][d[2]].owned}
  OBVIOUS
<1>2. OwnTables(m, tables) = {m.table[e[1]][e[2]].at : e \in D}
  BY <1>1 DEF OwnTables
<1>3. \A f \in tables, i \in Index :
        m.table[f][i].kind = "table" /\ m.table[f][i].owned => <<f, i>> \in D
  BY <1>1
<1>4. \A e \in D : e[1] \in tables /\ e[2] \in Index /\ m.table[e[1]][e[2]].kind = "table" /\ m.table[e[1]][e[2]].owned
  BY <1>1
<1>5. ASSUME NEW f \in tables, NEW i \in Index,
             m.table[f][i].kind = "table", m.table[f][i].owned, m.table[f][i].at = c
      PROVE  c \in OwnTables(m, tables)
  <2>1. PICK e : e = <<f, i>>
    OBVIOUS
  <2>2. e \in D /\ e[1] = f /\ e[2] = i
    BY <1>3, <1>5, <2>1
  <2>3. QED
    BY <1>2, <1>5, <2>2
<1>6. ASSUME c \in OwnTables(m, tables)
      PROVE  \E f \in tables, i \in Index : m.table[f][i].kind = "table" /\ m.table[f][i].owned /\ m.table[f][i].at = c
  <2>1. PICK e \in D : m.table[e[1]][e[2]].at = c
    BY <1>2, <1>6
  <2>2. QED
    BY <1>4, <2>1
<1>7. QED
  BY <1>5, <1>6

\* Destroying an unfinished copy gives the memory before it.
LEMMA CopyDestroyed ==
    ASSUME NEW lv, BootLevels(lv), NEW m, Ready(m), NEW n, NEW X, NEW t, NEW phi, NEW k, Copied(lv, m, n, X, t, phi, k),
           NEW o, o = DestroyClonedTable(n, t)
    PROVE  o = m
<1>1. /\ n \in Memory /\ X \subseteq m.free /\ n.free = m.free \ X /\ t \in X /\ phi \in [X -> BootFrame]
      /\ \A f \in X \ {t} : lv[phi[f]] < lv[phi[t]]
      /\ \A f \in Frame \cup BootFrame : f \notin X => n.table[f] = m.table[f]
      /\ \A f \in X, j \in Index :
            IF f = t /\ j >= k THEN n.table[f][j] = Absent ELSE EntryCopied(n.table, X, t, phi, f, j)
      /\ \A f \in X \ {t} : \E g \in X, j \in Index : n.table[g][j].kind = "table" /\ n.table[g][j].at = f
  BY DEF Copied
<1>2. PICK A3 : A3 = OwnTables(n, {t})
  OBVIOUS
<1>3. PICK A2 : A2 = OwnTables(n, A3)
  OBVIOUS
<1>4. PICK A1 : A1 = OwnTables(n, A2)
  OBVIOUS
<1>5. PICK gone : gone = {t} \cup A3 \cup A2 \cup A1
  OBVIOUS
<1>6. o = [table |-> [f \in DOMAIN n.table |-> IF f \in gone THEN EmptyTable ELSE n.table[f]], free |-> n.free \cup gone]
  BY <1>2, <1>3, <1>4, <1>5 DEF DestroyClonedTable
\* A copy hangs from the copy of a table one level up.
<1>7. ASSUME NEW f \in X \ {t}
      PROVE  \E g \in X, j \in Index :
                /\ n.table[g][j].kind = "table" /\ n.table[g][j].owned /\ n.table[g][j].at = f
                /\ lv[phi[g]] = lv[phi[f]] + 1
  <2>1. PICK g \in X, j \in Index : n.table[g][j].kind = "table" /\ n.table[g][j].at = f
    BY <1>1
  <2>2. ~ (g = t /\ j >= k) /\ EntryCopied(n.table, X, t, phi, g, j)
    BY <1>1, <2>1, EntryFields
  <2>3. phi[g] \in BootFrame /\ Boot[phi[g]][j].kind = "table"
    BY <1>1, <2>1, <2>2 DEF EntryCopied
  <2>4. n.table[g][j].owned /\ ~ IsRecursive(phi[g], j) /\ phi[f] = Boot[phi[g]][j].at
    BY <2>1, <2>2, <2>3 DEF EntryCopied
  <2>5. lv[phi[g]] = lv[phi[f]] + 1
    BY <2>3, <2>4 DEF BootLevels
  <2>6. QED
    BY <2>1, <2>4, <2>5
<1>8. \A f \in X : lv[phi[f]] \in 1..4
  BY <1>1 DEF BootLevels
<1>9. PICK L : L = lv[phi[t]]
  OBVIOUS
<1>10. \A f \in X : f # t => lv[phi[f]] < L
  BY <1>1, <1>9
<1>11. L \in 1..4
  BY <1>1, <1>8, <1>9
<1>12. \A f \in X : lv[phi[f]] = L - 1 => f \in A3
  <2> SUFFICES ASSUME NEW f \in X, lv[phi[f]] = L - 1 PROVE f \in A3
    OBVIOUS
  <2>1. f # t
    BY <1>9, <1>11
  <2>2. PICK g \in X, j \in Index :
                /\ n.table[g][j].kind = "table" /\ n.table[g][j].owned /\ n.table[g][j].at = f
                /\ lv[phi[g]] = lv[phi[f]] + 1
    BY <1>7, <2>1
  <2>3. g = t
    BY <1>10, <1>11, <2>2
  <2>4. QED
    BY <1>2, <2>2, <2>3, OwnTablesAre
<1>13. \A f \in X : lv[phi[f]] = L - 2 => f \in A2
  <2> SUFFICES ASSUME NEW f \in X, lv[phi[f]] = L - 2 PROVE f \in A2
    OBVIOUS
  <2>1. f # t
    BY <1>9, <1>11
  <2>2. PICK g \in X, j \in Index :
                /\ n.table[g][j].kind = "table" /\ n.table[g][j].owned /\ n.table[g][j].at = f
                /\ lv[phi[g]] = lv[phi[f]] + 1
    BY <1>7, <2>1
  <2>3. lv[phi[g]] = L - 1
    BY <1>11, <2>2
  <2>4. g \in A3
    BY <1>12, <2>3
  <2>5. QED
    BY <1>3, <2>2, <2>4, OwnTablesAre
<1>14. \A f \in X : lv[phi[f]] = L - 3 => f \in A1
  <2> SUFFICES ASSUME NEW f \in X, lv[phi[f]] = L - 3 PROVE f \in A1
    OBVIOUS
  <2>1. f # t
    BY <1>9, <1>11
  <2>2. PICK g \in X, j \in Index :
                /\ n.table[g][j].kind = "table" /\ n.table[g][j].owned /\ n.table[g][j].at = f
                /\ lv[phi[g]] = lv[phi[f]] + 1
    BY <1>7, <2>1
  <2>3. lv[phi[g]] = L - 2
    BY <1>11, <2>2
  <2>4. g \in A2
    BY <1>13, <2>3
  <2>5. QED
    BY <1>4, <2>2, <2>4, OwnTablesAre
<1>15. X \subseteq gone
  <2> SUFFICES ASSUME NEW f \in X PROVE f \in gone
    OBVIOUS
  <2>1. lv[phi[f]] \in 1..4 /\ (f # t => lv[phi[f]] < L)
    BY <1>8, <1>10
  <2>2. f = t \/ lv[phi[f]] = L - 1 \/ lv[phi[f]] = L - 2 \/ lv[phi[f]] = L - 3
    BY <1>11, <2>1
  <2>3. QED
    BY <1>5, <1>12, <1>13, <1>14, <2>2
<1>16. ASSUME NEW S, S \subseteq X PROVE OwnTables(n, S) \subseteq X
  <2> SUFFICES ASSUME NEW c, c \in OwnTables(n, S) PROVE c \in X
    OBVIOUS
  <2>1. PICK f \in S, j \in Index : n.table[f][j].kind = "table" /\ n.table[f][j].at = c
    BY OwnTablesAre
  <2>2. f \in X
    BY <1>16
  <2>3. EntryCopied(n.table, X, t, phi, f, j)
    BY <1>1, <2>1, <2>2, EntryFields
  <2>4. QED
    BY <2>1, <2>3 DEF EntryCopied
<1>17. gone \subseteq X
  <2>1. {t} \subseteq X
    BY <1>1
  <2>2. A3 \subseteq X
    BY <1>2, <1>16, <2>1
  <2>3. A2 \subseteq X
    BY <1>3, <1>16, <2>2
  <2>4. A1 \subseteq X
    BY <1>4, <1>16, <2>3
  <2>5. QED
    BY <1>5, <2>1, <2>2, <2>3, <2>4
<1>18. gone = X
  BY <1>15, <1>17
<1>19. m \in Memory /\ m.free \subseteq Frame /\ n.table \in TablesIn /\ X \subseteq Frame
  BY <1>1 DEF Ready, Memory
<1>20. DOMAIN n.table = Frame \cup BootFrame
  BY <1>19 DEF TablesIn
<1>21. \A f \in Frame \cup BootFrame : o.table[f] = m.table[f]
  <2> SUFFICES ASSUME NEW f \in Frame \cup BootFrame PROVE o.table[f] = m.table[f]
    OBVIOUS
  <2>1. o.table[f] = IF f \in X THEN EmptyTable ELSE n.table[f]
    BY <1>6, <1>18, <1>20
  <2>2. f \in X => m.table[f] = EmptyTable
    BY <1>1 DEF Ready
  <2>3. f \notin X => n.table[f] = m.table[f]
    BY <1>1
  <2>4. QED
    BY <2>1, <2>2, <2>3
<1>22. o.free = m.free
  <2>1. o.free = n.free \cup X
    BY <1>6, <1>18
  <2>2. QED
    BY <1>1, <2>1
<1>23. o \in Memory
  <2>1. PICK ot : ot = [f \in Frame \cup BootFrame |-> IF f \in gone THEN EmptyTable ELSE n.table[f]]
    OBVIOUS
  <2>2. ot \in TablesIn
    BY <1>19, <2>1, EntryFields DEF TablesIn
  <2>3. o = [table |-> ot, free |-> n.free \cup gone]
    BY <1>6, <1>20, <2>1
  <2>4. n.free \cup gone \subseteq Frame
    BY <1>1, <1>18, <1>19
  <2>5. QED
    BY <2>2, <2>3, <2>4 DEF Memory
<1>24. QED
  BY <1>19, <1>21, <1>22, <1>23, MemoryEqual

\* CopyEntry, from what the level below has returned.
CopyStep(sub, s, source, new, level, i) ==
    LET e == s.mem.table[source][i] IN
    CASE ~ s.ok \/ e.kind = "absent" -> s
      [] s.ok /\ Leads(e) -> Result(TRUE, SetEntry(s.mem, new, i, e))
      [] s.ok /\ e.kind = "table" /\ level = 4 /\ e.at = source ->
            Result(TRUE, SetEntry(s.mem, new, i, [e EXCEPT !.at = new, !.owned = TRUE]))
      [] OTHER ->
            IF sub.ok
            THEN Result(TRUE, SetEntry(sub.mem, new, i, [e EXCEPT !.at = NextFrame(s.mem), !.owned = TRUE]))
            ELSE Result(FALSE, DestroyClonedTable(sub.mem, new))

\* A loop that has not failed has copied k entries; one that has failed left the memory as it was.
CopyState(lv, m, source, t, k, s) ==
    /\ s.ok \in BOOLEAN
    /\ ~ s.ok => s.mem = m
    /\ s.ok => \E X, phi : Copied(lv, m, s.mem, X, t, phi, k) /\ phi[t] = source

\* The boot loader's tables hold entries.
LEMMA BootEntries == \A f \in BootFrame, i \in Index : Boot[f][i] \in Entry
  BY ConstantsAssumption

\* One turn of the loop of clone_table, when the level below does as it should.
LEMMA CopyStepIs ==
    ASSUME NEW lv, BootLevels(lv), NEW m, Ready(m), NEW source \in BootFrame, NEW l, l = lv[source], NEW t,
           NEW i \in Index, NEW s, CopyState(lv, m, source, t, i, s),
           NEW sub, s.ok /\ Boot[source][i].kind = "table" /\ ~ IsRecursive(source, i) =>
                        CopyState(lv, s.mem, Boot[source][i].at, NextFrame(s.mem), EntryCount, sub),
           NEW o, o = CopyStep(sub, s, source, t, l, i)
    PROVE  CopyState(lv, m, source, t, i + 1, o)
<1>1. s.ok \in BOOLEAN /\ (~ s.ok => s.mem = m)
  BY DEF CopyState
<1>2. CASE ~ s.ok
  <2>1. o = s
    BY <1>2 DEF CopyStep
  <2>2. QED
    BY <1>1, <1>2, <2>1, Zenon DEF CopyState
<1>3. CASE s.ok
  <2>1. PICK n : n = s.mem
    OBVIOUS
  <2>2. PICK X, phi : Copied(lv, m, n, X, t, phi, i) /\ phi[t] = source
    BY <1>3, <2>1 DEF CopyState
  <2>3. PICK e : e = Boot[source][i]
    OBVIOUS
  <2>4. Ready(n)
    BY <2>2, CopyReady
  <2>5. n.table[source][i] = e /\ e \in Entry /\ n \in Memory
    BY <2>3, <2>4, BootEntries DEF Ready
  <2>6. o = IF e.kind = "absent" THEN s
            ELSE IF Leads(e) THEN Result(TRUE, SetEntry(n, t, i, e))
            ELSE IF e.kind = "table" /\ l = 4 /\ e.at = source
                 THEN Result(TRUE, SetEntry(n, t, i, [e EXCEPT !.at = t, !.owned = TRUE]))
            ELSE IF sub.ok
                 THEN Result(TRUE, SetEntry(sub.mem, t, i, [e EXCEPT !.at = NextFrame(n), !.owned = TRUE]))
                 ELSE Result(FALSE, DestroyClonedTable(sub.mem, t))
    BY <1>3, <2>1, <2>5 DEF CopyStep, Leads
  <2>7. t \in Frame /\ t \in X /\ n.table[t][i] = Absent /\ X \subseteq Frame
    <3>1. t \in X /\ X \subseteq m.free /\ i >= i
      BY <2>2, ConstantsAssumption DEF Copied, Index
    <3>2. n.table[t][i] = Absent
      BY <2>2, <3>1 DEF Copied
    <3>3. QED
      BY <3>1, <3>2 DEF Ready, Memory
  <2>8. e.kind \in {"absent", "table", "large", "page"}
    BY <2>5, EntryFields
  <2>9. CASE e.kind = "absent"
    <3>1. o = s
      BY <2>6, <2>9
    <3>2. e = Absent
      BY <2>3, <2>9 DEF BootLevels
    <3>3. RowCopied(n, n, X, t, phi, i)
      BY <2>2, <2>3, <2>5, <2>7, <2>9, <3>2 DEF RowCopied
    <3>4. Copied(lv, m, n, X, t, phi, i + 1)
      BY <2>2, <3>3, CopyRow
    <3>5. QED
      BY <1>1, <1>3, <2>1, <2>2, <3>1, <3>4, Zenon DEF CopyState
  <2>10. CASE Leads(e)
    <3>1. e.kind # "absent" /\ e.kind # "table"
      BY <2>10 DEF Leads
    <3>2. PICK n2 : n2 = SetEntry(n, t, i, e)
      OBVIOUS
    <3>3. o = Result(TRUE, n2)
      BY <2>6, <2>10, <3>1, <3>2
    <3>4. /\ n2 \in Memory /\ n2.free = n.free /\ n2.table[t][i] = e
          /\ \A f \in Frame \cup BootFrame, j \in Index : f # t \/ j # i => n2.table[f][j] = n.table[f][j]
      BY <2>5, <2>7, <3>2, SetEntryIs
    <3>5. RowCopied(n, n2, X, t, phi, i)
      BY <2>2, <2>3, <3>1, <3>4 DEF RowCopied
    <3>6. Copied(lv, m, n2, X, t, phi, i + 1)
      BY <2>2, <3>5, CopyRow
    <3>7. o.ok = TRUE /\ o.mem = n2
      BY <3>3 DEF Result
    <3>8. QED
      BY <2>2, <3>6, <3>7, Zenon DEF CopyState
  <2>11. CASE e.kind = "table"
    <3>1. ~ Leads(e) /\ e.kind # "absent"
      BY <2>11 DEF Leads
    <3>2. lv[source] \in 1..4 /\ e.at \in BootFrame /\ lv[e.at] \in 1..4
      BY <2>3, <2>11 DEF BootLevels
    <3>3. lv[source] = lv[e.at] + 1 \/ IsRecursive(source, i)
      BY <2>3, <2>11 DEF BootLevels
    <3>4. IsRecursive(source, i) <=> l = 4 /\ e.at = source
      <4>1. IsRecursive(source, i) => source = BootRoot /\ e.at = BootRoot
        BY <2>3 DEF IsRecursive
      <4>2. lv[BootRoot] = 4
        BY DEF BootLevels
      <4>3. QED
        BY <3>2, <3>3, <4>1, <4>2
    <3>5. CASE IsRecursive(source, i)
      <4>1. PICK x : x = [e EXCEPT !.at = t, !.owned = TRUE]
        OBVIOUS
      <4>2. x \in Entry /\ x.kind = "table" /\ x.at = t
        BY <2>5, <2>7, <2>11, <4>1 DEF Entry
      <4>3. x.owned /\ (x.user <=> e.user) /\ (x.writable <=> e.writable)
        BY <2>5, <4>1, Zenon DEF Entry
      <4>4. PICK n2 : n2 = SetEntry(n, t, i, x)
        OBVIOUS
      <4>5. /\ n2 \in Memory /\ n2.free = n.free /\ n2.table[t][i] = x
            /\ \A f \in Frame \cup BootFrame, j \in Index : f # t \/ j # i => n2.table[f][j] = n.table[f][j]
        BY <2>5, <2>7, <4>2, <4>4, SetEntryIs
      <4>6. o = Result(TRUE, n2)
        BY <2>6, <2>11, <3>1, <3>4, <3>5, <4>1, <4>4
      <4>7. RowCopied(n, n2, X, t, phi, i)
        BY <2>2, <2>3, <3>5, <4>2, <4>3, <4>5, Zenon DEF RowCopied
      <4>8. Copied(lv, m, n2, X, t, phi, i + 1)
        BY <2>2, <4>7, CopyRow
      <4>9. o.ok = TRUE /\ o.mem = n2
        BY <4>6 DEF Result
      <4>10. QED
        BY <2>2, <4>8, <4>9, Zenon DEF CopyState
    <3>6. CASE ~ IsRecursive(source, i)
      <4>1. PICK u : u = NextFrame(n)
        OBVIOUS
      <4>2. o = IF sub.ok THEN Result(TRUE, SetEntry(sub.mem, t, i, [e EXCEPT !.at = u, !.owned = TRUE]))
                          ELSE Result(FALSE, DestroyClonedTable(sub.mem, t))
        BY <2>6, <2>11, <3>1, <3>4, <3>6, <4>1
      <4>3. CopyState(lv, n, e.at, u, EntryCount, sub)
        BY <1>3, <2>1, <2>3, <2>11, <3>6, <4>1
      <4>4. sub.ok \in BOOLEAN
        BY <4>3 DEF CopyState
      <4>5. CASE ~ sub.ok
        <5>1. sub.mem = n
          BY <4>3, <4>5 DEF CopyState
        <5>2. o = Result(FALSE, DestroyClonedTable(n, t))
          BY <4>2, <4>5, <5>1
        <5>3. DestroyClonedTable(n, t) = m
          BY <2>2, CopyDestroyed
        <5>4. o.ok = FALSE /\ o.mem = m
          BY <5>2, <5>3 DEF Result
        <5>5. QED
          BY <5>4, Zenon DEF CopyState
      <4>6. CASE sub.ok
        <5>1. PICK n1 : n1 = sub.mem
          OBVIOUS
        <5>2. PICK Y, psi : Copied(lv, n, n1, Y, u, psi, EntryCount) /\ psi[u] = e.at
          BY <4>3, <4>6, <5>1 DEF CopyState
        <5>3. n1 \in Memory /\ u \in Frame
          BY <2>4, <5>2 DEF Copied, Ready, Memory
        <5>4. PICK x : x = [e EXCEPT !.at = u, !.owned = TRUE]
          OBVIOUS
        <5>5. x \in Entry /\ x.kind = "table" /\ x.at = u
          BY <2>5, <2>11, <5>3, <5>4 DEF Entry
        <5>6. x.owned /\ (x.user <=> e.user) /\ (x.writable <=> e.writable)
          BY <2>5, <5>4, Zenon DEF Entry
        <5>7. PICK n2 : n2 = SetEntry(n1, t, i, x)
          OBVIOUS
        <5>8. /\ n2 \in Memory /\ n2.free = n1.free /\ n2.table[t][i] = x
              /\ \A f \in Frame \cup BootFrame, j \in Index : f # t \/ j # i => n2.table[f][j] = n1.table[f][j]
          BY <2>7, <5>3, <5>5, <5>7, SetEntryIs
        <5>9. SubCopied(n1, n2, t, phi, i, u)
          BY <2>2, <2>3, <5>5, <5>6, <5>8, Zenon DEF SubCopied
        <5>10. Boot[phi[t]][i].kind = "table" /\ ~ IsRecursive(phi[t], i) /\ psi[u] = Boot[phi[t]][i].at
          BY <2>2, <2>3, <2>11, <3>6, <5>2
        <5>11. \E Z, chi : Copied(lv, m, n2, Z, t, chi, i + 1) /\ chi[t] = phi[t]
          BY <2>2, <5>2, <5>9, <5>10, CopySub
        <5>12. o = Result(TRUE, n2)
          BY <4>2, <4>6, <5>1, <5>4, <5>7
        <5>13. o.ok = TRUE /\ o.mem = n2
          BY <5>12 DEF Result
        <5>14. \E Z, chi : Copied(lv, m, o.mem, Z, t, chi, i + 1) /\ chi[t] = source
          BY <2>2, <5>11, <5>13
        <5>15. QED
          BY <5>13, <5>14, Zenon DEF CopyState
      <4>7. QED
        BY <4>4, <4>5, <4>6
    <3>7. QED
      BY <3>5, <3>6
  <2>12. QED
    BY <2>8, <2>9, <2>10, <2>11 DEF Leads
<1>4. QED
  BY <1>1, <1>2, <1>3

\* clone_table at every level.
CloneAt(l, m, source) ==
    CASE l = 0 -> Clone0(m, source)
      [] l = 1 -> Clone1(m, source)
      [] l = 2 -> Clone2(m, source)
      [] l = 3 -> Clone3(m, source)
      [] l = 4 -> CloneTable(m, source)

\* One turn of the loop at level l.
CopyNext(s, source, t, l, i) == CopyStep(CloneAt(l - 1, s.mem, s.mem.table[source][i].at), s, source, t, l, i)

CopySteps(after, m, source, l) ==
    /\ after[0] = Result(TRUE, Allocate(m))
    /\ \A k \in 1..EntryCount : after[k] = CopyNext(after[k - 1], source, NextFrame(m), l, k - 1)

\* The loop as a recursive function.
CopyLoop(after, m, source, l) ==
    after = [k \in 0..EntryCount |-> IF k = 0 THEN Result(TRUE, Allocate(m))
                                              ELSE CopyNext(after[k - 1], source, NextFrame(m), l, k - 1)]

\* What the recursive function of the loop computes at each turn.
LEMMA CopyLoopSteps ==
    ASSUME NEW m, NEW source, NEW l, NEW after, CopyLoop(after, m, source, l)
    PROVE  CopySteps(after, m, source, l)
<1>1. EntryCount \in Nat
  BY ConstantsAssumption
<1>2. after = [k \in 0..EntryCount |-> IF k = 0 THEN Result(TRUE, Allocate(m))
                                                ELSE CopyNext(after[k - 1], source, NextFrame(m), l, k - 1)]
  BY DEF CopyLoop
<1>3. 0 \in 0..EntryCount /\ \A k \in 1..EntryCount : k \in 0..EntryCount /\ k # 0
  BY <1>1
<1>4. after[0] = Result(TRUE, Allocate(m))
  BY <1>2, <1>3
<1>5. \A k \in 1..EntryCount : after[k] = CopyNext(after[k - 1], source, NextFrame(m), l, k - 1)
  BY <1>2, <1>3
<1>6. QED
  BY <1>4, <1>5 DEF CopySteps

\* The loop of clone_table is a function.
LEMMA CopyLoopExists ==
    ASSUME NEW m, NEW source, NEW l
    PROVE  \E after : CopyLoop(after, m, source, l)
<1> DEFINE G(x, k) == CopyNext(x, source, NextFrame(m), l, k - 1)
           a == Result(TRUE, Allocate(m))
           P(n) == \E f : f = [k \in 0..n |-> IF k = 0 THEN a ELSE G(f[k - 1], k)]
           S == {n \in Nat : P(n)}
<1>1. EntryCount \in Nat
  BY ConstantsAssumption
<1>2. SUFFICES P(EntryCount)
  BY DEF CopyLoop
<1> HIDE DEF G, a
<1>3. P(0)
  <2>1. PICK f : f = [k \in 0..0 |-> a]
    OBVIOUS
  <2>2. f = [k \in 0..0 |-> IF k = 0 THEN a ELSE G(f[k - 1], k)]
    BY <2>1
  <2>3. QED
    BY <2>2
<1>4. ASSUME NEW n \in Nat, P(n) PROVE P(n + 1)
  <2>1. PICK f : f = [k \in 0..n |-> IF k = 0 THEN a ELSE G(f[k - 1], k)]
    BY <1>4
  <2>2. PICK h : h = [k \in 0..(n + 1) |-> IF k = n + 1 THEN G(f[n], n + 1) ELSE f[k]]
    OBVIOUS
  <2>3. ASSUME NEW k \in 0..(n + 1) PROVE h[k] = IF k = 0 THEN a ELSE G(h[k - 1], k)
    <3>1. CASE k = 0
      BY <2>1, <2>2, <3>1
    <3>2. CASE k # 0
      <4>1. k - 1 \in 0..n /\ k - 1 # n + 1 /\ k - 1 \in 0..(n + 1)
        BY <3>2
      <4>2. h[k - 1] = f[k - 1]
        BY <2>2, <4>1
      <4>3. CASE k = n + 1
        BY <2>2, <3>2, <4>2, <4>3
      <4>4. CASE k # n + 1
        <5>1. k \in 0..n
          BY <4>4
        <5>2. h[k] = f[k] /\ f[k] = G(f[k - 1], k)
          BY <2>1, <2>2, <3>2, <4>4, <5>1
        <5>3. QED
          BY <3>2, <4>2, <5>2
      <4>5. QED
        BY <4>3, <4>4
    <3>3. QED
      BY <3>1, <3>2
  <2>4. h = [k \in 0..(n + 1) |-> IF k = 0 THEN a ELSE G(h[k - 1], k)]
    BY <2>2, <2>3
  <2>5. QED
    BY <2>4
<1>5. \A n \in Nat : n \in S
  <2>1. S \in SUBSET Nat /\ 0 \in S
    BY <1>3
  <2>2. ASSUME NEW n \in S PROVE n + 1 \in S
    <3>1. n \in Nat /\ P(n)
      OBVIOUS
    <3>2. P(n + 1)
      BY <1>4, <3>1
    <3>3. n + 1 \in Nat
      BY <3>1
    <3>4. QED
      BY <3>2, <3>3
  <2> HIDE DEF S
  <2>3. QED
    BY <2>1, <2>2, SetInduction
<1>6. QED
  BY <1>1, <1>5

\* A whole copy, or the memory as it was.
CloneGood(lv, l) ==
    \A m \in Memory, source \in BootFrame :
        Ready(m) /\ lv[source] = l => CopyState(lv, m, source, NextFrame(m), EntryCount, CloneAt(l, m, source))

\* The loop of clone_table copies a whole table, or undoes what it copied.
LEMMA CopyLoopIs ==
    ASSUME NEW lv, BootLevels(lv), NEW l \in 1..4, l = 1 \/ CloneGood(lv, l - 1),
           NEW m, Ready(m), m.free # {}, NEW source \in BootFrame, lv[source] = l,
           NEW after, CopySteps(after, m, source, l)
    PROVE  CopyState(lv, m, source, NextFrame(m), EntryCount, after[EntryCount])
<1>1. PICK t : t = NextFrame(m)
  OBVIOUS
<1>2. /\ after[0] = Result(TRUE, Allocate(m))
      /\ \A k \in 1..EntryCount : after[k] = CopyNext(after[k - 1], source, t, l, k - 1)
  BY <1>1 DEF CopySteps
<1>3. CopyState(lv, m, source, t, 0, after[0])
  <2>1. PICK n, phi : n = Allocate(m) /\ phi = [f \in {t} |-> source]
    OBVIOUS
  <2>2. Copied(lv, m, n, {t}, t, phi, 0) /\ phi[t] = source
    BY <1>1, <2>1, CopyStart
  <2>3. after[0].ok = TRUE /\ after[0].mem = n
    BY <1>2, <2>1 DEF Result
  <2>4. QED
    BY <2>2, <2>3, Zenon DEF CopyState
<1>4. ASSUME NEW i \in Index, NEW s, CopyState(lv, m, source, t, i, s)
      PROVE  CopyState(lv, m, source, t, i + 1, CopyNext(s, source, t, l, i))
  <2>1. PICK e, sub, o : /\ e = Boot[source][i]
                         /\ sub = CloneAt(l - 1, s.mem, s.mem.table[source][i].at)
                         /\ o = CopyStep(sub, s, source, t, l, i)
    OBVIOUS
  <2>2. o = CopyNext(s, source, t, l, i)
    BY <2>1 DEF CopyNext
  <2>3. CASE s.ok /\ e.kind = "table" /\ ~ IsRecursive(source, i)
    <3>1. PICK n : n = s.mem
      OBVIOUS
    <3>2. Ready(n)
      BY <1>4, <2>3, <3>1, CopyReady DEF CopyState
    <3>3. n.table[source][i] = e /\ n \in Memory
      BY <2>1, <3>2 DEF Ready
    <3>4. lv[source] = lv[e.at] + 1 /\ e.at \in BootFrame /\ lv[e.at] \in 1..4
      BY <2>1, <2>3 DEF BootLevels
    <3>5. lv[e.at] = l - 1 /\ l # 1
      BY <3>4
    <3>6. CopyState(lv, n, e.at, NextFrame(n), EntryCount, CloneAt(l - 1, n, e.at))
      BY <3>2, <3>3, <3>4, <3>5 DEF CloneGood
    <3>7. CopyState(lv, s.mem, e.at, NextFrame(s.mem), EntryCount, sub)
      BY <2>1, <3>1, <3>3, <3>6
    <3>8. CopyState(lv, m, source, t, i + 1, o)
      BY <1>4, <2>1, <3>7, CopyStepIs
    <3>9. QED
      BY <2>2, <3>8
  <2>4. CASE ~ (s.ok /\ e.kind = "table" /\ ~ IsRecursive(source, i))
    <3>1. CopyState(lv, m, source, t, i + 1, o)
      BY <1>4, <2>1, <2>4, CopyStepIs
    <3>2. QED
      BY <2>2, <3>1
  <2>5. QED
    BY <2>3, <2>4
<1>5. EntryCount \in Nat
  BY ConstantsAssumption
<1>6. PICK S : S = {k \in Nat : k <= EntryCount => CopyState(lv, m, source, t, k, after[k])}
  OBVIOUS
<1>7. S \in SUBSET Nat /\ 0 \in S
  BY <1>3, <1>6
<1>8. ASSUME NEW k \in S PROVE k + 1 \in S
  <2>1. k \in Nat /\ (k <= EntryCount => CopyState(lv, m, source, t, k, after[k]))
    BY <1>6
  <2>2. SUFFICES ASSUME k + 1 <= EntryCount PROVE CopyState(lv, m, source, t, k + 1, after[k + 1])
    BY <1>6, <2>1
  <2>3. PICK h : h = k + 1
    OBVIOUS
  <2>4. h \in 1..EntryCount /\ h - 1 = k /\ k <= EntryCount /\ k \in Index
    BY <1>5, <2>1, <2>2, <2>3 DEF Index
  <2>5. after[h] = CopyNext(after[h - 1], source, t, l, h - 1)
    BY <1>2, <2>4
  <2>6. CopyState(lv, m, source, t, k + 1, CopyNext(after[k], source, t, l, k))
    BY <1>4, <2>1, <2>4
  <2>7. QED
    BY <2>3, <2>4, <2>5, <2>6
<1>9. EntryCount \in S
  BY <1>5, <1>7, <1>8, SetInduction
<1>10. QED
  BY <1>1, <1>5, <1>6, <1>9

\* clone_table at level l is its loop, if there is a frame.
LoopGood(l) ==
    \A m, source :
        /\ m.free # {} => \E after : CopySteps(after, m, source, l) /\ CloneAt(l, m, source) = after[EntryCount]
        /\ m.free = {} => CloneAt(l, m, source) = Result(FALSE, m)

\* The entries a table of level l needs a copy for are none at level 1.
LEMMA CloneStep ==
    ASSUME NEW lv, BootLevels(lv), NEW l \in 1..4, l = 1 \/ CloneGood(lv, l - 1), LoopGood(l)
    PROVE  CloneGood(lv, l)
<1> SUFFICES ASSUME NEW m \in Memory, NEW source \in BootFrame, Ready(m), lv[source] = l
             PROVE  CopyState(lv, m, source, NextFrame(m), EntryCount, CloneAt(l, m, source))
  BY DEF CloneGood
<1>1. CASE m.free = {}
  <2>1. CloneAt(l, m, source) = Result(FALSE, m)
    BY <1>1 DEF LoopGood
  <2>2. CloneAt(l, m, source).ok = FALSE /\ CloneAt(l, m, source).mem = m
    BY <2>1 DEF Result
  <2>3. QED
    BY <2>2, Zenon DEF CopyState
<1>2. CASE m.free # {}
  <2>1. PICK after : CopySteps(after, m, source, l) /\ CloneAt(l, m, source) = after[EntryCount]
    BY <1>2 DEF LoopGood
  <2>2. CopyState(lv, m, source, NextFrame(m), EntryCount, after[EntryCount])
    BY <1>2, <2>1, CopyLoopIs
  <2>3. QED
    BY <2>1, <2>2
<1>3. QED
  BY <1>1, <1>2

\* clone_table at the last level,
LEMMA Clone1Loop == LoopGood(1)
<1> SUFFICES ASSUME NEW m, NEW source
             PROVE  /\ m.free # {} => \E after : /\ CopySteps(after, m, source, 1)
                                                /\ CloneAt(1, m, source) = after[EntryCount]
                    /\ m.free = {} => CloneAt(1, m, source) = Result(FALSE, m)
  BY DEF LoopGood
<1> DEFINE G(s, i) == CopyEntry(Clone0, s, source, NextFrame(m), 1, i)
           H(s, i) == CopyNext(s, source, NextFrame(m), 1, i)
           a == Result(TRUE, Allocate(m))
           Loop(g) == g = [k \in 0..EntryCount |-> IF k = 0 THEN a ELSE G(g[k - 1], k - 1)]
<1>1. CloneAt(1, m, source) = IF m.free = {} THEN Result(FALSE, m) ELSE (CHOOSE g : Loop(g))[EntryCount]
  <2>1. CloneAt(1, m, source) = Clone1(m, source)
    BY DEF CloneAt
  <2>2. Clone1(m, source) = IF m.free = {} THEN Result(FALSE, m) ELSE (CHOOSE g : Loop(g))[EntryCount]
    BY DEF Clone1, Cloning
  <2>3. QED
    BY <2>1, <2>2
<1>2. 1 - 1 = 0 /\ \A q, e : CloneAt(0, q, e) = Clone0(q, e)
  BY DEF CloneAt
<1>3. \A s, i : H(s, i) = G(s, i)
  BY <1>2 DEF CopyNext, CopyStep, CopyEntry
<1>4. \A g : CopyLoop(g, m, source, 1) <=>
              g = [k \in 0..EntryCount |-> IF k = 0 THEN a ELSE H(g[k - 1], k - 1)]
  BY DEF CopyLoop
<1> HIDE DEF G, H, a
<1>5. \A g : [k \in 0..EntryCount |-> IF k = 0 THEN a ELSE H(g[k - 1], k - 1)] =
             [k \in 0..EntryCount |-> IF k = 0 THEN a ELSE G(g[k - 1], k - 1)]
  BY <1>3
<1>6. \A g : CopyLoop(g, m, source, 1) <=> Loop(g)
  BY <1>4, <1>5
<1> HIDE DEF Loop
<1>7. ASSUME m.free # {}
      PROVE  \E after : CopySteps(after, m, source, 1) /\ CloneAt(1, m, source) = after[EntryCount]
  <2>1. PICK f : CopyLoop(f, m, source, 1)
    BY CopyLoopExists
  <2>2. PICK after : after = CHOOSE g : Loop(g)
    OBVIOUS
  <2>3. Loop(after)
    BY <1>6, <2>1, <2>2
  <2>4. CopySteps(after, m, source, 1)
    BY <1>6, <2>3, CopyLoopSteps
  <2>5. QED
    BY <1>1, <1>7, <2>2, <2>4
<1>8. QED
  BY <1>1, <1>7

\* at the one above it,
LEMMA Clone2Loop == LoopGood(2)
<1> SUFFICES ASSUME NEW m, NEW source
             PROVE  /\ m.free # {} => \E after : /\ CopySteps(after, m, source, 2)
                                                /\ CloneAt(2, m, source) = after[EntryCount]
                    /\ m.free = {} => CloneAt(2, m, source) = Result(FALSE, m)
  BY DEF LoopGood
<1> DEFINE G(s, i) == CopyEntry(Clone1, s, source, NextFrame(m), 2, i)
           H(s, i) == CopyNext(s, source, NextFrame(m), 2, i)
           a == Result(TRUE, Allocate(m))
           Loop(g) == g = [k \in 0..EntryCount |-> IF k = 0 THEN a ELSE G(g[k - 1], k - 1)]
<1>1. CloneAt(2, m, source) = IF m.free = {} THEN Result(FALSE, m) ELSE (CHOOSE g : Loop(g))[EntryCount]
  <2>1. CloneAt(2, m, source) = Clone2(m, source)
    BY DEF CloneAt
  <2>2. Clone2(m, source) = IF m.free = {} THEN Result(FALSE, m) ELSE (CHOOSE g : Loop(g))[EntryCount]
    BY DEF Clone2, Cloning
  <2>3. QED
    BY <2>1, <2>2
<1>2. 2 - 1 = 1 /\ \A q, e : CloneAt(1, q, e) = Clone1(q, e)
  BY DEF CloneAt
<1>3. \A s, i : H(s, i) = G(s, i)
  BY <1>2 DEF CopyNext, CopyStep, CopyEntry
<1>4. \A g : CopyLoop(g, m, source, 2) <=>
              g = [k \in 0..EntryCount |-> IF k = 0 THEN a ELSE H(g[k - 1], k - 1)]
  BY DEF CopyLoop
<1> HIDE DEF G, H, a
<1>5. \A g : [k \in 0..EntryCount |-> IF k = 0 THEN a ELSE H(g[k - 1], k - 1)] =
             [k \in 0..EntryCount |-> IF k = 0 THEN a ELSE G(g[k - 1], k - 1)]
  BY <1>3
<1>6. \A g : CopyLoop(g, m, source, 2) <=> Loop(g)
  BY <1>4, <1>5
<1> HIDE DEF Loop
<1>7. ASSUME m.free # {}
      PROVE  \E after : CopySteps(after, m, source, 2) /\ CloneAt(2, m, source) = after[EntryCount]
  <2>1. PICK f : CopyLoop(f, m, source, 2)
    BY CopyLoopExists
  <2>2. PICK after : after = CHOOSE g : Loop(g)
    OBVIOUS
  <2>3. Loop(after)
    BY <1>6, <2>1, <2>2
  <2>4. CopySteps(after, m, source, 2)
    BY <1>6, <2>3, CopyLoopSteps
  <2>5. QED
    BY <1>1, <1>7, <2>2, <2>4
<1>8. QED
  BY <1>1, <1>7

\* at the third,
LEMMA Clone3Loop == LoopGood(3)
<1> SUFFICES ASSUME NEW m, NEW source
             PROVE  /\ m.free # {} => \E after : /\ CopySteps(after, m, source, 3)
                                                /\ CloneAt(3, m, source) = after[EntryCount]
                    /\ m.free = {} => CloneAt(3, m, source) = Result(FALSE, m)
  BY DEF LoopGood
<1> DEFINE G(s, i) == CopyEntry(Clone2, s, source, NextFrame(m), 3, i)
           H(s, i) == CopyNext(s, source, NextFrame(m), 3, i)
           a == Result(TRUE, Allocate(m))
           Loop(g) == g = [k \in 0..EntryCount |-> IF k = 0 THEN a ELSE G(g[k - 1], k - 1)]
<1>1. CloneAt(3, m, source) = IF m.free = {} THEN Result(FALSE, m) ELSE (CHOOSE g : Loop(g))[EntryCount]
  <2>1. CloneAt(3, m, source) = Clone3(m, source)
    BY DEF CloneAt
  <2>2. Clone3(m, source) = IF m.free = {} THEN Result(FALSE, m) ELSE (CHOOSE g : Loop(g))[EntryCount]
    BY DEF Clone3, Cloning
  <2>3. QED
    BY <2>1, <2>2
<1>2. 3 - 1 = 2 /\ \A q, e : CloneAt(2, q, e) = Clone2(q, e)
  BY DEF CloneAt
<1>3. \A s, i : H(s, i) = G(s, i)
  BY <1>2 DEF CopyNext, CopyStep, CopyEntry
<1>4. \A g : CopyLoop(g, m, source, 3) <=>
              g = [k \in 0..EntryCount |-> IF k = 0 THEN a ELSE H(g[k - 1], k - 1)]
  BY DEF CopyLoop
<1> HIDE DEF G, H, a
<1>5. \A g : [k \in 0..EntryCount |-> IF k = 0 THEN a ELSE H(g[k - 1], k - 1)] =
             [k \in 0..EntryCount |-> IF k = 0 THEN a ELSE G(g[k - 1], k - 1)]
  BY <1>3
<1>6. \A g : CopyLoop(g, m, source, 3) <=> Loop(g)
  BY <1>4, <1>5
<1> HIDE DEF Loop
<1>7. ASSUME m.free # {}
      PROVE  \E after : CopySteps(after, m, source, 3) /\ CloneAt(3, m, source) = after[EntryCount]
  <2>1. PICK f : CopyLoop(f, m, source, 3)
    BY CopyLoopExists
  <2>2. PICK after : after = CHOOSE g : Loop(g)
    OBVIOUS
  <2>3. Loop(after)
    BY <1>6, <2>1, <2>2
  <2>4. CopySteps(after, m, source, 3)
    BY <1>6, <2>3, CopyLoopSteps
  <2>5. QED
    BY <1>1, <1>7, <2>2, <2>4
<1>8. QED
  BY <1>1, <1>7

\* and at the top level is the loop.
LEMMA CloneTableLoop == LoopGood(4)
<1> SUFFICES ASSUME NEW m, NEW source
             PROVE  /\ m.free # {} => \E after : /\ CopySteps(after, m, source, 4)
                                                /\ CloneAt(4, m, source) = after[EntryCount]
                    /\ m.free = {} => CloneAt(4, m, source) = Result(FALSE, m)
  BY DEF LoopGood
<1> DEFINE G(s, i) == CopyEntry(Clone3, s, source, NextFrame(m), 4, i)
           H(s, i) == CopyNext(s, source, NextFrame(m), 4, i)
           a == Result(TRUE, Allocate(m))
           Loop(g) == g = [k \in 0..EntryCount |-> IF k = 0 THEN a ELSE G(g[k - 1], k - 1)]
<1>1. CloneAt(4, m, source) = IF m.free = {} THEN Result(FALSE, m) ELSE (CHOOSE g : Loop(g))[EntryCount]
  <2>1. CloneAt(4, m, source) = CloneTable(m, source)
    BY DEF CloneAt
  <2>2. CloneTable(m, source) = IF m.free = {} THEN Result(FALSE, m) ELSE (CHOOSE g : Loop(g))[EntryCount]
    BY DEF CloneTable, Cloning
  <2>3. QED
    BY <2>1, <2>2
<1>2. 4 - 1 = 3 /\ \A q, e : CloneAt(3, q, e) = Clone3(q, e)
  BY DEF CloneAt
<1>3. \A s, i : H(s, i) = G(s, i)
  BY <1>2 DEF CopyNext, CopyStep, CopyEntry
<1>4. \A g : CopyLoop(g, m, source, 4) <=>
              g = [k \in 0..EntryCount |-> IF k = 0 THEN a ELSE H(g[k - 1], k - 1)]
  BY DEF CopyLoop
<1> HIDE DEF G, H, a
<1>5. \A g : [k \in 0..EntryCount |-> IF k = 0 THEN a ELSE H(g[k - 1], k - 1)] =
             [k \in 0..EntryCount |-> IF k = 0 THEN a ELSE G(g[k - 1], k - 1)]
  BY <1>3
<1>6. \A g : CopyLoop(g, m, source, 4) <=> Loop(g)
  BY <1>4, <1>5
<1> HIDE DEF Loop
<1>7. ASSUME m.free # {}
      PROVE  \E after : CopySteps(after, m, source, 4) /\ CloneAt(4, m, source) = after[EntryCount]
  <2>1. PICK f : CopyLoop(f, m, source, 4)
    BY CopyLoopExists
  <2>2. PICK after : after = CHOOSE g : Loop(g)
    OBVIOUS
  <2>3. Loop(after)
    BY <1>6, <2>1, <2>2
  <2>4. CopySteps(after, m, source, 4)
    BY <1>6, <2>3, CopyLoopSteps
  <2>5. QED
    BY <1>1, <1>7, <2>2, <2>4
<1>8. QED
  BY <1>1, <1>7

\* clone_table, from the top level.
LEMMA CloneTableIs ==
    ASSUME NEW lv, BootLevels(lv), NEW m, Ready(m), NEW o, o = CloneTable(m, BootRoot)
    PROVE  CopyState(lv, m, BootRoot, NextFrame(m), EntryCount, o)
<1>1. 1 \in 1..4 /\ 2 \in 1..4 /\ 3 \in 1..4 /\ 4 \in 1..4 /\ 2 - 1 = 1 /\ 3 - 1 = 2 /\ 4 - 1 = 3
  OBVIOUS
<1>2. CloneGood(lv, 1)
  BY <1>1, Clone1Loop, CloneStep, Zenon
<1>3. CloneGood(lv, 2)
  BY <1>1, <1>2, Clone2Loop, CloneStep, Zenon
<1>4. CloneGood(lv, 3)
  BY <1>1, <1>3, Clone3Loop, CloneStep, Zenon
<1>5. CloneGood(lv, 4)
  BY <1>1, <1>4, CloneTableLoop, CloneStep, Zenon
<1>6. m \in Memory /\ BootRoot \in BootFrame /\ lv[BootRoot] = 4
  BY ConstantsAssumption DEF Ready, BootLevels
<1>7. CloneAt(4, m, BootRoot) = o
  BY DEF CloneAt
<1>8. QED
  BY <1>5, <1>6, <1>7 DEF CloneGood

\* The copy of the boot hierarchy is well-formed.
LEMMA CopyWell ==
    ASSUME NEW lv, BootLevels(lv), NEW m, Ready(m), \A f \in Frame : m.table[f] = EmptyTable,
           NEW n, NEW X, NEW K, NEW phi, Copied(lv, m, n, X, K, phi, EntryCount), phi[K] = BootRoot
    PROVE  \E level : Well(n.table, X, {K}, K, level, {})
<1>1. /\ n \in Memory /\ X \subseteq m.free /\ n.free = m.free \ X /\ K \in X /\ phi \in [X -> BootFrame]
      /\ \A f \in X \ {K} : lv[phi[f]] < lv[phi[K]]
      /\ \A f \in Frame \cup BootFrame : f \notin X => n.table[f] = m.table[f]
      /\ \A f \in X, j \in Index :
            IF f = K /\ j >= EntryCount THEN n.table[f][j] = Absent ELSE EntryCopied(n.table, X, K, phi, f, j)
      /\ \A f \in X \ {K} : \E g \in X, j \in Index : n.table[g][j].kind = "table" /\ n.table[g][j].at = f
      /\ \A f, g \in X, h, j \in Index :
            n.table[f][h].kind = "table" /\ n.table[g][j].kind = "table" /\ n.table[f][h].at = n.table[g][j].at
                => f = g /\ h = j
  BY DEF Copied
<1>2. PICK T, R : T = n.table /\ R = {K}
  OBVIOUS
<1>3. PICK level : level = [f \in Frame |-> IF f \in X THEN lv[phi[f]] ELSE 1]
  OBVIOUS
<1>4. X \subseteq Frame /\ T \in TablesIn
  BY <1>1, <1>2 DEF Ready, Memory
<1>5. \A f \in X : phi[f] \in BootFrame /\ lv[phi[f]] \in 1..4 /\ level[f] = lv[phi[f]]
  BY <1>1, <1>3, <1>4 DEF BootLevels
<1>6. level \in [Frame -> 1..4]
  BY <1>3, <1>5
<1>7. \A f \in X, j \in Index : EntryCopied(T, X, K, phi, f, j)
  BY <1>1, <1>2, ConstantsAssumption DEF Index
<1>8. lv[phi[K]] = 4
  BY DEF BootLevels
<1>9. \A f \in X : level[f] = 4 <=> f = K
  BY <1>1, <1>5, <1>8
<1>10. Sets(T, X, R, K, level, {})
  BY <1>1, <1>2, <1>4, <1>6 DEF Sets
<1>11. Leveled(T, X, R, K, level)
  <2> SUFFICES ASSUME NEW f \in X, NEW i \in Index
               PROVE  /\ T[f][i].kind = "absent" => T[f][i] = Absent
                      /\ T[f][i].kind = "page" => level[f] = 1
                      /\ T[f][i].kind = "large" => level[f] \in {2, 3}
                      /\ IsTable(T, f, i) =>
                           /\ T[f][i].at \in X
                           /\ T[f][i].owned
                           /\ level[f] = level[T[f][i].at] + 1 \/ SelfEntry(T, R, K, f, i)
    BY <1>2, <1>9 DEF Leveled
  <2>1. EntryCopied(T, X, K, phi, f, i) /\ phi[f] \in BootFrame
    BY <1>5, <1>7
  <2>2. CASE Boot[phi[f]][i].kind # "table"
    <3>1. T[f][i] = Boot[phi[f]][i]
      BY <2>1, <2>2 DEF EntryCopied
    <3>2. QED
      BY <1>5, <2>1, <2>2, <3>1 DEF BootLevels, IsTable
  <2>3. CASE Boot[phi[f]][i].kind = "table"
    <3>1. T[f][i].kind = "table" /\ T[f][i].owned /\ T[f][i].at \in X
      BY <2>1, <2>3 DEF EntryCopied
    <3>2. /\ Boot[phi[f]][i].at \in BootFrame /\ lv[Boot[phi[f]][i].at] \in 1..4
          /\ lv[phi[f]] = lv[Boot[phi[f]][i].at] + 1 \/ (IsRecursive(phi[f], i) /\ i >= KernelFirst)
      BY <2>1, <2>3 DEF BootLevels
    <3>3. CASE IsRecursive(phi[f], i)
      <4>1. phi[f] = BootRoot /\ Boot[phi[f]][i].at = BootRoot /\ T[f][i].at = K
        BY <2>1, <2>3, <3>3 DEF IsRecursive, EntryCopied
      <4>2. f = K /\ i >= KernelFirst
        BY <1>5, <1>9, <3>2, <4>1 DEF BootLevels
      <4>3. SelfEntry(T, R, K, f, i)
        BY <1>2, <3>3, <4>1, <4>2 DEF SelfEntry
      <4>4. QED
        BY <3>1, <4>3
    <3>4. CASE ~ IsRecursive(phi[f], i)
      <4>1. phi[T[f][i].at] = Boot[phi[f]][i].at
        BY <2>1, <2>3, <3>4 DEF EntryCopied
      <4>2. level[f] = level[T[f][i].at] + 1
        BY <1>5, <3>1, <3>2, <3>4, <4>1
      <4>3. QED
        BY <3>1, <4>2
    <3>5. QED
      BY <3>3, <3>4
  <2>4. QED
    BY <2>2, <2>3
<1>12. Held(T, X, R)
  BY <1>1, <1>2 DEF Held, IsTable
<1>13. Single(T, X, R)
  BY <1>1, <1>2 DEF Single, IsTable
<1>14. Owned(T, X, R, K, {})
  BY <1>2 DEF Owned, Lower
<1>15. Shared(T, R, K)
  BY <1>2 DEF Shared
<1>16. Blank(T, X)
  BY <1>1, <1>2 DEF Blank
<1>17. Well(T, X, R, K, level, {})
  BY <1>10, <1>11, <1>12, <1>13, <1>14, <1>15, <1>16 DEF Well
<1>18. QED
  BY <1>2, <1>17

\* At depth d a walk b through the boot tables and the same walk z through tables T, which has
\* the tables X for those of the boot loader.
Twin(X, phi, b, z) ==
    /\ b \in Entry
    /\ b.kind # "table" => z = b
    /\ b.kind = "table" =>
        /\ z \in Entry /\ z.kind = "table" /\ z.at \in X /\ phi[z.at] = b.at
        /\ z.user <=> b.user
        /\ z.writable <=> b.writable
    /\ Leads(b) => ~ b.owned

\* Tables with the entries of the boot tables.
Mirror(T, X, phi, r) ==
    /\ r \in X /\ phi \in [X -> BootFrame] /\ phi[r] = BootRoot
    /\ \A f \in X, i \in Index : T[f][i] \in Entry
    /\ \A f \in X, i \in Index : ~ IsRecursive(phi[f], i) =>
        /\ Boot[phi[f]][i].kind # "table" => T[f][i] = Boot[phi[f]][i]
        /\ Boot[phi[f]][i].kind = "table" =>
            /\ T[f][i].kind = "table" /\ T[f][i].at \in X /\ phi[T[f][i].at] = Boot[phi[f]][i].at
            /\ T[f][i].user <=> Boot[phi[f]][i].user
            /\ T[f][i].writable <=> Boot[phi[f]][i].writable

\* An entry of a copy is the twin of the one it was copied from.
LEMMA TwinEntry ==
    ASSUME NEW lv, BootLevels(lv), NEW T, NEW X, NEW phi, NEW r, Mirror(T, X, phi, r),
           NEW f \in X, NEW i \in Index, ~ IsRecursive(phi[f], i)
    PROVE  /\ Twin(X, phi, Boot[phi[f]][i], T[f][i])
           /\ Boot[phi[f]][i].kind = "table" => lv[phi[f]] = lv[Boot[phi[f]][i].at] + 1
<1>1. phi[f] \in BootFrame
  BY DEF Mirror
<1>2. PICK b, z : b = Boot[phi[f]][i] /\ z = T[f][i]
  OBVIOUS
<1>3. b \in Entry /\ z \in Entry
  BY <1>1, <1>2, BootEntries DEF Mirror
<1>4. Leads(b) => ~ b.owned
  BY <1>1, <1>2 DEF BootLevels
<1>5. b.kind = "table" => lv[phi[f]] = lv[b.at] + 1
  BY <1>1, <1>2 DEF BootLevels
<1>6. /\ b.kind # "table" => z = b
      /\ b.kind = "table" =>
            /\ z.kind = "table" /\ z.at \in X /\ phi[z.at] = b.at
            /\ z.user <=> b.user
            /\ z.writable <=> b.writable
  BY <1>2, Zenon DEF Mirror
<1>7. Twin(X, phi, b, z)
  BY <1>3, <1>4, <1>6, Zenon DEF Twin
<1>8. QED
  BY <1>2, <1>5, <1>7

\* Twins lead to twins one level further down.
LEMMA TwinUnder ==
    ASSUME NEW lv, BootLevels(lv), NEW T, NEW X, NEW phi, NEW r, Mirror(T, X, phi, r),
           NEW b, NEW z, Twin(X, phi, b, z), NEW i \in Index, NEW l \in 0..3, b.kind = "table" => lv[b.at] = l
    PROVE  /\ Twin(X, phi, Under(Boot, b, i), Under(T, z, i))
           /\ Under(Boot, b, i).kind = "table" => lv[Under(Boot, b, i).at] = l - 1
<1>1. CASE b.kind # "table"
  <2>1. z = b
    BY <1>1 DEF Twin
  <2>2. Under(Boot, b, i) = b /\ Under(T, z, i) = z
    BY <1>1, <2>1 DEF Under
  <2>3. QED
    BY <1>1, <2>1, <2>2
<1>2. CASE b.kind = "table"
  <2>1. /\ z \in Entry /\ z.kind = "table" /\ z.at \in X /\ phi[z.at] = b.at
        /\ z.user <=> b.user
        /\ z.writable <=> b.writable
        /\ b \in Entry
    BY <1>2, Zenon DEF Twin
  <2>2. PICK f : f = z.at
    OBVIOUS
  <2>3. f \in X /\ phi[f] = b.at /\ lv[phi[f]] = l /\ phi[f] \in BootFrame
    BY <1>2, <2>1, <2>2 DEF Mirror
  <2>4. ~ IsRecursive(phi[f], i)
    BY <2>3 DEF IsRecursive, BootLevels
  <2>5. PICK c, y : c = Boot[b.at][i] /\ y = T[f][i]
    OBVIOUS
  <2>6. Twin(X, phi, c, y) /\ (c.kind = "table" => l = lv[c.at] + 1)
    BY <2>3, <2>4, <2>5, TwinEntry
  <2>7. c \in Entry /\ y \in Entry
    BY <2>3, <2>5, BootEntries DEF Mirror
  <2>8. PICK bb, zz : bb = Under(Boot, b, i) /\ zz = Under(T, z, i)
    OBVIOUS
  <2>9. /\ bb \in Entry /\ bb.kind = c.kind /\ bb.at = c.at /\ bb.owned = c.owned
        /\ bb.user <=> c.user /\ b.user
        /\ bb.writable <=> c.writable /\ b.writable
    BY <1>2, <2>1, <2>5, <2>7, <2>8, UnderFields
  <2>10. /\ zz \in Entry /\ zz.kind = y.kind /\ zz.at = y.at /\ zz.owned = y.owned
         /\ zz.user <=> y.user /\ z.user
         /\ zz.writable <=> y.writable /\ z.writable
    BY <2>1, <2>2, <2>5, <2>7, <2>8, UnderFields
  <2>11. c.kind # "table" => zz = bb
    <3> SUFFICES ASSUME c.kind # "table" PROVE zz = bb
      OBVIOUS
    <3>1. y = c
      BY <2>6 DEF Twin
    <3>2. zz.kind = bb.kind /\ zz.at = bb.at /\ zz.owned = bb.owned
      BY <2>9, <2>10, <3>1
    <3>3. (zz.user <=> bb.user) /\ (zz.writable <=> bb.writable)
      BY <2>1, <2>9, <2>10, <3>1, Zenon
    <3>4. zz.user \in BOOLEAN /\ bb.user \in BOOLEAN /\ zz.writable \in BOOLEAN /\ bb.writable \in BOOLEAN
      BY <2>9, <2>10, EntryFields
    <3>5. zz.user = bb.user /\ zz.writable = bb.writable
      BY <3>3, <3>4
    <3>6. QED
      BY <2>9, <2>10, <3>2, <3>5, EntryEqual
  <2>12. c.kind = "table" =>
            /\ y.kind = "table" /\ y.at \in X /\ phi[y.at] = c.at
            /\ y.user <=> c.user
            /\ y.writable <=> c.writable
    BY <2>6, Zenon DEF Twin
  <2>13. Leads(bb) => ~ bb.owned
    <3>1. Leads(c) => ~ c.owned
      BY <2>6 DEF Twin
    <3>2. QED
      BY <2>9, <3>1 DEF Leads
  <2>14. Twin(X, phi, bb, zz)
    BY <2>1, <2>9, <2>10, <2>11, <2>12, <2>13, Zenon DEF Twin
  <2>15. bb.kind = "table" => lv[bb.at] = l - 1
    <3>1. c.kind = "table" => c.at \in BootFrame /\ lv[c.at] \in 1..4
      BY <2>3, <2>5 DEF BootLevels
    <3>2. QED
      BY <2>6, <2>9, <3>1
  <2>16. QED
    BY <2>8, <2>14, <2>15
<1>3. QED
  BY <1>1, <1>2

\* The copy translates every address as the boot tables do.
LEMMA MirrorTranslation ==
    ASSUME NEW lv, BootLevels(lv), NEW T, NEW X, NEW phi, NEW r, Mirror(T, X, phi, r), NEW va \in Plain
    PROVE  /\ TranslateIn(T, r, va) = TranslateIn(Boot, BootRoot, va)
           /\ Leads(TranslateIn(Boot, BootRoot, va)) => ~ TranslateIn(Boot, BootRoot, va).owned
           /\ TranslateIn(Boot, BootRoot, va).kind # "table"
<1>1. PICK b, z : b = Walk(Boot, BootRoot, va) /\ z = Walk(T, r, va)
  OBVIOUS
<1>2. /\ b[1] = Boot[BootRoot][va[1]]
      /\ \A d \in 1..3 : b[d + 1] = Under(Boot, b[d], va[d + 1])
      /\ TranslateIn(Boot, BootRoot, va) = b[4]
  BY <1>1, WalkSteps
<1>3. /\ z[1] = T[r][va[1]]
      /\ \A d \in 1..3 : z[d + 1] = Under(T, z[d], va[d + 1])
      /\ TranslateIn(T, r, va) = z[4]
  BY <1>1, WalkSteps
<1>4. /\ va[1] \in Index /\ va[2] \in Index /\ va[3] \in Index /\ va[4] \in Index
      /\ ~ IsRecursive(BootRoot, va[1])
  BY DEF Plain, Page
<1>5. r \in X /\ phi[r] = BootRoot /\ lv[BootRoot] = 4
  BY DEF Mirror, BootLevels
<1>6. Twin(X, phi, b[1], z[1]) /\ (b[1].kind = "table" => lv[b[1].at] = 3)
  <2>1. Twin(X, phi, b[1], z[1]) /\ (b[1].kind = "table" => 4 = lv[b[1].at] + 1)
    BY <1>2, <1>3, <1>4, <1>5, TwinEntry
  <2>2. b[1].kind = "table" => b[1].at \in BootFrame /\ lv[b[1].at] \in 1..4
    BY <1>2, <1>4, ConstantsAssumption DEF BootLevels
  <2>3. QED
    BY <2>1, <2>2
<1>7. 3 \in 0..3 /\ 2 \in 0..3 /\ 1 \in 0..3 /\ 3 - 1 = 2 /\ 2 - 1 = 1 /\ 1 - 1 = 0
  OBVIOUS
<1>8. /\ b[2] = Under(Boot, b[1], va[2]) /\ b[3] = Under(Boot, b[2], va[3]) /\ b[4] = Under(Boot, b[3], va[4])
      /\ z[2] = Under(T, z[1], va[2]) /\ z[3] = Under(T, z[2], va[3]) /\ z[4] = Under(T, z[3], va[4])
  BY <1>2, <1>3
<1>9. Twin(X, phi, b[2], z[2]) /\ (b[2].kind = "table" => lv[b[2].at] = 2)
  BY <1>4, <1>6, <1>7, <1>8, TwinUnder
<1>10. Twin(X, phi, b[3], z[3]) /\ (b[3].kind = "table" => lv[b[3].at] = 1)
  BY <1>4, <1>7, <1>8, <1>9, TwinUnder
<1>11. Twin(X, phi, b[4], z[4]) /\ (b[4].kind = "table" => lv[b[4].at] = 0)
  BY <1>4, <1>7, <1>8, <1>10, TwinUnder
<1>12. b[4].kind # "table"
  <2>1. b[4].kind = "table" => b[4].at \in BootFrame
    BY <1>11 DEF Twin, Mirror
  <2>2. QED
    BY <1>11, <2>1 DEF BootLevels
<1>13. QED
  BY <1>2, <1>3, <1>11, <1>12 DEF Twin

-----------------------------------------------------------------------------
(* What every state promises of the memory m, with top levels R and the     *)
(* kernel's K.                                                              *)

\* The pages mapped at boot stay, and no call may unmap them.
Kept(T, K) ==
    \A b \in Plain : Leads(TranslateIn(Boot, BootRoot, b)) =>
        Leads(TranslateIn(T, K, b)) /\ ~ TranslateIn(T, K, b).owned

\* Once there are processes the first arena of the heap stays.
Anchored(T, R, K) == Permanent \in Plain /\ R # {K} => Leads(TranslateIn(T, K, Permanent))

Sound(F, m, R, K) == Fit(F, m, R, K) /\ K \in R /\ Kept(m.table, K) /\ Anchored(m.table, R, K)

\* No address of the lower half goes through the recursive entry.
LEMMA PlainLower ==
    /\ \A i \in Index : IsRecursive(BootRoot, i) => i >= KernelFirst
    /\ \A i \in Index : i < KernelFirst => ~ IsRecursive(BootRoot, i)
    /\ \A va \in Page : va[1] < KernelFirst => va \in Plain
<1>1. PICK lv : BootLevels(lv)
  BY BootLevelsExist
<1>2. ASSUME NEW i \in Index, IsRecursive(BootRoot, i) PROVE i >= KernelFirst
  <2>1. /\ Boot[BootRoot][i].kind = "table" /\ Boot[BootRoot][i].at = BootRoot
        /\ lv[BootRoot] = 4 /\ BootRoot \in BootFrame
    BY <1>1, <1>2, ConstantsAssumption DEF IsRecursive, BootLevels
  <2>2. lv[BootRoot] = lv[BootRoot] + 1 \/ i >= KernelFirst
    BY <1>1, <2>1 DEF BootLevels
  <2>3. QED
    BY <2>1, <2>2
<1>3. \A i \in Index : ~ (i >= KernelFirst /\ i < KernelFirst)
  BY ConstantsAssumption DEF Index
<1>4. \A va \in Page : va[1] \in Index
  BY DEF Page
<1>5. QED
  BY <1>2, <1>3, <1>4 DEF Plain

\* The pages of a set of runs.
LEMMA PagesAre ==
    ASSUME NEW runs, \A r \in runs : r \in Seq(Page), NEW va
    PROVE  va \in Pages(runs) <=> \E r \in runs : \E k \in 1..Len(r) : r[k] = va
  BY DEF Pages

\* The kernel's runs lie in the upper half, those of processes in the lower.
LEMMA RunPlaces ==
    /\ \A va \in Pages(KernelRuns) : va \in Plain /\ va[1] >= KernelFirst
    /\ \A va \in Pages(UserRuns) : va \in Plain /\ va[1] < KernelFirst
    /\ \A run \in KernelRuns : run \in Seq(Plain) /\ \A k \in 1..Len(run) : run[k] \in Pages(KernelRuns)
    /\ \A run \in UserRuns : run \in Seq(Plain) /\ \A k \in 1..Len(run) : run[k] \in Pages(UserRuns)
<1>1. \A run \in KernelRuns : run \in Seq(Page) /\ \A k \in 1..Len(run) : run[k] \in Page
  BY RunsAssumption
<1>2. \A run \in UserRuns : run \in Seq(Page) /\ \A k \in 1..Len(run) : run[k] \in Page
  BY RunsAssumption
<1>3. \A va \in Pages(KernelRuns) : va \in Page
  BY <1>1, PagesAre
<1>4. \A va \in Pages(UserRuns) : va \in Page
  BY <1>2, PagesAre
<1>5. \A va \in Pages(KernelRuns) : va \in Plain /\ va[1] >= KernelFirst
  BY <1>3, RunsAssumption DEF Plain
<1>6. \A va \in Pages(UserRuns) : va \in Plain /\ va[1] < KernelFirst
  BY <1>4, RunsAssumption, PlainLower
<1>7. ASSUME NEW run \in KernelRuns
      PROVE  run \in Seq(Plain) /\ \A k \in 1..Len(run) : run[k] \in Pages(KernelRuns)
  <2>1. \A k \in 1..Len(run) : run[k] \in Pages(KernelRuns)
    BY <1>1, PagesAre
  <2>2. \A k \in 1..Len(run) : run[k] \in Plain
    BY <1>5, <2>1
  <2>3. QED
    BY <1>1, <2>1, <2>2
<1>8. ASSUME NEW run \in UserRuns
      PROVE  run \in Seq(Plain) /\ \A k \in 1..Len(run) : run[k] \in Pages(UserRuns)
  <2>1. \A k \in 1..Len(run) : run[k] \in Pages(UserRuns)
    BY <1>2, PagesAre
  <2>2. \A k \in 1..Len(run) : run[k] \in Plain
    BY <1>6, <2>1
  <2>3. QED
    BY <1>2, <2>1, <2>2
<1>9. QED
  BY <1>5, <1>6, <1>7, <1>8

\* The kernel's runs lie beside pages that stay.
LEMMA KernelBeside ==
    ASSUME NEW F, NEW m, NEW R, NEW K, Sound(F, m, R, K), NEW va \in Pages(KernelRuns)
    PROVE  /\ R = {K} \/ \E b \in Plain : /\ b[1] = va[1] /\ Leads(TranslateIn(m.table, K, b))
                                          /\ b = Permanent \/ ~ TranslateIn(m.table, K, b).owned
<1>1. va \in Plain
  BY RunPlaces
<1>2. va[1] = Permanent[1] \/ \E b \in Page : b[1] = va[1] /\ Leads(TranslateIn(Boot, BootRoot, b))
  BY RunsAssumption
<1>3. ASSUME va[1] = Permanent[1], R # {K}
      PROVE  Permanent \in Plain /\ Leads(TranslateIn(m.table, K, Permanent))
  <2>1. Permanent \in Plain
    BY <1>1, <1>3, RunsAssumption DEF Plain
  <2>2. QED
    BY <1>3, <2>1 DEF Sound, Anchored
<1>4. ASSUME NEW b \in Page, b[1] = va[1], Leads(TranslateIn(Boot, BootRoot, b))
      PROVE  b \in Plain /\ Leads(TranslateIn(m.table, K, b)) /\ ~ TranslateIn(m.table, K, b).owned
  <2>1. b \in Plain
    BY <1>1, <1>4 DEF Plain
  <2>2. QED
    BY <1>4, <2>1 DEF Sound, Kept
<1>5. QED
  BY <1>2, <1>3, <1>4

\* A change that shows nowhere keeps the promises.
LEMMA SoundAlike ==
    ASSUME NEW F, NEW m, NEW R, NEW K, Sound(F, m, R, K), NEW m2, Fit(F, m2, R, K), Alike(m, m2, R)
    PROVE  Sound(F, m2, R, K)
<1>1. \A b \in Plain : TranslateIn(m2.table, K, b) = TranslateIn(m.table, K, b)
  BY DEF Sound, Alike
<1>2. Kept(m2.table, K)
  BY <1>1 DEF Sound, Kept
<1>3. Anchored(m2.table, R, K)
  BY <1>1 DEF Sound, Anchored
<1>4. QED
  BY <1>2, <1>3 DEF Sound

\* Mapping further pages keeps the promises.
LEMMA SoundExtended ==
    ASSUME NEW F, NEW m, NEW R, NEW K, Sound(F, m, R, K), NEW root \in R, NEW run \in Seq(Plain), NEW base, NEW rights, NEW n \in 0..Len(run),
           NEW m2, Fit(F, m2, R, K), Extended(m, m2, R, root, run, base, rights, n)
    PROVE  Sound(F, m2, R, K)
<1>1. ASSUME NEW b \in Plain, Leads(TranslateIn(m.table, K, b))
      PROVE  TranslateIn(m2.table, K, b) = TranslateIn(m.table, K, b)
  <2>1. K \in R /\ ~ Leads(Absent)
    BY DEF Sound, Absent, Leads
  <2>2. ASSUME NEW j \in 1..n, b = run[j], Seen(root, b, K) PROVE FALSE
    <3>1. Everywhere(m, R, root, b, Absent)
      BY <2>2 DEF Extended
    <3>2. TranslateIn(m.table, K, b) = Absent
      BY <2>1, <2>2, <3>1 DEF Everywhere
    <3>3. QED
      BY <1>1, <2>1, <3>2
  <2>3. QED
    BY <2>1, <2>2 DEF Extended
<1>2. Kept(m2.table, K)
  BY <1>1 DEF Sound, Kept
<1>3. Anchored(m2.table, R, K)
  BY <1>1 DEF Sound, Anchored
<1>4. QED
  BY <1>2, <1>3 DEF Sound

\* What vmm_map_pages may be called with.
RunOf(R, K, root, run, base, rights) ==
    /\ base \in Bases
    /\ \/ root = K /\ run \in KernelRuns /\ rights \in KernelRights
       \/ root \in R \ {K} /\ run \in UserRuns /\ rights \in UserRights

\* Every run a caller passes can be mapped.
LEMMA RunOfRunnable ==
    ASSUME NEW F, NEW m, NEW R, NEW K, Sound(F, m, R, K), NEW root, NEW run, NEW base, NEW rights,
           RunOf(R, K, root, run, base, rights)
    PROVE  Runnable(m, R, K, root, run, base, rights)
<1>1. K \in R /\ base \in Bases
  BY DEF Sound, RunOf
<1>2. \A r \in KernelRuns \cup UserRuns : \A k \in 1..Len(r) : base + k - 1 \in Data
  BY <1>1 DEF Bases
<1>3. CASE root = K /\ run \in KernelRuns /\ rights \in KernelRights
  <2>1. rights \in Rights /\ rights.user = FALSE
    BY <1>3 DEF KernelRights, Rights
  <2>2. run \in Seq(Plain) /\ \A k \in 1..Len(run) : run[k] \in Pages(KernelRuns)
    BY <1>3, RunPlaces
  <2>3. \A k \in 1..Len(run) : Beside(m, R, K, run[k])
    <3> SUFFICES ASSUME NEW k \in 1..Len(run) PROVE Beside(m, R, K, run[k])
      OBVIOUS
    <3>1. PICK va : va = run[k]
      OBVIOUS
    <3>2. va \in Pages(KernelRuns)
      BY <2>2, <3>1
    <3>3. R = {K} \/ \E b \in Plain : b[1] = va[1] /\ Leads(TranslateIn(m.table, K, b))
      BY <3>2, KernelBeside
    <3>4. QED
      BY <3>1, <3>3 DEF Beside
  <2>4. ~ rights.user
    BY <2>1
  <2>5. QED
    BY <1>1, <1>2, <1>3, <2>1, <2>2, <2>3, <2>4, Zenon DEF Runnable
<1>4. CASE root \in R \ {K} /\ run \in UserRuns /\ rights \in UserRights
  <2>1. rights \in Rights /\ rights.user = TRUE
    BY <1>4 DEF UserRights, Rights
  <2>2. run \in Seq(Plain) /\ \A k \in 1..Len(run) : run[k] \in Pages(UserRuns)
    BY <1>4, RunPlaces
  <2>3. \A k \in 1..Len(run) : run[k][1] < KernelFirst /\ ~ (run[k][1] >= KernelFirst)
    <3>1. \A va \in Pages(UserRuns) : va[1] < KernelFirst /\ va[1] \in Index
      BY RunPlaces DEF Plain, Page
    <3>2. \A i \in Index : i < KernelFirst => ~ (i >= KernelFirst)
      BY ConstantsAssumption DEF Index
    <3>3. QED
      BY <2>2, <3>1, <3>2
  <2>4. rights.user /\ root # K /\ root \in R
    BY <1>4, <2>1
  <2>5. QED
    BY <1>2, <1>4, <2>1, <2>2, <2>3, <2>4, Zenon DEF Runnable
<1>5. QED
  BY <1>3, <1>4 DEF RunOf

\* vmm_map_pages keeps the promises and maps the whole run or nothing.
LEMMA MapSound ==
    ASSUME NEW F, NEW m, NEW R, NEW K, Sound(F, m, R, K), NEW root, NEW run, NEW base, NEW rights,
           RunOf(R, K, root, run, base, rights), NEW o, o = MapRun(m, root, run, base, rights)
    PROVE  /\ Sound(F, o, R, K)
           /\ Alike(m, o, R) \/ Extended(m, o, R, root, run, base, rights, Len(run))
<1>1. Runnable(m, R, K, root, run, base, rights)
  BY RunOfRunnable
<1>2. Fit(F, o, R, K) /\ (Alike(m, o, R) \/ Extended(m, o, R, root, run, base, rights, Len(run)))
  BY <1>1, MapRunIs DEF Sound
<1>3. root \in R /\ run \in Seq(Plain) /\ Len(run) \in 0..Len(run)
  BY <1>1 DEF Runnable
<1>4. Sound(F, o, R, K)
  BY <1>2, <1>3, SoundAlike, SoundExtended
<1>5. QED
  BY <1>2, <1>4

\* What vmm_unmap_page may be called with.
PageOf(R, K, root, va) ==
    \/ root = K /\ va \in Pages(KernelRuns) \ {Permanent}
    \/ root \in R \ {K} /\ va \in Pages(UserRuns)

\* vmm_unmap_page keeps the promises and unmaps the page it names or nothing.
LEMMA UnmapSound ==
    ASSUME NEW F, NEW m, NEW R, NEW K, Sound(F, m, R, K), NEW root, NEW va, PageOf(R, K, root, va),
           NEW o, o = UnmapPage(m, root, va)
    PROVE  /\ Sound(F, o.mem, R, K)
           /\ o.mem = m \/ /\ TranslateIn(m.table, root, va).kind = "page" /\ TranslateIn(m.table, root, va).owned
                           /\ Others(m, o.mem, R, root, va)
                           /\ Everywhere(o.mem, R, root, va, Absent)
<1>1. K \in R /\ root \in R /\ va \in Plain /\ Fit(F, m, R, K)
  BY RunPlaces DEF Sound, PageOf
<1>2. ASSUME TranslateIn(m.table, root, va).owned PROVE Stays(m, R, K, root, va)
  <2>1. SUFFICES ASSUME va[1] >= KernelFirst
                 PROVE  /\ root = K
                        /\ R = {K} \/ \E b \in Plain : b # va /\ b[1] = va[1] /\ Leads(TranslateIn(m.table, K, b))
    BY DEF Stays
  <2>2. root = K /\ va \in Pages(KernelRuns) /\ va # Permanent
    <3>1. va[1] \in Index /\ \A i \in Index : ~ (i >= KernelFirst /\ i < KernelFirst)
      BY <1>1, ConstantsAssumption DEF Plain, Page, Index
    <3>2. QED
      BY <2>1, <3>1, RunPlaces DEF PageOf
  <2>3. ASSUME R # {K}
        PROVE  \E b \in Plain : b # va /\ b[1] = va[1] /\ Leads(TranslateIn(m.table, K, b))
    <3>1. PICK b \in Plain : /\ b[1] = va[1] /\ Leads(TranslateIn(m.table, K, b))
                             /\ b = Permanent \/ ~ TranslateIn(m.table, K, b).owned
      BY <2>2, <2>3, KernelBeside
    <3>2. b # va
      BY <1>2, <2>2, <3>1
    <3>3. QED
      BY <3>1, <3>2
  <2>4. QED
    BY <2>2, <2>3
<1>3. PICK m2 : m2 = o.mem
  OBVIOUS
<1>4. /\ Fit(F, m2, R, K)
      /\ m2 = m \/ /\ TranslateIn(m.table, root, va).kind = "page" /\ TranslateIn(m.table, root, va).owned
                   /\ Others(m, m2, R, root, va)
                   /\ Everywhere(m2, R, root, va, Absent)
  BY <1>1, <1>2, <1>3, UnmapPageIs
<1>5. CASE m2 = m
  BY <1>3, <1>5
<1>6. CASE /\ TranslateIn(m.table, root, va).kind = "page" /\ TranslateIn(m.table, root, va).owned
           /\ Others(m, m2, R, root, va)
           /\ Everywhere(m2, R, root, va, Absent)
  <2>1. ASSUME NEW b \in Plain, ~ TranslateIn(m.table, K, b).owned \/ b = Permanent
        PROVE  TranslateIn(m2.table, K, b) = TranslateIn(m.table, K, b)
    <3>1. ~ (b = va /\ Seen(root, va, K))
      <4>1. SUFFICES ASSUME b = va, Seen(root, va, K) PROVE FALSE
        OBVIOUS
      <4>2. va[1] \in Index /\ \A i \in Index : ~ (i >= KernelFirst /\ i < KernelFirst)
        BY <1>1, ConstantsAssumption DEF Plain, Page, Index
      <4>3. root = K /\ va # Permanent
        BY <4>1, <4>2, RunPlaces DEF PageOf, Seen
      <4>4. QED
        BY <1>6, <2>1, <4>1, <4>3
    <3>2. QED
      BY <1>1, <1>6, <3>1 DEF Others
  <2>2. Kept(m2.table, K)
    BY <2>1 DEF Sound, Kept
  <2>3. Anchored(m2.table, R, K)
    BY <2>1 DEF Sound, Anchored
  <2>4. Sound(F, m2, R, K)
    BY <1>1, <1>4, <2>2, <2>3 DEF Sound
  <2>5. QED
    BY <1>3, <1>6, <2>4
<1>7. QED
  BY <1>4, <1>5, <1>6

\* vmm_protect_page keeps the promises and changes the rights of the page it names or nothing.
LEMMA ProtectSound ==
    ASSUME NEW F, NEW m, NEW R, NEW K, Sound(F, m, R, K), NEW root \in R \ {K}, NEW va \in Pages(UserRuns),
           NEW rights \in UserRights, NEW o, o = ProtectPage(m, root, va, rights)
    PROVE  /\ Sound(F, o.mem, R, K)
           /\ o.mem = m \/ /\ Others(m, o.mem, R, root, va)
                           /\ TranslateIn(m.table, root, va).kind = "page"
                           /\ TranslateIn(o.mem.table, root, va) \in Entry
                           /\ TranslateIn(o.mem.table, root, va).kind = "page"
                           /\ TranslateIn(o.mem.table, root, va).at = TranslateIn(m.table, root, va).at
                           /\ RightsAre(TranslateIn(o.mem.table, root, va), rights)
<1>1. /\ K \in R /\ root \in R /\ root # K /\ va \in Plain /\ va[1] < KernelFirst /\ Fit(F, m, R, K)
      /\ rights \in Rights
  BY RunPlaces DEF Sound, UserRights, Rights
<1>2. ~ (va[1] >= KernelFirst)
  BY <1>1, ConstantsAssumption DEF Plain, Page, Index
<1>3. Walkable(m, R, K, root, va, FALSE, rights.user)
  <2>1. rights.user \in BOOLEAN
    BY <1>1 DEF Rights
  <2>2. QED
    BY <1>1, <2>1, Zenon DEF Walkable
<1>4. PICK m2 : m2 = o.mem
  OBVIOUS
<1>5. /\ Fit(F, m2, R, K)
      /\ m2 = m \/ /\ Others(m, m2, R, root, va)
                   /\ TranslateIn(m.table, root, va).kind = "page"
                   /\ TranslateIn(m2.table, root, va) \in Entry
                   /\ TranslateIn(m2.table, root, va).kind = "page"
                   /\ TranslateIn(m2.table, root, va).at = TranslateIn(m.table, root, va).at
                   /\ RightsAre(TranslateIn(m2.table, root, va), rights)
  <2>1. /\ Fit(F, o.mem, R, K)
        /\ ~ o.ok => o.mem = m
        /\ o.ok => /\ Others(m, o.mem, R, root, va)
                   /\ TranslateIn(m.table, root, va).kind = "page"
                   /\ TranslateIn(o.mem.table, root, va) \in Entry
                   /\ TranslateIn(o.mem.table, root, va).kind = "page"
                   /\ TranslateIn(o.mem.table, root, va).at = TranslateIn(m.table, root, va).at
                   /\ RightsAre(TranslateIn(o.mem.table, root, va), rights)
    <3>1. Protectable(F, m, R, K, root, va, rights)
      BY <1>1, <1>3 DEF Protectable
    <3>2. QED
      BY <3>1, ProtectPageIs
  <2>2. QED
    BY <1>4, <2>1
<1>6. ASSUME Others(m, m2, R, root, va) PROVE Sound(F, m2, R, K)
  <2>1. \A b \in Plain : TranslateIn(m2.table, K, b) = TranslateIn(m.table, K, b)
    BY <1>1, <1>2, <1>6 DEF Others, Seen
  <2>2. Kept(m2.table, K)
    BY <2>1 DEF Sound, Kept
  <2>3. Anchored(m2.table, R, K)
    BY <2>1 DEF Sound, Anchored
  <2>4. QED
    BY <1>1, <1>5, <2>2, <2>3 DEF Sound
<1>7. QED
  BY <1>4, <1>5, <1>6

\* A walk through an entry closed to ring 3 grants ring 3 nothing.
LEMMA ClosedWalk ==
    ASSUME NEW T, NEW used, NEW R, NEW K, NEW level, NEW own, Well(T, used, R, K, level, own),
           NEW r \in R, NEW va \in Plain, T[r][va[1]].user = FALSE
    PROVE  TranslateIn(T, r, va).user = FALSE
<1>1. PICK s : s = Walk(T, r, va)
  OBVIOUS
<1>2. /\ s[1] = T[r][va[1]] /\ TranslateIn(T, r, va) = s[4]
      /\ s[2] = Under(T, s[1], va[2]) /\ s[3] = Under(T, s[2], va[3]) /\ s[4] = Under(T, s[3], va[4])
  <2>1. \A d \in 1..3 : s[d + 1] = Under(T, s[d], va[d + 1])
    BY <1>1, WalkSteps
  <2>2. s[1 + 1] = Under(T, s[1], va[1 + 1]) /\ s[2 + 1] = Under(T, s[2], va[2 + 1]) /\ s[3 + 1] = Under(T, s[3], va[3 + 1])
    BY <2>1
  <2>3. s[1] = T[r][va[1]] /\ TranslateIn(T, r, va) = s[4]
    BY <1>1, WalkSteps
  <2>4. QED
    BY <2>2, <2>3
<1>3. /\ \A d \in 1..4 : s[d] \in Entry
      /\ \A d \in 1..4 : Deep(s, d) => At(s, r, d) \in used
  BY <1>1, PathWell
<1>4. /\ s[1].kind = "table" => s[1].at \in used
      /\ s[2].kind = "table" => s[2].at \in used
      /\ s[3].kind = "table" => s[3].at \in used
  <2>1. /\ Deep(s, 2) <=> s[1].kind = "table"
        /\ Deep(s, 3) <=> s[2].kind = "table"
        /\ Deep(s, 4) <=> s[3].kind = "table"
    BY DEF Deep
  <2>2. At(s, r, 2) = s[1].at /\ At(s, r, 3) = s[2].at /\ At(s, r, 4) = s[3].at
    BY DEF At
  <2>3. QED
    BY <1>3, <2>1, <2>2
<1>5. va[2] \in Index /\ va[3] \in Index /\ va[4] \in Index
  BY DEF Plain, Page
<1>6. \A f \in used, i \in Index : T[f][i] \in Entry
  BY DEF Well, Sets, TablesIn
<1>7. ASSUME NEW e \in Entry, e.user = FALSE, e.kind = "table" => e.at \in used, NEW i \in Index
      PROVE  Under(T, e, i).user = FALSE
  <2>1. CASE e.kind # "table"
    BY <1>7, <2>1, UnderOther
  <2>2. CASE e.kind = "table"
    <3>1. PICK b : b = T[e.at][i]
      OBVIOUS
    <3>2. b \in Entry
      BY <1>6, <1>7, <2>2, <3>1
    <3>3. Under(T, e, i) \in Entry /\ (Under(T, e, i).user <=> b.user /\ e.user)
      BY <2>2, <3>1, <3>2, UnderFields
    <3>4. Under(T, e, i).user \in BOOLEAN
      BY <3>3, EntryFields
    <3>5. QED
      BY <1>7, <3>3, <3>4
  <2>3. QED
    BY <2>1, <2>2
<1>8. s[1] \in Entry /\ s[2] \in Entry /\ s[3] \in Entry
  BY <1>3
<1>9. s[1].user = FALSE
  BY <1>2
<1>10. s[2].user = FALSE
  BY <1>2, <1>4, <1>5, <1>7, <1>8, <1>9
<1>11. s[3].user = FALSE
  BY <1>2, <1>4, <1>5, <1>7, <1>8, <1>10
<1>12. s[4].user = FALSE
  BY <1>2, <1>4, <1>5, <1>7, <1>8, <1>11
<1>13. QED
  BY <1>2, <1>12

\* A walk that starts at an absent entry finds nothing.
LEMMA AbsentWalk ==
    ASSUME NEW T, NEW r, NEW va, T[r][va[1]] = Absent
    PROVE  TranslateIn(T, r, va) = Absent
<1>1. \A i : Under(T, Absent, i) = Absent
  BY DEF Under, Absent
<1>2. QED
  BY <1>1 DEF TranslateIn

\* The entry e a process finds for an upper page, next to the kernel's own entry k.
UpperAlike(e, k) == e.kind = k.kind /\ e.at = k.at /\ e.owned = k.owned /\ e.writable = k.writable
NotUser(e) == e.user = FALSE

\* The upper half is the same in every space, but closed to ring 3 in those of processes.
LEMMA UpperShared ==
    ASSUME NEW F, NEW m, NEW R, NEW K, Fit(F, m, R, K), NEW r \in R, NEW va \in Plain, va[1] >= KernelFirst
    PROVE  /\ UpperAlike(TranslateIn(m.table, r, va), TranslateIn(m.table, K, va))
           /\ r # K => NotUser(TranslateIn(m.table, r, va))
<1>1. PICK T, used, level, own : T = m.table /\ Well(T, used, R, K, level, own)
  BY DEF Fit
<1>2. K \in R
  BY <1>1 DEF Well, Sets
<1>3. PICK s, z : s = Walk(T, r, va) /\ z = Walk(T, K, va)
  OBVIOUS
<1>4. 4 \in 1..4
  OBVIOUS
<1>5. s[4].kind = z[4].kind /\ s[4].at = z[4].at /\ s[4].owned = z[4].owned /\ s[4].writable = z[4].writable
  BY <1>1, <1>2, <1>3, <1>4, UpperWalks
<1>6. TranslateIn(T, r, va) = s[4] /\ TranslateIn(T, K, va) = z[4]
  BY <1>3, WalkSteps
<1>7. ASSUME r # K PROVE TranslateIn(T, r, va).user = FALSE
  <2>1. va[1] \in Index
    BY DEF Plain, Page
  <2>2. T[r][va[1]] = [T[K][va[1]] EXCEPT !.user = FALSE]
    BY <1>1, <1>7, <2>1 DEF Well, Shared
  <2>3. T[K][va[1]] \in Entry
    BY <1>1, <1>2, <2>1 DEF Well, Sets, TablesIn
  <2>4. T[r][va[1]].user = FALSE
    BY <2>2, <2>3 DEF Entry
  <2>5. QED
    BY <1>1, <2>4, ClosedWalk
<1>8. UpperAlike(s[4], z[4])
  BY <1>5 DEF UpperAlike
<1>9. r # K => NotUser(TranslateIn(T, r, va))
  BY <1>7 DEF NotUser
<1>10. QED
  BY <1>1, <1>6, <1>8, <1>9

\* Nothing is mapped in the lower half.
LowerBare(T, n) == \A va \in Plain : va[1] < KernelFirst => TranslateIn(T, n, va) = Absent

\* o is m with the top level n of a new process.
Created(m, K, n, o) ==
    /\ m.free # {} /\ n = NextFrame(m)
    /\ o.free = Allocate(m).free
    /\ o.table = [Allocate(m).table EXCEPT
                    ![n] = [i \in Index |-> IF i < KernelFirst THEN Absent ELSE [m.table[K][i] EXCEPT !.user = FALSE]]]
    /\ o = [table |-> o.table, free |-> o.free]
    /\ Leads(TranslateIn(m.table, K, Permanent))

\* vmm_address_space_create
LEMMA CreateSound ==
    ASSUME NEW F, NEW m, NEW R, NEW K, Sound(F, m, R, K), NEW n, NEW o, Created(m, K, n, o)
    PROVE  /\ n \in Frame \ R /\ n \in m.free
           /\ Sound(F, o, R \cup {n}, K)
           /\ Alike(m, o, R)
           /\ LowerBare(o.table, n)
<1>1. /\ m \in Memory /\ F \subseteq Frame /\ m.free \subseteq F /\ K \in R
      /\ Kept(m.table, K)
  BY DEF Sound, Fit
<1>2. PICK used, level, own : used = F \ m.free /\ Well(m.table, used, R, K, level, own)
  BY DEF Sound, Fit
<1>3. PICK half : half = [i \in Index |-> IF i < KernelFirst THEN Absent ELSE [m.table[K][i] EXCEPT !.user = FALSE]]
  OBVIOUS
<1>4. PICK a : a = Allocate(m)
  OBVIOUS
<1>5. /\ m.free # {} /\ n = NextFrame(m)
      /\ o.free = a.free /\ o.table = [a.table EXCEPT ![n] = half]
      /\ o = [table |-> o.table, free |-> o.free]
      /\ Leads(TranslateIn(m.table, K, Permanent))
  BY <1>3, <1>4, Zenon DEF Created
<1>6. /\ n \in m.free /\ n \in Frame
      /\ a \in Memory /\ a.free = m.free \ {n}
      /\ \A f \in Frame \cup BootFrame : f # n => a.table[f] = m.table[f]
  BY <1>1, <1>4, <1>5, AllocateIs
<1>7. m.table \in TablesIn /\ a.table \in TablesIn /\ R \subseteq used /\ K \in Frame
  BY <1>1, <1>2, <1>6 DEF Memory, Well, Sets
<1>8. \A i \in Index : half[i] = IF i < KernelFirst THEN Absent ELSE [m.table[K][i] EXCEPT !.user = FALSE]
  BY <1>3
<1>9. half \in [Index -> Entry]
  <2>1. ASSUME NEW i \in Index PROVE half[i] \in Entry
    <3>1. m.table[K][i] \in Entry
      BY <1>7 DEF TablesIn
    <3>2. [m.table[K][i] EXCEPT !.user = FALSE] \in Entry
      BY <3>1 DEF Entry
    <3>3. QED
      BY <1>8, <3>2, EntryFields
  <2>2. QED
    BY <1>3, <2>1
<1>10. /\ o.table \in TablesIn /\ o.table[n] = half
       /\ \A f \in Frame \cup BootFrame : f # n => o.table[f] = m.table[f]
  <2>1. n \in Frame \cup BootFrame
    BY <1>6
  <2>2. o.table \in TablesIn
    BY <1>5, <1>7, <1>9, <2>1 DEF TablesIn
  <2>3. QED
    BY <1>5, <1>6, <1>7, <2>1, <2>2 DEF TablesIn
<1>11. o \in Memory /\ o.free = m.free \ {n} /\ o.free \subseteq F
  BY <1>1, <1>5, <1>6, <1>10 DEF Memory
<1>12. n \notin used /\ n \notin R
  BY <1>2, <1>6, <1>7
<1>13. Rooted(m.table, used, R, K, level, own, n, o.table)
  BY <1>2, <1>6, <1>8, <1>10, <1>12 DEF Rooted
<1>14. \E level2 : Well(o.table, used \cup {n}, R \cup {n}, K, level2, own)
  BY <1>13, RootWell
<1>15. F \ o.free = used \cup {n}
  BY <1>1, <1>2, <1>6, <1>11
<1>16. Fit(F, o, R \cup {n}, K)
  BY <1>1, <1>11, <1>14, <1>15 DEF Fit
<1>17. Alike(m, o, R)
  <2> SUFFICES ASSUME NEW q \in R, NEW va \in Plain PROVE TranslateIn(o.table, q, va) = TranslateIn(m.table, q, va)
    BY DEF Alike
  <2>1. \A f \in used, j \in Index : o.table[f][j] = m.table[f][j]
    BY <1>2, <1>10, <1>12 DEF Well, Sets
  <2>2. QED
    BY <1>2, <2>1, KeepTranslation
<1>18. Kept(o.table, K)
  BY <1>1, <1>17 DEF Kept, Alike
<1>19. Anchored(o.table, R \cup {n}, K)
  BY <1>1, <1>5, <1>17 DEF Anchored, Alike
<1>20. Sound(F, o, R \cup {n}, K)
  BY <1>1, <1>16, <1>18, <1>19 DEF Sound
<1>21. ASSUME NEW va \in Plain, va[1] < KernelFirst PROVE TranslateIn(o.table, n, va) = Absent
  <2>1. va[1] \in Index
    BY DEF Plain, Page
  <2>2. o.table[n][va[1]] = Absent
    BY <1>8, <1>10, <1>21, <2>1
  <2>3. QED
    BY <2>2, AbsentWalk
<1>22. QED
  BY <1>6, <1>12, <1>17, <1>20, <1>21 DEF LowerBare

\* vmm_address_space_destroy
LEMMA DestroySound ==
    ASSUME NEW F, NEW m, NEW R, NEW K, Sound(F, m, R, K), NEW n \in R \ {K},
           \A i \in Index : i < KernelFirst => m.table[n][i].kind = "absent",
           NEW o, o = Free(m, n)
    PROVE  /\ Sound(F, o, R \ {n}, K)
           /\ Alike(m, o, R \ {n})
           /\ LowerBare(m.table, n)
<1>1. /\ m \in Memory /\ F \subseteq Frame /\ m.free \subseteq F /\ K \in R
      /\ Kept(m.table, K) /\ Anchored(m.table, R, K)
  BY DEF Sound, Fit
<1>2. PICK used, level, own : used = F \ m.free /\ Well(m.table, used, R, K, level, own)
  BY DEF Sound, Fit
<1>3. R \subseteq used /\ n \in Frame /\ n \in used
  BY <1>1, <1>2 DEF Well, Sets
<1>4. /\ o \in Memory /\ o.free = m.free \cup {n}
      /\ o.table[n] = EmptyTable
      /\ \A f \in Frame \cup BootFrame : f # n => o.table[f] = m.table[f]
  BY <1>1, <1>3, FreeIs
<1>5. Unrooted(m.table, used, R, K, level, own, n, o.table)
  BY <1>2, <1>4 DEF Unrooted, Memory
<1>6. Well(o.table, used \ {n}, R \ {n}, K, level, own)
  BY <1>5, UnrootWell
<1>7. F \ o.free = used \ {n} /\ o.free \subseteq F
  BY <1>1, <1>2, <1>3, <1>4
<1>8. Fit(F, o, R \ {n}, K)
  BY <1>1, <1>4, <1>6, <1>7 DEF Fit
<1>9. Alike(m, o, R \ {n})
  <2> SUFFICES ASSUME NEW q \in R \ {n}, NEW va \in Plain PROVE TranslateIn(o.table, q, va) = TranslateIn(m.table, q, va)
    BY DEF Alike
  <2>1. ASSUME NEW f \in used, NEW j \in Index, f = q \/ f \notin R PROVE o.table[f][j] = m.table[f][j]
    BY <1>2, <1>4, <2>1 DEF Well, Sets
  <2>2. QED
    BY <1>2, <2>1, KeepTranslation
<1>10. Kept(o.table, K)
  BY <1>1, <1>9 DEF Kept, Alike
<1>11. Anchored(o.table, R \ {n}, K)
  BY <1>1, <1>9 DEF Anchored, Alike
<1>12. Sound(F, o, R \ {n}, K)
  BY <1>1, <1>8, <1>10, <1>11 DEF Sound
<1>13. ASSUME NEW va \in Plain, va[1] < KernelFirst PROVE TranslateIn(m.table, n, va) = Absent
  <2>1. va[1] \in Index
    BY DEF Plain, Page
  <2>2. m.table[n][va[1]] = Absent
    BY <1>2, <1>3, <1>13, <2>1 DEF Well, Leveled
  <2>3. QED
    BY <2>2, AbsentWalk
<1>14. QED
  BY <1>9, <1>12, <1>13 DEF LowerBare

\* The boot tables are as they are, and a copy mirrors them.
LEMMA BootMirror ==
    ASSUME NEW m, Ready(m)
    PROVE  \E phi : Mirror(m.table, BootFrame, phi, BootRoot)
<1>1. PICK phi : phi = [f \in BootFrame |-> f]
  OBVIOUS
<1>2. /\ BootRoot \in BootFrame /\ phi \in [BootFrame -> BootFrame] /\ phi[BootRoot] = BootRoot
      /\ \A f \in BootFrame : phi[f] = f /\ m.table[f] = Boot[f]
  BY <1>1, ConstantsAssumption DEF Ready
<1>3. PICK lv : BootLevels(lv)
  BY BootLevelsExist
<1>4. \A f \in BootFrame, i \in Index : m.table[f][i] \in Entry
  BY <1>2, BootEntries
<1>5. ASSUME NEW f \in BootFrame, NEW i \in Index, ~ IsRecursive(phi[f], i)
      PROVE  /\ Boot[phi[f]][i].kind # "table" => m.table[f][i] = Boot[phi[f]][i]
             /\ Boot[phi[f]][i].kind = "table" =>
                 /\ m.table[f][i].kind = "table" /\ m.table[f][i].at \in BootFrame
                 /\ phi[m.table[f][i].at] = Boot[phi[f]][i].at
                 /\ m.table[f][i].user <=> Boot[phi[f]][i].user
                 /\ m.table[f][i].writable <=> Boot[phi[f]][i].writable
  <2>1. m.table[f][i] = Boot[phi[f]][i] /\ phi[f] = f
    BY <1>2
  <2>2. Boot[f][i].kind = "table" => Boot[f][i].at \in BootFrame
    BY <1>3 DEF BootLevels
  <2>3. QED
    BY <1>2, <2>1, <2>2
<1>6. Mirror(m.table, BootFrame, phi, BootRoot)
  <2>1. PICK T, X : T = m.table /\ X = BootFrame
    OBVIOUS
  <2>2. BootRoot \in X /\ phi \in [X -> BootFrame] /\ phi[BootRoot] = BootRoot
    BY <1>2, <2>1
  <2>3. \A f \in X, i \in Index : T[f][i] \in Entry
    BY <1>4, <2>1
  <2>4. ASSUME NEW f \in X, NEW i \in Index, ~ IsRecursive(phi[f], i)
        PROVE  /\ Boot[phi[f]][i].kind # "table" => T[f][i] = Boot[phi[f]][i]
               /\ Boot[phi[f]][i].kind = "table" =>
                   /\ T[f][i].kind = "table" /\ T[f][i].at \in X /\ phi[T[f][i].at] = Boot[phi[f]][i].at
                   /\ T[f][i].user <=> Boot[phi[f]][i].user
                   /\ T[f][i].writable <=> Boot[phi[f]][i].writable
    BY <1>5, <2>1, <2>4
  <2>5. Mirror(T, X, phi, BootRoot)
    BY <2>2, <2>3, <2>4, Zenon DEF Mirror
  <2>6. QED
    BY <2>1, <2>5
<1>7. QED
  BY <1>6

\* A finished copy mirrors the boot loader's tables.
LEMMA CopyMirror ==
    ASSUME NEW lv, NEW m, Ready(m), NEW n, NEW X, NEW K, NEW phi, Copied(lv, m, n, X, K, phi, EntryCount), phi[K] = BootRoot
    PROVE  Mirror(n.table, X, phi, K)
<1>1. /\ n \in Memory /\ X \subseteq m.free /\ K \in X /\ phi \in [X -> BootFrame]
      /\ \A f \in X, j \in Index :
            IF f = K /\ j >= EntryCount THEN n.table[f][j] = Absent ELSE EntryCopied(n.table, X, K, phi, f, j)
  BY DEF Copied
<1>2. \A f \in X, j \in Index : EntryCopied(n.table, X, K, phi, f, j)
  BY <1>1, ConstantsAssumption DEF Index
<1>3. \A f \in X, i \in Index : n.table[f][i] \in Entry
  BY <1>1 DEF Ready, Memory, TablesIn
<1>4. ASSUME NEW f \in X, NEW i \in Index, ~ IsRecursive(phi[f], i)
      PROVE  /\ Boot[phi[f]][i].kind # "table" => n.table[f][i] = Boot[phi[f]][i]
             /\ Boot[phi[f]][i].kind = "table" =>
                 /\ n.table[f][i].kind = "table" /\ n.table[f][i].at \in X
                 /\ phi[n.table[f][i].at] = Boot[phi[f]][i].at
                 /\ n.table[f][i].user <=> Boot[phi[f]][i].user
                 /\ n.table[f][i].writable <=> Boot[phi[f]][i].writable
  BY <1>2, <1>4, Zenon DEF EntryCopied
<1>5. QED
  BY <1>1, <1>3, <1>4, Zenon DEF Mirror

\* The kernel begins to own its tables.
LEMMA CloneSound ==
    ASSUME NEW m, Ready(m), \A f \in Frame : m.table[f] = EmptyTable,
           NEW o, o = CloneTable(m, BootRoot), NEW K, K = NextFrame(m)
    PROVE  /\ o.ok \in BOOLEAN
           /\ ~ o.ok => o.mem = m
           /\ o.ok => /\ Sound(m.free, o.mem, {K}, K) /\ K \in Frame
                      /\ \A va \in Plain : TranslateIn(o.mem.table, K, va) = TranslateIn(m.table, BootRoot, va)
<1>1. PICK lv : BootLevels(lv)
  BY BootLevelsExist
<1>2. CopyState(lv, m, BootRoot, K, EntryCount, o)
  BY <1>1, CloneTableIs
<1>3. o.ok \in BOOLEAN /\ (~ o.ok => o.mem = m)
  BY <1>2 DEF CopyState
<1>4. ASSUME o.ok
      PROVE  /\ Sound(m.free, o.mem, {K}, K) /\ K \in Frame
             /\ \A va \in Plain : TranslateIn(o.mem.table, K, va) = TranslateIn(m.table, BootRoot, va)
  <2>1. PICK n : n = o.mem
    OBVIOUS
  <2>2. PICK X, phi : Copied(lv, m, n, X, K, phi, EntryCount) /\ phi[K] = BootRoot
    BY <1>2, <1>4, <2>1 DEF CopyState
  <2>3. PICK level : Well(n.table, X, {K}, K, level, {})
    BY <1>1, <2>2, CopyWell
  <2>4. n \in Memory /\ X \subseteq m.free /\ n.free = m.free \ X /\ K \in X /\ m.free \subseteq Frame
    BY <2>2 DEF Copied, Ready, Memory
  <2>5. m.free \ n.free = X
    BY <2>4
  <2>6. Fit(m.free, n, {K}, K)
    BY <2>3, <2>4, <2>5 DEF Fit
  <2>7. Mirror(n.table, X, phi, K)
    BY <2>2, CopyMirror
  <2>8. PICK psi : Mirror(m.table, BootFrame, psi, BootRoot)
    BY BootMirror
  <2>9. ASSUME NEW va \in Plain
        PROVE  /\ TranslateIn(n.table, K, va) = TranslateIn(Boot, BootRoot, va)
               /\ TranslateIn(m.table, BootRoot, va) = TranslateIn(Boot, BootRoot, va)
               /\ Leads(TranslateIn(Boot, BootRoot, va)) => ~ TranslateIn(Boot, BootRoot, va).owned
    BY <1>1, <2>7, <2>8, MirrorTranslation
  <2>10. Kept(n.table, K)
    BY <2>9 DEF Kept
  <2>11. Anchored(n.table, {K}, K)
    BY DEF Anchored
  <2>12. Sound(m.free, n, {K}, K)
    BY <2>6, <2>10, <2>11 DEF Sound
  <2>13. QED
    BY <2>1, <2>4, <2>9, <2>12
<1>5. QED
  BY <1>3, <1>4

-----------------------------------------------------------------------------
(* The invariant.                                                           *)

Roots == {pml4[s] : s \in Live}

\* Before vmm_take_ownership there is the hierarchy Limine left and nothing else.
Booting ==
    /\ pml4 = [s \in Space |-> IF s = Kernel THEN BootRoot ELSE Nowhere]
    /\ Ready(memory)
    /\ memory.free = frames
    /\ \A f \in Frame : memory.table[f] = EmptyTable

\* After it every space has a top level of its own in a well-formed hierarchy.
Running ==
    /\ Kernel \in Live
    /\ Sound(frames, memory, Roots, pml4[Kernel])
    /\ \A s, q \in Live : pml4[s] = pml4[q] => s = q

Inv ==
    /\ TypeOK
    /\ ~ owned => Booting
    /\ owned => Running

\* No frame is Nowhere.
LEMMA NowhereElse == Nowhere \notin Frame /\ BootRoot # Nowhere /\ BootRoot \in BootFrame
<1>1. Nowhere \notin Frame
  BY ConstantsAssumption DEF Frame, Nowhere
<1>2. QED
  BY <1>1, ConstantsAssumption

\* The invariant holds at start.
LEMMA InitInv == Init => Inv
<1> SUFFICES ASSUME Init PROVE Inv
  OBVIOUS
<1>1. PICK n \in PoolSizes : frames = 1..n
  BY DEF Init
<1>2. frames \subseteq Frame
  BY <1>1 DEF Frame
<1>3. /\ memory = [table |-> [f \in Frame \cup BootFrame |-> IF f \in BootFrame THEN Boot[f] ELSE EmptyTable],
                   free |-> frames]
      /\ pml4 = [s \in Space |-> IF s = Kernel THEN BootRoot ELSE Nowhere]
      /\ cr3 = Kernel /\ owned = FALSE
  BY DEF Init
<1>4. PICK T : T = memory.table
  OBVIOUS
<1>5. T = [f \in Frame \cup BootFrame |-> IF f \in BootFrame THEN Boot[f] ELSE EmptyTable]
  BY <1>3, <1>4
<1>6. /\ T \in TablesIn
      /\ \A f \in BootFrame : T[f] = Boot[f]
      /\ \A f \in Frame : T[f] = EmptyTable
  <2>1. \A f \in BootFrame : Boot[f] \in [Index -> Entry]
    BY ConstantsAssumption
  <2>2. QED
    BY <1>5, <2>1, Apart, EntryFields DEF TablesIn
<1>7. memory \in Memory /\ memory.free = frames
  BY <1>2, <1>3, <1>4, <1>6 DEF Memory
<1>8. TypeOK
  BY <1>2, <1>3, <1>4, <1>6, <1>7 DEF TypeOK, Space, TablesIn
<1>9. Booting
  BY <1>2, <1>3, <1>4, <1>6, <1>7 DEF Booting, Ready
<1>10. QED
  BY <1>3, <1>8, <1>9 DEF Inv

\* Before vmm_take_ownership there is only the kernel's space.
LEMMA BootingLive == ASSUME Booting PROVE Live = {Kernel} /\ Roots = {BootRoot} /\ pml4[Kernel] = BootRoot
<1>1. \A s \in Space : pml4[s] = IF s = Kernel THEN BootRoot ELSE Nowhere
  BY DEF Booting
<1>2. Kernel \in Space
  BY DEF Space
<1>3. Live = {Kernel}
  BY <1>1, <1>2, NowhereElse DEF Live
<1>4. QED
  BY <1>1, <1>2, <1>3 DEF Roots

\* What a running state lets be used of its parts.
LEMMA RunningParts ==
    ASSUME Inv, owned
    PROVE  /\ Sound(frames, memory, Roots, pml4[Kernel])
           /\ pml4[Kernel] \in Roots /\ Kernel \in Live
           /\ \A s \in Live : pml4[s] \in Roots
           /\ \A s \in Live : s # Kernel => pml4[s] \in Roots \ {pml4[Kernel]}
           /\ \A s, q \in Live : pml4[s] = pml4[q] => s = q
           /\ Roots \subseteq Frame \ memory.free
<1>1. Running
  BY DEF Inv
<1>2. \A s \in Live : pml4[s] \in Roots
  BY DEF Roots
<1>3. Kernel \in Live /\ \A s, q \in Live : pml4[s] = pml4[q] => s = q
  BY <1>1 DEF Running
<1>4. Roots \subseteq Frame \ memory.free
  BY <1>1 DEF Running, Sound, Fit, Well, Sets
<1>5. QED
  BY <1>1, <1>2, <1>3, <1>4 DEF Running

\* A step that leaves the spaces as they are keeps the invariant if it leaves the memory sound.
LEMMA KeepRunning ==
    ASSUME Inv, owned, Sound(frames, memory', Roots, pml4[Kernel]), UNCHANGED <<frames, pml4, cr3, owned>>
    PROVE  Inv'
<1>1. Live' = Live
  BY DEF Live
<1>2. Roots' = Roots
  BY <1>1 DEF Roots
<1>3. TypeOK'
  BY DEF Inv, TypeOK, Sound, Fit, Memory, TablesIn
<1>4. Running'
  BY <1>1, <1>2 DEF Inv, Running
<1>5. QED
  BY <1>3, <1>4 DEF Inv

\* What vmm_map_pages may be called with.
MapCall(s, run, base, rights) ==
    /\ base \in Bases
    /\ \/ s = Kernel /\ run \in KernelRuns /\ rights \in KernelRights
       \/ s \in Process /\ run \in UserRuns /\ rights \in UserRights

\* Mapping keeps the invariant.
LEMMA MapKeeps ==
    ASSUME Inv, NEW s, NEW run, NEW base, NEW rights, MapCall(s, run, base, rights), Map(s, run, base, rights)
    PROVE  /\ Inv'
           /\ \/ Alike(memory, memory', Roots)
              \/ Extended(memory, memory', Roots, pml4[s], run, base, rights, Len(run))
<1>1. /\ owned /\ s \in Live /\ memory' = MapRun(memory, pml4[s], run, base, rights)
      /\ UNCHANGED <<frames, pml4, cr3, owned>>
  BY DEF Map
<1>2. PICK F, m, R, K, r, o : F = frames /\ m = memory /\ R = Roots /\ K = pml4[Kernel] /\ r = pml4[s] /\ o = memory'
  OBVIOUS
<1>3. Sound(F, m, R, K) /\ r \in R /\ (s # Kernel => r \in R \ {K})
  BY <1>1, <1>2, RunningParts
<1>4. RunOf(R, K, r, run, base, rights)
  BY <1>2, <1>3, ConstantsAssumption DEF MapCall, RunOf
<1>5. o = MapRun(m, r, run, base, rights)
  BY <1>1, <1>2
<1>6. Sound(F, o, R, K) /\ (Alike(m, o, R) \/ Extended(m, o, R, r, run, base, rights, Len(run)))
  BY <1>3, <1>4, <1>5, MapSound
<1>7. Sound(frames, memory', Roots, pml4[Kernel])
  BY <1>2, <1>6
<1>8. QED
  BY <1>1, <1>2, <1>6, <1>7, KeepRunning

UnmapCall(s, va) ==
    \/ s = Kernel /\ va \in Pages(KernelRuns) \ {Permanent}
    \/ s \in Process /\ va \in Pages(UserRuns)

\* Unmapping keeps the invariant.
LEMMA UnmapKeeps ==
    ASSUME Inv, NEW s, NEW va, UnmapCall(s, va), Unmap(s, va)
    PROVE  /\ Inv'
           /\ TranslateIn(memory.table, pml4[s], va).kind = "page" /\ TranslateIn(memory.table, pml4[s], va).owned
           /\ Others(memory, memory', Roots, pml4[s], va)
           /\ Everywhere(memory', Roots, pml4[s], va, Absent)
<1>1. /\ owned /\ s \in Live /\ memory' = UnmapPage(memory, pml4[s], va).mem /\ memory' # memory
      /\ UNCHANGED <<frames, pml4, cr3, owned>>
  BY DEF Unmap
<1>2. PICK F, m, R, K, r : F = frames /\ m = memory /\ R = Roots /\ K = pml4[Kernel] /\ r = pml4[s]
  OBVIOUS
<1>3. PICK o : o = UnmapPage(m, r, va)
  OBVIOUS
<1>4. Sound(F, m, R, K) /\ r \in R /\ (s # Kernel => r \in R \ {K})
  BY <1>1, <1>2, RunningParts
<1>5. PageOf(R, K, r, va)
  BY <1>2, <1>4, ConstantsAssumption DEF UnmapCall, PageOf
<1>6. memory' = o.mem
  BY <1>1, <1>2, <1>3
<1>7. /\ Sound(F, o.mem, R, K)
      /\ o.mem = m \/ /\ TranslateIn(m.table, r, va).kind = "page" /\ TranslateIn(m.table, r, va).owned
                      /\ Others(m, o.mem, R, r, va)
                      /\ Everywhere(o.mem, R, r, va, Absent)
  BY <1>3, <1>4, <1>5, UnmapSound
<1>8. Sound(frames, memory', Roots, pml4[Kernel])
  BY <1>2, <1>6, <1>7
<1>9. Inv'
  BY <1>1, <1>8, KeepRunning
<1>10. QED
  BY <1>1, <1>2, <1>6, <1>7, <1>9

\* Protecting keeps the invariant.
LEMMA ProtectKeeps ==
    ASSUME Inv, NEW p \in Process, NEW va \in Pages(UserRuns), NEW rights \in UserRights, Protect(p, va, rights)
    PROVE  /\ Inv'
           /\ Others(memory, memory', Roots, pml4[p], va)
           /\ TranslateIn(memory.table, pml4[p], va).kind = "page"
           /\ TranslateIn(memory'.table, pml4[p], va) \in Entry
           /\ TranslateIn(memory'.table, pml4[p], va).kind = "page"
           /\ TranslateIn(memory'.table, pml4[p], va).at = TranslateIn(memory.table, pml4[p], va).at
           /\ RightsAre(TranslateIn(memory'.table, pml4[p], va), rights)
<1>1. /\ owned /\ p \in Live /\ memory' = ProtectPage(memory, pml4[p], va, rights).mem /\ memory' # memory
      /\ UNCHANGED <<frames, pml4, cr3, owned>>
  BY DEF Protect
<1>2. PICK F, m, R, K, r : F = frames /\ m = memory /\ R = Roots /\ K = pml4[Kernel] /\ r = pml4[p]
  OBVIOUS
<1>3. PICK o : o = ProtectPage(m, r, va, rights)
  OBVIOUS
<1>4. Sound(F, m, R, K) /\ r \in R \ {K}
  BY <1>1, <1>2, RunningParts, ConstantsAssumption
<1>5. memory' = o.mem
  BY <1>1, <1>2, <1>3
<1>6. /\ Sound(F, o.mem, R, K)
      /\ o.mem = m \/ /\ Others(m, o.mem, R, r, va)
                      /\ TranslateIn(m.table, r, va).kind = "page"
                      /\ TranslateIn(o.mem.table, r, va) \in Entry
                      /\ TranslateIn(o.mem.table, r, va).kind = "page"
                      /\ TranslateIn(o.mem.table, r, va).at = TranslateIn(m.table, r, va).at
                      /\ RightsAre(TranslateIn(o.mem.table, r, va), rights)
  BY <1>3, <1>4, ProtectSound
<1>7. Sound(frames, memory', Roots, pml4[Kernel])
  BY <1>2, <1>5, <1>6
<1>8. Inv'
  BY <1>1, <1>7, KeepRunning
<1>9. QED
  BY <1>1, <1>2, <1>5, <1>6, <1>8

\* Cloning keeps the invariant and every translation.
LEMMA TakeOwnershipKeeps ==
    ASSUME Inv, TakeOwnership
    PROVE  /\ Inv'
           /\ Live = {Kernel} /\ Live' = {Kernel}
           /\ \A va \in Plain : TranslateIn(memory'.table, pml4'[Kernel], va) = TranslateIn(memory.table, pml4[Kernel], va)
<1>1. /\ ~ owned /\ UNCHANGED <<frames, cr3>>
      /\ memory' = CloneTable(memory, BootRoot).mem
      /\ CloneTable(memory, BootRoot).ok => pml4' = [pml4 EXCEPT ![Kernel] = NextFrame(memory)] /\ owned' = TRUE
      /\ ~ CloneTable(memory, BootRoot).ok => UNCHANGED <<pml4, owned>>
  BY DEF TakeOwnership
<1>2. Booting /\ TypeOK
  BY <1>1 DEF Inv
<1>3. PICK m, K, o : m = memory /\ K = NextFrame(m) /\ o = CloneTable(m, BootRoot)
  OBVIOUS
<1>4. Ready(m) /\ m.free = frames /\ \A f \in Frame : m.table[f] = EmptyTable
  BY <1>2, <1>3 DEF Booting
<1>5. /\ o.ok \in BOOLEAN
      /\ ~ o.ok => o.mem = m
      /\ o.ok => /\ Sound(m.free, o.mem, {K}, K) /\ K \in Frame
                 /\ \A va \in Plain : TranslateIn(o.mem.table, K, va) = TranslateIn(m.table, BootRoot, va)
  BY <1>3, <1>4, CloneSound
<1>6. Live = {Kernel} /\ pml4[Kernel] = BootRoot
  BY <1>2, BootingLive
<1>7. CASE ~ o.ok
  <2>1. memory' = memory /\ pml4' = pml4 /\ owned' = owned /\ frames' = frames /\ cr3' = cr3
    BY <1>1, <1>3, <1>5, <1>7
  <2>2. Live' = Live
    BY <2>1 DEF Live
  <2>3. TypeOK' /\ Booting'
    BY <1>2, <2>1 DEF TypeOK, Booting, Ready
  <2>4. QED
    BY <1>1, <1>6, <2>1, <2>2, <2>3 DEF Inv
<1>8. CASE o.ok
  <2>1. memory' = o.mem /\ owned' = TRUE /\ frames' = frames /\ cr3' = cr3 /\ pml4' = [pml4 EXCEPT ![Kernel] = K]
    BY <1>1, <1>3, <1>8
  <2>2. pml4 \in [Space -> Frame \cup {BootRoot, Nowhere}] /\ \A s \in Space : s # Kernel => pml4[s] = Nowhere
    BY <1>2 DEF TypeOK, Booting
  <2>3. Kernel \in Space
    BY DEF Space
  <2>4. pml4'[Kernel] = K /\ \A s \in Space : s # Kernel => pml4'[s] = Nowhere
    BY <2>1, <2>2, <2>3
  <2>5. K # Nowhere
    BY <1>5, <1>8, NowhereElse
  <2>6. Live' = {Kernel}
    BY <2>3, <2>4, <2>5 DEF Live
  <2>7. Roots' = {K}
    BY <2>4, <2>6 DEF Roots
  <2>8. Sound(frames, o.mem, {K}, K)
    BY <1>4, <1>5, <1>8
  <2>9. Sound(frames', memory', Roots', pml4'[Kernel])
    BY <2>1, <2>4, <2>7, <2>8
  <2>10. Running'
    BY <2>6, <2>9 DEF Running
  <2>11. pml4' \in [Space -> Frame \cup {BootRoot, Nowhere}]
    BY <1>5, <1>8, <2>1, <2>2
  <2>12. TypeOK'
    BY <1>2, <2>1, <2>8, <2>11 DEF TypeOK, Sound, Fit, Memory, TablesIn
  <2>13. \A va \in Plain : TranslateIn(memory'.table, pml4'[Kernel], va) = TranslateIn(memory.table, pml4[Kernel], va)
    BY <1>3, <1>5, <1>6, <1>8, <2>1, <2>4
  <2>14. QED
    BY <1>6, <2>1, <2>6, <2>10, <2>12, <2>13 DEF Inv
<1>9. QED
  BY <1>5, <1>7, <1>8

\* Creating a space keeps the invariant and every translation there was.
LEMMA CreateKeeps ==
    ASSUME Inv, NEW p \in Process, CreateSpace(p)
    PROVE  /\ Inv'
           /\ owned /\ owned' /\ p \notin Live /\ Live' = Live \cup {p}
           /\ pml4'[p] \notin Roots /\ Roots' = Roots \cup {pml4'[p]}
           /\ \A s \in Live : pml4'[s] = pml4[s]
           /\ Alike(memory, memory', Roots)
           /\ LowerBare(memory'.table, pml4'[p])
<1>1. /\ owned /\ pml4[p] = Nowhere /\ Mapped(Kernel, Permanent) /\ memory.free # {}
      /\ pml4' = [pml4 EXCEPT ![p] = NextFrame(memory)]
      /\ memory' = [Allocate(memory) EXCEPT !.table[NextFrame(memory)] = KernelHalf]
      /\ UNCHANGED <<frames, cr3, owned>>
  BY DEF CreateSpace
<1>2. PICK F, m, R, K, n : F = frames /\ m = memory /\ R = Roots /\ K = pml4[Kernel] /\ n = NextFrame(memory)
  OBVIOUS
<1>3. PICK o : o = memory'
  OBVIOUS
<1>4. Sound(F, m, R, K)
  BY <1>1, <1>2, RunningParts
<1>5. Created(m, K, n, o)
  <2>1. PICK half : half = [i \in Index |-> IF i < KernelFirst THEN Absent ELSE [m.table[K][i] EXCEPT !.user = FALSE]]
    OBVIOUS
  <2>2. KernelHalf = half
    BY <1>2, <2>1 DEF KernelHalf
  <2>3. PICK a : a = Allocate(m)
    OBVIOUS
  <2>4. a = [table |-> a.table, free |-> a.free]
    BY <2>3 DEF Allocate
  <2>5. o = [a EXCEPT !.table[n] = half]
    BY <1>1, <1>2, <1>3, <2>2, <2>3
  <2>6. o.free = a.free /\ o.table = [a.table EXCEPT ![n] = half] /\ o = [table |-> o.table, free |-> o.free]
    BY <2>4, <2>5
  <2>7. Leads(TranslateIn(m.table, K, Permanent))
    BY <1>1, <1>2 DEF Mapped, Translate
  <2>8. QED
    BY <1>1, <1>2, <2>1, <2>3, <2>6, <2>7 DEF Created
<1>7. /\ n \in Frame \ R /\ n \in m.free
      /\ Sound(F, o, R \cup {n}, K)
      /\ Alike(m, o, R)
      /\ LowerBare(o.table, n)
  BY <1>4, <1>5, CreateSound
<1>8. pml4 \in [Space -> Frame \cup {BootRoot, Nowhere}] /\ p \in Space /\ p # Kernel
  BY ConstantsAssumption DEF Inv, TypeOK, Space
<1>9. pml4'[p] = n /\ \A s \in Space : s # p => pml4'[s] = pml4[s]
  BY <1>1, <1>2, <1>8
<1>10. p \notin Live /\ n # Nowhere /\ Live \subseteq Space /\ Kernel \in Live
  BY <1>1, <1>7, NowhereElse, RunningParts DEF Live
<1>11. Live' = Live \cup {p}
  BY <1>8, <1>9, <1>10 DEF Live
<1>12. \A s \in Live : pml4'[s] = pml4[s] /\ pml4[s] \in R /\ pml4[s] # n
  <2>1. \A s \in Live : pml4[s] \in R
    BY <1>2 DEF Roots
  <2>2. QED
    BY <1>7, <1>9, <1>10, <2>1
<1>13. Roots' = R \cup {n}
  BY <1>2, <1>9, <1>11, <1>12 DEF Roots
<1>14. Running'
  <2>1. \A s, q \in Live : pml4[s] = pml4[q] => s = q
    BY <1>1, RunningParts
  <2>2. \A s, q \in Live' : pml4'[s] = pml4'[q] => s = q
    BY <1>9, <1>11, <1>12, <2>1
  <2>3. pml4'[Kernel] = K /\ frames' = F /\ memory' = o
    BY <1>1, <1>2, <1>3, <1>10, <1>12
  <2>4. Sound(frames', memory', Roots', pml4'[Kernel])
    BY <1>7, <1>13, <2>3
  <2>5. QED
    BY <1>10, <1>11, <2>2, <2>4 DEF Running
<1>15. TypeOK'
  <2>1. pml4' \in [Space -> Frame \cup {BootRoot, Nowhere}]
    BY <1>1, <1>2, <1>7, <1>8
  <2>2. QED
    BY <1>1, <1>2, <1>3, <1>7, <2>1 DEF Inv, TypeOK, Sound, Fit, Memory, TablesIn
<1>16. Inv'
  BY <1>1, <1>14, <1>15 DEF Inv
<1>17. QED
  BY <1>1, <1>2, <1>3, <1>7, <1>9, <1>10, <1>11, <1>12, <1>13, <1>16

\* Destroying a space keeps the invariant and the translations of the others.
LEMMA DestroyKeeps ==
    ASSUME Inv, NEW p \in Process, DestroySpace(p)
    PROVE  /\ Inv'
           /\ owned /\ owned' /\ p \in Live /\ Live' = Live \ {p}
           /\ Roots' = Roots \ {pml4[p]}
           /\ \A s \in Live' : pml4'[s] = pml4[s]
           /\ Alike(memory, memory', Roots')
           /\ LowerBare(memory.table, pml4[p])
<1>1. /\ p \in Live /\ LowerHalfEmpty(p)
      /\ memory' = Free(memory, pml4[p]) /\ pml4' = [pml4 EXCEPT ![p] = Nowhere]
      /\ UNCHANGED <<frames, cr3, owned>>
  BY DEF DestroySpace
<1>2. owned
  BY <1>1, BootingLive, ConstantsAssumption DEF Inv
<1>3. PICK F, m, R, K, n, o : F = frames /\ m = memory /\ R = Roots /\ K = pml4[Kernel] /\ n = pml4[p] /\ o = memory'
  OBVIOUS
<1>4. Sound(F, m, R, K) /\ n \in R \ {K}
  BY <1>1, <1>2, <1>3, RunningParts, ConstantsAssumption
<1>5. \A i \in Index : i < KernelFirst => m.table[n][i].kind = "absent"
  BY <1>1, <1>3 DEF LowerHalfEmpty
<1>6. o = Free(m, n)
  BY <1>1, <1>3
<1>7. /\ Sound(F, o, R \ {n}, K)
      /\ Alike(m, o, R \ {n})
      /\ LowerBare(m.table, n)
  BY <1>4, <1>5, <1>6, DestroySound
<1>8. pml4 \in [Space -> Frame \cup {BootRoot, Nowhere}] /\ p \in Space /\ p # Kernel
  BY ConstantsAssumption DEF Inv, TypeOK, Space
<1>9. pml4'[p] = Nowhere /\ \A s \in Space : s # p => pml4'[s] = pml4[s]
  BY <1>1, <1>8
<1>10. Live' = Live \ {p}
  BY <1>8, <1>9 DEF Live
<1>11. \A s \in Live' : s \in Live /\ pml4'[s] = pml4[s]
  BY <1>9, <1>10 DEF Live
<1>12. \A s, q \in Live : pml4[s] = pml4[q] => s = q
  BY <1>2, RunningParts
<1>13. Roots' = R \ {n}
  <2>1. \A x : x \in Roots' <=> \E s \in Live' : x = pml4[s]
    BY <1>11 DEF Roots
  <2>2. \A x : x \in Roots <=> \E s \in Live : x = pml4[s]
    BY DEF Roots
  <2>3. \A x : x \in Roots' <=> x \in R \ {n}
    BY <1>1, <1>3, <1>10, <1>12, <2>1, <2>2
  <2>4. QED
    BY <2>3
<1>14. Running'
  <2>1. \A s, q \in Live' : pml4'[s] = pml4'[q] => s = q
    BY <1>11, <1>12
  <2>2. Kernel \in Live'
    BY <1>2, <1>8, <1>10, RunningParts
  <2>3. pml4'[Kernel] = K /\ frames' = F /\ memory' = o
    BY <1>1, <1>3, <1>11, <2>2
  <2>4. Sound(frames', memory', Roots', pml4'[Kernel])
    BY <1>7, <1>13, <2>3
  <2>5. QED
    BY <2>1, <2>2, <2>4 DEF Running
<1>15. TypeOK'
  <2>1. pml4' \in [Space -> Frame \cup {BootRoot, Nowhere}]
    BY <1>1, <1>8
  <2>2. QED
    BY <1>1, <1>3, <1>7, <2>1 DEF Inv, TypeOK, Sound, Fit, Memory, TablesIn
<1>16. Inv'
  BY <1>1, <1>2, <1>14, <1>15 DEF Inv
<1>17. QED
  BY <1>1, <1>2, <1>3, <1>7, <1>10, <1>11, <1>13, <1>16

\* Loading CR3 keeps the invariant.
LEMMA ActivateKeeps ==
    ASSUME Inv, NEW s \in Space, Activate(s)
    PROVE  Inv'
<1>1. s \in Live /\ cr3' = s /\ UNCHANGED <<frames, memory, pml4, owned>>
  BY DEF Activate
<1>2. Live' = Live
  BY <1>1 DEF Live
<1>3. Roots' = Roots
  BY <1>1, <1>2 DEF Roots
<1>4. TypeOK'
  BY <1>1 DEF Inv, TypeOK
<1>5. Booting => Booting'
  BY <1>1 DEF Booting, Ready
<1>6. Running => Running'
  BY <1>1, <1>2, <1>3 DEF Running
<1>7. QED
  BY <1>1, <1>4, <1>5, <1>6 DEF Inv

\* The steps of the system, with what they may be called with.
LEMMA NextIs ==
    ASSUME Next
    PROVE  \/ TakeOwnership
           \/ \E s, run, base, rights : MapCall(s, run, base, rights) /\ Map(s, run, base, rights)
           \/ \E s, va : UnmapCall(s, va) /\ Unmap(s, va)
           \/ \E p \in Process, va \in Pages(UserRuns), rights \in UserRights : Protect(p, va, rights)
           \/ \E p \in Process : CreateSpace(p)
           \/ \E p \in Process : DestroySpace(p)
           \/ \E s \in Space : Activate(s)
  BY DEF Next, MapCall, UnmapCall

\* Every step keeps the invariant.
LEMMA StepKeeps == Inv /\ [Next]_vars => Inv'
<1> SUFFICES ASSUME Inv, [Next]_vars PROVE Inv'
  OBVIOUS
<1>1. CASE UNCHANGED vars
  <2>1. frames' = frames /\ memory' = memory /\ pml4' = pml4 /\ cr3' = cr3 /\ owned' = owned
    BY <1>1 DEF vars
  <2>2. Live' = Live
    BY <2>1 DEF Live
  <2>3. Roots' = Roots
    BY <2>1, <2>2 DEF Roots
  <2>4. TypeOK'
    BY <2>1 DEF Inv, TypeOK
  <2>5. Booting => Booting'
    BY <2>1 DEF Booting, Ready
  <2>6. Running => Running'
    BY <2>1, <2>2, <2>3 DEF Running
  <2>7. QED
    BY <2>1, <2>4, <2>5, <2>6 DEF Inv
<1>2. CASE Next
  BY <1>2, NextIs, TakeOwnershipKeeps, MapKeeps, UnmapKeeps, ProtectKeeps, CreateKeeps, DestroyKeeps, ActivateKeeps
<1>3. QED
  BY <1>1, <1>2

\* Every state of the page tables is of one of the two forms.
THEOREM Invariance == Spec => []Inv
  BY InitInv, StepKeeps, PTL DEF Spec

-----------------------------------------------------------------------------
(* The frames in use.                                                       *)

\* The tables that some tables lead to.
LEMMA ChildrenAre ==
    ASSUME NEW tables, NEW c
    PROVE  c \in Children(tables) <=> \E f \in tables, i \in Index : IsTable(memory.table, f, i) /\ memory.table[f][i].at = c
<1>1. PICK T : T = memory.table
  OBVIOUS
<1>2. PICK D : D = {d \in tables \X Index : T[d[1]][d[2]].kind = "table"}
  OBVIOUS
<1>3. Children(tables) = {T[e[1]][e[2]].at : e \in D}
  BY <1>1, <1>2 DEF Children
<1>4. \A f \in tables, i \in Index : T[f][i].kind = "table" => <<f, i>> \in D
  BY <1>2
<1>5. \A e \in D : e[1] \in tables /\ e[2] \in Index /\ T[e[1]][e[2]].kind = "table"
  BY <1>2
<1>6. ASSUME NEW f \in tables, NEW i \in Index, T[f][i].kind = "table", T[f][i].at = c
      PROVE  c \in Children(tables)
  <2>1. PICK e : e = <<f, i>>
    OBVIOUS
  <2>2. e \in D /\ e[1] = f /\ e[2] = i
    BY <1>4, <1>6, <2>1
  <2>3. QED
    BY <1>3, <1>6, <2>2
<1>7. ASSUME c \in Children(tables)
      PROVE  \E f \in tables, i \in Index : T[f][i].kind = "table" /\ T[f][i].at = c
  <2>1. PICK e \in D : T[e[1]][e[2]].at = c
    BY <1>3, <1>7
  <2>2. QED
    BY <1>5, <2>1
<1>8. QED
  BY <1>1, <1>6, <1>7 DEF IsTable

\* The tables in use are three times the children of the top levels.
LEMMA InUseIs ==
    ASSUME NEW third, third = Children(Roots), NEW second, second = Children(third), NEW first, first = Children(second)
    PROVE  \A f : f \in InUse <=> f \in Roots \/ f \in third \/ f \in second \/ f \in first
  BY DEF InUse, Roots

\* A walk reaches the tables of a well-formed hierarchy and no other.
LEMMA ReachesAll ==
    ASSUME NEW used, NEW K, NEW level, NEW own, Well(memory.table, used, Roots, K, level, own)
    PROVE  InUse = used
<1>1. PICK T, R : T = memory.table /\ R = Roots
  OBVIOUS
<1>2. Well(T, used, R, K, level, own)
  BY <1>1
<1>3. /\ used \subseteq Frame /\ R \subseteq used /\ level \in [Frame -> 1..4] /\ K \in R
      /\ \A f \in used : level[f] \in 1..4
  BY <1>2 DEF Well, Sets
<1>4. /\ \A f \in used : level[f] = 4 <=> f \in R
      /\ \A f \in used, i \in Index : IsTable(T, f, i) =>
            /\ T[f][i].at \in used
            /\ level[f] = level[T[f][i].at] + 1 \/ (f \in R /\ T[f][i].at = K)
  BY <1>2 DEF Well, Leveled, SelfEntry
<1>5. \A f \in used \ R : \E g \in used, i \in Index : IsTable(T, g, i) /\ T[g][i].at = f
  BY <1>2 DEF Well, Held
<1>6. PICK third, second, first : third = Children(R) /\ second = Children(third) /\ first = Children(second)
  OBVIOUS
<1>7. /\ \A f : f \in third <=> \E g \in R, i \in Index : IsTable(T, g, i) /\ T[g][i].at = f
      /\ \A f : f \in second <=> \E g \in third, i \in Index : IsTable(T, g, i) /\ T[g][i].at = f
      /\ \A f : f \in first <=> \E g \in second, i \in Index : IsTable(T, g, i) /\ T[g][i].at = f
  <2>1. \A tables, f : f \in Children(tables) <=> \E g \in tables, i \in Index : IsTable(T, g, i) /\ T[g][i].at = f
    BY <1>1, ChildrenAre
  <2>2. QED
    BY <1>6, <2>1
<1>8. \A f : f \in InUse <=> f \in R \/ f \in third \/ f \in second \/ f \in first
  BY <1>1, <1>6, InUseIs
<1>9. third \subseteq used /\ second \subseteq used /\ first \subseteq used
  <2>1. third \subseteq used
    BY <1>3, <1>4, <1>7
  <2>2. second \subseteq used
    BY <1>4, <1>7, <2>1
  <2>3. QED
    BY <1>4, <1>7, <2>1, <2>2
<1>10. \A f \in used \ R : \E g \in used, i \in Index :
            IsTable(T, g, i) /\ T[g][i].at = f /\ level[g] = level[f] + 1
  <2> SUFFICES ASSUME NEW f \in used \ R
               PROVE  \E g \in used, i \in Index : IsTable(T, g, i) /\ T[g][i].at = f /\ level[g] = level[f] + 1
    OBVIOUS
  <2>1. PICK g \in used, i \in Index : IsTable(T, g, i) /\ T[g][i].at = f
    BY <1>5
  <2>2. f # K
    BY <1>3
  <2>3. QED
    BY <1>4, <2>1, <2>2
<1>11. \A f \in used : level[f] = 3 => f \in third
  <2> SUFFICES ASSUME NEW f \in used, level[f] = 3 PROVE f \in third
    OBVIOUS
  <2>1. f \notin R
    BY <1>4
  <2>2. PICK g \in used, i \in Index : IsTable(T, g, i) /\ T[g][i].at = f /\ level[g] = level[f] + 1
    BY <1>10, <2>1
  <2>3. level[g] = 4
    BY <2>2
  <2>4. QED
    BY <1>4, <1>7, <2>2, <2>3
<1>12. \A f \in used : level[f] = 2 => f \in second
  <2> SUFFICES ASSUME NEW f \in used, level[f] = 2 PROVE f \in second
    OBVIOUS
  <2>1. f \notin R
    BY <1>4
  <2>2. PICK g \in used, i \in Index : IsTable(T, g, i) /\ T[g][i].at = f /\ level[g] = level[f] + 1
    BY <1>10, <2>1
  <2>3. level[g] = 3
    BY <2>2
  <2>4. QED
    BY <1>7, <1>11, <2>2, <2>3
<1>13. \A f \in used : level[f] = 1 => f \in first
  <2> SUFFICES ASSUME NEW f \in used, level[f] = 1 PROVE f \in first
    OBVIOUS
  <2>1. f \notin R
    BY <1>4
  <2>2. PICK g \in used, i \in Index : IsTable(T, g, i) /\ T[g][i].at = f /\ level[g] = level[f] + 1
    BY <1>10, <2>1
  <2>3. level[g] = 2
    BY <2>2
  <2>4. QED
    BY <1>7, <1>12, <2>2, <2>3
<1>14. \A f \in used : level[f] = 1 \/ level[f] = 2 \/ level[f] = 3 \/ level[f] = 4
  BY <1>3
<1>15. \A f : f \in InUse <=> f \in used
  BY <1>3, <1>4, <1>8, <1>9, <1>11, <1>12, <1>13, <1>14
<1>16. QED
  BY <1>15

\* Where the entries are that point to f.
Parents(f) == {c \in InUse \X Index : memory.table[c[1]][c[2]].kind = "table" /\ memory.table[c[1]][c[2]].at = f}

\* With its own tables the kernel uses exactly the allocated frames.
LEMMA RunningExact ==
    ASSUME Inv, owned
    PROVE  /\ InUse \cap Frame = frames \ memory.free
           /\ \A f \in InUse : \A x, y \in Parents(f) : x = y \/ (x[2] = y[2] /\ x[2] >= KernelFirst)
<1>1. PICK T, used, level, own : /\ T = memory.table /\ used = frames \ memory.free
                                 /\ Well(T, used, Roots, pml4[Kernel], level, own)
  BY RunningParts DEF Sound, Fit
<1>2. InUse = used /\ used \subseteq Frame
  BY <1>1, ReachesAll DEF Well, Sets
<1>3. ASSUME NEW f \in InUse, NEW x \in Parents(f), NEW y \in Parents(f)
      PROVE  x = y \/ (x[2] = y[2] /\ x[2] >= KernelFirst)
  <2>1. /\ x \in used \X Index /\ T[x[1]][x[2]].kind = "table" /\ T[x[1]][x[2]].at = f
        /\ y \in used \X Index /\ T[y[1]][y[2]].kind = "table" /\ T[y[1]][y[2]].at = f
    BY <1>1, <1>2, <1>3 DEF Parents
  <2>2. PICK g, i, h, j : g = x[1] /\ i = x[2] /\ h = y[1] /\ j = y[2]
    OBVIOUS
  <2>3. g \in used /\ i \in Index /\ h \in used /\ j \in Index /\ x = <<g, i>> /\ y = <<h, j>>
    BY <2>1, <2>2
  <2>4. IsTable(T, g, i) /\ IsTable(T, h, j) /\ T[g][i].at = T[h][j].at
    BY <2>1, <2>2 DEF IsTable
  <2>5. (g = h /\ i = j) \/ (i = j /\ i >= KernelFirst)
    BY <1>1, <2>3, <2>4 DEF Well, Single
  <2>6. QED
    BY <2>2, <2>3, <2>5
<1>4. QED
  BY <1>1, <1>2, <1>3

\* Before, none is allocated.
LEMMA BootingExact ==
    ASSUME Inv, ~ owned
    PROVE  /\ InUse \cap Frame = frames \ memory.free
           /\ \A f \in InUse : \A x, y \in Parents(f) : x = y
<1>1. Booting
  BY DEF Inv
<1>2. PICK T : T = memory.table
  OBVIOUS
<1>3. PICK lv : BootLevels(lv)
  BY BootLevelsExist
<1>4. memory.free = frames /\ \A f \in BootFrame : T[f] = Boot[f]
  BY <1>1, <1>2 DEF Booting, Ready
<1>5. Roots \subseteq BootFrame
  BY <1>1, BootingLive, NowhereElse
<1>6. ASSUME NEW tables, tables \subseteq BootFrame PROVE Children(tables) \subseteq BootFrame
  <2>1. ASSUME NEW f \in tables, NEW i \in Index, IsTable(T, f, i) PROVE T[f][i].at \in BootFrame
    BY <1>3, <1>4, <1>6, <2>1 DEF IsTable, BootLevels
  <2>2. QED
    BY <1>2, <2>1, ChildrenAre
<1>7. InUse \subseteq BootFrame
  <2>1. PICK third, second, first : third = Children(Roots) /\ second = Children(third) /\ first = Children(second)
    OBVIOUS
  <2>2. third \subseteq BootFrame
    BY <1>5, <1>6, <2>1
  <2>3. second \subseteq BootFrame
    BY <1>6, <2>1, <2>2
  <2>4. first \subseteq BootFrame
    BY <1>6, <2>1, <2>3
  <2>5. QED
    BY <1>5, <2>1, <2>2, <2>3, <2>4, InUseIs
<1>8. InUse \cap Frame = frames \ memory.free
  BY <1>4, <1>7, Apart
<1>9. ASSUME NEW f \in InUse, NEW x \in Parents(f), NEW y \in Parents(f)
      PROVE  x = y
  <2>1. /\ x \in BootFrame \X Index /\ T[x[1]][x[2]].kind = "table" /\ T[x[1]][x[2]].at = f
        /\ y \in BootFrame \X Index /\ T[y[1]][y[2]].kind = "table" /\ T[y[1]][y[2]].at = f
    BY <1>2, <1>7, <1>9 DEF Parents
  <2>2. PICK g, i, h, j : g = x[1] /\ i = x[2] /\ h = y[1] /\ j = y[2]
    OBVIOUS
  <2>3. g \in BootFrame /\ i \in Index /\ h \in BootFrame /\ j \in Index /\ x = <<g, i>> /\ y = <<h, j>>
    BY <2>1, <2>2
  <2>4. Boot[g][i].kind = "table" /\ Boot[h][j].kind = "table" /\ Boot[g][i].at = Boot[h][j].at
    BY <1>4, <2>1, <2>2, <2>3
  <2>5. g = h /\ i = j
    BY <2>3, <2>4, BootAssumption
  <2>6. QED
    BY <2>3, <2>5
<1>10. QED
  BY <1>8, <1>9

\* The invariant implies that the tables are exact.
LEMMA InvExact == Inv => TablesExact
<1> SUFFICES ASSUME Inv PROVE TablesExact
  OBVIOUS
<1>1. TypeOK
  BY DEF Inv
<1>2. /\ InUse \cap Frame = frames \ memory.free
      /\ \A f \in InUse : \A x, y \in Parents(f) : x = y \/ (x[2] = y[2] /\ x[2] >= KernelFirst)
  BY RunningExact, BootingExact
<1>3. QED
  BY <1>1, <1>2 DEF TablesExact, Parents

\* The state keeps its types: every table holds entries, and the free frames are the allocator's.
THEOREM TypeCorrect == Spec => []TypeOK
<1>1. Inv => TypeOK
  BY DEF Inv
<1>2. QED
  BY <1>1, Invariance, PTL

\* After every call of the memory manager the frames it has taken from the allocator are the tables
\* the spaces reach, each hanging in one place, for any number of processes, pages and frames.
THEOREM TablesAreExact == Spec => []TablesExact
  BY InvExact, Invariance, PTL

-----------------------------------------------------------------------------
(* The mappings.                                                            *)

\* The mapping of va in space s by an entry e.
Row(s, va, e) == [space |-> s, va |-> va, at |-> e.at, user |-> e.user, writable |-> e.writable]

\* v holds the mappings of the spaces L, which translate va to t[s][va].
Shows(v, L, t) == \A x : x \in v <=> \E s \in L, va \in Address : Leads(t[s][va]) /\ x = Row(s, va, t[s][va])

Translations == [s \in Live |-> [va \in Address |-> Translate(s, va)]]

\* View shows the translations of the live spaces,
LEMMA ViewShows == Shows(View, Live, Translations)
<1>1. PICK t, L : t = Translations /\ L = Live
  OBVIOUS
<1>2. \A s \in L, va \in Address : t[s][va] = Translate(s, va)
  BY <1>1 DEF Translations
<1>3. PICK D : D = {d \in L \X Address : Mapped(d[1], d[2])}
  OBVIOUS
<1>4. \A s \in L, va \in Address : Leads(t[s][va]) => <<s, va>> \in D
  BY <1>2, <1>3 DEF Mapped
<1>5. \A c \in D : c[1] \in L /\ c[2] \in Address /\ Leads(t[c[1]][c[2]])
  BY <1>2, <1>3 DEF Mapped
<1>6. View = {Row(c[1], c[2], Translate(c[1], c[2])) : c \in D}
  BY <1>1, <1>3 DEF View, Row
<1>7. \A c \in D : Row(c[1], c[2], Translate(c[1], c[2])) = Row(c[1], c[2], t[c[1]][c[2]])
  BY <1>2, <1>5
<1>8. ASSUME NEW x \in View PROVE \E s \in L, va \in Address : Leads(t[s][va]) /\ x = Row(s, va, t[s][va])
  <2>1. PICK c \in D : x = Row(c[1], c[2], Translate(c[1], c[2]))
    BY <1>6
  <2>2. QED
    BY <1>5, <1>7, <2>1
<1>9. ASSUME NEW s \in L, NEW va \in Address, Leads(t[s][va]) PROVE Row(s, va, t[s][va]) \in View
  <2>1. PICK c : c = <<s, va>>
    OBVIOUS
  <2>2. c \in D /\ c[1] = s /\ c[2] = va
    BY <1>4, <1>9, <2>1
  <2>3. QED
    BY <1>6, <1>7, <2>2
<1>10. QED
  BY <1>1, <1>8, <1>9 DEF Shows

\* also after a step.
LEMMA ViewShowsNext == Shows(View, Live, Translations)'
  BY ViewShows, PTL

\* The fields of a mapping.
LEMMA RowFields ==
    ASSUME NEW s, NEW va, NEW e, NEW x, x = Row(s, va, e)
    PROVE  /\ x.space = s /\ x.va = va /\ x.at = e.at /\ x.user = e.user /\ x.writable = e.writable
           /\ \A q : [x EXCEPT !.space = q] = Row(q, va, e)
  BY DEF Row

\* A mapping depends on where the entry leads and on its rights.
LEMMA RowEqual ==
    ASSUME NEW s, NEW va, NEW e, NEW e2, e2.at = e.at, e2.user = e.user, e2.writable = e.writable
    PROVE  Row(s, va, e2) = Row(s, va, e)
  BY DEF Row

\* A mapping that is shown says where.
LEMMA Shown ==
    ASSUME NEW v, NEW L, NEW t, Shows(v, L, t)
    PROVE  /\ \A x \in v : x.space \in L /\ x.va \in Address /\ Leads(t[x.space][x.va]) /\ x = Row(x.space, x.va, t[x.space][x.va])
           /\ \A s \in L, va \in Address : Leads(t[s][va]) => Row(s, va, t[s][va]) \in v
<1>1. ASSUME NEW x \in v
      PROVE  x.space \in L /\ x.va \in Address /\ Leads(t[x.space][x.va]) /\ x = Row(x.space, x.va, t[x.space][x.va])
  <2>1. PICK s \in L, va \in Address : Leads(t[s][va]) /\ x = Row(s, va, t[s][va])
    BY DEF Shows
  <2>2. x.space = s /\ x.va = va
    BY <2>1, RowFields
  <2>3. QED
    BY <2>1, <2>2
<1>2. QED
  BY <1>1 DEF Shows

\* Equal translations show equal mappings.
LEMMA SameView ==
    ASSUME NEW v, NEW v2, NEW L, NEW t, NEW t2, Shows(v, L, t), Shows(v2, L, t2),
           \A s \in L, va \in Address : t2[s][va] = t[s][va]
    PROVE  v2 = v
  BY DEF Shows

\* Membership in the sets of VmmSpec.
LEMMA PromiseSets ==
    /\ \A v, s, m : m \in Promise!Of(v, s) <=> m \in v /\ m.space = s
    /\ \A v, va : va \in Promise!PagesOf(v) <=> \E m \in v : m.va = va
    /\ \A s, va, q : q \in Promise!Sharers(s, va) <=> IF va \in UpperPages THEN q \in Live ELSE q = s
    /\ \A runs : Promise!PagesIn(runs) = Pages(runs)
  BY DEF Promise!Of, Promise!PagesOf, Promise!Sharers, Promise!PagesIn, Pages

\* A change of va in s is seen in q.
Sees(s, va, q) == q = s \/ va \in UpperPages

\* The run is mapped in addition, to the frames from base on.
Grown(s, t, t2, run, base, rights) ==
    /\ s \in Live /\ rights \in Rights
    /\ \A k \in 1..Len(run) :
        /\ run[k] \in Address
        /\ t2[s][run[k]] \in Entry /\ Granted(t2[s][run[k]], base + k - 1, rights)
        /\ \A q \in Live : Sees(s, run[k], q) => ~ Leads(t[q][run[k]]) /\ t2[q][run[k]] = t2[s][run[k]]
    /\ \A va \in Address, q \in Live :
        (\A k \in 1..Len(run) : ~ (va = run[k] /\ Sees(s, va, q))) => t2[q][va] = t[q][va]

\* A mapping, field by field.
Made(q, va, at, user, writable) == [space |-> q, va |-> va, at |-> at, user |-> user, writable |-> writable]

\* The mapping of a page is made of what its entry grants.
LEMMA MadeRow ==
    ASSUME NEW q, NEW va, NEW e, NEW at, at = e.at, NEW user, user = e.user, NEW writable, writable = e.writable
    PROVE  Made(q, va, at, user, writable) = Row(q, va, e)
  BY DEF Made, Row

\* Translations that grew by a run show a step of MapPages.
LEMMA GrownMaps ==
    ASSUME NEW v, NEW v2, NEW t, NEW t2, Shows(v, Live, t), Shows(v2, Live, t2),
           NEW s, NEW run, NEW base, NEW rights, Grown(s, t, t2, run, base, rights), UNCHANGED <<Live, cr3>>
    PROVE  Promise!MapPages(s, run, base, rights, v, v2)
<1>1. PICK L, n : L = Live /\ n = Len(run)
  OBVIOUS
<1>2. /\ s \in L /\ rights \in Rights
      /\ \A k \in 1..n :
          /\ run[k] \in Address
          /\ t2[s][run[k]] \in Entry /\ Granted(t2[s][run[k]], base + k - 1, rights)
          /\ \A q \in L : Sees(s, run[k], q) => ~ Leads(t[q][run[k]]) /\ t2[q][run[k]] = t2[s][run[k]]
      /\ \A va \in Address, q \in L :
          (\A k \in 1..n : ~ (va = run[k] /\ Sees(s, va, q))) => t2[q][va] = t[q][va]
  BY <1>1, Zenon DEF Grown
<1>3. PICK g : g = [k \in 1..n |-> t2[s][run[k]].writable]
  OBVIOUS
<1>4. ASSUME NEW k \in 1..n
      PROVE  /\ g[k] \in BOOLEAN
             /\ g[k] => rights.writable
             /\ rights.user => g[k] = rights.writable
  <2>1. PICK e : e = t2[s][run[k]]
    OBVIOUS
  <2>2. e \in Entry /\ Granted(e, base + k - 1, rights) /\ g[k] = e.writable
    BY <1>2, <1>3, <2>1
  <2>3. e.writable \in BOOLEAN
    BY <2>2, EntryFields
  <2>4. (e.writable => rights.writable) /\ (rights.user => e.writable = rights.writable)
    BY <2>2, Zenon DEF Granted
  <2>5. QED
    BY <2>2, <2>3, <2>4, Zenon
<1>5. g \in [1..n -> BOOLEAN]
  BY <1>3, <1>4
<1>6. ASSUME NEW k \in 1..n, NEW q \in L, Sees(s, run[k], q)
      PROVE  /\ Made(q, run[k], base + k - 1, rights.user, g[k]) = Row(q, run[k], t2[q][run[k]])
             /\ Leads(t2[q][run[k]]) /\ ~ Leads(t[q][run[k]])
  <2>1. PICK e : e = t2[q][run[k]]
    OBVIOUS
  <2>2. e = t2[s][run[k]] /\ ~ Leads(t[q][run[k]]) /\ Granted(e, base + k - 1, rights) /\ g[k] = e.writable
    BY <1>2, <1>3, <1>6, <2>1
  <2>3. e.kind = "page" /\ e.at = base + k - 1 /\ e.user = rights.user
    BY <2>2, Zenon DEF Granted
  <2>4. PICK at, user, writable : at = base + k - 1 /\ user = rights.user /\ writable = g[k]
    OBVIOUS
  <2>5. at = e.at /\ user = e.user /\ writable = e.writable
    BY <2>2, <2>3, <2>4
  <2>6. Made(q, run[k], at, user, writable) = Row(q, run[k], e)
    BY <2>5, MadeRow
  <2>7. QED
    BY <2>1, <2>2, <2>3, <2>4, <2>6 DEF Leads
<1> DEFINE M(k) == {Made(q, run[k], base + k - 1, rights.user, g[k]) : q \in Promise!Sharers(s, run[k])}
           new == UNION {M(k) : k \in 1..n}
<1>7. \A k \in 1..n : \A q : q \in Promise!Sharers(s, run[k]) <=> q \in L /\ Sees(s, run[k], q)
  BY <1>1, <1>2, PromiseSets DEF Sees
<1>8. ASSUME NEW x
      PROVE  x \in new <=> \E k \in 1..n, q \in L : Sees(s, run[k], q) /\ x = Row(q, run[k], t2[q][run[k]])
  <2>1. ASSUME NEW k \in 1..n
        PROVE  x \in M(k) <=> \E q \in L : Sees(s, run[k], q) /\ x = Row(q, run[k], t2[q][run[k]])
    <3>1. x \in M(k) <=> \E q \in Promise!Sharers(s, run[k]) : x = Made(q, run[k], base + k - 1, rights.user, g[k])
      OBVIOUS
    <3>2. QED
      BY <1>6, <1>7, <3>1
  <2> HIDE DEF M
  <2>2. QED
    BY <2>1
<1> HIDE DEF new
<1>9. v2 = v \cup new
  <2>1. ASSUME NEW x \in v2 PROVE x \in v \/ x \in new
    <3>1. PICK q \in L, va \in Address : Leads(t2[q][va]) /\ x = Row(q, va, t2[q][va])
      BY <1>1 DEF Shows
    <3>2. CASE \E k \in 1..n : va = run[k] /\ Sees(s, va, q)
      BY <1>8, <3>1, <3>2
    <3>3. CASE \A k \in 1..n : ~ (va = run[k] /\ Sees(s, va, q))
      <4>1. t2[q][va] = t[q][va]
        BY <1>2, <3>3
      <4>2. QED
        BY <1>1, <3>1, <4>1 DEF Shows
    <3>4. QED
      BY <3>2, <3>3
  <2>2. ASSUME NEW x \in v PROVE x \in v2
    <3>1. PICK q \in L, va \in Address : Leads(t[q][va]) /\ x = Row(q, va, t[q][va])
      BY <1>1 DEF Shows
    <3>2. \A k \in 1..n : ~ (va = run[k] /\ Sees(s, va, q))
      BY <1>6, <3>1
    <3>3. t2[q][va] = t[q][va]
      BY <1>2, <3>2
    <3>4. QED
      BY <1>1, <3>1, <3>3 DEF Shows
  <2>3. ASSUME NEW x \in new PROVE x \in v2
    <3>1. PICK k \in 1..n, q \in L : Sees(s, run[k], q) /\ x = Row(q, run[k], t2[q][run[k]])
      BY <1>8, <2>3
    <3>2. Leads(t2[q][run[k]]) /\ run[k] \in Address
      BY <1>2, <1>6, <3>1
    <3>3. QED
      BY <1>1, <3>1, <3>2 DEF Shows
  <2>4. QED
    BY <2>1, <2>2, <2>3
<1>10. \A k \in 1..n : run[k] \notin Promise!PagesOf(Promise!Of(v, s))
  <2> SUFFICES ASSUME NEW k \in 1..n, NEW x \in v, x.space = s, x.va = run[k] PROVE FALSE
    BY PromiseSets
  <2>1. Sees(s, run[k], s)
    BY DEF Sees
  <2>2. ~ Leads(t[s][run[k]])
    BY <1>2, <1>6, <2>1
  <2>3. Leads(t[x.space][x.va])
    BY Shown
  <2>4. QED
    BY <2>2, <2>3
<1>11. v2 = v \cup UNION {{[space |-> q, va |-> run[k], at |-> base + k - 1, user |-> rights.user, writable |-> g[k]] :
                          q \in Promise!Sharers(s, run[k])} : k \in 1..Len(run)}
  BY <1>1, <1>9 DEF new, M, Made
<1>12. (\A k \in 1..n : g[k] => rights.writable) /\ (rights.user => \A k \in 1..n : g[k] = rights.writable)
  BY <1>4, Zenon
<1>13. QED
  BY <1>1, <1>2, <1>5, <1>10, <1>11, <1>12, Zenon DEF Promise!MapPages

\* A mapping with other rights, and one of another space.
Righted(x, user, writable) == [x EXCEPT !.user = user, !.writable = writable]

Moved(x, p) == [x EXCEPT !.space = p, !.user = FALSE]

\* A mapping with other rights.
LEMMA NewRights ==
    ASSUME NEW s, NEW va, NEW e, NEW x, x = Row(s, va, e), NEW e2, e2.at = e.at,
           NEW user, user = e2.user, NEW writable, writable = e2.writable
    PROVE  Righted(x, user, writable) = Row(s, va, e2)
<1>1. PICK y : y = Righted(x, user, writable)
  OBVIOUS
<1>2. /\ y = [f \in DOMAIN y |-> y[f]] /\ DOMAIN y = {"space", "va", "at", "user", "writable"}
      /\ y.space = s /\ y.va = va /\ y.at = e.at /\ y.user = user /\ y.writable = writable
  BY <1>1 DEF Row, Righted
<1>3. PICK z : z = Row(s, va, e2)
  OBVIOUS
<1>4. /\ z = [f \in DOMAIN z |-> z[f]] /\ DOMAIN z = {"space", "va", "at", "user", "writable"}
      /\ z.space = s /\ z.va = va /\ z.at = e2.at /\ z.user = e2.user /\ z.writable = e2.writable
  BY <1>3 DEF Row
<1>5. \A f \in {"space", "va", "at", "user", "writable"} : y[f] = z[f]
  BY <1>2, <1>4
<1>6. y = z
  BY <1>2, <1>4, <1>5
<1>7. QED
  BY <1>1, <1>3, <1>6

Closed(e) == e.user = FALSE

\* A mapping in another space.
LEMMA NewSpace ==
    ASSUME NEW s, NEW va, NEW e, NEW x, x = Row(s, va, e), NEW p, NEW e2, e2.at = e.at, Closed(e2), e2.writable = e.writable
    PROVE  Moved(x, p) = Row(p, va, e2)
<1>1. PICK y : y = Moved(x, p)
  OBVIOUS
<1>2. /\ y = [f \in DOMAIN y |-> y[f]] /\ DOMAIN y = {"space", "va", "at", "user", "writable"}
      /\ y.space = p /\ y.va = va /\ y.at = e.at /\ y.writable = e.writable
  BY <1>1 DEF Row, Moved
<1>3. y.user = FALSE
  BY <1>1 DEF Row, Moved
<1>4. PICK z : z = Row(p, va, e2)
  OBVIOUS
<1>5. /\ z = [f \in DOMAIN z |-> z[f]] /\ DOMAIN z = {"space", "va", "at", "user", "writable"}
      /\ z.space = p /\ z.va = va /\ z.at = e2.at /\ z.user = FALSE /\ z.writable = e2.writable
  BY <1>4 DEF Row, Closed
<1>6. y.space = z.space /\ y.va = z.va /\ y.at = z.at /\ y.user = z.user /\ y.writable = z.writable
  BY <1>2, <1>3, <1>5
<1>7. \A f \in {"space", "va", "at", "user", "writable"} : y[f] = z[f]
  BY <1>6
<1>8. y = z
  BY <1>2, <1>5, <1>7
<1>9. QED
  BY <1>1, <1>4, <1>8

\* The page va of s is gone.
Shrunk(s, va, t, t2) ==
    /\ s \in Live /\ va \in Address
    /\ Leads(t[s][va])
    /\ \A q \in Live : Sees(s, va, q) => ~ Leads(t2[q][va])
    /\ \A q \in Live, vb \in Address : ~ (vb = va /\ Sees(s, va, q)) => t2[q][vb] = t[q][vb]
    /\ Sees(s, va, Kernel) => va \notin BootPages

\* Translations that lost one page show a step of UnmapPage.
LEMMA ShrunkUnmaps ==
    ASSUME NEW v, NEW v2, NEW t, NEW t2, Shows(v, Live, t), Shows(v2, Live, t2),
           NEW s, NEW va, Shrunk(s, va, t, t2), UNCHANGED <<Live, cr3>>
    PROVE  Promise!UnmapPage(s, va, v, v2)
<1>1. PICK L : L = Live
  OBVIOUS
<1>2. /\ s \in L /\ va \in Address
      /\ Leads(t[s][va])
      /\ \A q \in L : Sees(s, va, q) => ~ Leads(t2[q][va])
      /\ \A q \in L, vb \in Address : ~ (vb = va /\ Sees(s, va, q)) => t2[q][vb] = t[q][vb]
      /\ Sees(s, va, Kernel) => va \notin BootPages
  BY <1>1, Zenon DEF Shrunk
<1>3. va \in Promise!PagesOf(Promise!Of(v, s))
  <2>1. PICK x : x = Row(s, va, t[s][va])
    OBVIOUS
  <2>2. x \in v /\ x.space = s /\ x.va = va
    BY <1>1, <1>2, <2>1, Shown, RowFields
  <2>3. QED
    BY <2>2, PromiseSets
<1>4. Kernel \in Promise!Sharers(s, va) => va \notin BootPages
  BY <1>2, PromiseSets DEF Sees
<1> DEFINE rest == {m \in v : m.va # va \/ m.space \notin Promise!Sharers(s, va)}
<1>5. \A q \in L : q \in Promise!Sharers(s, va) <=> Sees(s, va, q)
  BY <1>1, <1>2, PromiseSets DEF Sees
<1>6. \A m : m \in rest <=> m \in v /\ ~ (m.va = va /\ Sees(s, va, m.space))
  BY <1>1, <1>5, Shown
<1> HIDE DEF rest
<1>7. ASSUME NEW x \in v2 PROVE x \in rest
  <2>1. PICK q \in L, vb \in Address : Leads(t2[q][vb]) /\ x = Row(q, vb, t2[q][vb])
    BY <1>1 DEF Shows
  <2>2. ~ (vb = va /\ Sees(s, va, q))
    BY <1>2, <2>1
  <2>3. x \in v
    BY <1>1, <1>2, <2>1, <2>2 DEF Shows
  <2>4. x.space = q /\ x.va = vb
    BY <2>1, RowFields
  <2>5. QED
    BY <1>6, <2>2, <2>3, <2>4
<1>8. ASSUME NEW x \in rest PROVE x \in v2
  <2>1. x \in v /\ ~ (x.va = va /\ Sees(s, va, x.space))
    BY <1>6
  <2>2. PICK q \in L, vb \in Address : Leads(t[q][vb]) /\ x = Row(q, vb, t[q][vb])
    BY <1>1, <2>1 DEF Shows
  <2>3. x.space = q /\ x.va = vb
    BY <2>2, RowFields
  <2>4. t2[q][vb] = t[q][vb]
    BY <1>2, <2>1, <2>3
  <2>5. QED
    BY <1>1, <2>2, <2>4 DEF Shows
<1>9. v2 = rest
  BY <1>7, <1>8
<1>10. QED
  BY <1>1, <1>2, <1>3, <1>4, <1>9, Zenon DEF Promise!UnmapPage, rest

\* The page va of a process s has the rights asked for.
Turned(s, va, rights, t, t2) ==
    /\ s \in Live /\ va \in Address /\ s # Kernel /\ va \notin UpperPages
    /\ Leads(t[s][va]) /\ Leads(t2[s][va])
    /\ t2[s][va].at = t[s][va].at
    /\ RightsAre(t2[s][va], rights)
    /\ \A q \in Live, vb \in Address : ~ (vb = va /\ q = s) => t2[q][vb] = t[q][vb]

\* Translations with other rights for one page show a step of ProtectPage.
LEMMA TurnedProtects ==
    ASSUME NEW v, NEW v2, NEW t, NEW t2, Shows(v, Live, t), Shows(v2, Live, t2),
           NEW s, NEW va, NEW rights, Turned(s, va, rights, t, t2), UNCHANGED <<Live, cr3>>
    PROVE  Promise!ProtectPage(s, va, rights, v, v2)
<1>1. PICK L : L = Live
  OBVIOUS
<1>2. /\ s \in L /\ va \in Address /\ s # Kernel /\ va \notin UpperPages
      /\ Leads(t[s][va]) /\ Leads(t2[s][va])
      /\ t2[s][va].at = t[s][va].at
      /\ RightsAre(t2[s][va], rights)
      /\ \A q \in L, vb \in Address : ~ (vb = va /\ q = s) => t2[q][vb] = t[q][vb]
  BY <1>1, Zenon DEF Turned
<1>3. va \in Promise!PagesOf(Promise!Of(v, s))
  <2>1. PICK x : x = Row(s, va, t[s][va])
    OBVIOUS
  <2>2. x \in v /\ x.space = s /\ x.va = va
    BY <1>1, <1>2, <2>1, Shown, RowFields
  <2>3. QED
    BY <2>2, PromiseSets
<1>4. \A q : q \in Promise!Sharers(s, va) <=> q = s
  BY <1>2, PromiseSets
<1>5. PICK user, writable : user = rights.user /\ writable = rights.writable
  OBVIOUS
<1> DEFINE G(m) == IF m.va = va /\ m.space \in Promise!Sharers(s, va)
                   THEN Righted(m, user, writable)
                   ELSE m
<1>6. ASSUME NEW q \in L, NEW vb \in Address PROVE G(Row(q, vb, t[q][vb])) = Row(q, vb, t2[q][vb])
  <2>1. PICK x : x = Row(q, vb, t[q][vb])
    OBVIOUS
  <2>2. x.space = q /\ x.va = vb
    BY <2>1, RowFields
  <2>3. CASE vb = va /\ q = s
    <3>1. G(x) = Righted(x, user, writable)
      BY <1>4, <2>2, <2>3
    <3>2. Righted(x, user, writable) = Row(q, vb, t2[q][vb])
      <4>1. PICK e, e2 : e = t[q][vb] /\ e2 = t2[q][vb]
        OBVIOUS
      <4>2. x = Row(q, vb, e) /\ e2.at = e.at /\ user = e2.user /\ writable = e2.writable
        BY <1>2, <1>5, <2>1, <2>3, <4>1 DEF RightsAre
      <4>3. Righted(x, user, writable) = Row(q, vb, e2)
        BY <4>2, NewRights
      <4>4. QED
        BY <4>1, <4>3
    <3>3. QED
      BY <2>1, <3>1, <3>2
  <2>4. CASE ~ (vb = va /\ q = s)
    <3>1. G(x) = x /\ t2[q][vb] = t[q][vb]
      BY <1>2, <1>4, <2>2, <2>4
    <3>2. QED
      BY <2>1, <3>1
  <2>5. QED
    BY <2>3, <2>4
<1> HIDE DEF G
<1>7. \A q \in L, vb \in Address : Leads(t2[q][vb]) <=> Leads(t[q][vb])
  BY <1>2
<1>8. v2 = {G(m) : m \in v}
  <2>1. ASSUME NEW x \in v2 PROVE \E m \in v : x = G(m)
    <3>1. PICK q \in L, vb \in Address : Leads(t2[q][vb]) /\ x = Row(q, vb, t2[q][vb])
      BY <1>1 DEF Shows
    <3>2. PICK m : m = Row(q, vb, t[q][vb])
      OBVIOUS
    <3>3. m \in v
      BY <1>1, <1>7, <3>1, <3>2 DEF Shows
    <3>4. QED
      BY <1>6, <3>1, <3>2, <3>3
  <2>2. ASSUME NEW m \in v PROVE G(m) \in v2
    <3>1. PICK q \in L, vb \in Address : Leads(t[q][vb]) /\ m = Row(q, vb, t[q][vb])
      BY <1>1 DEF Shows
    <3>2. G(m) = Row(q, vb, t2[q][vb])
      BY <1>6, <3>1
    <3>3. QED
      BY <1>1, <1>7, <3>1, <3>2 DEF Shows
  <2>3. QED
    BY <2>1, <2>2
<1>9. Kernel \in Promise!Sharers(s, va) => va \notin BootPages
  BY <1>2, <1>4
<1>10. v2 = {IF m.va = va /\ m.space \in Promise!Sharers(s, va)
             THEN [m EXCEPT !.user = rights.user, !.writable = rights.writable]
             ELSE m : m \in v}
  BY <1>5, <1>8, Zenon DEF G, Righted
<1>11. Promise!ProtectPage(s, va, rights, v, v2)
  BY <1>1, <1>2, <1>3, <1>9, <1>10, Zenon DEF Promise!ProtectPage
<1>12. QED
  BY <1>11

\* A new space p has the upper half of the kernel's.
Joined(p, t, t2) ==
    /\ p \notin Live /\ Live' = Live \cup {p}
    /\ \A q \in Live, va \in Address : t2[q][va] = t[q][va]
    /\ \A va \in Address \ UpperPages : ~ Leads(t2[p][va])
    /\ Kernel \in Live
    /\ \A va \in UpperPages : /\ Leads(t2[p][va]) <=> Leads(t[Kernel][va])
                              /\ t2[p][va].at = t[Kernel][va].at
                              /\ t2[p][va].user = FALSE
                              /\ t2[p][va].writable = t[Kernel][va].writable

\* Translations of one more space show a step of Create.
LEMMA JoinedCreates ==
    ASSUME NEW v, NEW v2, NEW t, NEW t2, Shows(v, Live, t), NEW L2, L2 = Live', Shows(v2, L2, t2),
           NEW p, Joined(p, t, t2), UNCHANGED cr3
    PROVE  Promise!Create(p, v, v2)
<1>1. PICK L, U : L = Live /\ U = UpperPages
  OBVIOUS
<1>2. /\ p \notin L /\ L2 = L \cup {p}
      /\ \A q \in L, va \in Address : t2[q][va] = t[q][va]
      /\ \A va \in Address \ U : ~ Leads(t2[p][va])
      /\ Kernel \in L /\ U \subseteq Address
      /\ \A va \in U : /\ Leads(t2[p][va]) <=> Leads(t[Kernel][va])
                       /\ t2[p][va].at = t[Kernel][va].at
                       /\ t2[p][va].user = FALSE
                       /\ t2[p][va].writable = t[Kernel][va].writable
  <2>1. U \subseteq Address
    BY <1>1 DEF UpperPages
  <2>2. QED
    BY <1>1, <2>1, Zenon DEF Joined
<1> DEFINE upper == {m \in Promise!Of(v, Kernel) : m.va \in UpperPages}
<1>3. \A m : m \in upper <=> m \in v /\ m.space = Kernel /\ m.va \in U
  BY <1>1, PromiseSets
<1> HIDE DEF upper
<1>4. ASSUME NEW va \in U, NEW x, x = Row(Kernel, va, t[Kernel][va])
      PROVE  Moved(x, p) = Row(p, va, t2[p][va])
  <2>1. PICK e, e2 : e = t[Kernel][va] /\ e2 = t2[p][va]
    OBVIOUS
  <2>2. x = Row(Kernel, va, e) /\ e2.at = e.at /\ e2.writable = e.writable /\ Closed(e2)
    BY <1>2, <1>4, <2>1 DEF Closed
  <2>3. Moved(x, p) = Row(p, va, e2)
    BY <2>2, NewSpace
  <2>4. QED
    BY <2>1, <2>3
<1>5. ASSUME NEW x \in v2 PROVE x \in v \/ \E m \in upper : x = Moved(m, p)
  <2>1. PICK q \in L2, va \in Address : Leads(t2[q][va]) /\ x = Row(q, va, t2[q][va])
    BY DEF Shows
  <2>2. CASE q \in L
    BY <1>1, <1>2, <2>1, <2>2 DEF Shows
  <2>3. CASE q = p
    <3>1. va \in U /\ Leads(t[Kernel][va])
      BY <1>2, <2>1, <2>3
    <3>2. PICK m : m = Row(Kernel, va, t[Kernel][va])
      OBVIOUS
    <3>3. m \in v
      BY <1>1, <1>2, <2>1, <3>1, <3>2 DEF Shows
    <3>4. m.space = Kernel /\ m.va = va
      BY <3>2, RowFields
    <3>5. m \in upper
      BY <1>3, <3>1, <3>3, <3>4
    <3>6. QED
      BY <1>4, <2>1, <2>3, <3>1, <3>2, <3>5
  <2>4. QED
    BY <1>2, <2>2, <2>3
<1>6. v \subseteq v2
  <2> SUFFICES ASSUME NEW x \in v PROVE x \in v2
    OBVIOUS
  <2>1. PICK q \in L, va \in Address : Leads(t[q][va]) /\ x = Row(q, va, t[q][va])
    BY <1>1 DEF Shows
  <2>2. q \in L2 /\ t2[q][va] = t[q][va]
    BY <1>2
  <2>3. QED
    BY <2>1, <2>2 DEF Shows
<1>7. ASSUME NEW m \in upper PROVE Moved(m, p) \in v2
  <2>1. m \in v /\ m.space = Kernel /\ m.va \in U
    BY <1>3
  <2>2. m = Row(Kernel, m.va, t[Kernel][m.va]) /\ Leads(t[Kernel][m.va])
    BY <1>1, <2>1, Shown
  <2>3. Moved(m, p) = Row(p, m.va, t2[p][m.va])
    BY <1>4, <2>1, <2>2
  <2>4. Leads(t2[p][m.va]) /\ p \in L2 /\ m.va \in Address
    BY <1>2, <2>1, <2>2
  <2>5. QED
    BY <2>3, <2>4 DEF Shows
<1>8. v2 = v \cup {Moved(m, p) : m \in upper}
  BY <1>5, <1>6, <1>7
<1>9. Promise!Create(p, v, v2)
  BY <1>1, <1>2, <1>8, Zenon DEF Promise!Create, upper, Moved
<1>10. QED
  BY <1>9

\* A space p, which had no page in its lower half, is gone.
Left(p, t, t2) ==
    /\ p \in Live /\ p # cr3 /\ Live' = Live \ {p}
    /\ \A va \in Address \ UpperPages : ~ Leads(t[p][va])
    /\ \A q \in Live \ {p}, va \in Address : t2[q][va] = t[q][va]

\* Translations of one space less show a step of Destroy.
LEMMA LeftDestroys ==
    ASSUME NEW v, NEW v2, NEW t, NEW t2, Shows(v, Live, t), NEW L2, L2 = Live', Shows(v2, L2, t2),
           NEW p, Left(p, t, t2), UNCHANGED cr3
    PROVE  Promise!Destroy(p, v, v2)
<1>1. PICK L : L = Live
  OBVIOUS
<1>2. /\ p \in L /\ p # cr3 /\ L2 = L \ {p}
      /\ \A va \in Address \ UpperPages : ~ Leads(t[p][va])
      /\ \A q \in L \ {p}, va \in Address : t2[q][va] = t[q][va]
  BY <1>1, Zenon DEF Left
<1>3. Promise!PagesOf(Promise!Of(v, p)) \subseteq UpperPages
  <2> SUFFICES ASSUME NEW m \in v, m.space = p PROVE m.va \in UpperPages
    BY PromiseSets
  <2>1. m.va \in Address /\ Leads(t[m.space][m.va])
    BY Shown
  <2>2. QED
    BY <1>2, <2>1
<1>4. ASSUME NEW x \in v2 PROVE x \in v /\ x.space # p
  <2>1. PICK q \in L2, va \in Address : Leads(t2[q][va]) /\ x = Row(q, va, t2[q][va])
    BY DEF Shows
  <2>2. q \in L \ {p} /\ t2[q][va] = t[q][va]
    BY <1>2, <2>1
  <2>3. x.space = q
    BY <2>1, RowFields
  <2>4. QED
    BY <1>1, <2>1, <2>2, <2>3 DEF Shows
<1>5. ASSUME NEW x \in v, x.space # p PROVE x \in v2
  <2>1. PICK q \in L, va \in Address : Leads(t[q][va]) /\ x = Row(q, va, t[q][va])
    BY <1>1 DEF Shows
  <2>2. x.space = q
    BY <2>1, RowFields
  <2>3. q \in L2 /\ t2[q][va] = t[q][va]
    BY <1>2, <1>5, <2>2
  <2>4. QED
    BY <2>1, <2>3 DEF Shows
<1>6. v2 = v \ Promise!Of(v, p)
  BY <1>4, <1>5, PromiseSets
<1>7. QED
  BY <1>1, <1>2, <1>3, <1>6, Zenon DEF Promise!Destroy

\* The translations,
LEMMA TranslationIs ==
    \A q \in Live, va \in Address : Translations[q][va] = TranslateIn(memory.table, pml4[q], va)
  BY DEF Translations, Translate

\* and those after a step.
LEMMA TranslationNext ==
    \A q \in Live', va \in Address : Translations'[q][va] = TranslateIn(memory'.table, pml4'[q], va)
  BY DEF Translations, Translate

\* Where the addresses of the runs lie.
LEMMA AddressIs ==
    /\ \A va \in Address : va \in Plain /\ va[1] \in Index
    /\ \A va \in Address : va[1] >= KernelFirst <=> va \in UpperPages
    /\ \A va \in Address : va \notin UpperPages => va[1] < KernelFirst
    /\ \A va \in Pages(UserRuns) : va \in Address \ UpperPages
    /\ \A va \in Pages(KernelRuns) : va \in Address
    /\ UpperPages \subseteq Address
<1>1. \A va \in Address : va \in Plain
  BY RunPlaces DEF Address
<1>2. \A va \in Address : va[1] \in Index
  BY <1>1 DEF Plain, Page
<1>3. \A va \in Address : va[1] >= KernelFirst <=> va \in UpperPages
  BY DEF UpperPages
<1>4. \A i \in Index : (i >= KernelFirst \/ i < KernelFirst) /\ ~ (i >= KernelFirst /\ i < KernelFirst)
  BY ConstantsAssumption DEF Index
<1>5. \A va \in Pages(UserRuns) : va \in Address /\ va[1] < KernelFirst
  BY RunPlaces DEF Address
<1>6. QED
  BY <1>1, <1>2, <1>3, <1>4, <1>5 DEF Address, UpperPages

\* What is seen from a top level is seen from its space.
LEMMA SeenIs ==
    ASSUME Inv, owned, NEW s \in Live, NEW q \in Live, NEW va \in Address
    PROVE  Seen(pml4[s], va, pml4[q]) <=> Sees(s, va, q)
<1>1. pml4[q] = pml4[s] => q = s
  BY RunningParts
<1>2. QED
  BY <1>1, AddressIs DEF Seen, Sees

\* Nothing leads nowhere.
LEMMA LeadsNot == ~ Leads(Absent)
  BY DEF Leads, Absent

\* A step after which every address is translated alike in the same spaces.
LEMMA Unseen ==
    ASSUME UNCHANGED <<pml4, cr3>>, Alike(memory, memory', Roots)
    PROVE  UNCHANGED Promise!specVars
<1>1. Live' = Live
  BY DEF Live
<1>2. PICK L, t, t2, v, v2 : L = Live /\ t = Translations /\ t2 = Translations' /\ v = View /\ v2 = View'
  OBVIOUS
<1>3. Shows(v, L, t) /\ Shows(v2, L, t2)
  BY <1>1, <1>2, ViewShows, ViewShowsNext
<1>4. ASSUME NEW q \in L, NEW va \in Address PROVE t2[q][va] = t[q][va]
  <2>1. /\ t[q][va] = TranslateIn(memory.table, pml4[q], va)
        /\ t2[q][va] = TranslateIn(memory'.table, pml4[q], va)
    BY <1>1, <1>2, TranslationIs, TranslationNext
  <2>2. pml4[q] \in Roots /\ va \in Plain
    BY <1>2, AddressIs DEF Roots
  <2>3. QED
    BY <2>1, <2>2 DEF Alike
<1>5. v2 = v
  BY <1>3, <1>4, SameView
<1>6. QED
  BY <1>1, <1>2, <1>5 DEF Promise!specVars

\* An upper page is the kernel's in every space, and no process reaches it.
LEMMA UpperPageShared ==
    ASSUME NEW F, NEW m, NEW R, NEW K, Fit(F, m, R, K), NEW r \in R, NEW va \in UpperPages
    PROVE  /\ UpperAlike(TranslateIn(m.table, r, va), TranslateIn(m.table, K, va))
           /\ r # K => NotUser(TranslateIn(m.table, r, va))
<1>1. va \in Plain /\ va[1] >= KernelFirst
  BY AddressIs
<1>2. QED
  BY <1>1, UpperShared

\* Mapping implements MapPages.
LEMMA MapStep ==
    ASSUME Inv, NEW s, NEW run, NEW base, NEW rights, MapCall(s, run, base, rights), Map(s, run, base, rights)
    PROVE  Promise!MapPages(s, run, base, rights, View, View')
<1>1. /\ owned /\ s \in Live /\ UNCHANGED <<frames, pml4, cr3, owned>>
  BY DEF Map
<1>2. Inv' /\ (Alike(memory, memory', Roots) \/ Extended(memory, memory', Roots, pml4[s], run, base, rights, Len(run)))
  BY MapKeeps
<1>3. CASE Alike(memory, memory', Roots)
  <2>1. View' = View /\ UNCHANGED <<Live, cr3>>
    BY <1>1, <1>3, Unseen DEF Promise!specVars
  <2>2. QED
    BY <1>1, <2>1, Zenon DEF Promise!MapPages
<1>4. CASE Extended(memory, memory', Roots, pml4[s], run, base, rights, Len(run))
  <2>1. Live' = Live /\ Roots' = Roots
    <3>1. Live' = Live
      BY <1>1 DEF Live
    <3>2. QED
      BY <1>1, <3>1 DEF Roots
  <2>2. PICK L, t, t2, v, v2 : L = Live /\ t = Translations /\ t2 = Translations' /\ v = View /\ v2 = View'
    OBVIOUS
  <2>3. Shows(v, L, t) /\ Shows(v2, L, t2)
    BY <2>1, <2>2, ViewShows, ViewShowsNext
  <2>4. PICK F, m, m2, R, K, root, n : /\ F = frames /\ m = memory /\ m2 = memory' /\ R = Roots /\ K = pml4[Kernel]
                                       /\ root = pml4[s] /\ n = Len(run)
    OBVIOUS
  <2>5. \A q \in L, va \in Address : /\ t[q][va] = TranslateIn(m.table, pml4[q], va)
                                     /\ t2[q][va] = TranslateIn(m2.table, pml4[q], va)
    BY <1>1, <2>1, <2>2, <2>4, TranslationIs, TranslationNext
  <2>6. /\ \A j \in 1..n :
            /\ Everywhere(m, R, root, run[j], Absent)
            /\ \E b \in Entry : Granted(b, base + j - 1, rights) /\ Everywhere(m2, R, root, run[j], b)
        /\ \A q \in R, vb \in Plain :
            (\A j \in 1..n : ~ (vb = run[j] /\ Seen(root, vb, q))) =>
                TranslateIn(m2.table, q, vb) = TranslateIn(m.table, q, vb)
    BY <1>4, <2>4 DEF Extended
  <2>7. \A j \in 1..n : run[j] \in Address
    BY <2>4, RunPlaces, AddressIs DEF MapCall
  <2>8. \A q \in L : pml4[q] \in R
    BY <2>2, <2>4 DEF Roots
  <2>9. \A q \in L, va \in Address : Seen(root, va, pml4[q]) <=> Sees(s, va, q)
    BY <1>1, <2>2, <2>4, SeenIs
  <2>10. ASSUME NEW j \in 1..n
         PROVE  /\ t2[s][run[j]] \in Entry /\ Granted(t2[s][run[j]], base + j - 1, rights)
                /\ \A q \in L : Sees(s, run[j], q) => ~ Leads(t[q][run[j]]) /\ t2[q][run[j]] = t2[s][run[j]]
    <3>1. PICK va : va = run[j] /\ va \in Address
      BY <2>7
    <3>2. PICK e \in Entry : Granted(e, base + j - 1, rights) /\ Everywhere(m2, R, root, va, e)
      BY <2>6, <3>1
    <3>3. \A q \in L : Sees(s, va, q) => t2[q][va] = e
      BY <2>5, <2>8, <2>9, <3>1, <3>2 DEF Everywhere
    <3>4. \A q \in L : Sees(s, va, q) => t[q][va] = Absent
      BY <2>5, <2>6, <2>8, <2>9, <3>1 DEF Everywhere
    <3>5. Sees(s, va, s) /\ s \in L
      BY <1>1, <2>2 DEF Sees
    <3>6. t2[s][va] = e
      BY <3>3, <3>5
    <3>7. QED
      BY <3>1, <3>2, <3>3, <3>4, <3>6, LeadsNot
  <2>11. ASSUME NEW va \in Address, NEW q \in L, \A j \in 1..n : ~ (va = run[j] /\ Sees(s, va, q))
         PROVE  t2[q][va] = t[q][va]
    <3>1. \A j \in 1..n : ~ (va = run[j] /\ Seen(root, va, pml4[q]))
      BY <2>9, <2>11
    <3>2. va \in Plain /\ pml4[q] \in R
      BY <2>8, AddressIs
    <3>3. QED
      BY <2>5, <2>6, <3>1, <3>2
  <2>12. rights \in Rights
    BY DEF MapCall, KernelRights, UserRights, Rights
  <2>13. Grown(s, t, t2, run, base, rights)
    <3>1. L = Live /\ s \in L /\ n = Len(run)
      BY <1>1, <2>2, <2>4
    <3>2. QED
      BY <2>7, <2>10, <2>11, <2>12, <3>1, Zenon DEF Grown
  <2>14. Shows(v, Live, t) /\ Shows(v2, Live, t2) /\ UNCHANGED <<Live, cr3>>
    BY <1>1, <2>1, <2>2, <2>3
  <2>15. Promise!MapPages(s, run, base, rights, v, v2)
    BY <2>13, <2>14, GrownMaps
  <2>16. QED
    BY <2>2, <2>15
<1>5. QED
  BY <1>2, <1>3, <1>4

\* Unmapping implements UnmapPage.
LEMMA UnmapStep ==
    ASSUME Inv, NEW s, NEW va, UnmapCall(s, va), Unmap(s, va)
    PROVE  Promise!UnmapPage(s, va, View, View')
<1>1. /\ owned /\ s \in Live /\ UNCHANGED <<frames, pml4, cr3, owned>>
  BY DEF Unmap
<1>2. /\ TranslateIn(memory.table, pml4[s], va).kind = "page" /\ TranslateIn(memory.table, pml4[s], va).owned
      /\ Others(memory, memory', Roots, pml4[s], va)
      /\ Everywhere(memory', Roots, pml4[s], va, Absent)
  BY UnmapKeeps
<1>3. Live' = Live
  BY <1>1 DEF Live
<1>4. PICK L, t, t2, v, v2 : L = Live /\ t = Translations /\ t2 = Translations' /\ v = View /\ v2 = View'
  OBVIOUS
<1>5. Shows(v, Live, t) /\ Shows(v2, Live, t2) /\ UNCHANGED <<Live, cr3>>
  BY <1>1, <1>3, <1>4, ViewShows, ViewShowsNext
<1>6. PICK F, m, m2, R, K, root : /\ F = frames /\ m = memory /\ m2 = memory' /\ R = Roots /\ K = pml4[Kernel]
                                  /\ root = pml4[s]
  OBVIOUS
<1>7. \A q \in L, vb \in Address : /\ t[q][vb] = TranslateIn(m.table, pml4[q], vb)
                                   /\ t2[q][vb] = TranslateIn(m2.table, pml4[q], vb)
  BY <1>1, <1>3, <1>4, <1>6, TranslationIs, TranslationNext
<1>8. \A q \in L : pml4[q] \in R
  BY <1>4, <1>6 DEF Roots
<1>9. \A q \in L, vb \in Address : Seen(root, vb, pml4[q]) <=> Sees(s, vb, q)
  BY <1>1, <1>4, <1>6, SeenIs
<1>10. va \in Address /\ va \in Plain
  BY AddressIs DEF UnmapCall
<1>11. Leads(t[s][va])
  BY <1>1, <1>2, <1>4, <1>6, <1>7, <1>10 DEF Leads
<1>12. \A q \in L : Sees(s, va, q) => ~ Leads(t2[q][va])
  <2> SUFFICES ASSUME NEW q \in L, Sees(s, va, q) PROVE ~ Leads(t2[q][va])
    OBVIOUS
  <2>1. TranslateIn(m2.table, pml4[q], va) = Absent
    BY <1>2, <1>6, <1>8, <1>9, <1>10 DEF Everywhere
  <2>2. QED
    BY <1>7, <1>10, <2>1, LeadsNot
<1>13. \A q \in L, vb \in Address : ~ (vb = va /\ Sees(s, va, q)) => t2[q][vb] = t[q][vb]
  <2> SUFFICES ASSUME NEW q \in L, NEW vb \in Address, ~ (vb = va /\ Sees(s, va, q)) PROVE t2[q][vb] = t[q][vb]
    OBVIOUS
  <2>1. ~ (vb = va /\ Seen(root, va, pml4[q])) /\ vb \in Plain /\ pml4[q] \in R
    BY <1>8, <1>9, <1>10, AddressIs
  <2>2. TranslateIn(m2.table, pml4[q], vb) = TranslateIn(m.table, pml4[q], vb)
    BY <1>2, <1>6, <2>1 DEF Others
  <2>3. QED
    BY <1>7, <2>2
<1>14. Sees(s, va, Kernel) => va \notin BootPages
  <2> SUFFICES ASSUME Sees(s, va, Kernel), va \in BootPages PROVE FALSE
    OBVIOUS
  <2>1. Sound(F, m, R, K) /\ K \in R /\ root \in R
    BY <1>1, <1>6, RunningParts
  <2>2. ~ TranslateIn(m.table, K, va).owned
    BY <1>10, <2>1 DEF BootPages, Sound, Kept
  <2>3. TranslateIn(m.table, root, va).owned
    BY <1>2, <1>6
  <2>4. CASE Kernel = s
    BY <1>6, <2>2, <2>3, <2>4
  <2>5. CASE va \in UpperPages
    <3>1. UpperAlike(TranslateIn(m.table, root, va), TranslateIn(m.table, K, va))
      BY <2>1, <2>5, UpperPageShared DEF Sound
    <3>2. TranslateIn(m.table, root, va).owned = TranslateIn(m.table, K, va).owned
      BY <3>1, Zenon DEF UpperAlike
    <3>3. QED
      BY <2>2, <2>3, <3>2
  <2>6. QED
    BY <2>4, <2>5 DEF Sees
<1>15. Shrunk(s, va, t, t2)
  <2>1. L = Live /\ s \in L
    BY <1>1, <1>4
  <2>2. QED
    BY <1>10, <1>11, <1>12, <1>13, <1>14, <2>1, Zenon DEF Shrunk
<1>16. Promise!UnmapPage(s, va, v, v2)
  BY <1>5, <1>15, ShrunkUnmaps
<1>17. QED
  BY <1>4, <1>16

\* Protecting implements ProtectPage.
LEMMA ProtectStep ==
    ASSUME Inv, NEW p \in Process, NEW va \in Pages(UserRuns), NEW rights \in UserRights, Protect(p, va, rights)
    PROVE  Promise!ProtectPage(p, va, rights, View, View')
<1>1. /\ owned /\ p \in Live /\ UNCHANGED <<frames, pml4, cr3, owned>>
  BY DEF Protect
<1>2. /\ Others(memory, memory', Roots, pml4[p], va)
      /\ TranslateIn(memory.table, pml4[p], va).kind = "page"
      /\ TranslateIn(memory'.table, pml4[p], va) \in Entry
      /\ TranslateIn(memory'.table, pml4[p], va).kind = "page"
      /\ TranslateIn(memory'.table, pml4[p], va).at = TranslateIn(memory.table, pml4[p], va).at
      /\ RightsAre(TranslateIn(memory'.table, pml4[p], va), rights)
  BY ProtectKeeps
<1>3. Live' = Live
  BY <1>1 DEF Live
<1>4. PICK L, t, t2, v, v2 : L = Live /\ t = Translations /\ t2 = Translations' /\ v = View /\ v2 = View'
  OBVIOUS
<1>5. Shows(v, Live, t) /\ Shows(v2, Live, t2) /\ UNCHANGED <<Live, cr3>>
  BY <1>1, <1>3, <1>4, ViewShows, ViewShowsNext
<1>6. PICK m, m2, R, root : m = memory /\ m2 = memory' /\ R = Roots /\ root = pml4[p]
  OBVIOUS
<1>7. \A q \in L, vb \in Address : /\ t[q][vb] = TranslateIn(m.table, pml4[q], vb)
                                   /\ t2[q][vb] = TranslateIn(m2.table, pml4[q], vb)
  BY <1>1, <1>3, <1>4, <1>6, TranslationIs, TranslationNext
<1>8. \A q \in L : pml4[q] \in R
  BY <1>4, <1>6 DEF Roots
<1>9. \A q \in L, vb \in Address : Seen(root, vb, pml4[q]) <=> Sees(p, vb, q)
  BY <1>1, <1>4, <1>6, SeenIs
<1>10. va \in Address /\ va \in Plain /\ va \notin UpperPages /\ p # Kernel
  BY AddressIs, ConstantsAssumption
<1>11. p \in L
  BY <1>1, <1>4
<1>12. PICK e : e = t2[p][va]
  OBVIOUS
<1>13. e \in Entry /\ e.kind = "page" /\ e.at = t[p][va].at /\ t[p][va].kind = "page"
  BY <1>2, <1>6, <1>7, <1>10, <1>11, <1>12
<1>14. Leads(t[p][va]) /\ Leads(t2[p][va]) /\ t2[p][va].at = t[p][va].at
  BY <1>12, <1>13 DEF Leads
<1>15. RightsAre(t2[p][va], rights)
  BY <1>2, <1>6, <1>7, <1>10, <1>11
<1>16. \A q \in L, vb \in Address : ~ (vb = va /\ q = p) => t2[q][vb] = t[q][vb]
  <2> SUFFICES ASSUME NEW q \in L, NEW vb \in Address, ~ (vb = va /\ q = p) PROVE t2[q][vb] = t[q][vb]
    OBVIOUS
  <2>1. ~ (vb = va /\ Seen(root, va, pml4[q])) /\ vb \in Plain /\ pml4[q] \in R
    BY <1>8, <1>9, <1>10, AddressIs DEF Sees
  <2>2. TranslateIn(m2.table, pml4[q], vb) = TranslateIn(m.table, pml4[q], vb)
    BY <1>2, <1>6, <2>1 DEF Others
  <2>3. QED
    BY <1>7, <2>2
<1>17. Turned(p, va, rights, t, t2)
  BY <1>4, <1>10, <1>11, <1>14, <1>15, <1>16, Zenon DEF Turned
<1>18. Promise!ProtectPage(p, va, rights, v, v2)
  BY <1>5, <1>17, TurnedProtects
<1>19. QED
  BY <1>4, <1>18

\* Creating a space implements Create.
LEMMA CreateStep ==
    ASSUME Inv, NEW p \in Process, CreateSpace(p)
    PROVE  Promise!Create(p, View, View')
<1>1. /\ Inv' /\ owned /\ owned' /\ p \notin Live /\ Live' = Live \cup {p}
      /\ pml4'[p] \notin Roots /\ Roots' = Roots \cup {pml4'[p]}
      /\ \A s \in Live : pml4'[s] = pml4[s]
      /\ Alike(memory, memory', Roots)
      /\ LowerBare(memory'.table, pml4'[p])
      /\ UNCHANGED cr3
  BY CreateKeeps DEF CreateSpace
<1>2. PICK L, L2, t, t2, v, v2 : L = Live /\ L2 = Live' /\ t = Translations /\ t2 = Translations' /\ v = View /\ v2 = View'
  OBVIOUS
<1>3. Shows(v, Live, t) /\ Shows(v2, L2, t2) /\ UNCHANGED cr3 /\ L2 = Live'
  BY <1>1, <1>2, ViewShows, ViewShowsNext
<1>4. PICK F, m, m2, R, R2, K, n : /\ F = frames' /\ m = memory /\ m2 = memory' /\ R = Roots /\ R2 = Roots'
                                   /\ K = pml4[Kernel] /\ n = pml4'[p]
  OBVIOUS
<1>5. Kernel \in L /\ p \in L2 /\ L2 = L \cup {p} /\ p \notin L /\ K \in R /\ n \in R2 /\ n \notin R /\ n # K
  BY <1>1, <1>2, <1>4, RunningParts
<1>6. \A q \in L, va \in Address : /\ t[q][va] = TranslateIn(m.table, pml4[q], va)
                                   /\ t2[q][va] = TranslateIn(m2.table, pml4[q], va)
                                   /\ t2[p][va] = TranslateIn(m2.table, n, va)
  BY <1>1, <1>2, <1>4, <1>5, TranslationIs, TranslationNext
<1>7. ASSUME NEW q \in L, NEW va \in Address PROVE t2[q][va] = t[q][va]
  <2>1. pml4[q] \in R /\ va \in Plain
    BY <1>2, <1>4, AddressIs DEF Roots
  <2>2. QED
    BY <1>1, <1>4, <1>6, <2>1 DEF Alike
<1>8. \A va \in Address \ UpperPages : ~ Leads(t2[p][va])
  <2> SUFFICES ASSUME NEW va \in Address, va \notin UpperPages PROVE ~ Leads(t2[p][va])
    OBVIOUS
  <2>1. va \in Plain /\ va[1] < KernelFirst
    BY AddressIs
  <2>2. TranslateIn(m2.table, n, va) = Absent
    BY <1>1, <1>4, <2>1 DEF LowerBare
  <2>3. QED
    BY <1>5, <1>6, <2>2, LeadsNot
<1>9. Fit(F, m2, R2, K)
  <2>1. pml4'[Kernel] = K
    BY <1>1, <1>2, <1>4, <1>5
  <2>2. QED
    BY <1>1, <1>4, <2>1 DEF Inv, Running, Sound
<1>10. ASSUME NEW va \in UpperPages
       PROVE  /\ Leads(t2[p][va]) <=> Leads(t[Kernel][va])
              /\ t2[p][va].at = t[Kernel][va].at
              /\ t2[p][va].user = FALSE
              /\ t2[p][va].writable = t[Kernel][va].writable
  <2>1. va \in Address /\ va \in Plain /\ va[1] >= KernelFirst
    BY AddressIs
  <2>2. PICK e, k : e = TranslateIn(m2.table, n, va) /\ k = TranslateIn(m2.table, K, va)
    OBVIOUS
  <2>3. UpperAlike(e, k) /\ NotUser(e)
    BY <1>5, <1>9, <1>10, <2>2, UpperPageShared
  <2>4. e.user = FALSE
    BY <2>3, Zenon DEF NotUser
  <2>5. t2[p][va] = e /\ t2[Kernel][va] = k
    BY <1>4, <1>5, <1>6, <2>1, <2>2
  <2>6. t[Kernel][va] = k
    BY <1>5, <1>7, <2>1, <2>5
  <2>7. e.kind = k.kind /\ e.at = k.at /\ e.writable = k.writable
    BY <2>3, Zenon DEF UpperAlike
  <2>8. Leads(e) <=> Leads(k)
    BY <2>7 DEF Leads
  <2>9. QED
    BY <2>4, <2>5, <2>6, <2>7, <2>8, Zenon
<1>11. Joined(p, t, t2)
  <2>1. L = Live /\ p \notin Live /\ Live' = Live \cup {p} /\ Kernel \in L
    BY <1>1, <1>2, <1>5
  <2>2. QED
    BY <1>7, <1>8, <1>10, <2>1, Zenon DEF Joined
<1>12. Promise!Create(p, v, v2)
  BY <1>3, <1>11, JoinedCreates
<1>13. QED
  BY <1>2, <1>12

\* Destroying a space implements Destroy.
LEMMA DestroyStep ==
    ASSUME Inv, NEW p \in Process, DestroySpace(p)
    PROVE  Promise!Destroy(p, View, View')
<1>1. /\ owned /\ p \in Live /\ Live' = Live \ {p}
      /\ Roots' = Roots \ {pml4[p]}
      /\ \A s \in Live' : pml4'[s] = pml4[s]
      /\ Alike(memory, memory', Roots')
      /\ LowerBare(memory.table, pml4[p])
      /\ UNCHANGED cr3 /\ p # cr3
  BY DestroyKeeps DEF DestroySpace
<1>2. PICK L, L2, t, t2, v, v2 : L = Live /\ L2 = Live' /\ t = Translations /\ t2 = Translations' /\ v = View /\ v2 = View'
  OBVIOUS
<1>3. Shows(v, Live, t) /\ Shows(v2, L2, t2) /\ UNCHANGED cr3 /\ L2 = Live'
  BY <1>1, <1>2, ViewShows, ViewShowsNext
<1>4. PICK m, m2, R2, n : m = memory /\ m2 = memory' /\ R2 = Roots' /\ n = pml4[p]
  OBVIOUS
<1>5. ASSUME NEW q \in Live \ {p}, NEW va \in Address PROVE t2[q][va] = t[q][va]
  <2>1. q \in Live /\ q \in Live' /\ pml4'[q] = pml4[q]
    BY <1>1
  <2>2. t[q][va] = TranslateIn(m.table, pml4[q], va) /\ t2[q][va] = TranslateIn(m2.table, pml4[q], va)
    BY <1>2, <1>4, <2>1, TranslationIs, TranslationNext
  <2>3. pml4'[q] \in Roots' /\ va \in Plain
    BY <2>1, AddressIs DEF Roots
  <2>4. QED
    BY <1>1, <1>4, <2>1, <2>2, <2>3 DEF Alike
<1>6. \A va \in Address \ UpperPages : ~ Leads(t[p][va])
  <2> SUFFICES ASSUME NEW va \in Address, va \notin UpperPages PROVE ~ Leads(t[p][va])
    OBVIOUS
  <2>1. va \in Plain /\ va[1] < KernelFirst
    BY AddressIs
  <2>2. TranslateIn(m.table, n, va) = Absent
    BY <1>1, <1>4, <2>1 DEF LowerBare
  <2>3. t[p][va] = TranslateIn(m.table, n, va)
    BY <1>1, <1>2, <1>4, TranslationIs
  <2>4. QED
    BY <2>2, <2>3, LeadsNot
<1>7. Left(p, t, t2)
  BY <1>1, <1>5, <1>6, Zenon DEF Left
<1>8. Promise!Destroy(p, v, v2)
  BY <1>3, <1>7, LeftDestroys
<1>9. QED
  BY <1>2, <1>8

\* The copy vmm_take_ownership makes translates every address as before.
LEMMA TakeOwnershipStep ==
    ASSUME Inv, TakeOwnership
    PROVE  UNCHANGED Promise!specVars
<1>1. /\ Live = {Kernel} /\ Live' = {Kernel} /\ UNCHANGED cr3
      /\ \A va \in Plain : TranslateIn(memory'.table, pml4'[Kernel], va) = TranslateIn(memory.table, pml4[Kernel], va)
  BY TakeOwnershipKeeps DEF TakeOwnership
<1>2. PICK L, t, t2, v, v2 : L = Live /\ t = Translations /\ t2 = Translations' /\ v = View /\ v2 = View'
  OBVIOUS
<1>3. Shows(v, L, t) /\ Shows(v2, L, t2)
  BY <1>1, <1>2, ViewShows, ViewShowsNext
<1>4. ASSUME NEW q \in L, NEW va \in Address PROVE t2[q][va] = t[q][va]
  <2>1. q = Kernel /\ q \in Live /\ q \in Live' /\ va \in Plain
    BY <1>1, <1>2, AddressIs
  <2>2. /\ t[q][va] = TranslateIn(memory.table, pml4[q], va)
        /\ t2[q][va] = TranslateIn(memory'.table, pml4'[q], va)
    BY <1>2, <2>1, TranslationIs, TranslationNext
  <2>3. QED
    BY <1>1, <2>1, <2>2
<1>5. v2 = v
  BY <1>3, <1>4, SameView
<1>6. QED
  BY <1>1, <1>2, <1>5 DEF Promise!specVars

\* Loading CR3 implements Activate.
LEMMA ActivateStep ==
    ASSUME Inv, NEW s \in Space, Activate(s)
    PROVE  s \in Live /\ Promise!Activate(s)
<1>1. s \in Live /\ cr3' = s /\ UNCHANGED <<frames, memory, pml4, owned>>
  BY DEF Activate
<1>2. Live' = Live
  BY <1>1 DEF Live
<1>3. PICK L, t, t2, v, v2 : L = Live /\ t = Translations /\ t2 = Translations' /\ v = View /\ v2 = View'
  OBVIOUS
<1>4. Shows(v, L, t) /\ Shows(v2, L, t2)
  BY <1>2, <1>3, ViewShows, ViewShowsNext
<1>5. \A q \in L, va \in Address : t2[q][va] = t[q][va]
  BY <1>1, <1>2, <1>3, TranslationIs, TranslationNext
<1>6. v2 = v
  BY <1>4, <1>5, SameView
<1>7. QED
  BY <1>1, <1>2, <1>3, <1>6 DEF Promise!Activate

\* At start the kernel has the pages the boot loader mapped, and no others.
LEMMA InitPromised == Init => Promise!SpecInit
<1> SUFFICES ASSUME Init PROVE Promise!SpecInit
  OBVIOUS
<1>1. Booting /\ cr3 = Kernel
  BY InitInv DEF Init, Inv
<1>2. Live = {Kernel} /\ pml4[Kernel] = BootRoot
  BY <1>1, BootingLive
<1>3. PICK L, t, v : L = Live /\ t = Translations /\ v = View
  OBVIOUS
<1>4. Shows(v, L, t) /\ L = {Kernel}
  BY <1>2, <1>3, ViewShows
<1>5. ASSUME NEW va \in Address PROVE t[Kernel][va] = TranslateIn(Boot, BootRoot, va)
  <2>1. PICK lv : BootLevels(lv)
    BY BootLevelsExist
  <2>2. PICK phi : Mirror(memory.table, BootFrame, phi, BootRoot)
    BY <1>1, BootMirror DEF Booting
  <2>3. TranslateIn(memory.table, BootRoot, va) = TranslateIn(Boot, BootRoot, va)
    BY <2>1, <2>2, AddressIs, MirrorTranslation
  <2>4. QED
    BY <1>2, <1>3, <1>4, <2>3, TranslationIs
<1>6. \A m \in v : m.space = Kernel
  BY <1>4, Shown
<1>7. v = Promise!Of(v, Kernel)
  <2>1. \A m : m \in Promise!Of(v, Kernel) <=> m \in v
    BY <1>6, PromiseSets
  <2>2. QED
    BY <2>1
<1>8. ASSUME NEW va PROVE va \in Promise!PagesOf(v) <=> va \in BootPages
  <2>1. ASSUME NEW m \in v PROVE m.va \in BootPages
    <3>1. m.va \in Address /\ Leads(t[m.space][m.va]) /\ m.space = Kernel
      BY <1>4, <1>6, Shown
    <3>2. QED
      BY <1>5, <3>1 DEF BootPages
  <2>2. ASSUME va \in BootPages PROVE \E m \in v : m.va = va
    <3>1. va \in Address /\ Leads(t[Kernel][va])
      BY <1>5, <2>2 DEF BootPages
    <3>2. PICK m : m = Row(Kernel, va, t[Kernel][va])
      OBVIOUS
    <3>3. m \in v
      BY <1>4, <3>1, <3>2, Shown
    <3>4. m.va = va
      BY <3>2, RowFields
    <3>5. QED
      BY <3>3, <3>4
  <2>3. QED
    BY <2>1, <2>2, PromiseSets
<1>9. Promise!PagesOf(v) = BootPages
  BY <1>8
<1>10. QED
  BY <1>1, <1>2, <1>3, <1>7, <1>9 DEF Promise!SpecInit

\* The page tables implement the mappings of VmmSpec, call for call: a run is mapped as a
\* whole to the frames and with the rights asked for, or nothing changes; unmapping and
\* protecting change the page they name; all in the spaces concerned and in no other.
THEOREM VmmImplemented == Spec => ImplementsVmm
<1>1. Init => Promise!SpecInit
  BY InitPromised
<1>2. ASSUME Inv, [Next]_vars PROVE [Promise!SpecNext]_(Promise!specVars)
  <2>1. CASE UNCHANGED vars
    <3>1. UNCHANGED <<pml4, cr3>> /\ memory' = memory
      BY <2>1 DEF vars
    <3>2. Alike(memory, memory', Roots)
      BY <3>1 DEF Alike
    <3>3. QED
      BY <3>1, <3>2, Unseen
  <2>2. CASE TakeOwnership
    BY <1>2, <2>2, TakeOwnershipStep
  <2>3. ASSUME NEW s, NEW run, NEW base, NEW rights, MapCall(s, run, base, rights), Map(s, run, base, rights)
        PROVE  Promise!SpecNext
    <3>1. Promise!MapPages(s, run, base, rights, View, View')
      BY <1>2, <2>3, MapStep
    <3>2. QED
      BY <2>3, <3>1 DEF Promise!SpecNext, Promise!SpecStep, MapCall
  <2>4. ASSUME NEW s, NEW va, UnmapCall(s, va), Unmap(s, va) PROVE Promise!SpecNext
    <3>1. Promise!UnmapPage(s, va, View, View')
      BY <1>2, <2>4, UnmapStep
    <3>2. QED
      BY <2>4, <3>1, PromiseSets DEF Promise!SpecNext, Promise!SpecStep, UnmapCall
  <2>5. ASSUME NEW p \in Process, NEW va \in Pages(UserRuns), NEW rights \in UserRights, Protect(p, va, rights)
        PROVE  Promise!SpecNext
    <3>1. Promise!ProtectPage(p, va, rights, View, View')
      BY <1>2, <2>5, ProtectStep
    <3>2. QED
      BY <3>1, PromiseSets DEF Promise!SpecNext, Promise!SpecStep
  <2>6. ASSUME NEW p \in Process, CreateSpace(p) PROVE Promise!SpecNext
    BY <1>2, <2>6, CreateStep DEF Promise!SpecNext, Promise!SpecStep
  <2>7. ASSUME NEW p \in Process, DestroySpace(p) PROVE Promise!SpecNext
    BY <1>2, <2>7, DestroyStep DEF Promise!SpecNext, Promise!SpecStep
  <2>8. ASSUME NEW s \in Space, Activate(s) PROVE Promise!SpecNext
    BY <1>2, <2>8, ActivateStep DEF Promise!SpecNext
  <2>9. QED
    BY <1>2, <2>1, <2>2, <2>3, <2>4, <2>5, <2>6, <2>7, <2>8, NextIs
<1>3. Inv => CallForCall
  <2> SUFFICES ASSUME Inv PROVE CallForCall
    OBVIOUS
  <2>1. ASSUME NEW run \in KernelRuns, NEW base \in Bases, NEW rights \in KernelRights, Map(Kernel, run, base, rights)
        PROVE  Promise!MapPages(Kernel, run, base, rights, View, View')
    BY <2>1, MapStep DEF MapCall
  <2>2. ASSUME NEW va \in Pages(KernelRuns) \ {Permanent}, Unmap(Kernel, va)
        PROVE  Promise!UnmapPage(Kernel, va, View, View')
    BY <2>2, UnmapStep DEF UnmapCall
  <2>3. ASSUME NEW p \in Process, NEW run \in UserRuns, NEW base \in Bases, NEW rights \in UserRights,
               Map(p, run, base, rights)
        PROVE  Promise!MapPages(p, run, base, rights, View, View')
    BY <2>3, MapStep DEF MapCall
  <2>4. ASSUME NEW p \in Process, NEW va \in Pages(UserRuns), Unmap(p, va)
        PROVE  Promise!UnmapPage(p, va, View, View')
    BY <2>4, UnmapStep DEF UnmapCall
  <2>5. ASSUME NEW p \in Process, NEW va \in Pages(UserRuns), NEW rights \in UserRights, Protect(p, va, rights)
        PROVE  Promise!ProtectPage(p, va, rights, View, View')
    BY <2>5, ProtectStep
  <2>6. QED
    BY <2>1, <2>2, <2>3, <2>4, <2>5, Zenon DEF CallForCall
<1>4. QED
  BY <1>1, <1>2, <1>3, Invariance, PTL DEF Spec, ImplementsVmm, Promise!VmmSpecification
=============================================================================
