---------------------------- MODULE ObjectsProofs ----------------------------
(***************************************************************************)
(* The references of Objects.tla, for any processes, channels and table    *)
(* size: they are counted exactly, nothing is used after it is freed and   *)
(* nothing is lost, whatever the interleaving.                             *)
(***************************************************************************)
EXTENDS Objects, FiniteSetTheorems, TLAPS

-----------------------------------------------------------------------------
(* How many places own a reference.                                         *)

Count(f, D, e) == Cardinality(Places(f, D, e))

\* The owners of each endpoint's references, counted.
Owners == [e \in Endpoint |-> Count(table, Handle, e) + Count(local, Local, e) + Count(array, Handle, e)]

\* The places are indexed by finite sets.
LEMMA FiniteIndex == IsFiniteSet(Process) /\ IsFiniteSet(Handle) /\ IsFiniteSet(Local)
<1>1. IsFiniteSet(Handle)
  <2>1. HandleCount - 1 \in Int /\ 0 \in Int
    BY BoundsAssumption
  <2>2. QED
    BY <2>1, FS_Interval, Zenon DEF Handle
<1>2. IsFiniteSet(Local)
  <2>1. IsFiniteSet({"first"})
    BY FS_Singleton
  <2>2. IsFiniteSet({"first"} \cup {"second"})
    BY <2>1, FS_AddElement, Zenon
  <2>3. IsFiniteSet(({"first"} \cup {"second"}) \cup {"entry"})
    BY <2>2, FS_AddElement, Zenon
  <2>4. IsFiniteSet((({"first"} \cup {"second"}) \cup {"entry"}) \cup {"object"})
    BY <2>3, FS_AddElement, Zenon
  <2>5. Local = (({"first"} \cup {"second"}) \cup {"entry"}) \cup {"object"}
    BY DEF Local
  <2>6. QED
    BY <2>4, <2>5
<1>3. QED
  BY <1>1, <1>2, BoundsAssumption

\* The places that hold e are finitely many.
LEMMA CountNat ==
    ASSUME NEW D, IsFiniteSet(D), NEW f, NEW e
    PROVE  IsFiniteSet(Places(f, D, e)) /\ Count(f, D, e) \in Nat
<1>1. IsFiniteSet(Process \X D)
  BY FiniteIndex, FS_Product, Zenon
<1>2. Places(f, D, e) \in SUBSET (Process \X D)
  BY DEF Places
<1>3. IsFiniteSet(Places(f, D, e))
  BY <1>1, <1>2, FS_Subset, Zenon
<1>4. QED
  BY <1>3, FS_CardinalityType, Zenon DEF Count

\* A count of zero: nobody holds e.
LEMMA CountZero ==
    ASSUME NEW D, IsFiniteSet(D), NEW f, NEW e
    PROVE  Count(f, D, e) = 0 <=> Places(f, D, e) = {}
BY CountNat, FS_EmptySet, Zenon DEF Count

\* A count depends only on who holds e.
LEMMA CountSame ==
    ASSUME NEW D, NEW f, NEW g, NEW e,
           \A p \in Process : \A x \in D : f[p][x] = e <=> g[p][x] = e
    PROVE  Count(g, D, e) = Count(f, D, e)
<1>1. Places(g, D, e) = Places(f, D, e)
  BY DEF Places
<1>2. QED
  BY <1>1 DEF Count

\* g is f with v written at p, x.
Writes(f, g, D, p, x, v) ==
    /\ g[p][x] = v
    /\ \A q \in Process : \A y \in D : ~ (q = p /\ y = x) => g[q][y] = f[q][y]

\* An EXCEPT writes one place.
LEMMA WritesExcept ==
    ASSUME NEW D, NEW S, NEW f \in [Process -> [D -> S]], NEW p \in Process, NEW x \in D, NEW v
    PROVE  Writes(f, [f EXCEPT ![p][x] = v], D, p, x, v)
BY DEF Writes

\* Writing v to one place adds one to v's count and takes one from what it held.
LEMMA CountPut ==
    ASSUME NEW D, IsFiniteSet(D), NEW f, NEW g, NEW p \in Process, NEW x \in D, NEW v, NEW e,
           Writes(f, g, D, p, x, v)
    PROVE  /\ f[p][x] # e /\ v = e => Count(g, D, e) = Count(f, D, e) + 1
           /\ f[p][x] = e /\ v # e => Count(g, D, e) = Count(f, D, e) - 1
           /\ (f[p][x] = e <=> v = e) => Count(g, D, e) = Count(f, D, e)
<1> DEFINE here == <<p, x>>
<1>0. /\ g[p][x] = v
      /\ \A q \in Process : \A y \in D : ~ (q = p /\ y = x) => g[q][y] = f[q][y]
  BY DEF Writes
<1>1. IsFiniteSet(Places(f, D, e))
  BY CountNat
<1>2. here \in Places(f, D, e) <=> f[p][x] = e
  BY DEF Places
<1>3. ASSUME f[p][x] # e, v = e PROVE Count(g, D, e) = Count(f, D, e) + 1
  <2>1. Places(g, D, e) = Places(f, D, e) \cup {here}
    BY <1>0, <1>3 DEF Places
  <2>2. QED
    BY <1>1, <1>2, <1>3, <2>1, FS_AddElement DEF Count
<1>4. ASSUME f[p][x] = e, v # e PROVE Count(g, D, e) = Count(f, D, e) - 1
  <2>1. Places(g, D, e) = Places(f, D, e) \ {here}
    BY <1>0, <1>4 DEF Places
  <2>2. QED
    BY <1>1, <1>2, <1>4, <2>1, FS_RemoveElement DEF Count
<1>5. ASSUME f[p][x] = e <=> v = e PROVE Count(g, D, e) = Count(f, D, e)
  <2>1. \A q \in Process : \A y \in D : f[q][y] = e <=> g[q][y] = e
    BY <1>0, <1>5
  <2>2. QED
    BY <2>1, CountSame
<1>6. QED
  BY <1>3, <1>4, <1>5

\* Disjoint sets: the sizes add up.
LEMMA CountDisjoint ==
    ASSUME NEW S, IsFiniteSet(S), NEW T, IsFiniteSet(T), S \cap T = {}
    PROVE  Cardinality(S \cup T) = Cardinality(S) + Cardinality(T)
<1>1. Cardinality(S \cup T) = Cardinality(S) + Cardinality(T) - Cardinality(S \cap T)
  BY FS_Union, Zenon
<1>2. Cardinality(S \cap T) = 0
  BY FS_EmptySet
<1>3. Cardinality(S) \in Nat /\ Cardinality(T) \in Nat
  BY FS_CardinalityType
<1>4. QED
  BY <1>1, <1>2, <1>3

\* Row c of f, which is left without e, moves to row p of a, which had none.
Moves(f, g, a, b, D, c, p, e) ==
    /\ \A x \in D : g[c][x] # e
    /\ \A q \in Process \ {c} : \A x \in D : g[q][x] = f[q][x]
    /\ \A x \in D : a[p][x] # e
    /\ \A x \in D : b[p][x] = f[c][x]
    /\ \A q \in Process \ {p} : \A x \in D : b[q][x] = a[q][x]

\* A row that moves from one function to another keeps the sum of the counts.
LEMMA CountRow ==
    ASSUME NEW D, IsFiniteSet(D), NEW f, NEW g, NEW a, NEW b, NEW e,
           NEW c \in Process, NEW p \in Process, Moves(f, g, a, b, D, c, p, e)
    PROVE  Count(g, D, e) + Count(b, D, e) = Count(f, D, e) + Count(a, D, e)
<1> DEFINE H == {x \in D : f[c][x] = e}
           A == {c} \X H
           B == {p} \X H
<1>1. IsFiniteSet(H)
  <2>1. H \in SUBSET D
    OBVIOUS
  <2>2. QED
    BY <2>1, FS_Subset, Zenon
<1>2. ASSUME NEW q PROVE IsFiniteSet({q} \X H) /\ Cardinality({q} \X H) = Cardinality(H)
  <2>1. IsFiniteSet({q}) /\ Cardinality({q}) = 1
    BY FS_Singleton
  <2>2. IsFiniteSet({q} \X H) /\ Cardinality({q} \X H) = 1 * Cardinality(H)
    BY <1>1, <2>1, FS_Product
  <2>3. Cardinality(H) \in Nat
    BY <1>1, FS_CardinalityType
  <2>4. QED
    BY <2>2, <2>3
<1>3. Places(f, D, e) = Places(g, D, e) \cup A /\ Places(g, D, e) \cap A = {}
  BY DEF Places, Moves
<1>4. Places(b, D, e) = Places(a, D, e) \cup B /\ Places(a, D, e) \cap B = {}
  BY DEF Places, Moves
<1>5. /\ IsFiniteSet(A) /\ IsFiniteSet(B) /\ Cardinality(A) = Cardinality(B) /\ Cardinality(A) \in Nat
      /\ IsFiniteSet(Places(g, D, e)) /\ IsFiniteSet(Places(a, D, e))
      /\ Cardinality(Places(g, D, e)) \in Nat /\ Cardinality(Places(a, D, e)) \in Nat
  BY <1>1, <1>2, FS_CardinalityType, CountNat DEF Count
<1> HIDE DEF H, A, B
<1>6. Cardinality(Places(f, D, e)) = Cardinality(Places(g, D, e)) + Cardinality(A)
  BY <1>3, <1>5, CountDisjoint
<1>7. Cardinality(Places(b, D, e)) = Cardinality(Places(a, D, e)) + Cardinality(B)
  BY <1>4, <1>5, CountDisjoint
<1>8. QED
  BY <1>5, <1>6, <1>7 DEF Count

\* Every endpoint has a number of owners.
LEMMA OwnersType == Owners \in [Endpoint -> Nat]
BY FiniteIndex, CountNat DEF Owners

\* An endpoint has owners exactly when Objects.tla calls it held.
LEMMA OwnersHeld ==
    ASSUME NEW e \in Endpoint
    PROVE  Owners[e] # 0 <=> Held(e)
<1>1. /\ Count(table, Handle, e) \in Nat /\ Count(local, Local, e) \in Nat /\ Count(array, Handle, e) \in Nat
  BY FiniteIndex, CountNat
<1>2. /\ Count(table, Handle, e) = 0 <=> InTables(e) = {}
      /\ Count(local, Local, e) = 0 <=> InLocals(e) = {}
      /\ Count(array, Handle, e) = 0 <=> InArrays(e) = {}
  BY FiniteIndex, CountZero, Zenon DEF InTables, InLocals, InArrays
<1>3. Owners[e] = Count(table, Handle, e) + Count(local, Local, e) + Count(array, Handle, e)
  BY DEF Owners
<1>4. QED
  BY <1>1, <1>2, <1>3 DEF Held

-----------------------------------------------------------------------------
(* What one step does to the owners.                                        *)

\* The owners of one endpoint, before and after a step.
LEMMA OwnersAt ==
    ASSUME NEW e \in Endpoint
    PROVE  /\ Owners[e] = Count(table, Handle, e) + Count(local, Local, e) + Count(array, Handle, e)
           /\ Owners'[e] = Count(table', Handle, e) + Count(local', Local, e) + Count(array', Handle, e)
BY DEF Owners, Count, InTables, InLocals, InArrays, Places

\* All counts are numbers, before and after a step.
LEMMA CountsNat ==
    ASSUME NEW e
    PROVE  /\ Count(table, Handle, e) \in Nat /\ Count(local, Local, e) \in Nat /\ Count(array, Handle, e) \in Nat
           /\ Count(table', Handle, e) \in Nat /\ Count(local', Local, e) \in Nat /\ Count(array', Handle, e) \in Nat
BY FiniteIndex, CountNat

\* Nothing moved.
LEMMA OwnersQuiet ==
    ASSUME UNCHANGED <<table, local, array>>
    PROVE  Owners' = Owners
BY DEF Owners, Count, Places, InTables, InLocals, InArrays

\* v is written over what owned nothing, in a local variable.
LEMMA OwnersGain ==
    ASSUME NEW p \in Process, NEW x \in Local, NEW v, NEW e \in Endpoint,
           Writes(local, local', Local, p, x, v), local[p][x] # e,
           table' = table, array' = array
    PROVE  /\ v = e => Owners'[e] = Owners[e] + 1
           /\ v # e => Owners'[e] = Owners[e]
<1>0. /\ Owners[e] = Count(table, Handle, e) + Count(local, Local, e) + Count(array, Handle, e)
      /\ Owners'[e] = Count(table', Handle, e) + Count(local', Local, e) + Count(array', Handle, e)
      /\ Count(table, Handle, e) \in Nat /\ Count(local, Local, e) \in Nat /\ Count(array, Handle, e) \in Nat
  BY OwnersAt, CountsNat
<1>1. /\ v = e => Count(local', Local, e) = Count(local, Local, e) + 1
      /\ v # e => Count(local', Local, e) = Count(local, Local, e) + 0
  BY CountPut, FiniteIndex, CountsNat
<1>2. /\ Count(table', Handle, e) = Count(table, Handle, e) + 0
      /\ Count(array', Handle, e) = Count(array, Handle, e) + 0
      /\ Owners[e] \in Nat
  BY CountsNat, OwnersType
<1>3. CASE v = e
  BY <1>0, <1>1, <1>2, <1>3
<1>4. CASE v # e
  BY <1>0, <1>1, <1>2, <1>4
<1>5. QED
  BY <1>3, <1>4

\* A local variable gives up what it owned.
LEMMA OwnersLose ==
    ASSUME NEW p \in Process, NEW x \in Local, NEW e \in Endpoint,
           Writes(local, local', Local, p, x, None),
           table' = table, array' = array
    PROVE  /\ local[p][x] = e => Owners'[e] = Owners[e] - 1
           /\ local[p][x] # e => Owners'[e] = Owners[e]
<1>0. /\ Owners[e] = Count(table, Handle, e) + Count(local, Local, e) + Count(array, Handle, e)
      /\ Owners'[e] = Count(table', Handle, e) + Count(local', Local, e) + Count(array', Handle, e)
      /\ Count(table, Handle, e) \in Nat /\ Count(local, Local, e) \in Nat /\ Count(array, Handle, e) \in Nat
  BY OwnersAt, CountsNat
<1>1. /\ local[p][x] = e => Count(local', Local, e) = Count(local, Local, e) + -1
      /\ local[p][x] # e => Count(local', Local, e) = Count(local, Local, e) + 0
  BY CountPut, FiniteIndex, CountsNat, NamesAssumption
<1>2. /\ Count(table', Handle, e) = Count(table, Handle, e) + 0
      /\ Count(array', Handle, e) = Count(array, Handle, e) + 0
      /\ Owners[e] \in Nat
  BY CountsNat, OwnersType
<1>3. CASE local[p][x] = e
  BY <1>0, <1>1, <1>2, <1>3
<1>4. CASE local[p][x] # e
  BY <1>0, <1>1, <1>2, <1>4
<1>5. QED
  BY <1>3, <1>4

\* So does an entry of the array of a destruction.
LEMMA OwnersDropped ==
    ASSUME NEW p \in Process, NEW h \in Handle, NEW e \in Endpoint,
           Writes(array, array', Handle, p, h, None),
           table' = table, local' = local
    PROVE  /\ array[p][h] = e => Owners'[e] = Owners[e] - 1
           /\ array[p][h] # e => Owners'[e] = Owners[e]
<1>0. /\ Owners[e] = Count(table, Handle, e) + Count(local, Local, e) + Count(array, Handle, e)
      /\ Owners'[e] = Count(table', Handle, e) + Count(local', Local, e) + Count(array', Handle, e)
      /\ Count(table, Handle, e) \in Nat /\ Count(local, Local, e) \in Nat /\ Count(array, Handle, e) \in Nat
  BY OwnersAt, CountsNat
<1>1. /\ array[p][h] = e => Count(array', Handle, e) = Count(array, Handle, e) + -1
      /\ array[p][h] # e => Count(array', Handle, e) = Count(array, Handle, e) + 0
  BY CountPut, FiniteIndex, CountsNat, NamesAssumption
<1>2. /\ Count(table', Handle, e) = Count(table, Handle, e) + 0
      /\ Count(local', Local, e) = Count(local, Local, e) + 0
      /\ Owners[e] \in Nat
  BY CountsNat, OwnersType
<1>3. CASE array[p][h] = e
  BY <1>0, <1>1, <1>2, <1>3
<1>4. CASE array[p][h] # e
  BY <1>0, <1>1, <1>2, <1>4
<1>5. QED
  BY <1>3, <1>4

\* A reference moves from a local variable to an empty table entry.
LEMMA OwnersPublished ==
    ASSUME NEW p \in Process, NEW q \in Process, NEW h \in Handle, NEW x \in Local, NEW e \in Endpoint,
           table[q][h] # e,
           Writes(table, table', Handle, q, h, local[p][x]),
           Writes(local, local', Local, p, x, None),
           array' = array
    PROVE  Owners'[e] = Owners[e]
<1>0. /\ Owners[e] = Count(table, Handle, e) + Count(local, Local, e) + Count(array, Handle, e)
      /\ Owners'[e] = Count(table', Handle, e) + Count(local', Local, e) + Count(array', Handle, e)
      /\ Count(table, Handle, e) \in Nat /\ Count(local, Local, e) \in Nat /\ Count(array, Handle, e) \in Nat
  BY OwnersAt, CountsNat
<1>1. /\ local[p][x] = e => Count(local', Local, e) = Count(local, Local, e) + -1
      /\ local[p][x] # e => Count(local', Local, e) = Count(local, Local, e) + 0
  BY CountPut, FiniteIndex, CountsNat, NamesAssumption
<1>2. /\ local[p][x] = e => Count(table', Handle, e) = Count(table, Handle, e) + 1
      /\ local[p][x] # e => Count(table', Handle, e) = Count(table, Handle, e) + 0
  BY CountPut, FiniteIndex, CountsNat
<1>3. /\ Count(array', Handle, e) = Count(array, Handle, e) + 0
      /\ Owners[e] \in Nat
  BY CountsNat, OwnersType
<1>4. CASE local[p][x] = e
  BY <1>0, <1>1, <1>2, <1>3, <1>4
<1>5. CASE local[p][x] # e
  BY <1>0, <1>1, <1>2, <1>3, <1>5
<1>6. QED
  BY <1>4, <1>5

\* And from a table entry to an empty local variable.
LEMMA OwnersTaken ==
    ASSUME NEW p \in Process, NEW h \in Handle, NEW x \in Local, NEW e \in Endpoint,
           local[p][x] # e,
           Writes(local, local', Local, p, x, table[p][h]),
           Writes(table, table', Handle, p, h, None),
           array' = array
    PROVE  Owners'[e] = Owners[e]
<1>0. /\ Owners[e] = Count(table, Handle, e) + Count(local, Local, e) + Count(array, Handle, e)
      /\ Owners'[e] = Count(table', Handle, e) + Count(local', Local, e) + Count(array', Handle, e)
      /\ Count(table, Handle, e) \in Nat /\ Count(local, Local, e) \in Nat /\ Count(array, Handle, e) \in Nat
  BY OwnersAt, CountsNat
<1>1. /\ table[p][h] = e => Count(table', Handle, e) = Count(table, Handle, e) + -1
      /\ table[p][h] # e => Count(table', Handle, e) = Count(table, Handle, e) + 0
  BY CountPut, FiniteIndex, CountsNat, NamesAssumption
<1>2. /\ table[p][h] = e => Count(local', Local, e) = Count(local, Local, e) + 1
      /\ table[p][h] # e => Count(local', Local, e) = Count(local, Local, e) + 0
  BY CountPut, FiniteIndex, CountsNat
<1>3. /\ Count(array', Handle, e) = Count(array, Handle, e) + 0
      /\ Owners[e] \in Nat
  BY CountsNat, OwnersType
<1>4. CASE table[p][h] = e
  BY <1>0, <1>1, <1>2, <1>3, <1>4
<1>5. CASE table[p][h] # e
  BY <1>0, <1>1, <1>2, <1>3, <1>5
<1>6. QED
  BY <1>4, <1>5

\* A whole table moves to the array of its destruction.
LEMMA OwnersDestroyed ==
    ASSUME NEW p \in Process, NEW c \in Process, NEW e \in Endpoint,
           Moves(table, table', array, array', Handle, c, p, e),
           local' = local
    PROVE  Owners'[e] = Owners[e]
<1>1. Count(table', Handle, e) + Count(array', Handle, e) = Count(table, Handle, e) + Count(array, Handle, e)
  BY CountRow, FiniteIndex
<1>2. /\ Owners[e] = Count(table, Handle, e) + Count(local, Local, e) + Count(array, Handle, e)
      /\ Owners'[e] = Count(table', Handle, e) + Count(local', Local, e) + Count(array', Handle, e)
      /\ Count(local', Local, e) = Count(local, Local, e)
  BY OwnersAt
<1>3. QED
  BY <1>1, <1>2, CountsNat

\* Tables change where they own nothing that is counted.
LEMMA OwnersConnected ==
    ASSUME NEW e \in Endpoint,
           \A q \in Process : \A y \in Handle : table[q][y] = e <=> table'[q][y] = e,
           local' = local, array' = array
    PROVE  Owners'[e] = Owners[e]
<1>0. /\ Owners[e] = Count(table, Handle, e) + Count(local, Local, e) + Count(array, Handle, e)
      /\ Owners'[e] = Count(table', Handle, e) + Count(local', Local, e) + Count(array', Handle, e)
      /\ Count(table, Handle, e) \in Nat /\ Count(local, Local, e) \in Nat /\ Count(array, Handle, e) \in Nat
  BY OwnersAt, CountsNat
<1>1. Count(table', Handle, e) = Count(table, Handle, e) + 0
  BY CountSame, CountsNat
<1>2. /\ Count(local', Local, e) = Count(local, Local, e) + 0
      /\ Count(array', Handle, e) = Count(array, Handle, e) + 0
      /\ Owners[e] \in Nat
  BY CountsNat, OwnersType
<1>3. QED
  BY <1>0, <1>1, <1>2




-----------------------------------------------------------------------------
(* The reference counts.                                                    *)

Counted ==
    \A e \in Endpoint :
        /\ allocated[e[1]] => refs[e] = Owners[e]
        /\ Owners[e] # 0 => allocated[e[1]] /\ open[e]

Pending ==
    \A p \in Process :
        /\ dying[p] # None => /\ allocated[dying[p][1]] /\ open[dying[p]]
                              /\ Owners[dying[p]] = 0
                              /\ freeing[p] = None
        /\ freeing[p] # None => allocated[freeing[p]] /\ \A s \in Side : ~ open[<<freeing[p], s>>]

PendingOnce ==
    \A p, q \in Process : p # q =>
        /\ dying[p] # None => dying[p] # dying[q]
        /\ freeing[p] # None => freeing[p] # freeing[q]

Reachable ==
    /\ \A e \in Endpoint : open[e] => Owners[e] # 0 \/ \E p \in Process : dying[p] = e
    /\ \A c \in Channel : allocated[c] =>
         \/ \E s \in Side : open[<<c, s>>]
         \/ \E p \in Process : freeing[p] = c

RefInv == Counted /\ Pending /\ PendingOnce /\ Reachable

\* What a typed state says of endpoints and of what is pending.
LEMMA Ends ==
    ASSUME TypeOK
    PROVE  /\ \A e \in Endpoint : e[1] \in Channel /\ e[2] \in Side /\ e = <<e[1], e[2]>>
           /\ \A c \in Channel, s \in Side : <<c, s>> \in Endpoint /\ <<c, s>>[1] = c
           /\ None \notin Endpoint /\ None \notin Channel /\ console \notin Endpoint
           /\ \A p \in Process : dying[p] # None => dying[p] \in Endpoint
           /\ \A p \in Process : freeing[p] # None => freeing[p] \in Channel
<1>1. /\ \A e \in Endpoint : e[1] \in Channel /\ e[2] \in Side /\ e = <<e[1], e[2]>>
      /\ \A c \in Channel, s \in Side : <<c, s>> \in Endpoint /\ <<c, s>>[1] = c
  BY DEF Endpoint
<1>2. None \notin Endpoint /\ None \notin Channel /\ console \notin Endpoint
  BY NamesAssumption
<1>3. /\ \A p \in Process : dying[p] # None => dying[p] \in Endpoint
      /\ \A p \in Process : freeing[p] # None => freeing[p] \in Channel
  BY DEF TypeOK
<1>4. QED
  BY <1>1, <1>2, <1>3

\* What gains an owner is owned already.
LEMMA Unowned ==
    ASSUME TypeOK, RefInv, NEW e \in Endpoint, Owners[e] # 0
    PROVE  allocated[e[1]] /\ open[e] /\ refs[e] = Owners[e] /\ \A p \in Process : dying[p] # e
BY Ends DEF RefInv, Counted, Pending

\* A step that touches neither objects nor owners keeps the counting.
LEMMA RefsQuiet ==
    ASSUME RefInv, TypeOK, \A e \in Endpoint : Owners'[e] = Owners[e],
           UNCHANGED objectVars, UNCHANGED calleeVars
    PROVE  RefInv'
<1>1. /\ allocated' = allocated /\ open' = open /\ refs' = refs
      /\ dying' = dying /\ freeing' = freeing
  BY DEF objectVars, calleeVars
<1>2. Counted'
  BY <1>1 DEF RefInv, Counted
<1>3. Pending' /\ PendingOnce'
  BY <1>1, Ends DEF RefInv, Pending, PendingOnce
<1>4. Reachable'
  BY <1>1 DEF RefInv, Reachable
<1>5. QED
  BY <1>2, <1>3, <1>4 DEF RefInv

\* One more reference to object, counted.
LEMMA RefsRetained ==
    ASSUME RefInv, TypeOK, NEW object,
           \A e \in Endpoint : Owners'[e] = IF e = object THEN Owners[e] + 1 ELSE Owners[e],
           object \in Endpoint => Owners[object] # 0,
           refs' = IF object \in Endpoint THEN [refs EXCEPT ![object] = @ + 1] ELSE refs,
           allocated' = allocated, open' = open, dying' = dying, freeing' = freeing
    PROVE  RefInv' /\ refs' \in [Endpoint -> Nat]
<1>0. \A e \in Endpoint : refs[e] \in Nat /\ Owners[e] \in Nat
  BY OwnersType DEF TypeOK
<1>1. \A e \in Endpoint : refs'[e] = IF e = object THEN refs[e] + 1 ELSE refs[e]
  BY DEF TypeOK
<1>2. refs' \in [Endpoint -> Nat]
  BY DEF TypeOK
<1>3. Counted'
  <2> SUFFICES ASSUME NEW e \in Endpoint
               PROVE  /\ allocated[e[1]] => refs'[e] = Owners'[e]
                      /\ Owners'[e] # 0 => allocated[e[1]] /\ open[e]
    BY DEF Counted
  <2>1. CASE e = object
    BY <2>1, <1>0, <1>1, Unowned
  <2>2. CASE e # object
    BY <2>2, <1>1 DEF RefInv, Counted
  <2>3. QED
    BY <2>1, <2>2
<1>4. \A p \in Process : dying[p] # None => dying[p] # object
  BY Ends, Unowned
<1>5. Pending' /\ PendingOnce'
  BY <1>4, Ends DEF RefInv, Pending, PendingOnce
<1>6. Reachable'
  <2>1. \A e \in Endpoint : Owners[e] # 0 => Owners'[e] # 0
    BY <1>0
  <2>2. QED
    BY <2>1 DEF RefInv, Reachable
<1>7. QED
  BY <1>2, <1>3, <1>5, <1>6 DEF RefInv

\* One reference less, and the destroy of the endpoint that lost its last.
LEMMA RefsReleased ==
    ASSUME RefInv, TypeOK, NEW p \in Process, NEW object,
           dying[p] = None, freeing[p] = None,
           Release(p, object),
           \A e \in Endpoint : Owners'[e] = IF e = object THEN Owners[e] - 1 ELSE Owners[e],
           object \in Endpoint => Owners[object] # 0,
           allocated' = allocated, open' = open, freeing' = freeing
    PROVE  /\ RefInv'
           /\ refs' \in [Endpoint -> Nat]
           /\ dying' \in [Process -> Endpoint \cup {None}]
<1>0. \A e \in Endpoint : refs[e] \in Nat /\ Owners[e] \in Nat
  BY OwnersType DEF TypeOK
<1>1. CASE object \notin Endpoint
  <2>1. refs' = refs /\ dying' = dying
    BY <1>1 DEF Release
  <2>2. \A e \in Endpoint : Owners'[e] = Owners[e]
    BY <1>1
  <2>3. UNCHANGED objectVars /\ UNCHANGED calleeVars
    BY <2>1 DEF objectVars, calleeVars
  <2>4. RefInv'
    BY <2>2, <2>3, RefsQuiet
  <2>5. QED
    BY <2>1, <2>4 DEF TypeOK
<1>2. CASE object \in Endpoint
  <2>1. /\ allocated[object[1]] /\ open[object] /\ refs[object] = Owners[object]
        /\ \A q \in Process : dying[q] # object
    BY <1>2, Unowned
  <2>2. /\ refs' = [refs EXCEPT ![object] = @ - 1]
        /\ dying' = [dying EXCEPT ![p] = IF refs[object] = 1 THEN object ELSE None]
    BY <1>2, <2>1 DEF Release
  <2>3. /\ \A e \in Endpoint : refs'[e] = IF e = object THEN refs[e] - 1 ELSE refs[e]
        /\ refs[object] \in Nat \ {0}
    BY <1>0, <1>2, <2>1, <2>2 DEF TypeOK
  <2>4. refs' \in [Endpoint -> Nat]
    <3>1. refs[object] - 1 \in Nat
      BY <2>3
    <3>2. refs \in [Endpoint -> Nat]
      BY DEF TypeOK
    <3>3. QED
      BY <1>2, <2>2, <3>1, <3>2
  <2>5. dying' \in [Process -> Endpoint \cup {None}]
    <3>1. (IF refs[object] = 1 THEN object ELSE None) \in Endpoint \cup {None}
      BY <1>2
    <3>2. dying \in [Process -> Endpoint \cup {None}]
      BY DEF TypeOK
    <3>3. QED
      BY <3>1, <3>2, <2>2
  <2>6. /\ dying'[p] = IF refs[object] = 1 THEN object ELSE None
        /\ \A q \in Process \ {p} : dying'[q] = dying[q]
    BY <2>2 DEF TypeOK
  <2>7. Owners'[object] = refs[object] - 1
    BY <1>2, <2>1
  <2>8. Counted'
    <3> SUFFICES ASSUME NEW e \in Endpoint
                 PROVE  /\ allocated[e[1]] => refs'[e] = Owners'[e]
                        /\ Owners'[e] # 0 => allocated[e[1]] /\ open[e]
      BY DEF Counted
    <3>1. CASE e = object
      BY <3>1, <2>1, <2>3
    <3>2. CASE e # object
      BY <3>2, <2>3 DEF RefInv, Counted
    <3>3. QED
      BY <3>1, <3>2
  <2>9. Pending'
    <3> SUFFICES ASSUME NEW q \in Process
                 PROVE  /\ dying'[q] # None => /\ allocated[dying'[q][1]] /\ open[dying'[q]]
                                               /\ Owners'[dying'[q]] = 0
                                               /\ freeing[q] = None
                        /\ freeing[q] # None => allocated[freeing[q]] /\ \A s \in Side : ~ open[<<freeing[q], s>>]
      BY DEF Pending
    <3>1. CASE q = p
      BY <3>1, <2>1, <2>3, <2>6, <2>7
    <3>2. CASE q # p
      <4>1. dying'[q] = dying[q] /\ dying[q] # object
        BY <3>2, <2>6, <2>1
      <4>2. dying[q] # None => Owners'[dying[q]] = Owners[dying[q]]
        BY <4>1, Ends
      <4>3. QED
        BY <4>1, <4>2 DEF RefInv, Pending
    <3>3. QED
      BY <3>1, <3>2
  <2>10. PendingOnce'
    <3>1. \A q, r \in Process : q # r /\ dying'[q] # None => dying'[q] # dying'[r]
      <4> SUFFICES ASSUME NEW q \in Process, NEW r \in Process, q # r, dying'[q] # None
                   PROVE  dying'[q] # dying'[r]
        OBVIOUS
      <4>1. dying[q] # object /\ dying[r] # object
        BY <2>1
      <4>2. CASE q = p
        BY <4>1, <4>2, <2>6
      <4>3. CASE r = p
        BY <4>1, <4>3, <2>6
      <4>4. CASE q # p /\ r # p
        BY <4>4, <2>6 DEF RefInv, PendingOnce
      <4>5. QED
        BY <4>2, <4>3, <4>4
    <3>2. QED
      BY <3>1 DEF RefInv, PendingOnce
  <2>11. Reachable'
    <3>1. ASSUME NEW e \in Endpoint, open[e] PROVE Owners'[e] # 0 \/ \E q \in Process : dying'[q] = e
      <4>1. CASE e = object
        BY <4>1, <2>3, <2>6, <2>7
      <4>2. CASE e # object /\ Owners[e] # 0
        BY <4>2
      <4>3. CASE e # object /\ \E q \in Process : dying[q] = e
        <5>1. PICK q \in Process : dying[q] = e
          BY <4>3
        <5>2. q # p
          BY <5>1, <3>1, Ends
        <5>3. QED
          BY <5>1, <5>2, <2>6
      <4>4. QED
        BY <3>1, <4>1, <4>2, <4>3 DEF RefInv, Reachable
    <3>2. QED
      BY <3>1 DEF RefInv, Reachable
  <2>12. QED
    BY <2>4, <2>5, <2>8, <2>9, <2>10, <2>11 DEF RefInv
<1>3. QED
  BY <1>1, <1>2

\* Two endpoints of a channel that was not allocated, each owned once.
LEMMA RefsCreated ==
    ASSUME RefInv, TypeOK, NEW c \in Channel, ~ allocated[c],
           allocated' = [allocated EXCEPT ![c] = TRUE],
           open' = [e \in Endpoint |-> e[1] = c \/ open[e]],
           refs' = [e \in Endpoint |-> IF e[1] = c THEN 1 ELSE refs[e]],
           \A e \in Endpoint : Owners'[e] = IF e[1] = c THEN Owners[e] + 1 ELSE Owners[e],
           dying' = dying, freeing' = freeing
    PROVE  RefInv'
<1>1. \A e \in Endpoint : e[1] = c => Owners[e] = 0 /\ Owners'[e] = 1
  BY OwnersType DEF RefInv, Counted
<1>2. /\ allocated'[c]
      /\ \A d \in Channel \ {c} : allocated'[d] = allocated[d]
  BY DEF TypeOK
<1>3. \A p \in Process : /\ dying[p] # None => dying[p][1] # c
                         /\ freeing[p] # None => freeing[p] # c
  BY DEF RefInv, Pending
<1>4. Counted'
  <2> SUFFICES ASSUME NEW e \in Endpoint
               PROVE  /\ allocated'[e[1]] => refs'[e] = Owners'[e]
                      /\ Owners'[e] # 0 => allocated'[e[1]] /\ open'[e]
    BY DEF Counted
  <2>0. e[1] \in Channel
    BY Ends
  <2>1. CASE e[1] = c
    BY <2>1, <1>1, <1>2
  <2>2. CASE e[1] # c
    BY <2>0, <2>2, <1>2 DEF RefInv, Counted
  <2>3. QED
    BY <2>1, <2>2
<1>5. Pending'
  <2> SUFFICES ASSUME NEW q \in Process
               PROVE  /\ dying[q] # None => /\ allocated'[dying[q][1]] /\ open'[dying[q]]
                                            /\ Owners'[dying[q]] = 0
                                            /\ freeing[q] = None
                      /\ freeing[q] # None => allocated'[freeing[q]] /\ \A s \in Side : ~ open'[<<freeing[q], s>>]
    BY DEF Pending
  <2>1. ASSUME dying[q] # None
        PROVE  /\ allocated'[dying[q][1]] /\ open'[dying[q]] /\ Owners'[dying[q]] = 0 /\ freeing[q] = None
    <3>0. dying[q] \in Endpoint /\ dying[q][1] \in Channel
      BY <2>1, Ends
    <3>1. dying[q] \in Endpoint /\ dying[q][1] \in Channel /\ dying[q][1] # c
      BY <2>1, <3>0, <1>3, Zenon
    <3>2. allocated[dying[q][1]] /\ open[dying[q]] /\ Owners[dying[q]] = 0 /\ freeing[q] = None
      BY <2>1 DEF RefInv, Pending
    <3>3. QED
      BY <3>1, <3>2, <1>2
  <2>2. ASSUME freeing[q] # None
        PROVE  allocated'[freeing[q]] /\ \A s \in Side : ~ open'[<<freeing[q], s>>]
    <3>0. freeing[q] \in Channel
      BY <2>2, Ends
    <3>1. freeing[q] \in Channel /\ freeing[q] # c
      BY <2>2, <3>0, <1>3, Zenon
    <3>2. allocated[freeing[q]] /\ \A s \in Side : ~ open[<<freeing[q], s>>]
      BY <2>2 DEF RefInv, Pending
    <3>3. \A s \in Side : <<freeing[q], s>> \in Endpoint /\ <<freeing[q], s>>[1] = freeing[q]
      BY <3>1, Ends
    <3>4. QED
      BY <3>1, <3>2, <3>3, <1>2
  <2>3. QED
    BY <2>1, <2>2
<1>6. PendingOnce'
  BY DEF RefInv, PendingOnce
<1>7. Reachable'
  <2>1. ASSUME NEW e \in Endpoint, open'[e] PROVE Owners'[e] # 0 \/ \E q \in Process : dying[q] = e
    <3>1. CASE e[1] = c
      BY <3>1, <1>1
    <3>2. CASE e[1] # c
      BY <3>2, <2>1 DEF RefInv, Reachable
    <3>3. QED
      BY <3>1, <3>2
  <2>2. ASSUME NEW d \in Channel, allocated'[d]
        PROVE  (\E s \in Side : open'[<<d, s>>]) \/ \E q \in Process : freeing[q] = d
    <3>1. \A s \in Side : open'[<<d, s>>] = (d = c \/ open[<<d, s>>])
      BY Ends
    <3>2. CASE d = c
      BY <3>1, <3>2 DEF Side
    <3>3. CASE d # c
      BY <3>1, <3>3, <2>2, <1>2 DEF RefInv, Reachable
    <3>4. QED
      BY <3>2, <3>3
  <2>3. QED
    BY <2>1, <2>2 DEF Reachable
<1>8. QED
  BY <1>4, <1>5, <1>6, <1>7 DEF RefInv

\* channel_destroy up to its unlock: the endpoint closes, and the last one to
\* close leaves its channel to be freed.
LEMMA RefsDestroyed ==
    ASSUME RefInv, TypeOK, NEW p \in Process, ChannelDestroy(p), \A e \in Endpoint : Owners'[e] = Owners[e]
    PROVE  RefInv'
<1> DEFINE e0 == dying[p]
           c0 == dying[p][1]
<1>1. e0 \in Endpoint /\ c0 \in Channel /\ e0[1] = c0 /\ e0 = <<c0, e0[2]>> /\ e0[2] \in Side
  BY Ends DEF ChannelDestroy
<1>2. allocated[c0] /\ open[e0] /\ Owners[e0] = 0 /\ freeing[p] = None
  BY DEF ChannelDestroy, RefInv, Pending
<1>3. allocated' = allocated /\ refs' = refs
  BY DEF ChannelDestroy
<1>4. ~ open'[e0] /\ \A e \in Endpoint \ {e0} : open'[e] = open[e]
  BY <1>1 DEF ChannelDestroy, TypeOK
<1>5. dying'[p] = None /\ \A q \in Process \ {p} : dying'[q] = dying[q] /\ freeing'[q] = freeing[q]
  BY DEF ChannelDestroy, TypeOK
<1>6. /\ (\A s \in Side : ~ open'[<<c0, s>>]) => freeing'[p] = c0
      /\ ~ (\A s \in Side : ~ open'[<<c0, s>>]) => freeing'[p] = None
  BY DEF ChannelDestroy, TypeOK
<1>7. e0 # None /\ None \notin Channel
  BY <1>1, Ends
<1> HIDE DEF e0, c0
<1>8. Counted'
  <2> SUFFICES ASSUME NEW e \in Endpoint
               PROVE  /\ allocated[e[1]] => refs[e] = Owners'[e]
                      /\ Owners'[e] # 0 => allocated[e[1]] /\ open'[e]
    BY <1>3 DEF Counted
  <2>1. Owners'[e] # 0 => open'[e]
    BY <1>2, <1>4 DEF RefInv, Counted
  <2>2. QED
    BY <2>1 DEF RefInv, Counted
<1>9. \A q \in Process \ {p} : dying[q] # e0
  BY <1>7 DEF RefInv, PendingOnce, e0
<1>10. \A q \in Process \ {p} : freeing[q] # c0
  BY <1>1, <1>2, <1>7 DEF RefInv, Pending
<1>11. Pending'
  <2> SUFFICES ASSUME NEW q \in Process
               PROVE  /\ dying'[q] # None => /\ allocated[dying'[q][1]] /\ open'[dying'[q]]
                                             /\ Owners'[dying'[q]] = 0
                                             /\ freeing'[q] = None
                      /\ freeing'[q] # None => allocated[freeing'[q]] /\ \A s \in Side : ~ open'[<<freeing'[q], s>>]
    BY <1>3 DEF Pending
  <2>1. CASE q = p
    BY <2>1, <1>2, <1>5, <1>6
  <2>2. CASE q # p
    <3>1. dying'[q] = dying[q] /\ freeing'[q] = freeing[q] /\ dying[q] # e0
      BY <2>2, <1>5, <1>9
    <3>2. dying[q] # None => open'[dying[q]] /\ Owners'[dying[q]] = Owners[dying[q]]
      BY <3>1, <1>4, Ends DEF RefInv, Pending
    <3>3. freeing[q] # None => \A s \in Side : ~ open'[<<freeing[q], s>>]
      <4> SUFFICES ASSUME freeing[q] # None, NEW s \in Side PROVE ~ open'[<<freeing[q], s>>]
        OBVIOUS
      <4>1. <<freeing[q], s>> \in Endpoint /\ ~ open[<<freeing[q], s>>]
        BY Ends DEF RefInv, Pending
      <4>2. QED
        BY <4>1, <1>4
    <3>4. QED
      BY <3>1, <3>2, <3>3 DEF RefInv, Pending
  <2>3. QED
    BY <2>1, <2>2
<1>12. PendingOnce'
  <2> SUFFICES ASSUME NEW q \in Process, NEW r \in Process, q # r
               PROVE  /\ dying'[q] # None => dying'[q] # dying'[r]
                      /\ freeing'[q] # None => freeing'[q] # freeing'[r]
    BY DEF PendingOnce
  <2>1. CASE q = p
    BY <2>1, <1>5, <1>6, <1>10
  <2>2. CASE r = p
    BY <2>2, <1>5, <1>6, <1>10
  <2>3. CASE q # p /\ r # p
    BY <2>3, <1>5 DEF RefInv, PendingOnce
  <2>4. QED
    BY <2>1, <2>2, <2>3
<1>13. Reachable'
  <2>1. ASSUME NEW e \in Endpoint, open'[e] PROVE Owners'[e] # 0 \/ \E q \in Process : dying'[q] = e
    <3>1. e # e0 /\ open[e]
      BY <2>1, <1>4
    <3>2. CASE Owners[e] # 0
      BY <3>2
    <3>3. CASE \E q \in Process : dying[q] = e
      <4>1. PICK q \in Process : dying[q] = e
        BY <3>3
      <4>2. q # p
        BY <4>1, <3>1 DEF e0
      <4>3. QED
        BY <4>1, <4>2, <1>5
    <3>4. QED
      BY <3>1, <3>2, <3>3 DEF RefInv, Reachable
  <2>2. ASSUME NEW d \in Channel, allocated'[d]
        PROVE  (\E s \in Side : open'[<<d, s>>]) \/ \E q \in Process : freeing'[q] = d
    <3>1. CASE d = c0
      BY <3>1, <1>6
    <3>2. CASE d # c0 /\ \E s \in Side : open[<<d, s>>]
      <4>1. PICK s \in Side : open[<<d, s>>]
        BY <3>2
      <4>2. <<d, s>> \in Endpoint /\ <<d, s>> # e0
        BY <3>2, <1>1, Ends
      <4>3. QED
        BY <4>1, <4>2, <1>4
    <3>3. CASE d # c0 /\ \E q \in Process : freeing[q] = d
      <4>1. PICK q \in Process : freeing[q] = d
        BY <3>3
      <4>2. q # p
        BY <4>1, <1>2, Ends
      <4>3. QED
        BY <4>1, <4>2, <1>5
    <3>4. QED
      BY <3>1, <3>2, <3>3, <2>2, <1>3 DEF RefInv, Reachable
  <2>3. QED
    BY <2>1, <2>2 DEF Reachable
<1>14. QED
  BY <1>8, <1>11, <1>12, <1>13 DEF RefInv

\* Its kfree.
LEMMA RefsFreed ==
    ASSUME RefInv, TypeOK, NEW p \in Process, FreeChannel(p), \A e \in Endpoint : Owners'[e] = Owners[e]
    PROVE  RefInv'
<1> DEFINE c0 == freeing[p]
<1>1. c0 \in Channel /\ c0 # None /\ allocated[c0] /\ \A s \in Side : ~ open[<<c0, s>>]
  BY Ends DEF FreeChannel, RefInv, Pending
<1>2. /\ ~ allocated'[c0] /\ \A d \in Channel \ {c0} : allocated'[d] = allocated[d]
      /\ open' = open /\ refs' = refs /\ dying' = dying
      /\ freeing'[p] = None /\ \A q \in Process \ {p} : freeing'[q] = freeing[q]
  BY <1>1 DEF FreeChannel, TypeOK
<1>3. \A e \in Endpoint : open[e] => e[1] # c0
  BY <1>1, Ends
<1>4. \A q \in Process \ {p} : freeing[q] # c0
  BY <1>1 DEF RefInv, PendingOnce
<1> HIDE DEF c0
<1>5. Counted'
  <2> SUFFICES ASSUME NEW e \in Endpoint
               PROVE  /\ allocated'[e[1]] => refs[e] = Owners'[e]
                      /\ Owners'[e] # 0 => allocated'[e[1]] /\ open[e]
    BY <1>2 DEF Counted
  <2>1. e[1] \in Channel
    BY Ends
  <2>2. CASE e[1] = c0
    BY <2>1, <2>2, <1>2, <1>3 DEF RefInv, Counted
  <2>3. CASE e[1] # c0
    BY <2>1, <2>3, <1>2 DEF RefInv, Counted
  <2>4. QED
    BY <2>2, <2>3
<1>6. Pending'
  <2> SUFFICES ASSUME NEW q \in Process
               PROVE  /\ dying[q] # None => /\ allocated'[dying[q][1]] /\ open[dying[q]]
                                            /\ Owners'[dying[q]] = 0
                                            /\ freeing'[q] = None
                      /\ freeing'[q] # None => allocated'[freeing'[q]] /\ \A s \in Side : ~ open[<<freeing'[q], s>>]
    BY <1>2 DEF Pending
  <2>1. ASSUME dying[q] # None
        PROVE  /\ allocated'[dying[q][1]] /\ open[dying[q]] /\ Owners'[dying[q]] = 0 /\ freeing'[q] = None
    <3>1. dying[q] \in Endpoint /\ dying[q][1] \in Channel
      BY <2>1, Ends
    <3>2. allocated[dying[q][1]] /\ open[dying[q]] /\ Owners[dying[q]] = 0 /\ freeing[q] = None
      BY <2>1 DEF RefInv, Pending
    <3>3. q # p
      BY <3>2, <1>1 DEF c0
    <3>4. QED
      BY <3>1, <3>2, <3>3, <1>2, <1>3
  <2>2. ASSUME freeing'[q] # None
        PROVE  allocated'[freeing'[q]] /\ \A s \in Side : ~ open[<<freeing'[q], s>>]
    <3>1. q # p /\ freeing'[q] = freeing[q]
      BY <2>2, <1>2
    <3>2. freeing[q] \in Channel \ {c0}
      BY <3>1, <2>2, <1>4, Ends
    <3>3. QED
      BY <3>1, <3>2, <2>2, <1>2 DEF RefInv, Pending
  <2>3. QED
    BY <2>1, <2>2
<1>7. PendingOnce'
  <2> SUFFICES ASSUME NEW q \in Process, NEW r \in Process, q # r
               PROVE  /\ dying[q] # None => dying[q] # dying[r]
                      /\ freeing'[q] # None => freeing'[q] # freeing'[r]
    BY <1>2 DEF PendingOnce
  <2>1. freeing'[q] # None => freeing'[q] # freeing'[r]
    BY <1>2 DEF RefInv, PendingOnce
  <2>2. QED
    BY <2>1 DEF RefInv, PendingOnce
<1>8. Reachable'
  <2>1. ASSUME NEW d \in Channel, allocated'[d]
        PROVE  (\E s \in Side : open[<<d, s>>]) \/ \E q \in Process : freeing'[q] = d
    <3>1. d # c0 /\ allocated[d]
      BY <2>1, <1>2
    <3>2. CASE \E q \in Process : freeing[q] = d
      <4>1. PICK q \in Process : freeing[q] = d
        BY <3>2
      <4>2. q # p
        BY <4>1, <3>1 DEF c0
      <4>3. QED
        BY <4>1, <4>2, <1>2
    <3>3. QED
      BY <3>1, <3>2 DEF RefInv, Reachable
  <2>2. QED
    BY <2>1, <1>2 DEF RefInv, Reachable
<1>9. QED
  BY <1>5, <1>6, <1>7, <1>8 DEF RefInv

-----------------------------------------------------------------------------
(* Where a call stands, and what it may hold there.                         *)

FirstSteps  == {"retain_first", "put_first", "retain_second", "put_second", "drop_entry",
                "close_first", "drop_closed", "drop_first"}
EntrySteps  == {"put_first", "put_second", "drop_entry", "put_child", "unput_child"}
ObjectSteps == {"use", "drop_object", "drop_closed", "drop_uncopied", "retain_child", "put_child",
                "unput_child", "drop_inherited", "drop_refused"}
BothSteps   == {"copy_out", "uncopy_first", "drop_uncopied", "uncopy_second"}
PairSteps   == {"retain_second", "put_second", "close_first"} \cup BothSteps
EndSteps    == {"drop_array", "free_process"}
ChildSteps  == SpawnSteps \ {"create", "free_slot"}

CallOK(p) ==
    /\ local[p]["first"] # None => pc[p] \in FirstSteps
    /\ local[p]["second"] # None => pc[p] \in FirstSteps \cup {"drop_second"}
    /\ local[p]["entry"] # None => pc[p] \in EntrySteps
    /\ local[p]["object"] # None => pc[p] \in ObjectSteps
    /\ array[p] # NoHandles => pc[p] = "drop_array"
    /\ spawning[p] # None => pc[p] \in ChildSteps
    /\ pc[p] \in ChildSteps => spawning[p] # None
    /\ pc[p] \in PairSteps => pair[p]["first"] # None
    /\ pc[p] \in BothSteps => pair[p]["second"] # None
    /\ pair[p]["second"] # None => pair[p]["first"] # None

Calls == \A p \in Process : CallOK(p)

\* The children in the making, and the processes that own no handles.
Families ==
    /\ \A p \in Process : spawning[p] # None =>
         /\ pc[p] \in EndSteps => life[spawning[p]] = "terminated"
         /\ pc[p] \notin EndSteps => life[spawning[p]] = "new"
    /\ \A p, q \in Process : spawning[p] # None /\ p # q => spawning[p] # spawning[q]
    /\ \A p \in Process : life[p] \in {"new", "terminated"} => \E q \in Process : spawning[q] = p
    /\ \A p \in Process : life[p] \in {"free", "terminated"} => table[p] = NoHandles
    /\ life[desktop] \in {"running", "exited"}

Inv == TypeOK /\ RefInv /\ Calls /\ Families /\ SlotsExact

\* Only p's call goes on.
OnlyFor(p) ==
    \A q \in Process \ {p} :
        /\ pc'[q] = pc[q] /\ local'[q] = local[q] /\ array'[q] = array[q]
        /\ pair'[q] = pair[q] /\ spawning'[q] = spawning[q]

\* A step of p leaves the calls of the others as they were.
LEMMA CallsStep ==
    ASSUME Calls, NEW p \in Process, OnlyFor(p), CallOK(p)'
    PROVE  Calls'
BY DEF Calls, CallOK, OnlyFor

\* A step that changes no life and no spawn keeps the families.
LEMMA FamiliesQuiet ==
    ASSUME Families, TypeOK, NEW p \in Process,
           life' = life, spawning' = spawning,
           \A q \in Process \ {p} : pc'[q] = pc[q],
           pc[p] \in EndSteps <=> pc'[p] \in EndSteps,
           \A q \in Process : life[q] \in {"free", "terminated"} => table'[q] = table[q]
    PROVE  Families'
<1>1. \A q \in Process : pc[q] \in EndSteps <=> pc'[q] \in EndSteps
  OBVIOUS
<1>2. QED
  BY <1>1 DEF Families

\* The processes that use a runtime slot.
Applications == {p \in Process \ {desktop} : life[p] \in {"running", "exited"}}
Spawning     == {p \in Process : pc[p] \in SpawnSteps}

\* The users of runtime slots are finitely many.
LEMMA SlotSets ==
    /\ IsFiniteSet(Applications) /\ IsFiniteSet(Spawning)
    /\ Cardinality(Applications) \in Nat /\ Cardinality(Spawning) \in Nat
<1>1. Applications \in SUBSET Process /\ Spawning \in SUBSET Process
  BY DEF Applications, Spawning
<1>2. IsFiniteSet(Applications) /\ IsFiniteSet(Spawning)
  BY <1>1, FiniteIndex, FS_Subset, Zenon
<1>3. QED
  BY <1>2, FS_CardinalityType, Zenon

\* SlotsExact in terms of these two sets.
LEMMA SlotsAre == SlotsExact <=> slots = Cardinality(Applications) + Cardinality(Spawning)
BY DEF SlotsExact, Applications, Spawning

\* A step that leaves slots, lives and spawns alone keeps the slots counted.
LEMMA SlotsQuiet ==
    ASSUME SlotsExact, slots' = slots,
           \A q \in Process : life[q] \in {"running", "exited"} <=> life'[q] \in {"running", "exited"},
           \A q \in Process : pc[q] \in SpawnSteps <=> pc'[q] \in SpawnSteps
    PROVE  SlotsExact'
<1>1. Applications' = Applications
  BY DEF Applications
<1>2. Spawning' = Spawning
  BY DEF Spawning
<1>3. QED
  BY <1>1, <1>2 DEF SlotsExact, Applications, Spawning

\* At the start of the desktop process everything is counted.
LEMMA InitInv == Init => Inv
<1> SUFFICES ASSUME Init PROVE Inv
  OBVIOUS
<1>1. TypeOK
  BY BoundsAssumption DEF Init, TypeOK, NoHandles, Connected, Pointer, Steps, Endpoint, Side
<1>2. \A e \in Endpoint : Owners[e] = 0
  <2> SUFFICES ASSUME NEW e \in Endpoint PROVE ~ Held(e)
    BY OwnersHeld
  <2>1. e # None /\ e # console
    BY NamesAssumption
  <2>2. InTables(e) = {} /\ InLocals(e) = {} /\ InArrays(e) = {}
    BY <2>1 DEF Init, InTables, InLocals, InArrays, Places, NoHandles, Connected
  <2>3. QED
    BY <2>2 DEF Held
<1>3. RefInv
  BY <1>2 DEF Init, RefInv, Counted, Pending, PendingOnce, Reachable, Endpoint
<1>4. Calls
  <2> SUFFICES ASSUME NEW p \in Process PROVE CallOK(p)
    BY DEF Calls
  <2>1. /\ pc[p] = "user" /\ spawning[p] = None /\ array[p] = NoHandles
        /\ local[p]["first"] = None /\ local[p]["second"] = None
        /\ local[p]["entry"] = None /\ local[p]["object"] = None
        /\ pair[p]["second"] = None
    BY DEF Init, Local
  <2>2. "user" \notin ChildSteps \cup PairSteps \cup BothSteps
    BY DEF ChildSteps, PairSteps, BothSteps, SpawnSteps
  <2>3. QED
    BY <2>1, <2>2 DEF CallOK, PairSteps
<1>5. Families
  BY BoundsAssumption DEF Init, Families
<1>6. SlotsExact
  <2>1. Applications = {} /\ Spawning = {}
    BY DEF Init, Applications, Spawning, SpawnSteps
  <2>2. QED
    BY <2>1, FS_EmptySet, SlotsAre DEF Init
<1>7. QED
  BY <1>1, <1>3, <1>4, <1>5, <1>6 DEF Inv

-----------------------------------------------------------------------------
(* The steps.                                                               *)

\* What a table, an array or a local variable names has an owner.
LEMMA Holders ==
    ASSUME NEW p \in Process, NEW e \in Endpoint
    PROVE  /\ \A h \in Handle : table[p][h] = e \/ array[p][h] = e => Owners[e] # 0
           /\ \A x \in Local : local[p][x] = e => Owners[e] # 0
<1>1. ASSUME NEW h \in Handle, table[p][h] = e \/ array[p][h] = e PROVE Held(e)
  <2>1. <<p, h>> \in Process \X Handle
    OBVIOUS
  <2>2. CASE table[p][h] = e
    <3>1. <<p, h>> \in InTables(e)
      BY <2>1, <2>2 DEF InTables, Places
    <3>2. QED
      BY <3>1 DEF Held
  <2>3. CASE array[p][h] = e
    <3>1. <<p, h>> \in InArrays(e)
      BY <2>1, <2>3 DEF InArrays, Places
    <3>2. QED
      BY <3>1 DEF Held
  <2>4. QED
    BY <1>1, <2>2, <2>3
<1>2. ASSUME NEW x \in Local, local[p][x] = e PROVE Held(e)
  <2>1. <<p, x>> \in Process \X Local
    OBVIOUS
  <2>2. <<p, x>> \in InLocals(e)
    BY <1>2, <2>1 DEF InLocals, Places
  <2>3. QED
    BY <2>2 DEF Held
<1>3. QED
  BY <1>1, <1>2, OwnersHeld

\* What Goto does to pc.
LEMMA GoPoint ==
    ASSUME TypeOK, NEW p \in Process, NEW next \in Steps, Goto(p, next)
    PROVE  /\ pc' \in [Process -> Steps]
           /\ pc'[p] = next
           /\ \A q \in Process \ {p} : pc'[q] = pc[q]
BY DEF TypeOK, Goto

\* What writing one local variable or table entry does.
LEMMA LocalPoint ==
    ASSUME TypeOK, NEW p \in Process, NEW x \in Local, NEW v \in Pointer,
           local' = [local EXCEPT ![p][x] = v]
    PROVE  /\ local' \in [Process -> [Local -> Pointer]]
           /\ Writes(local, local', Local, p, x, v)
           /\ local'[p][x] = v
           /\ \A y \in Local \ {x} : local'[p][y] = local[p][y]
           /\ \A q \in Process \ {p} : local'[q] = local[q]
<1>1. local \in [Process -> [Local -> Pointer]]
  BY DEF TypeOK
<1>2. Writes(local, local', Local, p, x, v)
  BY <1>1 DEF Writes
<1>3. QED
  BY <1>1, <1>2 DEF Writes

\* What writing one entry does to the tables.
LEMMA TablePoint ==
    ASSUME TypeOK, NEW p \in Process, NEW h \in Handle, NEW v \in Pointer,
           table' = [table EXCEPT ![p][h] = v]
    PROVE  /\ table' \in [Process -> [Handle -> Pointer]]
           /\ Writes(table, table', Handle, p, h, v)
           /\ \A q \in Process \ {p} : table'[q] = table[q]
<1>1. table \in [Process -> [Handle -> Pointer]]
  BY DEF TypeOK
<1>2. Writes(table, table', Handle, p, h, v)
  BY <1>1 DEF Writes
<1>3. QED
  BY <1>1, <1>2

\* Entries and local variables hold pointers.
LEMMA Pointers ==
    ASSUME TypeOK, NEW p \in Process
    PROVE  /\ None \in Pointer
           /\ \A h \in Handle : table[p][h] \in Pointer /\ array[p][h] \in Pointer
           /\ \A x \in Local : local[p][x] \in Pointer
BY DEF TypeOK, Pointer

\* A reference in a local variable is released.
LEMMA DropPoint ==
    ASSUME TypeOK, NEW p \in Process, NEW x \in Local, NEW step, NEW next \in Steps, Drop(p, step, x, next)
    PROVE  /\ life[p] = "running" /\ pc[p] = step /\ pc'[p] = next
           /\ local'[p][x] = None
           /\ \A y \in Local \ {x} : local'[p][y] = local[p][y]
           /\ array'[p] = array[p] /\ pair'[p] = pair[p] /\ spawning'[p] = spawning[p]
           /\ OnlyFor(p)
<1>1. None \in Pointer /\ local' = [local EXCEPT ![p][x] = None] /\ Goto(p, next)
  BY Pointers DEF Drop
<1>2. /\ local'[p][x] = None
      /\ \A y \in Local \ {x} : local'[p][y] = local[p][y]
      /\ \A q \in Process \ {p} : local'[q] = local[q]
  BY <1>1, LocalPoint
<1>3. pc'[p] = next /\ \A q \in Process \ {p} : pc'[q] = pc[q]
  BY <1>1, GoPoint
<1>4. QED
  BY <1>2, <1>3 DEF Drop, At, OnlyFor

\* kernel_object_release of a local reference, the last one included, keeps Inv.
LEMMA DropKeeps ==
    ASSUME Inv, NEW p \in Process, NEW x \in Local, NEW step, NEW next \in Steps, Drop(p, step, x, next),
           step \in EndSteps <=> next \in EndSteps, step \in SpawnSteps <=> next \in SpawnSteps,
           CallOK(p)'
    PROVE  Inv'
<1>0. TypeOK /\ RefInv /\ Calls /\ Families /\ SlotsExact
  BY DEF Inv
<1>1. /\ pc[p] = step /\ pc'[p] = next /\ OnlyFor(p) /\ pc' \in [Process -> Steps]
      /\ \A q \in Process \ {p} : pc'[q] = pc[q]
  <2>1. Goto(p, next)
    BY DEF Drop
  <2>2. QED
    BY <1>0, <2>1, DropPoint, GoPoint
<1>2. /\ local' \in [Process -> [Local -> Pointer]]
      /\ Writes(local, local', Local, p, x, None)
  <2>1. None \in Pointer /\ local' = [local EXCEPT ![p][x] = None]
    BY <1>0, Pointers DEF Drop
  <2>2. QED
    BY <1>0, <2>1, LocalPoint
<1>3. /\ dying[p] = None /\ freeing[p] = None /\ Release(p, local[p][x])
      /\ table' = table /\ array' = array /\ pair' = pair /\ spawning' = spawning /\ life' = life
      /\ slots' = slots /\ allocated' = allocated /\ open' = open /\ freeing' = freeing
  BY DEF Drop, At
<1>4. \A e \in Endpoint : Owners'[e] = IF e = local[p][x] THEN Owners[e] - 1 ELSE Owners[e]
  BY <1>2, <1>3, OwnersLose
<1>5. local[p][x] \in Endpoint => Owners[local[p][x]] # 0
  BY Holders
<1>6. RefInv' /\ refs' \in [Endpoint -> Nat] /\ dying' \in [Process -> Endpoint \cup {None}]
  BY <1>0, <1>3, <1>4, <1>5, RefsReleased
<1>7. TypeOK'
  BY <1>0, <1>1, <1>2, <1>3, <1>6 DEF TypeOK
<1>8. Calls'
  BY <1>0, <1>1, CallsStep
<1>9. Families'
  BY <1>0, <1>1, <1>3, FamiliesQuiet
<1>10. SlotsExact'
  BY <1>0, <1>1, <1>3, SlotsQuiet
<1>11. QED
  BY <1>6, <1>7, <1>8, <1>9, <1>10 DEF Inv

\* A step that moves no reference.
LEMMA GoKeeps ==
    ASSUME Inv, NEW p \in Process, NEW next \in Steps, Goto(p, next),
           pc[p] \in EndSteps <=> next \in EndSteps, pc[p] \in SpawnSteps <=> next \in SpawnSteps,
           UNCHANGED <<objectVars, life, table, slots, callVars, calleeVars>>,
           CallOK(p)'
    PROVE  Inv'
<1>0. TypeOK /\ RefInv /\ Calls /\ Families /\ SlotsExact
  BY DEF Inv
<1>1. pc' \in [Process -> Steps] /\ pc'[p] = next /\ \A q \in Process \ {p} : pc'[q] = pc[q]
  BY <1>0, GoPoint
<1>2. /\ table' = table /\ local' = local /\ array' = array /\ pair' = pair /\ spawning' = spawning
      /\ life' = life /\ slots' = slots /\ UNCHANGED objectVars /\ UNCHANGED calleeVars
  BY DEF callVars
<1>3. \A e \in Endpoint : Owners'[e] = Owners[e]
  BY <1>2, OwnersQuiet
<1>4. RefInv'
  BY <1>0, <1>2, <1>3, RefsQuiet
<1>5. TypeOK'
  BY <1>0, <1>1, <1>2 DEF TypeOK, objectVars, calleeVars
<1>6. OnlyFor(p)
  BY <1>1, <1>2 DEF OnlyFor
<1>7. Calls'
  BY <1>0, <1>6, CallsStep
<1>8. Families'
  BY <1>0, <1>1, <1>2, FamiliesQuiet
<1>9. SlotsExact'
  BY <1>0, <1>1, <1>2, SlotsQuiet
<1>10. QED
  BY <1>4, <1>5, <1>7, <1>8, <1>9 DEF Inv

\* A reference that is owned already is retained into a local variable.
LEMMA RetainKeeps ==
    ASSUME Inv, NEW p \in Process, NEW x \in Local, NEW object \in Pointer, NEW next \in Steps,
           Retain(p, object, x), Goto(p, next),
           local[p][x] = None, object \in Endpoint => Owners[object] # 0,
           pc[p] \in EndSteps <=> next \in EndSteps, pc[p] \in SpawnSteps <=> next \in SpawnSteps,
           UNCHANGED <<allocated, open, life, table, slots, array, pair, spawning, calleeVars>>,
           CallOK(p)'
    PROVE  Inv'
<1>0. TypeOK /\ RefInv /\ Calls /\ Families /\ SlotsExact
  BY DEF Inv
<1>1. pc' \in [Process -> Steps] /\ pc'[p] = next /\ \A q \in Process \ {p} : pc'[q] = pc[q]
  BY <1>0, GoPoint
<1>2. /\ local' \in [Process -> [Local -> Pointer]]
      /\ Writes(local, local', Local, p, x, object)
      /\ \A q \in Process \ {p} : local'[q] = local[q]
  <2>1. local' = [local EXCEPT ![p][x] = object]
    BY DEF Retain
  <2>2. QED
    BY <1>0, <2>1, LocalPoint
<1>3. /\ table' = table /\ array' = array /\ pair' = pair /\ spawning' = spawning /\ life' = life
      /\ slots' = slots /\ allocated' = allocated /\ open' = open /\ dying' = dying /\ freeing' = freeing
      /\ refs' = IF object \in Endpoint THEN [refs EXCEPT ![object] = @ + 1] ELSE refs
  BY DEF calleeVars, Retain
<1>4. \A e \in Endpoint : Owners'[e] = IF e = object THEN Owners[e] + 1 ELSE Owners[e]
  <2>1. \A e \in Endpoint : local[p][x] # e
    BY NamesAssumption
  <2>2. QED
    BY <1>2, <1>3, <2>1, OwnersGain
<1>5. RefInv' /\ refs' \in [Endpoint -> Nat]
  BY <1>0, <1>3, <1>4, RefsRetained
<1>6. TypeOK'
  BY <1>0, <1>1, <1>2, <1>3, <1>5 DEF TypeOK
<1>7. OnlyFor(p)
  BY <1>1, <1>2, <1>3 DEF OnlyFor
<1>8. Calls'
  BY <1>0, <1>7, CallsStep
<1>9. Families'
  BY <1>0, <1>1, <1>3, FamiliesQuiet
<1>10. SlotsExact'
  BY <1>0, <1>1, <1>3, SlotsQuiet
<1>11. QED
  BY <1>5, <1>6, <1>8, <1>9, <1>10 DEF Inv

\* A table entry moves to the local variable "object".
LEMMA TakeKeeps ==
    ASSUME Inv, NEW p \in Process, NEW h \in Handle, NEW next \in Steps,
           life[p] = "running", TakeEntry(p, h), Goto(p, next), local[p]["object"] = None,
           pc[p] \in EndSteps <=> next \in EndSteps, pc[p] \in SpawnSteps <=> next \in SpawnSteps,
           CallOK(p)'
    PROVE  Inv'
<1>0. TypeOK /\ RefInv /\ Calls /\ Families /\ SlotsExact
  BY DEF Inv
<1>1. pc' \in [Process -> Steps] /\ pc'[p] = next /\ \A q \in Process \ {p} : pc'[q] = pc[q]
  BY <1>0, GoPoint
<1>2. /\ local' = [local EXCEPT ![p]["object"] = table[p][h]]
      /\ table' = [table EXCEPT ![p][h] = None]
      /\ "object" \in Local
      /\ table[p][h] \in Pointer /\ None \in Pointer
  BY <1>0, Pointers DEF TakeEntry, Local
<1>3. /\ local' \in [Process -> [Local -> Pointer]]
      /\ Writes(local, local', Local, p, "object", table[p][h])
      /\ \A q \in Process \ {p} : local'[q] = local[q]
  BY <1>0, <1>2, LocalPoint
<1>4. /\ table' \in [Process -> [Handle -> Pointer]]
      /\ Writes(table, table', Handle, p, h, None)
      /\ \A q \in Process \ {p} : table'[q] = table[q]
  BY <1>0, <1>2, TablePoint
<1>5. /\ array' = array /\ pair' = pair /\ spawning' = spawning /\ life' = life /\ slots' = slots
      /\ UNCHANGED objectVars /\ UNCHANGED calleeVars
  BY DEF TakeEntry
<1>6. ASSUME NEW e \in Endpoint PROVE Owners'[e] = Owners[e]
  <2>1. local[p]["object"] # e /\ "object" \in Local
    BY NamesAssumption DEF Local
  <2>2. QED
    BY <1>3, <1>4, <1>5, <2>1, OwnersTaken
<1>7. RefInv'
  BY <1>0, <1>5, <1>6, RefsQuiet
<1>8. TypeOK'
  BY <1>0, <1>1, <1>3, <1>4, <1>5 DEF TypeOK, objectVars, calleeVars
<1>9. OnlyFor(p)
  BY <1>1, <1>3, <1>5 DEF OnlyFor
<1>10. Calls'
  BY <1>0, <1>9, CallsStep
<1>11. Families'
  BY <1>0, <1>1, <1>4, <1>5, FamiliesQuiet
<1>12. SlotsExact'
  BY <1>0, <1>1, <1>5, SlotsQuiet
<1>13. QED
  BY <1>7, <1>8, <1>10, <1>11, <1>12 DEF Inv

\* The reference in the local variable "entry" is published in a table.
Publish(p, q, h) ==
    /\ table' = [table EXCEPT ![q][h] = local[p]["entry"]]
    /\ local' = [local EXCEPT ![p]["entry"] = None]

\* Publishing a retained reference in a free entry keeps Inv.
LEMMA PutKeeps ==
    ASSUME Inv, NEW p \in Process, NEW q \in Process, NEW h \in Handle, NEW next \in Steps,
           life[q] \in {"running", "new"}, table[q][h] = None,
           Publish(p, q, h),
           Goto(p, next),
           pc[p] \in EndSteps <=> next \in EndSteps, pc[p] \in SpawnSteps <=> next \in SpawnSteps,
           pair' \in [Process -> [{"first", "second"} -> Handle \cup {None}]],
           \A r \in Process \ {p} : pair'[r] = pair[r],
           UNCHANGED <<objectVars, life, slots, array, spawning, calleeVars>>,
           CallOK(p)'
    PROVE  Inv'
<1>0. TypeOK /\ RefInv /\ Calls /\ Families /\ SlotsExact
  BY DEF Inv
<1>1. pc' \in [Process -> Steps] /\ pc'[p] = next /\ \A r \in Process \ {p} : pc'[r] = pc[r]
  BY <1>0, GoPoint
<1>2. "entry" \in Local /\ local[p]["entry"] \in Pointer /\ None \in Pointer
  BY <1>0, Pointers DEF Local
<1>2a. /\ table' = [table EXCEPT ![q][h] = local[p]["entry"]]
       /\ local' = [local EXCEPT ![p]["entry"] = None]
  BY DEF Publish
<1>3. /\ local' \in [Process -> [Local -> Pointer]]
      /\ Writes(local, local', Local, p, "entry", None)
      /\ \A r \in Process \ {p} : local'[r] = local[r]
  BY <1>0, <1>2, <1>2a, LocalPoint
<1>4. /\ table' \in [Process -> [Handle -> Pointer]]
      /\ Writes(table, table', Handle, q, h, local[p]["entry"])
      /\ \A r \in Process \ {q} : table'[r] = table[r]
  BY <1>0, <1>2, <1>2a, TablePoint
<1>5. /\ array' = array /\ spawning' = spawning /\ life' = life /\ slots' = slots
      /\ UNCHANGED objectVars /\ UNCHANGED calleeVars
  OBVIOUS
<1>6. ASSUME NEW e \in Endpoint PROVE Owners'[e] = Owners[e]
  <2>1. table[q][h] # e /\ "entry" \in Local
    BY NamesAssumption DEF Local
  <2>2. QED
    BY <1>3, <1>4, <1>5, <2>1, OwnersPublished
<1>7. RefInv'
  BY <1>0, <1>5, <1>6, RefsQuiet
<1>8. TypeOK'
  BY <1>0, <1>1, <1>3, <1>4, <1>5 DEF TypeOK, objectVars, calleeVars
<1>9. OnlyFor(p)
  BY <1>1, <1>3, <1>5 DEF OnlyFor
<1>10. Calls'
  BY <1>0, <1>9, CallsStep
<1>11. Families'
  BY <1>0, <1>1, <1>4, <1>5, FamiliesQuiet
<1>12. SlotsExact'
  BY <1>0, <1>1, <1>5, SlotsQuiet
<1>13. QED
  BY <1>7, <1>8, <1>10, <1>11, <1>12 DEF Inv

\* kernel_channel_create_pair and the two references its caller is given.
LEMMA CreatePairKeeps ==
    ASSUME Inv, NEW p \in Process, CreatePair(p)
    PROVE  Inv'
<1>0. TypeOK /\ RefInv /\ Calls /\ Families /\ SlotsExact
  BY DEF Inv
<1>1. pc[p] = "user" /\ Goto(p, "retain_first") /\ "retain_first" \in Steps
  BY DEF CreatePair, At, Steps, CreateSteps
<1>2. pc' \in [Process -> Steps] /\ pc'[p] = "retain_first" /\ \A q \in Process \ {p} : pc'[q] = pc[q]
  BY <1>0, <1>1, GoPoint
<1>3. PICK c \in Channel :
        /\ ~ allocated[c]
        /\ allocated' = [allocated EXCEPT ![c] = TRUE]
        /\ open' = [e \in Endpoint |-> e[1] = c \/ open[e]]
        /\ refs' = [e \in Endpoint |-> IF e[1] = c THEN 1 ELSE refs[e]]
        /\ local' = [local EXCEPT ![p]["first"] = <<c, 0>>, ![p]["second"] = <<c, 1>>]
  BY DEF CreatePair
<1>4. /\ life' = life /\ table' = table /\ slots' = slots /\ array' = array /\ spawning' = spawning
      /\ dying' = dying /\ freeing' = freeing
      /\ pair' = [pair EXCEPT ![p] = [x \in {"first", "second"} |-> None]]
  BY DEF CreatePair, calleeVars
<1>5. \A x \in Local : local[p][x] = None
  BY <1>0, <1>1 DEF Calls, CallOK, FirstSteps, EntrySteps, ObjectSteps, Local
<1>6. array[p] = NoHandles /\ spawning[p] = None
  BY <1>0, <1>1 DEF Calls, CallOK, ChildSteps, SpawnSteps
<1> DEFINE mid == [local EXCEPT ![p]["first"] = <<c, 0>>]
<1>7. <<c, 0>> \in Endpoint /\ <<c, 1>> \in Endpoint /\ "first" \in Local /\ "second" \in Local
  BY DEF Endpoint, Side, Local
<1>8. local \in [Process -> [Local -> Pointer]] /\ mid \in [Process -> [Local -> Pointer]]
  BY <1>0, <1>7 DEF TypeOK, Pointer
<1>9. local' = [mid EXCEPT ![p]["second"] = <<c, 1>>]
  BY <1>3, <1>8
<1>10. Writes(local, mid, Local, p, "first", <<c, 0>>) /\ mid[p]["second"] = None
  BY <1>5, <1>7, <1>8 DEF Writes
<1> HIDE DEF mid
<1>11. Writes(mid, local', Local, p, "second", <<c, 1>>) /\ local' \in [Process -> [Local -> Pointer]]
  BY <1>7, <1>8, <1>9 DEF Writes, Pointer
<1>12. \A q \in Process \ {p} : local'[q] = local[q]
  BY <1>3, <1>8
<1>13. /\ local'[p]["entry"] = None /\ local'[p]["object"] = None
  BY <1>5, <1>10, <1>11 DEF Writes, Local
<1>14. ASSUME NEW e \in Endpoint
       PROVE  Owners'[e] = IF e[1] = c THEN Owners[e] + 1 ELSE Owners[e]
  <2>1. /\ e = <<c, 0>> => Count(mid, Local, e) = Count(local, Local, e) + 1
        /\ e # <<c, 0>> => Count(mid, Local, e) = Count(local, Local, e)
    <3>1. local[p]["first"] # e
      BY <1>5, <1>7, NamesAssumption
    <3>2. QED
      BY <3>1, <1>7, <1>10, CountPut, FiniteIndex
  <2>2. /\ e = <<c, 1>> => Count(local', Local, e) = Count(mid, Local, e) + 1
        /\ e # <<c, 1>> => Count(local', Local, e) = Count(mid, Local, e)
    <3>1. mid[p]["second"] # e
      BY <1>10, NamesAssumption
    <3>2. QED
      BY <3>1, <1>7, <1>11, CountPut, FiniteIndex
  <2>3. /\ e[1] = c <=> e = <<c, 0>> \/ e = <<c, 1>>
        /\ <<c, 0>> # <<c, 1>>
    BY DEF Endpoint, Side
  <2>4. /\ Owners[e] = Count(table, Handle, e) + Count(local, Local, e) + Count(array, Handle, e)
        /\ Owners'[e] = Count(table, Handle, e) + Count(local', Local, e) + Count(array, Handle, e)
    BY <1>4, OwnersAt
  <2>5. /\ Count(table, Handle, e) \in Nat /\ Count(local, Local, e) \in Nat /\ Count(array, Handle, e) \in Nat
    BY CountsNat
  <2>6. QED
    BY <2>1, <2>2, <2>3, <2>4, <2>5
<1>15. RefInv'
  <2>1. \A e \in Endpoint : Owners'[e] = IF e[1] = c THEN Owners[e] + 1 ELSE Owners[e]
    BY <1>14
  <2>2. QED
    BY <1>0, <1>3, <1>4, <2>1, RefsCreated
<1>16. TypeOK'
  <2>1. allocated' \in [Channel -> BOOLEAN]
    BY <1>0, <1>3 DEF TypeOK
  <2>2. open' \in [Endpoint -> BOOLEAN]
    BY <1>0, <1>3 DEF TypeOK
  <2>3. refs' \in [Endpoint -> Nat]
    BY <1>0, <1>3 DEF TypeOK
  <2>4. pair' \in [Process -> [{"first", "second"} -> Handle \cup {None}]]
    BY <1>0, <1>4 DEF TypeOK
  <2>5. QED
    BY <1>0, <1>2, <1>4, <1>11, <2>1, <2>2, <2>3, <2>4 DEF TypeOK
<1>17. OnlyFor(p)
  BY <1>0, <1>2, <1>4, <1>12 DEF OnlyFor, TypeOK
<1>18. pair'[p]["first"] = None /\ pair'[p]["second"] = None
  BY <1>0, <1>4 DEF TypeOK
<1>19. CallOK(p)'
  BY <1>2, <1>4, <1>6, <1>13, <1>18
     DEF CallOK, FirstSteps, PairSteps, BothSteps, ChildSteps, SpawnSteps
<1>20. Calls'
  BY <1>0, <1>17, <1>19, CallsStep
<1>21. pc[p] \notin SpawnSteps /\ pc'[p] \notin SpawnSteps /\ pc[p] \notin EndSteps /\ pc'[p] \notin EndSteps
  BY <1>1, <1>2 DEF SpawnSteps, EndSteps
<1>22. Families'
  BY <1>0, <1>2, <1>4, <1>21, FamiliesQuiet
<1>23. SlotsExact'
  BY <1>0, <1>2, <1>4, <1>21, SlotsQuiet
<1>24. QED
  BY <1>15, <1>16, <1>20, <1>22, <1>23 DEF Inv

\* The steps of a destroy that a release has to run.
LEMMA ContinueKeeps ==
    ASSUME Inv, NEW p \in Process, Continue(p)
    PROVE  Inv'
<1>0. TypeOK /\ RefInv /\ Calls /\ Families /\ SlotsExact
  BY DEF Inv
<1>1. /\ life' = life /\ table' = table /\ slots' = slots /\ pc' = pc /\ local' = local
      /\ array' = array /\ pair' = pair /\ spawning' = spawning
  BY DEF Continue, ChannelDestroy, FreeChannel, callVars
<1>2. \A e \in Endpoint : Owners'[e] = Owners[e]
  BY <1>1, OwnersQuiet
<1>3. RefInv'
  BY <1>0, <1>2, RefsDestroyed, RefsFreed DEF Continue
<1>4. allocated' \in [Channel -> BOOLEAN] /\ open' \in [Endpoint -> BOOLEAN] /\ refs' \in [Endpoint -> Nat]
  BY <1>0 DEF TypeOK, Continue, ChannelDestroy, FreeChannel
<1>5. dying' \in [Process -> Endpoint \cup {None}]
  BY <1>0 DEF TypeOK, Continue, ChannelDestroy, FreeChannel
<1>6. freeing' \in [Process -> Channel \cup {None}]
  <2>1. CASE ChannelDestroy(p)
    <3>1. dying[p][1] \in Channel
      BY <1>0, <2>1, Ends DEF ChannelDestroy
    <3>2. \/ freeing' = [freeing EXCEPT ![p] = dying[p][1]]
          \/ freeing' = [freeing EXCEPT ![p] = None]
      BY <2>1 DEF ChannelDestroy
    <3>3. QED
      BY <1>0, <3>1, <3>2 DEF TypeOK
  <2>2. CASE FreeChannel(p)
    BY <1>0, <2>2 DEF TypeOK, FreeChannel
  <2>3. QED
    BY <2>1, <2>2 DEF Continue
<1>7. TypeOK'
  BY <1>0, <1>1, <1>4, <1>5, <1>6 DEF TypeOK
<1>8. Calls' /\ Families'
  BY <1>0, <1>1 DEF Calls, CallOK, Families
<1>9. SlotsExact'
  BY <1>0, <1>1, SlotsQuiet
<1>10. QED
  BY <1>3, <1>7, <1>8, <1>9 DEF Inv

\* One release of a process destruction.
LEMMA DropArrayKeeps ==
    ASSUME Inv, NEW p \in Process, DropArray(p)
    PROVE  Inv'
<1>0. TypeOK /\ RefInv /\ Calls /\ Families /\ SlotsExact
  BY DEF Inv
<1>1. /\ pc[p] = "drop_array" /\ dying[p] = None /\ freeing[p] = None
      /\ allocated' = allocated /\ open' = open /\ life' = life /\ table' = table /\ slots' = slots
      /\ local' = local /\ pair' = pair /\ spawning' = spawning /\ freeing' = freeing
  BY DEF DropArray, At
<1>2. CASE array[p] = NoHandles
  <2>1. Goto(p, "free_process") /\ refs' = refs /\ dying' = dying /\ array' = array
    BY <1>2 DEF DropArray
  <2>2. pc'[p] = "free_process" /\ "free_process" \in Steps
    BY <1>0, <2>1, GoPoint DEF Steps, SpawnSteps
  <2>3. CallOK(p)'
    BY <1>0, <1>1, <1>2, <2>1, <2>2
       DEF Calls, CallOK, FirstSteps, EntrySteps, ObjectSteps, PairSteps, BothSteps, ChildSteps, SpawnSteps
  <2>4. /\ pc[p] \in EndSteps <=> "free_process" \in EndSteps
        /\ pc[p] \in SpawnSteps <=> "free_process" \in SpawnSteps
    BY <1>1 DEF EndSteps, SpawnSteps
  <2>5. UNCHANGED <<objectVars, life, table, slots, callVars, calleeVars>>
    BY <1>1, <2>1 DEF objectVars, callVars, calleeVars
  <2>6. QED
    BY <2>1, <2>2, <2>3, <2>4, <2>5, GoKeeps
<1>3. CASE array[p] # NoHandles
  <2>1. PICK h \in Handle :
          /\ Release(p, array[p][h])
          /\ array' = [array EXCEPT ![p][h] = None]
          /\ pc' = pc
    BY <1>3 DEF DropArray
  <2>2. /\ array' \in [Process -> [Handle -> Pointer]]
        /\ Writes(array, array', Handle, p, h, None)
        /\ \A q \in Process \ {p} : array'[q] = array[q]
    <3>1. array \in [Process -> [Handle -> Pointer]] /\ None \in Pointer
      BY <1>0 DEF TypeOK, Pointer
    <3>2. QED
      BY <3>1, <2>1 DEF Writes
  <2>3. ASSUME NEW e \in Endpoint PROVE Owners'[e] = IF e = array[p][h] THEN Owners[e] - 1 ELSE Owners[e]
    BY <1>1, <2>2, OwnersDropped
  <2>4. array[p][h] \in Endpoint => Owners[array[p][h]] # 0
    BY Holders
  <2>5. RefInv' /\ refs' \in [Endpoint -> Nat] /\ dying' \in [Process -> Endpoint \cup {None}]
    <3>1. \A e \in Endpoint : Owners'[e] = IF e = array[p][h] THEN Owners[e] - 1 ELSE Owners[e]
      BY <2>3
    <3>2. Release(p, array[p][h])
      BY <2>1
    <3>3. QED
      BY <1>0, <1>1, <3>1, <3>2, <2>4, RefsReleased
  <2>6. TypeOK'
    BY <1>0, <1>1, <2>1, <2>2, <2>5 DEF TypeOK
  <2>7. Calls'
    BY <1>0, <1>1, <2>1, <2>2 DEF Calls, CallOK
  <2>8. Families'
    BY <1>0, <1>1, <2>1 DEF Families
  <2>9. SlotsExact'
    BY <1>0, <1>1, <2>1, SlotsQuiet
  <2>10. QED
    BY <2>5, <2>6, <2>7, <2>8, <2>9 DEF Inv
<1>4. QED
  BY <1>2, <1>3

\* syscall_handle_exit keeps Inv: nothing is given back and nothing lost.
LEMMA ExitKeeps ==
    ASSUME Inv, NEW p \in Process, Exit(p)
    PROVE  Inv'
<1>0. TypeOK /\ RefInv /\ Calls /\ Families /\ SlotsExact
  BY DEF Inv
<1>1. /\ life[p] = "running" /\ life' = [life EXCEPT ![p] = "exited"]
      /\ table' = table /\ slots' = slots /\ pc' = pc /\ local' = local /\ array' = array
      /\ pair' = pair /\ spawning' = spawning /\ UNCHANGED objectVars /\ UNCHANGED calleeVars
  BY DEF Exit, At, callVars
<1>2. life'[p] = "exited" /\ \A q \in Process \ {p} : life'[q] = life[q]
  BY <1>0, <1>1 DEF TypeOK
<1>3. \A e \in Endpoint : Owners'[e] = Owners[e]
  BY <1>1, OwnersQuiet
<1>4. RefInv'
  BY <1>0, <1>1, <1>3, RefsQuiet
<1>5. TypeOK'
  BY <1>0, <1>1 DEF TypeOK, objectVars, calleeVars
<1>6. Calls'
  BY <1>0, <1>1 DEF Calls, CallOK
<1>7. Families'
  <2>1. \A q \in Process : spawning[q] # None => spawning[q] # p /\ spawning[q] \in Process
    BY <1>0, <1>1 DEF Families, TypeOK
  <2>2. QED
    BY <1>0, <1>1, <1>2, <2>1 DEF Families
<1>8. SlotsExact'
  BY <1>0, <1>1, <1>2, SlotsQuiet
<1>9. QED
  BY <1>4, <1>5, <1>6, <1>7, <1>8 DEF Inv

\* The slot of a spawn, from its first step to its end.
LEMMA SlotKeeps ==
    ASSUME Inv, NEW p \in Process, TakeSlot(p) \/ FreeSlot(p)
    PROVE  Inv'
<1>0. TypeOK /\ RefInv /\ Calls /\ Families /\ SlotsExact
  BY DEF Inv
<1>1. /\ table' = table /\ local' = local /\ array' = array /\ pair' = pair /\ spawning' = spawning
      /\ life' = life /\ UNCHANGED objectVars /\ UNCHANGED calleeVars
  BY DEF TakeSlot, FreeSlot, callVars
<1>2. \/ pc[p] = "user" /\ Goto(p, "create") /\ slots < SlotCount /\ slots' = slots + 1
      \/ pc[p] = "free_slot" /\ Goto(p, "user") /\ slots' = slots - 1
  BY DEF TakeSlot, FreeSlot, At
<1>3. pc' \in [Process -> Steps] /\ \A q \in Process \ {p} : pc'[q] = pc[q]
  BY <1>0, <1>2, GoPoint DEF Steps, SpawnSteps
<1>4. \/ pc[p] = "user" /\ pc'[p] = "create"
      \/ pc[p] = "free_slot" /\ pc'[p] = "user"
  BY <1>0, <1>2, GoPoint DEF Steps, SpawnSteps
<1>5. slots = Cardinality(Applications) + Cardinality(Spawning)
  BY <1>0, SlotsAre
<1>6. slots' = Cardinality(Applications') + Cardinality(Spawning') /\ slots' \in 0..SlotCount
  <2>0. Applications' = Applications
    BY <1>1 DEF Applications
  <2>1. CASE pc[p] = "user" /\ pc'[p] = "create"
    <3>1. slots' = slots + 1 /\ slots < SlotCount
      BY <1>2, <2>1
    <3>2. Spawning' = Spawning \cup {p} /\ p \notin Spawning
      BY <1>3, <2>1 DEF Spawning, SpawnSteps
    <3>3. Cardinality(Spawning') = Cardinality(Spawning) + 1
      BY <3>2, SlotSets, FS_AddElement
    <3>4. slots \in 0..SlotCount
      BY <1>0 DEF TypeOK
    <3>5. QED
      BY <2>0, <3>1, <3>3, <3>4, <1>5, SlotSets, BoundsAssumption
  <2>2. CASE pc[p] = "free_slot" /\ pc'[p] = "user"
    <3>1. slots' = slots - 1
      BY <1>2, <2>2
    <3>2. Spawning' = Spawning \ {p} /\ p \in Spawning
      BY <1>3, <2>2 DEF Spawning, SpawnSteps
    <3>3. Cardinality(Spawning') = Cardinality(Spawning) - 1 /\ Cardinality(Spawning') \in Nat
      <4>1. IsFiniteSet(Spawning') /\ Cardinality(Spawning') = Cardinality(Spawning) - 1
        BY <3>2, SlotSets, FS_RemoveElement
      <4>2. QED
        BY <4>1, FS_CardinalityType
    <3>4. slots \in 0..SlotCount
      BY <1>0 DEF TypeOK
    <3>5. QED
      BY <2>0, <3>1, <3>3, <3>4, <1>5, SlotSets, BoundsAssumption
  <2>3. QED
    BY <1>4, <2>1, <2>2
<1>7. SlotsExact'
  BY <1>6, SlotsAre DEF SlotsExact, Applications, Spawning
<1>8. \A e \in Endpoint : Owners'[e] = Owners[e]
  BY <1>1, OwnersQuiet
<1>9. RefInv'
  BY <1>0, <1>1, <1>8, RefsQuiet
<1>10. TypeOK'
  BY <1>0, <1>1, <1>3, <1>6 DEF TypeOK, objectVars, calleeVars
<1>11. CallOK(p)'
  BY <1>0, <1>1, <1>4
     DEF Calls, CallOK, FirstSteps, EntrySteps, ObjectSteps, PairSteps, BothSteps, ChildSteps, SpawnSteps
<1>12. OnlyFor(p)
  BY <1>1, <1>3 DEF OnlyFor
<1>13. Calls'
  BY <1>0, <1>11, <1>12, CallsStep
<1>14. pc[p] \notin EndSteps /\ pc'[p] \notin EndSteps
  BY <1>4 DEF EndSteps
<1>15. Families'
  BY <1>0, <1>1, <1>3, <1>14, FamiliesQuiet
<1>16. QED
  BY <1>7, <1>9, <1>10, <1>13, <1>15 DEF Inv

\* kernel_process_create and the standard handles.
LEMMA CreateChildKeeps ==
    ASSUME Inv, NEW p \in Process, CreateChild(p)
    PROVE  Inv'
<1>0. TypeOK /\ RefInv /\ Calls /\ Families /\ SlotsExact
  BY DEF Inv
<1>1. /\ life[p] = "running" /\ pc[p] = "create"
      /\ UNCHANGED objectVars /\ UNCHANGED calleeVars
      /\ slots' = slots /\ local' = local /\ array' = array /\ pair' = pair
  BY DEF CreateChild, At
<1>2. CASE Goto(p, "free_slot") /\ UNCHANGED <<life, table, spawning>>
  <2>1. pc'[p] = "free_slot" /\ "free_slot" \in Steps
    BY <1>0, <1>2, GoPoint DEF Steps, SpawnSteps
  <2>2. spawning' = spawning
    BY <1>2
  <2>3. CallOK(p)'
    BY <1>0, <1>1, <2>1, <2>2
       DEF Calls, CallOK, FirstSteps, EntrySteps, ObjectSteps, PairSteps, BothSteps, ChildSteps, SpawnSteps
  <2>4. /\ pc[p] \in EndSteps <=> "free_slot" \in EndSteps
        /\ pc[p] \in SpawnSteps <=> "free_slot" \in SpawnSteps
    BY <1>1 DEF EndSteps, SpawnSteps
  <2>5. UNCHANGED <<objectVars, life, table, slots, callVars, calleeVars>>
    BY <1>1, <1>2 DEF callVars
  <2>6. QED
    BY <1>2, <2>1, <2>3, <2>4, <2>5, GoKeeps
<1>3. ASSUME NEW c \in Process, NEW connected \in BOOLEAN, NEW next \in {"inherit", "load", "destroy"},
             life[c] = "free",
             life' = [life EXCEPT ![c] = "new"],
             table' = [table EXCEPT ![c] = Connected] \/ table' = [table EXCEPT ![c] = NoHandles],
             spawning' = [spawning EXCEPT ![p] = c],
             Goto(p, next)
      PROVE  Inv'
  <2>1. next \in Steps /\ next \in ChildSteps \ EndSteps
    BY <1>3 DEF Steps, ChildSteps, SpawnSteps, EndSteps
  <2>2. pc' \in [Process -> Steps] /\ pc'[p] = next /\ \A q \in Process \ {p} : pc'[q] = pc[q]
    BY <1>0, <1>3, <2>1, GoPoint
  <2>3. /\ life'[c] = "new" /\ \A q \in Process \ {c} : life'[q] = life[q]
        /\ \A q \in Process \ {c} : table'[q] = table[q]
        /\ spawning'[p] = c /\ \A q \in Process \ {p} : spawning'[q] = spawning[q]
        /\ table[c] = NoHandles
    BY <1>0, <1>3 DEF TypeOK, Families
  <2>4. c # p /\ c # desktop /\ c # None /\ spawning[p] = None
    BY <1>0, <1>1, <1>3, NamesAssumption DEF Families, Calls, CallOK, ChildSteps
  <2>5. \A q \in Process : spawning[q] # c
    BY <1>0, <1>3, <2>4 DEF Families
  <2>6. ASSUME NEW e \in Endpoint PROVE Owners'[e] = Owners[e]
    <3>1. \A q \in Process : \A y \in Handle : table[q][y] = e <=> table'[q][y] = e
      <4> SUFFICES ASSUME NEW q \in Process, NEW y \in Handle PROVE table[q][y] = e <=> table'[q][y] = e
        OBVIOUS
      <4>1. None # e /\ console # e
        BY NamesAssumption
      <4>2. CASE q = c
        <5>1. table[c][y] = None
          BY <2>3 DEF NoHandles
        <5>2. table'[c] = Connected \/ table'[c] = NoHandles
          BY <1>0, <1>3 DEF TypeOK
        <5>3. table'[c][y] = None \/ table'[c][y] = console
          BY <5>2 DEF Connected, NoHandles
        <5>4. QED
          BY <4>1, <4>2, <5>1, <5>3
      <4>3. CASE q # c
        BY <4>3, <2>3
      <4>4. QED
        BY <4>2, <4>3
    <3>2. QED
      BY <1>1, <3>1, OwnersConnected
  <2>7. RefInv'
    BY <1>0, <1>1, <2>6, RefsQuiet
  <2>8. table' \in [Process -> [Handle -> Pointer]]
    <3>1. Connected \in [Handle -> Pointer] /\ NoHandles \in [Handle -> Pointer]
      BY DEF Connected, NoHandles, Pointer
    <3>2. table \in [Process -> [Handle -> Pointer]]
      BY <1>0 DEF TypeOK
    <3>3. QED
      BY <1>3, <3>1, <3>2
  <2>9. TypeOK'
    <3>1. life' \in [Process -> {"free", "new", "running", "exited", "terminated"}]
      BY <1>0, <1>3 DEF TypeOK
    <3>2. spawning' \in [Process -> Process \cup {None}]
      BY <1>0, <1>3 DEF TypeOK
    <3>3. QED
      BY <1>0, <1>1, <2>2, <2>8, <3>1, <3>2 DEF TypeOK, objectVars, calleeVars
  <2>10. CallOK(p)'
    BY <1>0, <1>1, <1>3, <2>1, <2>2, <2>3, <2>4
       DEF Calls, CallOK, FirstSteps, EntrySteps, ObjectSteps, PairSteps, BothSteps, ChildSteps
  <2>11. OnlyFor(p)
    BY <1>1, <2>2, <2>3 DEF OnlyFor
  <2>12. Calls'
    BY <1>0, <2>10, <2>11, CallsStep
  <2>13. Families'
    <3>1. ASSUME NEW q \in Process, spawning'[q] # None
          PROVE  /\ pc'[q] \in EndSteps => life'[spawning'[q]] = "terminated"
                 /\ pc'[q] \notin EndSteps => life'[spawning'[q]] = "new"
      <4>1. CASE q = p
        BY <4>1, <2>1, <2>2, <2>3
      <4>2. CASE q # p
        <5>1. /\ spawning'[q] = spawning[q] /\ pc'[q] = pc[q] /\ spawning[q] \in Process \ {c}
          BY <4>2, <2>2, <2>3, <2>5, <3>1, <1>0 DEF TypeOK
        <5>2. life'[spawning[q]] = life[spawning[q]]
          BY <5>1, <2>3
        <5>3. QED
          BY <1>0, <3>1, <5>1, <5>2 DEF Families
      <4>3. QED
        BY <4>1, <4>2
    <3>2. \A q, r \in Process : spawning'[q] # None /\ q # r => spawning'[q] # spawning'[r]
      BY <1>0, <2>3, <2>5 DEF Families
    <3>3. ASSUME NEW q \in Process, life'[q] \in {"new", "terminated"}
          PROVE  \E r \in Process : spawning'[r] = q
      <4>1. CASE q = c
        BY <4>1, <2>3
      <4>2. CASE q # c
        <5>1. life[q] \in {"new", "terminated"}
          BY <4>2, <2>3, <3>3
        <5>2. PICK r \in Process : spawning[r] = q
          BY <1>0, <5>1 DEF Families
        <5>3. r # p
          BY <5>2, <2>4, NamesAssumption
        <5>4. QED
          BY <5>2, <5>3, <2>3
      <4>3. QED
        BY <4>1, <4>2
    <3>4. ASSUME NEW q \in Process, life'[q] \in {"free", "terminated"} PROVE table'[q] = NoHandles
      BY <1>0, <2>3, <3>4 DEF Families
    <3>5. life'[desktop] \in {"running", "exited"}
      BY <1>0, <2>3, <2>4, BoundsAssumption DEF Families
    <3>6. QED
      BY <3>1, <3>2, <3>3, <3>4, <3>5 DEF Families
  <2>14. SlotsExact'
    <3>1. \A q \in Process : life[q] \in {"running", "exited"} <=> life'[q] \in {"running", "exited"}
      BY <1>3, <2>3
    <3>2. \A q \in Process : pc[q] \in SpawnSteps <=> pc'[q] \in SpawnSteps
      BY <1>1, <2>1, <2>2 DEF ChildSteps, SpawnSteps
    <3>3. QED
      BY <1>0, <1>1, <3>1, <3>2, SlotsQuiet
  <2>15. QED
    BY <2>7, <2>9, <2>12, <2>13, <2>14 DEF Inv
<1>4. QED
  <2>1. CASE ~ (Goto(p, "free_slot") /\ UNCHANGED <<life, table, spawning>>)
    <3>1. PICK c \in Process, connected \in BOOLEAN :
            /\ life[c] = "free"
            /\ life' = [life EXCEPT ![c] = "new"]
            /\ table' = [table EXCEPT ![c] = IF connected THEN Connected ELSE NoHandles]
            /\ spawning' = [spawning EXCEPT ![p] = c]
            /\ \E next \in {"inherit", "load"} : Goto(p, IF connected THEN next ELSE "destroy")
      BY <2>1 DEF CreateChild
    <3>2. table' = [table EXCEPT ![c] = Connected] \/ table' = [table EXCEPT ![c] = NoHandles]
      BY <3>1
    <3>3. \E next \in {"inherit", "load", "destroy"} : Goto(p, next)
      BY <3>1
    <3>4. QED
      BY <1>3, <3>1, <3>2, <3>3
  <2>2. QED
    BY <1>2, <2>1

\* What is known of the child a spawn has in hand.
LEMMA Child ==
    ASSUME TypeOK, Calls, Families, NEW p \in Process, pc[p] \in ChildSteps
    PROVE  /\ spawning[p] \in Process /\ spawning[p] # None
           /\ \A q \in Process \ {p} : spawning[q] # spawning[p]
           /\ pc[p] \in EndSteps => life[spawning[p]] = "terminated" /\ table[spawning[p]] = NoHandles
           /\ pc[p] \notin EndSteps => life[spawning[p]] = "new"
           /\ spawning[p] # desktop
<1>1. spawning[p] # None /\ spawning[p] \in Process
  BY DEF Calls, CallOK, TypeOK
<1>2. /\ pc[p] \in EndSteps => life[spawning[p]] = "terminated"
      /\ pc[p] \notin EndSteps => life[spawning[p]] = "new"
  BY <1>1 DEF Families
<1>3. \A q \in Process \ {p} : spawning[q] # spawning[p]
  BY <1>1 DEF Families
<1>4. pc[p] \in EndSteps => table[spawning[p]] = NoHandles
  BY <1>1, <1>2 DEF Families
<1>5. spawning[p] # desktop
  BY <1>2 DEF Families
<1>6. QED
  BY <1>1, <1>2, <1>3, <1>4, <1>5

\* Loading the program, with either outcome, keeps Inv.
LEMMA LoadKeeps ==
    ASSUME Inv, NEW p \in Process, Load(p)
    PROVE  Inv'
<1>0. TypeOK /\ RefInv /\ Calls /\ Families /\ SlotsExact
  BY DEF Inv
<1>1. /\ life[p] = "running" /\ pc[p] = "load"
      /\ UNCHANGED objectVars /\ UNCHANGED calleeVars
      /\ table' = table /\ slots' = slots /\ local' = local /\ array' = array /\ pair' = pair
  BY DEF Load, At
<1>2. pc[p] \in ChildSteps /\ pc[p] \notin EndSteps
  BY <1>1 DEF ChildSteps, SpawnSteps, EndSteps
<1> DEFINE c == spawning[p]
<1>3. /\ c \in Process /\ c # None /\ life[c] = "new" /\ c # desktop /\ c # p
      /\ \A q \in Process \ {p} : spawning[q] # c
  BY <1>0, <1>1, <1>2, Child
<1>4. CASE Goto(p, "destroy") /\ UNCHANGED <<life, spawning>>
  <2>1. pc'[p] = "destroy" /\ "destroy" \in Steps
    BY <1>0, <1>4, GoPoint DEF Steps, SpawnSteps
  <2>2. spawning' = spawning
    BY <1>4
  <2>3. CallOK(p)'
    BY <1>0, <1>1, <2>1, <2>2
       DEF Calls, CallOK, FirstSteps, EntrySteps, ObjectSteps, PairSteps, BothSteps, ChildSteps, SpawnSteps
  <2>4. /\ pc[p] \in EndSteps <=> "destroy" \in EndSteps
        /\ pc[p] \in SpawnSteps <=> "destroy" \in SpawnSteps
    BY <1>1 DEF EndSteps, SpawnSteps
  <2>5. UNCHANGED <<objectVars, life, table, slots, callVars, calleeVars>>
    BY <1>1, <1>4 DEF callVars
  <2>6. QED
    BY <1>4, <2>1, <2>3, <2>4, <2>5, GoKeeps
<1>5. CASE /\ life' = [life EXCEPT ![c] = "running"]
           /\ spawning' = [spawning EXCEPT ![p] = None]
           /\ Goto(p, "user")
  <2>1. pc' \in [Process -> Steps] /\ pc'[p] = "user" /\ \A q \in Process \ {p} : pc'[q] = pc[q]
    BY <1>0, <1>5, GoPoint DEF Steps
  <2>2. /\ life'[c] = "running" /\ \A q \in Process \ {c} : life'[q] = life[q]
        /\ spawning'[p] = None /\ \A q \in Process \ {p} : spawning'[q] = spawning[q]
    BY <1>0, <1>3, <1>5 DEF TypeOK
  <2>3. TypeOK'
    <3>1. life' \in [Process -> {"free", "new", "running", "exited", "terminated"}]
      BY <1>0, <1>5 DEF TypeOK
    <3>2. spawning' \in [Process -> Process \cup {None}]
      BY <1>0, <1>5 DEF TypeOK
    <3>3. QED
      BY <1>0, <1>1, <2>1, <3>1, <3>2 DEF TypeOK, objectVars, calleeVars
  <2>4. \A e \in Endpoint : Owners'[e] = Owners[e]
    BY <1>1, OwnersQuiet
  <2>5. RefInv'
    BY <1>0, <1>1, <2>4, RefsQuiet
  <2>6. CallOK(p)'
    BY <1>0, <1>1, <2>1, <2>2
       DEF Calls, CallOK, FirstSteps, EntrySteps, ObjectSteps, PairSteps, BothSteps, ChildSteps, SpawnSteps
  <2>7. OnlyFor(p)
    BY <1>1, <2>1, <2>2 DEF OnlyFor
  <2>8. Calls'
    BY <1>0, <2>6, <2>7, CallsStep
  <2> HIDE DEF c
  <2>9. Families'
    <3>1. ASSUME NEW q \in Process, spawning'[q] # None
          PROVE  /\ pc'[q] \in EndSteps => life'[spawning'[q]] = "terminated"
                 /\ pc'[q] \notin EndSteps => life'[spawning'[q]] = "new"
      <4>1. /\ q # p /\ spawning'[q] = spawning[q] /\ pc'[q] = pc[q] /\ spawning[q] \in Process \ {c}
        BY <1>0, <1>3, <2>1, <2>2, <3>1 DEF TypeOK
      <4>2. life'[spawning[q]] = life[spawning[q]]
        BY <4>1, <2>2
      <4>3. QED
        BY <1>0, <3>1, <4>1, <4>2 DEF Families
    <3>2. \A q, r \in Process : spawning'[q] # None /\ q # r => spawning'[q] # spawning'[r]
      BY <1>0, <2>2 DEF Families
    <3>3. ASSUME NEW q \in Process, life'[q] \in {"new", "terminated"}
          PROVE  \E r \in Process : spawning'[r] = q
      <4>1. q # c /\ life[q] \in {"new", "terminated"}
        BY <2>2, <3>3
      <4>2. PICK r \in Process : spawning[r] = q
        BY <1>0, <4>1 DEF Families
      <4>3. r # p
        BY <4>1, <4>2 DEF c
      <4>4. QED
        BY <4>2, <4>3, <2>2
    <3>4. ASSUME NEW q \in Process, life'[q] \in {"free", "terminated"} PROVE table'[q] = NoHandles
      BY <1>0, <1>1, <2>2, <3>4 DEF Families
    <3>5. life'[desktop] \in {"running", "exited"}
      BY <1>0, <1>3, <2>2, BoundsAssumption DEF Families
    <3>6. QED
      BY <3>1, <3>2, <3>3, <3>4, <3>5 DEF Families
  <2>10. SlotsExact'
    <3>1. Applications' = Applications \cup {c} /\ c \notin Applications
      BY <1>3, <2>2 DEF Applications
    <3>2. Spawning' = Spawning \ {p} /\ p \in Spawning
      BY <1>1, <2>1 DEF Spawning, SpawnSteps
    <3>3. Cardinality(Applications') = Cardinality(Applications) + 1
      BY <3>1, SlotSets, FS_AddElement
    <3>4. Cardinality(Spawning') = Cardinality(Spawning) - 1
      BY <3>2, SlotSets, FS_RemoveElement
    <3>5. slots' = Cardinality(Applications') + Cardinality(Spawning')
      BY <1>0, <1>1, <3>3, <3>4, SlotsAre, SlotSets
    <3>6. QED
      BY <3>5 DEF SlotsExact, Applications, Spawning
  <2>11. QED
    BY <2>3, <2>5, <2>8, <2>9, <2>10 DEF Inv
<1>6. QED
  BY <1>4, <1>5 DEF Load

\* kernel_process_destroy's locked part.
LEMMA DestroyChildKeeps ==
    ASSUME Inv, NEW p \in Process, DestroyChild(p)
    PROVE  Inv'
<1>0. TypeOK /\ RefInv /\ Calls /\ Families /\ SlotsExact
  BY DEF Inv
<1> DEFINE c == spawning[p]
<1>1. /\ life[p] = "running" /\ pc[p] = "destroy"
      /\ life' = [life EXCEPT ![c] = "terminated"]
      /\ array' = [array EXCEPT ![p] = table[c]]
      /\ table' = [table EXCEPT ![c] = NoHandles]
      /\ Goto(p, "drop_array")
      /\ UNCHANGED objectVars /\ UNCHANGED calleeVars
      /\ slots' = slots /\ local' = local /\ pair' = pair /\ spawning' = spawning
  BY DEF DestroyChild, At
<1>2. pc[p] \in ChildSteps /\ pc[p] \notin EndSteps
  BY <1>1 DEF ChildSteps, SpawnSteps, EndSteps
<1>3. /\ c \in Process /\ c # None /\ life[c] = "new" /\ c # desktop /\ c # p
      /\ \A q \in Process \ {p} : spawning[q] # c
  BY <1>0, <1>1, <1>2, Child
<1>4. array[p] = NoHandles
  BY <1>0, <1>1 DEF Calls, CallOK
<1>5. pc' \in [Process -> Steps] /\ pc'[p] = "drop_array" /\ \A q \in Process \ {p} : pc'[q] = pc[q]
  BY <1>0, <1>1, GoPoint DEF Steps, SpawnSteps
<1>6. /\ life'[c] = "terminated" /\ \A q \in Process \ {c} : life'[q] = life[q]
      /\ table'[c] = NoHandles /\ \A q \in Process \ {c} : table'[q] = table[q]
      /\ array'[p] = table[c] /\ \A q \in Process \ {p} : array'[q] = array[q]
  BY <1>0, <1>1, <1>3 DEF TypeOK
<1>7. TypeOK'
  <2>1. NoHandles \in [Handle -> Pointer] /\ table[c] \in [Handle -> Pointer]
    BY <1>0, <1>3 DEF NoHandles, Pointer, TypeOK
  <2>2. table' \in [Process -> [Handle -> Pointer]] /\ array' \in [Process -> [Handle -> Pointer]]
    BY <1>0, <1>1, <2>1 DEF TypeOK
  <2>3. life' \in [Process -> {"free", "new", "running", "exited", "terminated"}]
    BY <1>0, <1>1 DEF TypeOK
  <2>4. QED
    BY <1>0, <1>1, <1>5, <2>2, <2>3 DEF TypeOK, objectVars, calleeVars
<1>8. local' = local /\ spawning' = spawning /\ pair' = pair /\ slots' = slots
      /\ UNCHANGED objectVars /\ UNCHANGED calleeVars
  BY <1>1
<1> HIDE DEF c
<1>9. ASSUME NEW e \in Endpoint PROVE Owners'[e] = Owners[e]
  <2>1. None # e
    BY NamesAssumption
  <2>2. Moves(table, table', array, array', Handle, c, p, e)
    BY <1>4, <1>6, <2>1 DEF Moves, NoHandles
  <2>3. QED
    BY <1>3, <1>8, <2>2, OwnersDestroyed
<1>10. RefInv'
  BY <1>0, <1>8, <1>9, RefsQuiet
<1>11. CallOK(p)'
  BY <1>0, <1>1, <1>5, <1>8
     DEF Calls, CallOK, FirstSteps, EntrySteps, ObjectSteps, PairSteps, BothSteps, ChildSteps, SpawnSteps
<1>12. OnlyFor(p)
  BY <1>5, <1>6, <1>8 DEF OnlyFor
<1>13. Calls'
  BY <1>0, <1>11, <1>12, CallsStep
<1>14. Families'
  <2>1. ASSUME NEW q \in Process, spawning[q] # None
        PROVE  /\ pc'[q] \in EndSteps => life'[spawning[q]] = "terminated"
               /\ pc'[q] \notin EndSteps => life'[spawning[q]] = "new"
    <3>1. CASE q = p
      BY <3>1, <1>5, <1>6 DEF c, EndSteps
    <3>2. CASE q # p
      <4>1. pc'[q] = pc[q] /\ spawning[q] \in Process \ {c}
        BY <3>2, <1>0, <1>3, <1>5, <2>1 DEF TypeOK
      <4>2. life'[spawning[q]] = life[spawning[q]]
        BY <4>1, <1>6
      <4>3. QED
        BY <1>0, <2>1, <4>1, <4>2 DEF Families
    <3>3. QED
      BY <3>1, <3>2
  <2>2. ASSUME NEW q \in Process, life'[q] \in {"new", "terminated"} PROVE \E r \in Process : spawning[r] = q
    <3>1. life[q] \in {"new", "terminated"}
      BY <2>2, <1>3, <1>6
    <3>2. QED
      BY <1>0, <3>1 DEF Families
  <2>3. ASSUME NEW q \in Process, life'[q] \in {"free", "terminated"} PROVE table'[q] = NoHandles
    BY <1>0, <1>6, <2>3 DEF Families
  <2>4. life'[desktop] \in {"running", "exited"}
    BY <1>0, <1>3, <1>6, BoundsAssumption DEF Families
  <2>5. \A q, r \in Process : spawning[q] # None /\ q # r => spawning[q] # spawning[r]
    BY <1>0 DEF Families
  <2>6. QED
    BY <1>8, <2>1, <2>2, <2>3, <2>4, <2>5 DEF Families
<1>15. SlotsExact'
  <2>1. \A q \in Process : life[q] \in {"running", "exited"} <=> life'[q] \in {"running", "exited"}
    BY <1>3, <1>6
  <2>2. \A q \in Process : pc[q] \in SpawnSteps <=> pc'[q] \in SpawnSteps
    BY <1>1, <1>5 DEF SpawnSteps
  <2>3. QED
    BY <1>0, <1>8, <2>1, <2>2, SlotsQuiet
<1>16. QED
  BY <1>7, <1>10, <1>13, <1>14, <1>15 DEF Inv

\* Its kfree.
LEMMA FreeProcessKeeps ==
    ASSUME Inv, NEW p \in Process, FreeProcess(p)
    PROVE  Inv'
<1>0. TypeOK /\ RefInv /\ Calls /\ Families /\ SlotsExact
  BY DEF Inv
<1> DEFINE c == spawning[p]
<1>1. /\ life[p] = "running" /\ pc[p] = "free_process"
      /\ life' = [life EXCEPT ![c] = "free"]
      /\ spawning' = [spawning EXCEPT ![p] = None]
      /\ Goto(p, "free_slot")
      /\ UNCHANGED objectVars /\ UNCHANGED calleeVars
      /\ table' = table /\ slots' = slots /\ local' = local /\ array' = array /\ pair' = pair
  BY DEF FreeProcess, At
<1>2. pc[p] \in ChildSteps /\ pc[p] \in EndSteps
  BY <1>1 DEF ChildSteps, SpawnSteps, EndSteps
<1>3. /\ c \in Process /\ c # None /\ life[c] = "terminated" /\ table[c] = NoHandles /\ c # desktop
      /\ \A q \in Process \ {p} : spawning[q] # c
  BY <1>0, <1>1, <1>2, Child
<1>4. pc' \in [Process -> Steps] /\ pc'[p] = "free_slot" /\ \A q \in Process \ {p} : pc'[q] = pc[q]
  BY <1>0, <1>1, GoPoint DEF Steps, SpawnSteps
<1>5. /\ life'[c] = "free" /\ \A q \in Process \ {c} : life'[q] = life[q]
      /\ spawning'[p] = None /\ \A q \in Process \ {p} : spawning'[q] = spawning[q]
  BY <1>0, <1>1, <1>3 DEF TypeOK
<1>6. TypeOK'
  <2>1. life' \in [Process -> {"free", "new", "running", "exited", "terminated"}]
    BY <1>0, <1>1 DEF TypeOK
  <2>2. spawning' \in [Process -> Process \cup {None}]
    BY <1>0, <1>1 DEF TypeOK
  <2>3. QED
    BY <1>0, <1>1, <1>4, <2>1, <2>2 DEF TypeOK, objectVars, calleeVars
<1>7. /\ UNCHANGED objectVars /\ UNCHANGED calleeVars
      /\ table' = table /\ slots' = slots /\ local' = local /\ array' = array /\ pair' = pair
  BY <1>1
<1> HIDE DEF c
<1>8. \A e \in Endpoint : Owners'[e] = Owners[e]
  BY <1>7, OwnersQuiet
<1>9. RefInv'
  BY <1>0, <1>7, <1>8, RefsQuiet
<1>10. CallOK(p)'
  BY <1>0, <1>1, <1>4, <1>5, <1>7
     DEF Calls, CallOK, FirstSteps, EntrySteps, ObjectSteps, PairSteps, BothSteps, ChildSteps, SpawnSteps
<1>11. OnlyFor(p)
  BY <1>4, <1>5, <1>7 DEF OnlyFor
<1>12. Calls'
  BY <1>0, <1>10, <1>11, CallsStep
<1>13. Families'
  <2>1. ASSUME NEW q \in Process, spawning'[q] # None
        PROVE  /\ pc'[q] \in EndSteps => life'[spawning'[q]] = "terminated"
               /\ pc'[q] \notin EndSteps => life'[spawning'[q]] = "new"
    <3>1. /\ q # p /\ spawning'[q] = spawning[q] /\ pc'[q] = pc[q] /\ spawning[q] \in Process \ {c}
      BY <1>0, <1>3, <1>4, <1>5, <2>1 DEF TypeOK
    <3>2. life'[spawning[q]] = life[spawning[q]]
      BY <3>1, <1>5
    <3>3. QED
      BY <1>0, <2>1, <3>1, <3>2 DEF Families
  <2>2. \A q, r \in Process : spawning'[q] # None /\ q # r => spawning'[q] # spawning'[r]
    BY <1>0, <1>5 DEF Families
  <2>3. ASSUME NEW q \in Process, life'[q] \in {"new", "terminated"}
        PROVE  \E r \in Process : spawning'[r] = q
    <3>1. q # c /\ life[q] \in {"new", "terminated"}
      BY <1>5, <2>3
    <3>2. PICK r \in Process : spawning[r] = q
      BY <1>0, <3>1 DEF Families
    <3>3. r # p
      BY <3>1, <3>2 DEF c
    <3>4. QED
      BY <3>2, <3>3, <1>5
  <2>4. ASSUME NEW q \in Process, life'[q] \in {"free", "terminated"} PROVE table'[q] = NoHandles
    BY <1>0, <1>3, <1>5, <1>7, <2>4 DEF Families
  <2>5. life'[desktop] \in {"running", "exited"}
    BY <1>0, <1>3, <1>5, BoundsAssumption DEF Families
  <2>6. QED
    BY <2>1, <2>2, <2>3, <2>4, <2>5 DEF Families
<1>14. SlotsExact'
  <2>1. \A q \in Process : life[q] \in {"running", "exited"} <=> life'[q] \in {"running", "exited"}
    BY <1>3, <1>5
  <2>2. \A q \in Process : pc[q] \in SpawnSteps <=> pc'[q] \in SpawnSteps
    BY <1>1, <1>4 DEF SpawnSteps
  <2>3. QED
    BY <1>0, <1>7, <2>1, <2>2, SlotsQuiet
<1>15. QED
  BY <1>6, <1>9, <1>12, <1>13, <1>14 DEF Inv

-----------------------------------------------------------------------------
(* The calls.                                                               *)

\* A call may go from step to next by releasing x: what it still holds, it may
\* hold at next, and it neither begins nor ends a spawn.
MayDrop(step, x, next) ==
    /\ x \in Local /\ step \in Steps /\ next \in Steps
    /\ x # "first" /\ step \in FirstSteps => next \in FirstSteps
    /\ x # "second" /\ step \in FirstSteps \cup {"drop_second"} => next \in FirstSteps \cup {"drop_second"}
    /\ x # "entry" /\ step \in EntrySteps => next \in EntrySteps
    /\ x # "object" /\ step \in ObjectSteps => next \in ObjectSteps
    /\ step # "drop_array" /\ step \notin EndSteps /\ next \notin EndSteps
    /\ step \in ChildSteps <=> next \in ChildSteps
    /\ step \in SpawnSteps <=> next \in SpawnSteps

\* The releases inside the calls are of that kind.
LEMMA Drops ==
    /\ MayDrop("drop_entry", "entry", "drop_first")
    /\ MayDrop("drop_entry", "entry", "close_first")
    /\ MayDrop("drop_first", "first", "drop_second")
    /\ MayDrop("drop_second", "second", "user")
    /\ MayDrop("drop_second", "second", "copy_out")
    /\ MayDrop("drop_closed", "object", "drop_first")
    /\ MayDrop("drop_uncopied", "object", "uncopy_second")
    /\ MayDrop("drop_object", "object", "user")
    /\ MayDrop("drop_inherited", "object", "load")
    /\ MayDrop("unput_child", "entry", "drop_refused")
    /\ MayDrop("drop_refused", "object", "destroy")
<1>1. MayDrop("drop_entry", "entry", "drop_first")
  BY DEF MayDrop, Local, Steps, CreateSteps, FirstSteps, EntrySteps, ObjectSteps, EndSteps, ChildSteps, SpawnSteps
<1>2. MayDrop("drop_entry", "entry", "close_first")
  BY DEF MayDrop, Local, Steps, CreateSteps, FirstSteps, EntrySteps, ObjectSteps, EndSteps, ChildSteps, SpawnSteps
<1>3. MayDrop("drop_first", "first", "drop_second")
  BY DEF MayDrop, Local, Steps, CreateSteps, FirstSteps, EntrySteps, ObjectSteps, EndSteps, ChildSteps, SpawnSteps
<1>4. MayDrop("drop_second", "second", "user")
  BY DEF MayDrop, Local, Steps, CreateSteps, FirstSteps, EntrySteps, ObjectSteps, EndSteps, ChildSteps, SpawnSteps
<1>5. MayDrop("drop_second", "second", "copy_out")
  BY DEF MayDrop, Local, Steps, CreateSteps, FirstSteps, EntrySteps, ObjectSteps, EndSteps, ChildSteps, SpawnSteps
<1>6. MayDrop("drop_closed", "object", "drop_first")
  BY DEF MayDrop, Local, Steps, CreateSteps, FirstSteps, EntrySteps, ObjectSteps, EndSteps, ChildSteps, SpawnSteps
<1>7. MayDrop("drop_uncopied", "object", "uncopy_second")
  BY DEF MayDrop, Local, Steps, CreateSteps, FirstSteps, EntrySteps, ObjectSteps, EndSteps, ChildSteps, SpawnSteps
<1>8. MayDrop("drop_object", "object", "user")
  BY DEF MayDrop, Local, Steps, CreateSteps, FirstSteps, EntrySteps, ObjectSteps, EndSteps, ChildSteps, SpawnSteps
<1>9. MayDrop("drop_inherited", "object", "load")
  BY DEF MayDrop, Local, Steps, CreateSteps, FirstSteps, EntrySteps, ObjectSteps, EndSteps, ChildSteps, SpawnSteps
<1>10. MayDrop("unput_child", "entry", "drop_refused")
  BY DEF MayDrop, Local, Steps, CreateSteps, FirstSteps, EntrySteps, ObjectSteps, EndSteps, ChildSteps, SpawnSteps
<1>11. MayDrop("drop_refused", "object", "destroy")
  BY DEF MayDrop, Local, Steps, CreateSteps, FirstSteps, EntrySteps, ObjectSteps, EndSteps, ChildSteps, SpawnSteps
<1>12. QED
  BY <1>1, <1>2, <1>3, <1>4, <1>5, <1>6, <1>7, <1>8, <1>9, <1>10, <1>11

\* A release inside a call that goes on to its next step.
LEMMA DropStep ==
    ASSUME Inv, NEW p \in Process, NEW x, NEW step, NEW next,
           Drop(p, step, x, next), MayDrop(step, x, next),
           next \in PairSteps => pair[p]["first"] # None,
           next \in BothSteps => pair[p]["second"] # None
    PROVE  Inv'
<1>0. x \in Local /\ step \in Steps /\ next \in Steps
  BY DEF MayDrop
<1>1. TypeOK /\ CallOK(p)
  BY DEF Inv, Calls
<1>2. /\ pc[p] = step /\ pc'[p] = next
      /\ local'[p][x] = None
      /\ \A y \in Local \ {x} : local'[p][y] = local[p][y]
      /\ array'[p] = array[p] /\ pair'[p] = pair[p] /\ spawning'[p] = spawning[p]
  BY <1>0, <1>1, DropPoint
<1>3. "first" \in Local /\ "second" \in Local /\ "entry" \in Local /\ "object" \in Local
  BY DEF Local
<1>4. /\ local'[p]["first"] # None => x # "first" /\ local[p]["first"] # None
      /\ local'[p]["second"] # None => x # "second" /\ local[p]["second"] # None
      /\ local'[p]["entry"] # None => x # "entry" /\ local[p]["entry"] # None
      /\ local'[p]["object"] # None => x # "object" /\ local[p]["object"] # None
  BY <1>2, <1>3
<1>5. CallOK(p)'
  BY <1>1, <1>2, <1>4 DEF CallOK, MayDrop
<1>6. QED
  BY <1>0, <1>5, DropKeeps DEF MayDrop

\* The releases of all calls keep Inv.
LEMMA DropsKeep ==
    ASSUME Inv, NEW p \in Process,
           \/ DropEntry(p) \/ DropFirst(p) \/ DropSecond(p)
           \/ Drop(p, "drop_closed", "object", "drop_first")
           \/ Drop(p, "drop_uncopied", "object", "uncopy_second")
           \/ Drop(p, "drop_object", "object", "user")
           \/ Drop(p, "drop_inherited", "object", "load")
           \/ Drop(p, "unput_child", "entry", "drop_refused")
           \/ Drop(p, "drop_refused", "object", "destroy")
    PROVE  Inv'
<1>0. CallOK(p)
  BY DEF Inv, Calls
<1>1. CASE Drop(p, "drop_entry", "entry", "close_first") /\ pair[p]["first"] # None
  <2>1. "close_first" \notin BothSteps
    BY DEF BothSteps
  <2>2. QED
    BY <1>1, <2>1, Drops, DropStep
<1>2. CASE Drop(p, "drop_entry", "entry", "drop_first")
  <2>1. "drop_first" \notin PairSteps /\ "drop_first" \notin BothSteps
    BY DEF PairSteps, BothSteps
  <2>2. QED
    BY <1>2, <2>1, Drops, DropStep
<1>3. CASE Drop(p, "drop_first", "first", "drop_second")
  <2>1. "drop_second" \notin PairSteps /\ "drop_second" \notin BothSteps
    BY DEF PairSteps, BothSteps
  <2>2. QED
    BY <1>3, <2>1, Drops, DropStep
<1>4. CASE Drop(p, "drop_second", "second", "user")
  <2>1. "user" \notin PairSteps /\ "user" \notin BothSteps
    BY DEF PairSteps, BothSteps
  <2>2. QED
    BY <1>4, <2>1, Drops, DropStep
<1>5. CASE Drop(p, "drop_second", "second", "copy_out") /\ pair[p]["second"] # None
  <2>1. pair[p]["first"] # None
    BY <1>0, <1>5 DEF CallOK
  <2>2. QED
    BY <1>5, <2>1, Drops, DropStep
<1>6. CASE Drop(p, "drop_closed", "object", "drop_first")
  <2>1. "drop_first" \notin PairSteps /\ "drop_first" \notin BothSteps
    BY DEF PairSteps, BothSteps
  <2>2. QED
    BY <1>6, <2>1, Drops, DropStep
<1>7. CASE Drop(p, "drop_uncopied", "object", "uncopy_second")
  <2>1. pc[p] = "drop_uncopied"
    BY <1>7 DEF Drop, At
  <2>2. pair[p]["first"] # None /\ pair[p]["second"] # None
    BY <1>0, <2>1 DEF CallOK, PairSteps, BothSteps
  <2>3. QED
    BY <1>7, <2>2, Drops, DropStep
<1>8. CASE Drop(p, "drop_object", "object", "user")
  <2>1. "user" \notin PairSteps /\ "user" \notin BothSteps
    BY DEF PairSteps, BothSteps
  <2>2. QED
    BY <1>8, <2>1, Drops, DropStep
<1>9. CASE Drop(p, "drop_inherited", "object", "load")
  <2>1. "load" \notin PairSteps /\ "load" \notin BothSteps
    BY DEF PairSteps, BothSteps
  <2>2. QED
    BY <1>9, <2>1, Drops, DropStep
<1>10. CASE Drop(p, "unput_child", "entry", "drop_refused")
  <2>1. "drop_refused" \notin PairSteps /\ "drop_refused" \notin BothSteps
    BY DEF PairSteps, BothSteps
  <2>2. QED
    BY <1>10, <2>1, Drops, DropStep
<1>11. CASE Drop(p, "drop_refused", "object", "destroy")
  <2>1. "destroy" \notin PairSteps /\ "destroy" \notin BothSteps
    BY DEF PairSteps, BothSteps
  <2>2. QED
    BY <1>11, <2>1, Drops, DropStep
<1>12. DropEntry(p) => \/ Drop(p, "drop_entry", "entry", "close_first") /\ pair[p]["first"] # None
                       \/ Drop(p, "drop_entry", "entry", "drop_first")
  BY DEF DropEntry
<1>13. DropSecond(p) => \/ Drop(p, "drop_second", "second", "copy_out") /\ pair[p]["second"] # None
                        \/ Drop(p, "drop_second", "second", "user")
  BY DEF DropSecond
<1>14. DropFirst(p) => Drop(p, "drop_first", "first", "drop_second")
  BY DEF DropFirst
<1>15. QED
  BY <1>1, <1>2, <1>3, <1>4, <1>5, <1>6, <1>7, <1>8, <1>9, <1>10, <1>11, <1>12, <1>13, <1>14

\* The references a call or a table gets.
LEMMA RetainEntryKeeps ==
    ASSUME Inv, NEW p \in Process, NEW step, NEW x, NEW next,
           RetainEntry(p, step, x, next),
           \/ step = "retain_first" /\ x = "first" /\ next = "put_first"
           \/ step = "retain_second" /\ x = "second" /\ next = "put_second"
           \/ step = "retain_child" /\ x = "object" /\ next = "put_child"
    PROVE  Inv'
<1>0. TypeOK /\ CallOK(p)
  BY DEF Inv, Calls
<1>1. /\ pc[p] = step /\ Retain(p, local[p][x], "entry") /\ Goto(p, next)
      /\ UNCHANGED <<allocated, open, life, table, slots, array, pair, spawning, calleeVars>>
  BY DEF RetainEntry, At
<1>2. x \in Local /\ "entry" \in Local /\ next \in Steps
  BY DEF Local, Steps, CreateSteps, SpawnSteps
<1>3. local[p][x] \in Pointer /\ (local[p][x] \in Endpoint => Owners[local[p][x]] # 0)
  BY <1>0, <1>2, Pointers, Holders
<1>4. local[p]["entry"] = None
  BY <1>0, <1>1 DEF CallOK, EntrySteps
<1>5. pc'[p] = next
  BY <1>0, <1>1, <1>2, GoPoint
<1>6. \A y \in Local \ {"entry"} : local'[p][y] = local[p][y]
  <2>1. local' = [local EXCEPT ![p]["entry"] = local[p][x]]
    BY <1>1 DEF Retain
  <2>2. QED
    BY <1>0, <1>2, <1>3, <2>1, LocalPoint
<1>7. CallOK(p)'
  <2>1. /\ local'[p]["first"] = local[p]["first"] /\ local'[p]["second"] = local[p]["second"]
        /\ local'[p]["object"] = local[p]["object"]
        /\ array' = array /\ pair' = pair /\ spawning' = spawning
    BY <1>1, <1>6 DEF Local
  <2>2. QED
    BY <1>0, <1>1, <1>5, <2>1
       DEF CallOK, FirstSteps, EntrySteps, ObjectSteps, PairSteps, BothSteps, ChildSteps, SpawnSteps
<1>8. /\ pc[p] \in EndSteps <=> next \in EndSteps
      /\ pc[p] \in SpawnSteps <=> next \in SpawnSteps
  BY <1>1 DEF EndSteps, SpawnSteps
<1>9. QED
  BY <1>1, <1>2, <1>3, <1>4, <1>7, <1>8, RetainKeeps

\* kernel_process_handle_acquire keeps Inv, for a transfer and for an inheritance.
LEMMA AcquireKeeps ==
    ASSUME Inv, NEW p \in Process, NEW h \in Handle, NEW next,
           Acquire(p, h, next),
           \/ pc[p] = "user" /\ next = "use"
           \/ pc[p] = "inherit" /\ next = "retain_child"
    PROVE  Inv'
<1>0. TypeOK /\ CallOK(p)
  BY DEF Inv, Calls
<1>1. /\ Retain(p, table[p][h], "object") /\ Goto(p, next)
      /\ UNCHANGED <<allocated, open, life, table, slots, array, pair, spawning, calleeVars>>
  BY DEF Acquire
<1>2. "object" \in Local /\ next \in Steps
  BY DEF Local, Steps, CreateSteps, SpawnSteps
<1>3. table[p][h] \in Pointer /\ (table[p][h] \in Endpoint => Owners[table[p][h]] # 0)
  BY <1>0, Pointers, Holders
<1>4. local[p]["object"] = None
  BY <1>0 DEF CallOK, ObjectSteps
<1>5. pc'[p] = next
  BY <1>0, <1>1, <1>2, GoPoint
<1>6. \A y \in Local \ {"object"} : local'[p][y] = local[p][y]
  <2>1. local' = [local EXCEPT ![p]["object"] = table[p][h]]
    BY <1>1 DEF Retain
  <2>2. QED
    BY <1>0, <1>2, <1>3, <2>1, LocalPoint
<1>7. CallOK(p)'
  <2>1. /\ local'[p]["first"] = local[p]["first"] /\ local'[p]["second"] = local[p]["second"]
        /\ local'[p]["entry"] = local[p]["entry"]
        /\ array' = array /\ pair' = pair /\ spawning' = spawning
    BY <1>1, <1>6 DEF Local
  <2>2. QED
    BY <1>0, <1>5, <2>1
       DEF CallOK, FirstSteps, EntrySteps, ObjectSteps, PairSteps, BothSteps, ChildSteps, SpawnSteps
<1>8. /\ pc[p] \in EndSteps <=> next \in EndSteps
      /\ pc[p] \in SpawnSteps <=> next \in SpawnSteps
  BY DEF EndSteps, SpawnSteps
<1>9. QED
  BY <1>1, <1>2, <1>3, <1>4, <1>7, <1>8, RetainKeeps

\* A table entry that a call takes back, or closes.
LEMMA TakesKeep ==
    ASSUME Inv, NEW p \in Process,
           CloseFirst(p) \/ UncopyFirst(p) \/ UncopySecond(p) \/ Close(p)
    PROVE  Inv'
<1>0. TypeOK /\ CallOK(p)
  BY DEF Inv, Calls
<1>1. ASSUME NEW h \in Handle, NEW next, life[p] = "running", TakeEntry(p, h), Goto(p, next),
             \/ pc[p] = "close_first" /\ next = "drop_closed"
             \/ pc[p] = "uncopy_first" /\ next = "drop_uncopied"
             \/ pc[p] = "uncopy_second" /\ next = "drop_object"
             \/ pc[p] = "user" /\ next = "drop_object"
      PROVE  Inv'
  <2>1. "object" \in Local /\ next \in Steps
    BY <1>1 DEF Local, Steps, CreateSteps, SpawnSteps
  <2>2. local[p]["object"] = None
    BY <1>0, <1>1 DEF CallOK, ObjectSteps
  <2>3. pc'[p] = next
    BY <1>0, <1>1, <2>1, GoPoint
  <2>4. \A y \in Local \ {"object"} : local'[p][y] = local[p][y]
    <3>1. local' = [local EXCEPT ![p]["object"] = table[p][h]] /\ table[p][h] \in Pointer
      BY <1>0, <1>1, Pointers DEF TakeEntry
    <3>2. QED
      BY <1>0, <2>1, <3>1, LocalPoint
  <2>5. CallOK(p)'
    <3>1. /\ local'[p]["first"] = local[p]["first"] /\ local'[p]["second"] = local[p]["second"]
          /\ local'[p]["entry"] = local[p]["entry"]
          /\ array' = array /\ pair' = pair /\ spawning' = spawning
      BY <1>1, <2>4 DEF Local, TakeEntry
    <3>2. QED
      BY <1>0, <1>1, <2>3, <3>1
         DEF CallOK, FirstSteps, EntrySteps, ObjectSteps, PairSteps, BothSteps, ChildSteps, SpawnSteps
  <2>6. /\ pc[p] \in EndSteps <=> next \in EndSteps
        /\ pc[p] \in SpawnSteps <=> next \in SpawnSteps
    BY <1>1 DEF EndSteps, SpawnSteps
  <2>7. QED
    BY <1>1, <2>1, <2>2, <2>5, <2>6, TakeKeeps
<1>2. ASSUME pc[p] \in PairSteps PROVE pair[p]["first"] \in Handle
  BY <1>0, <1>2 DEF CallOK, TypeOK
<1>3. ASSUME pc[p] \in BothSteps PROVE pair[p]["second"] \in Handle
  BY <1>0, <1>3 DEF CallOK, TypeOK
<1>4. CASE CloseFirst(p)
  <2>1. pc[p] = "close_first" /\ life[p] = "running" /\ TakeEntry(p, pair[p]["first"]) /\ Goto(p, "drop_closed")
    BY <1>4 DEF CloseFirst, At
  <2>2. pair[p]["first"] \in Handle
    BY <2>1, <1>2 DEF PairSteps
  <2>3. QED
    BY <2>1, <2>2, <1>1
<1>5. CASE UncopyFirst(p)
  <2>1. pc[p] = "uncopy_first" /\ life[p] = "running" /\ TakeEntry(p, pair[p]["first"]) /\ Goto(p, "drop_uncopied")
    BY <1>5 DEF UncopyFirst, At
  <2>2. pair[p]["first"] \in Handle
    BY <2>1, <1>2 DEF PairSteps, BothSteps
  <2>3. QED
    BY <2>1, <2>2, <1>1
<1>6. CASE UncopySecond(p)
  <2>1. pc[p] = "uncopy_second" /\ life[p] = "running" /\ TakeEntry(p, pair[p]["second"]) /\ Goto(p, "drop_object")
    BY <1>6 DEF UncopySecond, At
  <2>2. pair[p]["second"] \in Handle
    BY <2>1, <1>3 DEF BothSteps
  <2>3. QED
    BY <2>1, <2>2, <1>1
<1>7. CASE Close(p)
  <2>1. pc[p] = "user" /\ life[p] = "running" /\ Goto(p, "drop_object")
    BY <1>7 DEF Close, At
  <2>2. PICK h \in Handle : TakeEntry(p, h)
    BY <1>7 DEF Close
  <2>3. QED
    BY <2>1, <2>2, <1>1
<1>8. QED
  BY <1>4, <1>5, <1>6, <1>7

\* kernel_process_handle_allocate's locked part.
LEMMA PutEntryKeeps ==
    ASSUME Inv, NEW p \in Process, NEW step, NEW x, NEW next,
           PutEntry(p, step, x, next),
           \/ step = "put_first" /\ x = "first" /\ next = "retain_second"
           \/ step = "put_second" /\ x = "second" /\ next = "drop_first"
    PROVE  Inv'
<1>0. TypeOK /\ CallOK(p)
  BY DEF Inv, Calls
<1>1. /\ pc[p] = step /\ life[p] = "running"
      /\ UNCHANGED objectVars /\ UNCHANGED calleeVars
      /\ life' = life /\ slots' = slots /\ array' = array /\ spawning' = spawning
  BY DEF PutEntry, At
<1>2. CASE FreeHandle(p) = {}
  <2>1. Goto(p, "drop_entry") /\ table' = table /\ local' = local /\ pair' = pair
    BY <1>2 DEF PutEntry
  <2>2. pc'[p] = "drop_entry" /\ "drop_entry" \in Steps
    BY <1>0, <2>1, GoPoint DEF Steps, CreateSteps
  <2>3. CallOK(p)'
    BY <1>0, <1>1, <2>1, <2>2
       DEF CallOK, FirstSteps, EntrySteps, ObjectSteps, PairSteps, BothSteps, ChildSteps, SpawnSteps
  <2>4. /\ pc[p] \in EndSteps <=> "drop_entry" \in EndSteps
        /\ pc[p] \in SpawnSteps <=> "drop_entry" \in SpawnSteps
    BY <1>1 DEF EndSteps, SpawnSteps
  <2>5. UNCHANGED <<objectVars, life, table, slots, callVars, calleeVars>>
    BY <1>1, <2>1 DEF callVars
  <2>6. QED
    BY <2>1, <2>2, <2>3, <2>4, <2>5, GoKeeps
<1>3. CASE FreeHandle(p) # {}
  <2>1. PICK h \in FreeHandle(p) :
          /\ table' = [table EXCEPT ![p][h] = local[p]["entry"]]
          /\ local' = [local EXCEPT ![p]["entry"] = None]
          /\ pair' = [pair EXCEPT ![p][x] = h]
          /\ Goto(p, next)
    BY <1>3 DEF PutEntry
  <2>2. h \in Handle /\ table[p][h] = None
    BY DEF FreeHandle
  <2>3. Publish(p, p, h)
    BY <2>1 DEF Publish
  <2>4. /\ pair' \in [Process -> [{"first", "second"} -> Handle \cup {None}]]
        /\ pair'[p][x] = h
        /\ \A y \in {"first", "second"} \ {x} : pair'[p][y] = pair[p][y]
        /\ \A r \in Process \ {p} : pair'[r] = pair[r]
    <3>1. pair \in [Process -> [{"first", "second"} -> Handle \cup {None}]] /\ x \in {"first", "second"}
      BY <1>0 DEF TypeOK
    <3>2. QED
      BY <2>1, <2>2, <3>1
  <2>5. next \in Steps
    BY DEF Steps, CreateSteps
  <2>6. pc'[p] = next
    BY <1>0, <2>1, <2>5, GoPoint
  <2>7. local'[p]["entry"] = None /\ \A y \in Local \ {"entry"} : local'[p][y] = local[p][y]
    <3>1. "entry" \in Local /\ None \in Pointer
      BY <1>0, Pointers DEF Local
    <3>2. local' = [local EXCEPT ![p]["entry"] = None]
      BY <2>1
    <3>3. QED
      BY <1>0, <3>1, <3>2, LocalPoint
  <2>8. /\ local'[p]["first"] = local[p]["first"] /\ local'[p]["second"] = local[p]["second"]
        /\ local'[p]["object"] = local[p]["object"]
    BY <2>7 DEF Local
  <2>9. h # None
    BY <2>2, NamesAssumption
  <2>10. /\ pair'[p]["first"] # None
         /\ pair'[p]["second"] # None => pair'[p]["first"] # None
    BY <1>0, <1>1, <2>4, <2>9 DEF CallOK, PairSteps
  <2>11. CallOK(p)'
    BY <1>0, <1>1, <2>6, <2>7, <2>8, <2>10
       DEF CallOK, FirstSteps, EntrySteps, ObjectSteps, PairSteps, BothSteps, ChildSteps, SpawnSteps
  <2>12. /\ pc[p] \in EndSteps <=> next \in EndSteps
         /\ pc[p] \in SpawnSteps <=> next \in SpawnSteps
    BY <1>1 DEF EndSteps, SpawnSteps
  <2>13. QED
    BY <1>1, <2>1, <2>2, <2>3, <2>4, <2>5, <2>11, <2>12, PutKeeps
<1>4. QED
  BY <1>2, <1>3

\* kernel_process_handle_install in the child.
LEMMA PutChildKeeps ==
    ASSUME Inv, NEW p \in Process, PutChild(p)
    PROVE  Inv'
<1>0. TypeOK /\ CallOK(p) /\ Calls /\ Families
  BY DEF Inv, Calls
<1>1. /\ pc[p] = "put_child" /\ life[p] = "running"
      /\ UNCHANGED objectVars /\ UNCHANGED calleeVars
      /\ life' = life /\ slots' = slots /\ array' = array /\ spawning' = spawning /\ pair' = pair
  BY DEF PutChild, At
<1> DEFINE c == spawning[p]
<1>2. pc[p] \in ChildSteps /\ pc[p] \notin EndSteps
  BY <1>1 DEF ChildSteps, SpawnSteps, EndSteps
<1>3. c \in Process /\ life[c] = "new"
  BY <1>0, <1>2, Child
<1>4. CASE Goto(p, "unput_child") /\ UNCHANGED <<table, local>>
  <2>1. pc'[p] = "unput_child" /\ "unput_child" \in Steps
    BY <1>0, <1>4, GoPoint DEF Steps, SpawnSteps
  <2>2. local' = local
    BY <1>4
  <2>3. CallOK(p)'
    BY <1>0, <1>1, <2>1, <2>2
       DEF CallOK, FirstSteps, EntrySteps, ObjectSteps, PairSteps, BothSteps, ChildSteps, SpawnSteps
  <2>4. /\ pc[p] \in EndSteps <=> "unput_child" \in EndSteps
        /\ pc[p] \in SpawnSteps <=> "unput_child" \in SpawnSteps
    BY <1>1 DEF EndSteps, SpawnSteps
  <2>5. UNCHANGED <<objectVars, life, table, slots, callVars, calleeVars>>
    BY <1>1, <1>4 DEF callVars
  <2>6. QED
    BY <1>4, <2>1, <2>3, <2>4, <2>5, GoKeeps
<1>5. ASSUME NEW h \in Handle, table[c][h] = None, Publish(p, c, h), Goto(p, "drop_inherited")
      PROVE  Inv'
  <2>1. pc'[p] = "drop_inherited" /\ "drop_inherited" \in Steps
    BY <1>0, <1>5, GoPoint DEF Steps, SpawnSteps
  <2>2. local'[p]["entry"] = None /\ \A y \in Local \ {"entry"} : local'[p][y] = local[p][y]
    <3>1. "entry" \in Local /\ None \in Pointer
      BY <1>0, Pointers DEF Local
    <3>2. local' = [local EXCEPT ![p]["entry"] = None]
      BY <1>5 DEF Publish
    <3>3. QED
      BY <1>0, <3>1, <3>2, LocalPoint
  <2>3. /\ local'[p]["first"] = local[p]["first"] /\ local'[p]["second"] = local[p]["second"]
        /\ local'[p]["object"] = local[p]["object"]
    BY <2>2 DEF Local
  <2>4. CallOK(p)'
    BY <1>0, <1>1, <2>1, <2>2, <2>3
       DEF CallOK, FirstSteps, EntrySteps, ObjectSteps, PairSteps, BothSteps, ChildSteps, SpawnSteps
  <2>5. /\ pc[p] \in EndSteps <=> "drop_inherited" \in EndSteps
        /\ pc[p] \in SpawnSteps <=> "drop_inherited" \in SpawnSteps
    BY <1>1 DEF EndSteps, SpawnSteps
  <2>6. /\ pair' \in [Process -> [{"first", "second"} -> Handle \cup {None}]]
        /\ \A r \in Process \ {p} : pair'[r] = pair[r]
    BY <1>0, <1>1 DEF TypeOK
  <2> HIDE DEF c
  <2>7. QED
    BY <1>1, <1>3, <1>5, <2>1, <2>4, <2>5, <2>6, PutKeeps
<1>6. QED
  BY <1>4, <1>5 DEF PutChild, Publish

\* The steps that only go on.
LEMMA GoesKeep ==
    ASSUME Inv, NEW p \in Process, NEW next,
           Goto(p, next), UNCHANGED <<objectVars, life, table, slots, callVars, calleeVars>>,
           \/ pc[p] = "copy_out" /\ next \in {"user", "uncopy_first"}
           \/ pc[p] = "use" /\ next = "drop_object"
           \/ pc[p] = "inherit" /\ next = "destroy"
    PROVE  Inv'
<1>0. TypeOK /\ CallOK(p)
  BY DEF Inv, Calls
<1>1. next \in Steps
  BY DEF Steps, CreateSteps, SpawnSteps
<1>2. pc'[p] = next /\ local' = local /\ array' = array /\ pair' = pair /\ spawning' = spawning
  BY <1>0, <1>1, GoPoint DEF callVars
<1>3. CallOK(p)'
  BY <1>0, <1>2
     DEF CallOK, FirstSteps, EntrySteps, ObjectSteps, PairSteps, BothSteps, ChildSteps, SpawnSteps
<1>4. /\ pc[p] \in EndSteps <=> next \in EndSteps
      /\ pc[p] \in SpawnSteps <=> next \in SpawnSteps
  BY DEF EndSteps, SpawnSteps
<1>5. QED
  BY <1>1, <1>3, <1>4, GoKeeps

\* Every step of every process keeps Inv.
LEMMA NextInv ==
    ASSUME Inv, Next
    PROVE  Inv'
<1> PICK p \in Process : ChannelCreate(p) \/ Transfer(p) \/ Close(p) \/ Exit(p) \/ Spawn(p) \/ Continue(p)
  BY DEF Next
<1>1. CASE ChannelCreate(p)
  <2>1. CASE CopyOut(p)
    BY <2>1, GoesKeep DEF CopyOut, At
  <2>2. QED
    BY <1>1, <2>1, CreatePairKeeps, RetainEntryKeeps, PutEntryKeeps, DropsKeep, TakesKeep DEF ChannelCreate
<1>2. CASE Transfer(p)
  <2>1. CASE At(p, "user") /\ \E h \in Handle : Acquire(p, h, "use")
    <3>1. pc[p] = "user"
      BY <2>1 DEF At
    <3>2. PICK h \in Handle : Acquire(p, h, "use")
      BY <2>1
    <3>3. QED
      BY <3>1, <3>2, AcquireKeeps
  <2>2. CASE UseObject(p)
    BY <2>2, GoesKeep DEF UseObject, At
  <2>3. QED
    BY <1>2, <2>1, <2>2, DropsKeep DEF Transfer
<1>3. CASE Spawn(p)
  <2>1. CASE Inherit(p)
    <3>1. pc[p] = "inherit"
      BY <2>1 DEF Inherit, At
    <3>2. \/ \E h \in Handle : Acquire(p, h, "retain_child")
          \/ Goto(p, "destroy") /\ UNCHANGED <<objectVars, life, table, slots, callVars, calleeVars>>
      BY <2>1 DEF Inherit
    <3>3. QED
      BY <3>1, <3>2, AcquireKeeps, GoesKeep
  <2>2. QED
    BY <1>3, <2>1, SlotKeeps, CreateChildKeeps, RetainEntryKeeps, PutChildKeeps, DropsKeep, LoadKeeps,
       DestroyChildKeeps, DropArrayKeeps, FreeProcessKeeps DEF Spawn
<1>4. QED
  BY <1>1, <1>2, <1>3, TakesKeep, ExitKeeps, ContinueKeeps

\* A stuttering step keeps Inv.
LEMMA StutterInv ==
    ASSUME Inv, UNCHANGED vars
    PROVE  Inv'
<1>0. TypeOK /\ RefInv /\ Calls /\ Families /\ SlotsExact
  BY DEF Inv
<1>1. /\ UNCHANGED objectVars /\ UNCHANGED calleeVars /\ allocated' = allocated /\ open' = open /\ refs' = refs
      /\ life' = life /\ table' = table /\ slots' = slots /\ pc' = pc /\ local' = local
      /\ array' = array /\ pair' = pair /\ spawning' = spawning /\ dying' = dying /\ freeing' = freeing
  BY DEF vars, objectVars, callVars, calleeVars
<1>2. \A e \in Endpoint : Owners'[e] = Owners[e]
  BY <1>1, OwnersQuiet
<1>3. RefInv'
  BY <1>0, <1>1, <1>2, RefsQuiet
<1>4. TypeOK'
  BY <1>0, <1>1 DEF TypeOK
<1>5. Calls' /\ Families'
  BY <1>0, <1>1 DEF Calls, CallOK, Families
<1>6. SlotsExact'
  BY <1>0, <1>1, SlotsQuiet
<1>7. QED
  BY <1>3, <1>4, <1>5, <1>6 DEF Inv

\* Inv is invariant: with any processes, channels and table size, and however
\* the steps of retain, release, handle and spawn calls interleave, each
\* reference is counted, each call holds what its step says it holds and each
\* child in the making has one parent.
THEOREM Invariance == Spec => []Inv
<1>1. Inv /\ [Next]_vars => Inv'
  BY NextInv, StutterInv
<1>2. QED
  BY InitInv, <1>1, PTL DEF Spec

-----------------------------------------------------------------------------
(* What follows.                                                            *)

\* Every state of the objects, the tables, the calls and the children in the
\* making is of its type (object.c, process.c, syscall.c and user.c).
THEOREM ObjectsTypeCorrect == Spec => []TypeOK
<1>1. Inv => TypeOK
  BY DEF Inv
<1>2. QED
  BY Invariance, <1>1, PTL

\* However the processes interleave, kernel_object_retain and
\* kernel_object_release keep each endpoint's count equal to the table entries,
\* local variables and destruction arrays that refer to it.
THEOREM ReferencesCounted == Spec => []RefsExact
<1>1. Inv => RefsExact
  <2> SUFFICES ASSUME Inv, NEW e \in Endpoint, allocated[e[1]]
               PROVE  refs[e] = Cardinality(InTables(e)) + Cardinality(InLocals(e)) + Cardinality(InArrays(e))
    BY DEF RefsExact, Inv
  <2>1. refs[e] = Owners[e]
    BY DEF Inv, RefInv, Counted
  <2>2. Owners[e] = Cardinality(InTables(e)) + Cardinality(InLocals(e)) + Cardinality(InArrays(e))
    BY DEF Owners, Count, InTables, InLocals, InArrays
  <2>3. QED
    BY <2>1, <2>2
<1>2. QED
  BY Invariance, <1>1, PTL

\* Whatever a table or a call can reach is allocated and open, and each pending
\* channel_destroy and kfree is the only one for its endpoint or channel.
THEOREM NothingUsedAfterFree == Spec => []NoUseAfterFree
<1>1. Inv => NoUseAfterFree
  <2> SUFFICES ASSUME Inv PROVE NoUseAfterFree
    OBVIOUS
  <2>0. TypeOK /\ RefInv
    BY DEF Inv
  <2>1. ASSUME NEW e \in Endpoint, Held(e) PROVE allocated[e[1]] /\ open[e]
    BY <2>0, <2>1, OwnersHeld DEF RefInv, Counted
  <2>2. ASSUME NEW p \in Process, dying[p] # None
        PROVE  allocated[dying[p][1]] /\ open[dying[p]] /\ ~ Held(dying[p])
    <3>1. dying[p] \in Endpoint
      BY <2>0, <2>2, Ends
    <3>2. allocated[dying[p][1]] /\ open[dying[p]] /\ Owners[dying[p]] = 0
      BY <2>0, <2>2 DEF RefInv, Pending
    <3>3. QED
      BY <3>1, <3>2, OwnersHeld
  <2>3. ASSUME NEW p \in Process, freeing[p] # None
        PROVE  allocated[freeing[p]] /\ \A s \in Side : ~ open[<<freeing[p], s>>]
    BY <2>0, <2>3 DEF RefInv, Pending
  <2>4. PendingOnce
    BY <2>0 DEF RefInv
  <2>5. QED
    BY <2>1, <2>2, <2>3, <2>4 DEF NoUseAfterFree, PendingOnce
<1>2. QED
  BY Invariance, <1>1, PTL

\* No endpoint, channel or child in the making is forgotten, on any path of the
\* calls, the failing ones included, and a call that ends keeps no reference.
THEOREM NothingLeaked == Spec => []NoLeak
<1>1. Inv => NoLeak
  <2> SUFFICES ASSUME Inv PROVE NoLeak
    OBVIOUS
  <2>0. TypeOK /\ RefInv /\ Calls /\ Families
    BY DEF Inv
  <2>1. ASSUME NEW e \in Endpoint, open[e] PROVE Held(e) \/ \E p \in Process : dying[p] = e
    BY <2>0, <2>1, OwnersHeld DEF RefInv, Reachable
  <2>2. ASSUME NEW c \in Channel, allocated[c]
        PROVE  (\E s \in Side : open[<<c, s>>]) \/ \E p \in Process : freeing[p] = c
    BY <2>0, <2>2 DEF RefInv, Reachable
  <2>3. ASSUME NEW p \in Process, life[p] \in {"new", "terminated"}
        PROVE  Cardinality({q \in Process : spawning[q] = p}) = 1
    <3>1. PICK r \in Process : spawning[r] = p
      BY <2>0, <2>3 DEF Families
    <3>2. p # None
      BY NamesAssumption
    <3>3. {q \in Process : spawning[q] = p} = {r}
      BY <2>0, <3>1, <3>2 DEF Families
    <3>4. QED
      BY <3>3, FS_Singleton
  <2>4. ASSUME NEW p \in Process, pc[p] = "user"
        PROVE  /\ array[p] = NoHandles
               /\ spawning[p] = None
               /\ \A x \in Local : local[p][x] = None
    BY <2>0, <2>4
       DEF Calls, CallOK, FirstSteps, EntrySteps, ObjectSteps, ChildSteps, SpawnSteps, Local
  <2>5. QED
    BY <2>1, <2>2, <2>3, <2>4 DEF NoLeak
<1>2. QED
  BY Invariance, <1>1, PTL

\* The occupied runtime slots are those of the applications that ran and of the
\* spawns under way: user_application_spawn gives its slot back on every failure.
THEOREM SlotsCounted == Spec => []SlotsExact
<1>1. Inv => SlotsExact
  BY DEF Inv
<1>2. QED
  BY Invariance, <1>1, PTL
=============================================================================
