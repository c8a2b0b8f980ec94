--------------------------- MODULE StateCacheProofs ---------------------------
(***************************************************************************)
(* The levels of the state cache stay consistent, and the manager and its  *)
(* routes implement SessionStore.                                          *)
(*                                                                         *)
(* The inductive invariant adds two facts to CacheConsistent: whatever is   *)
(* stored in a level, even a row of the database that a newer state hides,  *)
(* was put since the key was last deleted (a crash may uncover it); and a   *)
(* delete call that listed the keys of a session has everything left that   *)
(* was not put since.                                                      *)
(***************************************************************************)
EXTENDS StateCache, TLAPS, FiniteSetTheorems, SequenceTheorems

-----------------------------------------------------------------------------
(* A level and the order of its entries.                                   *)
Level(order, f) == order \in Seq(Keys) /\ IsTable(f) /\ Lists(order, f)

(* A cache whose levels are consistent and hold at most a and b entries.   *)
Fits(c, a, b) ==
  /\ IsCache(c)
  /\ Lists(c.l1_order, c.l1) /\ Lists(c.l2_order, c.l2)
  /\ DOMAIN c.l1 \cap DOMAIN c.l2 = {}
  /\ Len(c.l1_order) <= a /\ Len(c.l2_order) <= b

(* What each key would be found with.                                      *)
View(c) == [k \in Keys |-> Found(c, k, TRUE)]

(* Whatever a level holds of a key is one of the states in p[k].           *)
StoredIn(c, p) ==
  \A k \in Keys :
    /\ k \in DOMAIN c.l1 => c.l1[k] \in p[k]
    /\ k \in DOMAIN c.l2 => c.l2[k] \in p[k]
    /\ c.db[k] \in p[k] \cup {None}

-----------------------------------------------------------------------------
(* Orders and tables.                                                      *)

(* An order is as long as its level is large.                              *)
LEMMA SizeIsLength ==
  ASSUME NEW order, NEW f, Level(order, f)
  PROVE  Size(f) = Len(order)
<1>1. order \in Seq(Keys) /\ Len(order) \in Nat /\ DOMAIN order = 1..Len(order)
  BY DEF Level
<1>2. IsFiniteSet(1..Len(order)) /\ Cardinality(1..Len(order)) = Len(order)
  BY <1>1, FS_Interval
<1>3. order \in Bijection(1..Len(order), DOMAIN f)
  <2>1. order \in [1..Len(order) -> DOMAIN f]
    BY <1>1 DEF Level, Lists, ToSet
  <2>2. \A i, j \in 1..Len(order) : order[i] = order[j] => i = j
    BY DEF Level, Lists
  <2>3. \A x \in DOMAIN f : \E i \in 1..Len(order) : order[i] = x
    BY <1>1 DEF Level, Lists, ToSet
  <2>. QED
    BY <2>1, <2>2, <2>3 DEF Bijection, Injection, Surjection, IsInjective
<1>4. ExistsBijection(1..Len(order), DOMAIN f)
  BY <1>3 DEF ExistsBijection
<1>. QED
  BY <1>2, <1>4, FS_Bijection DEF Size

(* A sequence without its n-th element.                                    *)
LEMMA Removal ==
  ASSUME NEW S, NEW s \in Seq(S), NEW n \in 1..Len(s)
  PROVE  /\ RemoveAt(s, n) \in Seq(S) /\ Len(RemoveAt(s, n)) = Len(s) - 1
         /\ \A i \in 1..Len(s) - 1 : RemoveAt(s, n)[i] = s[IF i < n THEN i ELSE i + 1]
<1>. DEFINE b == SubSeq(s, 1, n - 1)
            a == SubSeq(s, n + 1, Len(s))
<1>1. Len(s) \in Nat /\ n \in Nat /\ \A i \in 1..Len(s) : s[i] \in S
  OBVIOUS
<1>2. /\ b \in Seq(S) /\ Len(b) = n - 1
      /\ \A i \in 1..n - 1 : b[i] = s[i]
  <2>1. \A i \in 1..n - 1 : s[i] \in S
    BY <1>1
  <2>2. /\ b \in Seq(S)
        /\ Len(b) = IF 1 <= n - 1 THEN n - 1 - 1 + 1 ELSE 0
        /\ \A i \in 1..(n - 1 - 1 + 1) : b[i] = s[1 + i - 1]
    BY <2>1, <1>1, SubSeqProperties
  <2>. HIDE DEF b
  <2>3. \A i \in 1..n - 1 : 1 + i - 1 = i /\ i \in 1..(n - 1 - 1 + 1)
    BY <1>1
  <2>. QED
    BY <2>2, <2>3, <1>1
<1>3. /\ a \in Seq(S) /\ Len(a) = Len(s) - n
      /\ \A i \in 1..Len(s) - n : a[i] = s[n + i]
  <2>1. \A i \in (n + 1)..Len(s) : s[i] \in S
    BY <1>1
  <2>2. /\ a \in Seq(S)
        /\ Len(a) = IF n + 1 <= Len(s) THEN Len(s) - (n + 1) + 1 ELSE 0
        /\ \A i \in 1..(Len(s) - (n + 1) + 1) : a[i] = s[(n + 1) + i - 1]
    BY <2>1, <1>1, SubSeqProperties
  <2>. HIDE DEF a
  <2>3. \A i \in 1..Len(s) - n : (n + 1) + i - 1 = n + i /\ i \in 1..(Len(s) - (n + 1) + 1)
    BY <1>1
  <2>. QED
    BY <2>2, <2>3, <1>1
<1>4. RemoveAt(s, n) = b \o a
  BY DEF RemoveAt
<1>. HIDE DEF a, b
<1>5. b \o a \in Seq(S) /\ Len(b \o a) = Len(s) - 1
  BY <1>1, <1>2, <1>3
<1>6. ASSUME NEW i \in 1..Len(s) - 1
      PROVE  (b \o a)[i] = s[IF i < n THEN i ELSE i + 1]
  <2>1. CASE i < n
    BY <2>1, <1>1, <1>2, <1>3
  <2>2. CASE i >= n
    <3>1. (b \o a)[i] = a[i - (n - 1)] /\ i - (n - 1) \in 1..Len(s) - n
      BY <2>2, <1>1, <1>2, <1>3
    <3>2. n + (i - (n - 1)) = i + 1
      BY <1>1
    <3>. QED
      BY <3>1, <3>2, <2>2, <1>1, <1>3
  <2>3. i < n \/ i >= n
    BY <1>1
  <2>. QED
    BY <2>1, <2>2, <2>3, Zenon
<1>. QED
  BY <1>4, <1>5, <1>6

(* A new entry at the end.                                                 *)
LEMMA Linking ==
  ASSUME NEW order, NEW f, Level(order, f),
         NEW k \in Keys, k \notin DOMAIN f, NEW s \in States
  PROVE  /\ Level(Append(order, k), With(f, k, s))
         /\ Len(Append(order, k)) = Len(order) + 1
<1>1. order \in Seq(Keys) /\ Append(order, k) \in Seq(Keys)
  BY DEF Level
<1>2. IsTable(With(f, k, s))
  BY DEF Level, IsTable, With
<1>3. ToSet(Append(order, k)) = DOMAIN f \cup {k}
  BY <1>1 DEF Level, Lists, ToSet
<1>4. ASSUME NEW i \in 1..Len(Append(order, k)), NEW j \in 1..Len(Append(order, k)),
             Append(order, k)[i] = Append(order, k)[j]
      PROVE  i = j
  BY <1>1, <1>4 DEF Level, Lists, ToSet
<1>5. DOMAIN With(f, k, s) = DOMAIN f \cup {k}
  BY DEF With
<1>. QED
  BY <1>1, <1>2, <1>3, <1>4, <1>5 DEF Level, Lists

(* An entry erased through its iterator, or none.                          *)
LEMMA Unlinking ==
  ASSUME NEW order, NEW f, Level(order, f), NEW k \in Keys
  PROVE  /\ Level(Unlinked(order, k), Without(f, k))
         /\ Len(Unlinked(order, k)) <= Len(order)
         /\ k \in DOMAIN f => Len(Unlinked(order, k)) = Len(order) - 1
<1>1. order \in Seq(Keys) /\ DOMAIN order = 1..Len(order) /\ Len(order) \in Nat
  BY DEF Level
<1>2. IsTable(Without(f, k)) /\ DOMAIN Without(f, k) = DOMAIN f \ {k}
  BY DEF Level, IsTable, Without
<1>3. k \in DOMAIN f <=> \E i \in 1..Len(order) : order[i] = k
  BY <1>1 DEF Level, Lists, ToSet
<1>4. CASE k \notin DOMAIN f
  <2>1. Unlinked(order, k) = order
    BY <1>3, <1>4 DEF Unlinked
  <2>2. DOMAIN f \ {k} = DOMAIN f
    BY <1>4
  <2>3. Lists(order, Without(f, k))
    BY <2>2, <1>2 DEF Level, Lists
  <2>4. Level(order, Without(f, k))
    BY <2>3, <1>1, <1>2 DEF Level
  <2>5. Len(order) <= Len(order)
    BY <1>1
  <2>. QED
    BY <2>1, <2>4, <2>5, <1>4, Zenon
<1>5. CASE k \in DOMAIN f
  <2>. DEFINE n == CHOOSE i \in 1..Len(order) : order[i] = k
              u == RemoveAt(order, n)
  <2>1. n \in 1..Len(order) /\ order[n] = k
    BY <1>3, <1>5
  <2>2. Unlinked(order, k) = u
    BY <1>3, <1>5 DEF Unlinked
  <2>. HIDE DEF n
  <2>3. u \in Seq(Keys) /\ Len(u) = Len(order) - 1
    BY <1>1, <2>1, Removal
  <2>4. \A i \in 1..Len(u) : u[i] = order[IF i < n THEN i ELSE i + 1]
    BY <1>1, <2>1, <2>3, Removal
  <2>. HIDE DEF u
  <2>5. ToSet(u) = DOMAIN f \ {k}
    <3>1. ASSUME NEW i \in 1..Len(u) PROVE u[i] \in DOMAIN f \ {k}
      <4>1. (IF i < n THEN i ELSE i + 1) \in 1..Len(order) \ {n}
        BY <2>1, <2>3, <1>1
      <4>. QED
        BY <4>1, <2>1, <2>4, <1>1 DEF Level, Lists, ToSet
    <3>2. ASSUME NEW x \in DOMAIN f \ {k} PROVE \E i \in 1..Len(u) : u[i] = x
      <4>1. PICK j \in 1..Len(order) : order[j] = x
        BY <1>1 DEF Level, Lists, ToSet
      <4>2. j # n
        BY <4>1, <2>1
      <4>3. CASE j < n
        BY <4>1, <4>3, <2>1, <2>3, <2>4, <1>1
      <4>4. CASE j > n
        <5>1. j - 1 \in 1..Len(u) /\ ~(j - 1 < n) /\ (j - 1) + 1 = j
          BY <4>4, <2>1, <2>3, <1>1
        <5>. QED
          BY <5>1, <4>1, <2>4
      <4>. QED
        BY <4>2, <4>3, <4>4, <2>1
    <3>3. DOMAIN u = 1..Len(u)
      BY <2>3
    <3>. QED
      BY <3>1, <3>2, <3>3 DEF ToSet
  <2>6. \A i, j \in 1..Len(u) : u[i] = u[j] => i = j
    <3>. SUFFICES ASSUME NEW i \in 1..Len(u), NEW j \in 1..Len(u), u[i] = u[j]
                  PROVE  i = j
      OBVIOUS
    <3>. DEFINE at(x) == IF x < n THEN x ELSE x + 1
    <3>1. at(i) \in 1..Len(order) /\ at(j) \in 1..Len(order)
      BY <2>1, <2>3, <1>1
    <3>2. order[at(i)] = order[at(j)]
      BY <2>4
    <3>3. at(i) = at(j)
      BY <3>1, <3>2 DEF Level, Lists
    <3>. QED
      BY <3>3, <2>1, <2>3, <1>1
  <2>. QED
    BY <2>2, <2>3, <2>5, <2>6, <1>1, <1>2 DEF Level, Lists
<1>. QED
  BY <1>4, <1>5

(* The least recently used entry.                                          *)
LEMMA Popping ==
  ASSUME NEW order, NEW f, Level(order, f), Len(order) # 0
  PROVE  /\ Head(order) \in DOMAIN f /\ Head(order) \in Keys
         /\ Level(Tail(order), Without(f, Head(order)))
         /\ Len(Tail(order)) = Len(order) - 1
<1>1. /\ order \in Seq(Keys) /\ DOMAIN order = 1..Len(order) /\ Len(order) \in Nat
      /\ order # <<>>
  BY DEF Level
<1>2. Head(order) = order[1] /\ 1 \in 1..Len(order)
  BY <1>1
<1>3. Head(order) \in DOMAIN f /\ Head(order) \in Keys
  BY <1>1, <1>2 DEF Level, Lists, ToSet
<1>4. /\ Tail(order) \in Seq(Keys) /\ Len(Tail(order)) = Len(order) - 1
      /\ \A i \in 1..Len(Tail(order)) : Tail(order)[i] = order[i + 1]
  BY <1>1
<1>5. ToSet(Tail(order)) = DOMAIN f \ {Head(order)}
  <2>1. ASSUME NEW i \in 1..Len(Tail(order)) PROVE Tail(order)[i] \in DOMAIN f \ {Head(order)}
    BY <1>1, <1>2, <1>4 DEF Level, Lists, ToSet
  <2>2. ASSUME NEW x \in DOMAIN f \ {Head(order)}
        PROVE  \E i \in 1..Len(Tail(order)) : Tail(order)[i] = x
    <3>1. PICK j \in 1..Len(order) : order[j] = x
      BY <1>1 DEF Level, Lists, ToSet
    <3>2. j - 1 \in 1..Len(Tail(order)) /\ (j - 1) + 1 = j
      BY <3>1, <1>1, <1>2, <1>4
    <3>. QED
      BY <3>1, <3>2, <1>4
  <2>3. DOMAIN Tail(order) = 1..Len(Tail(order))
    BY <1>4
  <2>. QED
    BY <2>1, <2>2, <2>3 DEF ToSet
<1>6. \A i, j \in 1..Len(Tail(order)) : Tail(order)[i] = Tail(order)[j] => i = j
  BY <1>1, <1>4 DEF Level, Lists
<1>7. IsTable(Without(f, Head(order))) /\ DOMAIN Without(f, Head(order)) = DOMAIN f \ {Head(order)}
  BY DEF Level, IsTable, Without
<1>. QED
  BY <1>3, <1>4, <1>5, <1>6, <1>7 DEF Level, Lists

-----------------------------------------------------------------------------
(* The operations of the manager.                                          *)

(* An entry that leaves the second level is in the database, unless the     *)
(* disk failed.                                                            *)
LEMMA EvictingL2 ==
  ASSUME NEW c, NEW a, NEW disk \in BOOLEAN, NEW p,
         Fits(c, a, L2Capacity + 1), StoredIn(c, p)
  PROVE  LET e == EvictL2(c, disk)
         IN  /\ Fits(e, a, L2Capacity) /\ StoredIn(e, p)
             /\ disk => View(e) = View(c)
<1>. DEFINE e == EvictL2(c, disk)
            k == Head(c.l2_order)
<1>1. Level(c.l2_order, c.l2) /\ Size(c.l2) = Len(c.l2_order) /\ L2Capacity \in Nat
  BY SizeIsLength, StateCacheAssumption DEF Fits, IsCache, Level
<1>2. Len(c.l2_order) \in Nat
  BY <1>1 DEF Level
<1>3. CASE Size(c.l2) <= L2Capacity
  BY <1>1, <1>3 DEF EvictL2, Fits
<1>4. CASE ~(Size(c.l2) <= L2Capacity)
  <2>1. Len(c.l2_order) # 0 /\ Len(c.l2_order) = L2Capacity + 1
    BY <1>1, <1>2, <1>4 DEF Fits
  <2>2. /\ k \in DOMAIN c.l2 /\ k \in Keys
        /\ Level(Tail(c.l2_order), Without(c.l2, k))
        /\ Len(Tail(c.l2_order)) = L2Capacity
    BY <2>1, <1>1, Popping
  <2>3. e = [l1 |-> c.l1, l2 |-> Without(c.l2, k), l1_order |-> c.l1_order,
             l2_order |-> Tail(c.l2_order),
             db |-> [c.db EXCEPT ![k] = IF disk THEN c.l2[k] ELSE @]]
    BY <1>4 DEF EvictL2, Persisted, Fits, IsCache
  <2>. HIDE DEF e, k
  <2>4. c.l2[k] \in States /\ c.db \in [Keys -> States \cup {None}]
    BY <2>2 DEF Fits, IsCache, IsTable
  <2>5. e.db \in [Keys -> States \cup {None}]
    BY <2>3, <2>4
  <2>6. DOMAIN e.l2 = DOMAIN c.l2 \ {k} /\ \A x \in DOMAIN e.l2 : e.l2[x] = c.l2[x]
    BY <2>3 DEF Without
  <2>7. IsCache(e)
    BY <2>2, <2>3, <2>5 DEF IsCache, Fits, Level
  <2>8. Fits(e, a, L2Capacity)
    BY <2>2, <2>3, <2>6, <2>7, <1>1 DEF Fits, Level
  <2>9. \A x \in Keys : e.db[x] = IF x = k /\ disk THEN c.l2[k] ELSE c.db[x]
    BY <2>3, <2>4
  <2>10. StoredIn(e, p)
    BY <2>2, <2>3, <2>6, <2>9 DEF StoredIn
  <2>11. ASSUME disk PROVE View(e) = View(c)
    <3>1. ASSUME NEW x \in Keys PROVE Found(e, x, TRUE) = Found(c, x, TRUE)
      BY <2>2, <2>3, <2>6, <2>9, <2>11 DEF Found, Fits
    <3>. QED
      BY <3>1 DEF View
  <2>. QED
    BY <2>8, <2>10, <2>11 DEF e
<1>. QED
  BY <1>3, <1>4

(* An entry that leaves the first level is in the second or further down.  *)
LEMMA EvictingL1 ==
  ASSUME NEW c, NEW disk \in BOOLEAN, NEW p,
         Fits(c, L1Capacity + 1, L2Capacity), StoredIn(c, p)
  PROVE  LET e == EvictL1(c, disk)
         IN  /\ Fits(e, L1Capacity, L2Capacity) /\ StoredIn(e, p)
             /\ disk => View(e) = View(c)
<1>. DEFINE k == Head(c.l1_order)
            moved == [c EXCEPT !.l1_order = Tail(@), !.l1 = Without(@, k),
                               !.l2_order = Append(@, k), !.l2 = With(@, k, c.l1[k])]
            m == IF Size(c.l1) <= L1Capacity THEN c ELSE moved
<1>1. /\ Level(c.l1_order, c.l1) /\ Size(c.l1) = Len(c.l1_order) /\ L1Capacity \in Nat
      /\ Level(c.l2_order, c.l2) /\ L2Capacity \in Nat
  BY SizeIsLength, StateCacheAssumption DEF Fits, IsCache, Level
<1>2. Len(c.l1_order) \in Nat /\ Len(c.l2_order) \in Nat
  BY <1>1 DEF Level
<1>3. Fits(m, L1Capacity, L2Capacity + 1) /\ StoredIn(m, p) /\ View(m) = View(c)
  <2>1. CASE Size(c.l1) <= L1Capacity
    <3>1. m = c
      BY <2>1
    <3>2. Len(c.l2_order) <= L2Capacity + 1 /\ Len(c.l1_order) <= L1Capacity
      BY <2>1, <1>1, <1>2 DEF Fits
    <3>. QED
      BY <3>1, <3>2 DEF Fits
  <2>2. CASE ~(Size(c.l1) <= L1Capacity)
    <3>1. Len(c.l1_order) # 0 /\ Len(c.l1_order) = L1Capacity + 1
      BY <1>1, <1>2, <2>2 DEF Fits
    <3>2. /\ k \in DOMAIN c.l1 /\ k \in Keys
          /\ Level(Tail(c.l1_order), Without(c.l1, k))
          /\ Len(Tail(c.l1_order)) = L1Capacity
      BY <3>1, <1>1, Popping
    <3>3. m = [l1 |-> Without(c.l1, k), l2 |-> With(c.l2, k, c.l1[k]),
               l1_order |-> Tail(c.l1_order), l2_order |-> Append(c.l2_order, k),
               db |-> c.db]
      BY <2>2 DEF Fits, IsCache
    <3>. HIDE DEF m, moved, k
    <3>4. k \notin DOMAIN c.l2 /\ c.l1[k] \in States
      BY <3>2 DEF Fits, IsCache, IsTable
    <3>5. /\ Level(Append(c.l2_order, k), With(c.l2, k, c.l1[k]))
          /\ Len(Append(c.l2_order, k)) <= L2Capacity + 1
      <4>1. Len(Append(c.l2_order, k)) = Len(c.l2_order) + 1
        BY <3>2, <3>4, <1>1, Linking
      <4>2. Len(c.l2_order) <= L2Capacity
        BY DEF Fits
      <4>. QED
        BY <4>1, <4>2, <3>2, <3>4, <1>1, <1>2, Linking
    <3>6. /\ DOMAIN m.l1 = DOMAIN c.l1 \ {k} /\ \A x \in DOMAIN m.l1 : m.l1[x] = c.l1[x]
          /\ DOMAIN m.l2 = DOMAIN c.l2 \cup {k}
          /\ \A x \in DOMAIN m.l2 : m.l2[x] = IF x = k THEN c.l1[k] ELSE c.l2[x]
      BY <3>3 DEF With, Without
    <3>7. IsCache(m)
      BY <3>2, <3>3, <3>5 DEF IsCache, Fits, Level
    <3>8. Fits(m, L1Capacity, L2Capacity + 1)
      <4>1. DOMAIN m.l1 \cap DOMAIN m.l2 = {}
        BY <3>6 DEF Fits
      <4>. QED
        BY <4>1, <3>2, <3>3, <3>5, <3>7, <1>1 DEF Fits, Level
    <3>9. StoredIn(m, p)
      BY <3>2, <3>3, <3>6 DEF StoredIn
    <3>10. View(m) = View(c)
      <4>1. ASSUME NEW x \in Keys PROVE Found(m, x, TRUE) = Found(c, x, TRUE)
        BY <3>2, <3>3, <3>4, <3>6 DEF Found, Fits
      <4>. QED
        BY <4>1 DEF View
    <3>. QED
      BY <3>8, <3>9, <3>10
  <2>. QED
    BY <2>1, <2>2
<1>4. EvictL1(c, disk) = EvictL2(m, disk)
  BY DEF EvictL1
<1>. HIDE DEF m
<1>. QED
  BY <1>3, <1>4, EvictingL2

(* An entry leaves the levels it is in; the others stay.                   *)
LEMMA Erasing ==
  ASSUME NEW c, NEW k \in Keys, NEW p,
         Fits(c, L1Capacity, L2Capacity), StoredIn(c, p)
  PROVE  LET e == Erased(c, k)
         IN  /\ Fits(e, L1Capacity, L2Capacity) /\ StoredIn(e, p) /\ e.db = c.db
             /\ k \notin DOMAIN e.l1 /\ k \notin DOMAIN e.l2
             /\ \A x \in Keys \ {k} : Found(e, x, TRUE) = Found(c, x, TRUE)
<1>. DEFINE e == Erased(c, k)
<1>1. Level(c.l1_order, c.l1) /\ Level(c.l2_order, c.l2)
  BY DEF Fits, IsCache, Level
<1>2. /\ Level(Unlinked(c.l1_order, k), Without(c.l1, k))
      /\ Len(Unlinked(c.l1_order, k)) <= Len(c.l1_order)
      /\ Level(Unlinked(c.l2_order, k), Without(c.l2, k))
      /\ Len(Unlinked(c.l2_order, k)) <= Len(c.l2_order)
  BY <1>1, Unlinking
<1>0. e = [c EXCEPT !.l1_order = Unlinked(@, k), !.l1 = Without(@, k),
                    !.l2_order = Unlinked(@, k), !.l2 = Without(@, k)]
  BY DEF Erased
<1>. HIDE DEF e
<1>3. e = [l1 |-> Without(c.l1, k), l2 |-> Without(c.l2, k),
           l1_order |-> Unlinked(c.l1_order, k), l2_order |-> Unlinked(c.l2_order, k),
           db |-> c.db]
  BY <1>0 DEF Fits, IsCache
<1>4. /\ DOMAIN e.l1 = DOMAIN c.l1 \ {k} /\ \A x \in DOMAIN e.l1 : e.l1[x] = c.l1[x]
      /\ DOMAIN e.l2 = DOMAIN c.l2 \ {k} /\ \A x \in DOMAIN e.l2 : e.l2[x] = c.l2[x]
  BY <1>3 DEF Without
<1>5. IsCache(e)
  BY <1>2, <1>3 DEF IsCache, Fits, Level
<1>6. Len(e.l1_order) <= L1Capacity /\ Len(e.l2_order) <= L2Capacity
  BY StateCacheAssumption, <1>1, <1>2, <1>3 DEF Fits, Level
<1>7. Fits(e, L1Capacity, L2Capacity)
  BY <1>2, <1>3, <1>4, <1>5, <1>6 DEF Fits, Level
<1>8. StoredIn(e, p)
  BY <1>3, <1>4 DEF StoredIn
<1>9. \A x \in Keys \ {k} : Found(e, x, TRUE) = Found(c, x, TRUE)
  BY <1>3, <1>4 DEF Found
<1>10. e.db = c.db /\ k \notin DOMAIN e.l1 /\ k \notin DOMAIN e.l2
  BY <1>3, <1>4
<1>. QED
  BY <1>7, <1>8, <1>9, <1>10, Zenon DEF e

(* A state that enters the first level is what its key is found with.      *)
LEMMA Promoting ==
  ASSUME NEW c, NEW k \in Keys, NEW s \in States, NEW disk \in BOOLEAN, NEW p,
         Fits(c, L1Capacity, L2Capacity), StoredIn(c, p),
         k \notin DOMAIN c.l1, k \notin DOMAIN c.l2, s \in p[k]
  PROVE  LET e == Promoted(c, k, s, disk)
         IN  /\ Fits(e, L1Capacity, L2Capacity) /\ StoredIn(e, p)
             /\ disk => View(e) = [View(c) EXCEPT ![k] = s]
<1>. DEFINE m == [c EXCEPT !.l1_order = Append(@, k), !.l1 = With(@, k, s)]
<1>1. Level(c.l1_order, c.l1) /\ L1Capacity \in Nat /\ L2Capacity \in Nat
  BY StateCacheAssumption DEF Fits, IsCache, Level
<1>2. /\ Level(Append(c.l1_order, k), With(c.l1, k, s))
      /\ Len(Append(c.l1_order, k)) = Len(c.l1_order) + 1
  BY <1>1, Linking
<1>3a. m = [c EXCEPT !.l1_order = Append(@, k), !.l1 = With(@, k, s)]
  OBVIOUS
<1>4. Promoted(c, k, s, disk) = EvictL1(m, disk)
  BY DEF Promoted
<1>. HIDE DEF m
<1>3. m = [l1 |-> With(c.l1, k, s), l2 |-> c.l2, l1_order |-> Append(c.l1_order, k),
           l2_order |-> c.l2_order, db |-> c.db]
  BY <1>3a DEF Fits, IsCache
<1>5. /\ DOMAIN m.l1 = DOMAIN c.l1 \cup {k}
      /\ \A x \in DOMAIN m.l1 : m.l1[x] = IF x = k THEN s ELSE c.l1[x]
  BY <1>3 DEF With
<1>6. IsCache(m)
  BY <1>2, <1>3 DEF IsCache, Fits, Level
<1>7. Len(m.l1_order) <= L1Capacity + 1
  BY <1>1, <1>2, <1>3 DEF Fits, Level
<1>8. Fits(m, L1Capacity + 1, L2Capacity)
  BY <1>2, <1>3, <1>5, <1>6, <1>7 DEF Fits, Level
<1>9. StoredIn(m, p)
  BY <1>3, <1>5 DEF StoredIn
<1>10. View(m) = [View(c) EXCEPT ![k] = s]
  <2>1. ASSUME NEW x \in Keys
        PROVE  Found(m, x, TRUE) = IF x = k THEN s ELSE Found(c, x, TRUE)
    BY <1>3, <1>5 DEF Found
  <2>. QED
    BY <2>1 DEF View
<1>. QED
  BY <1>4, <1>8, <1>9, <1>10, EvictingL1

(* What a level holds stays among the states of its key when these grow.   *)
LEMMA StoredInMore ==
  ASSUME NEW c, NEW p, NEW q, StoredIn(c, p), \A k \in Keys : p[k] \subseteq q[k]
  PROVE  StoredIn(c, q)
BY DEF StoredIn

(* A put is found by the next get, and nothing else has changed.           *)
LEMMA Putting ==
  ASSUME NEW c, NEW k \in Keys, NEW s \in States, NEW disk \in BOOLEAN,
         NEW p \in [Keys -> SUBSET States],
         Fits(c, L1Capacity, L2Capacity), StoredIn(c, p)
  PROVE  LET e == PutState(c, k, s, disk)
             q == [p EXCEPT ![k] = @ \cup {s}]
         IN  /\ Fits(e, L1Capacity, L2Capacity) /\ StoredIn(e, q)
             /\ disk => View(e) = [View(c) EXCEPT ![k] = s]
<1>. DEFINE q == [p EXCEPT ![k] = @ \cup {s}]
            m == Erased(c, k)
<1>0. s \in q[k] /\ \A x \in Keys : p[x] \subseteq q[x]
  OBVIOUS
<1>. HIDE DEF q
<1>1. StoredIn(c, q) /\ s \in q[k]
  BY <1>0, StoredInMore
<1>2. /\ Fits(m, L1Capacity, L2Capacity) /\ StoredIn(m, q)
      /\ k \notin DOMAIN m.l1 /\ k \notin DOMAIN m.l2
      /\ \A x \in Keys \ {k} : Found(m, x, TRUE) = Found(c, x, TRUE)
  <2>2. LET e == Erased(c, k)
        IN  /\ Fits(e, L1Capacity, L2Capacity) /\ StoredIn(e, q) /\ e.db = c.db
            /\ k \notin DOMAIN e.l1 /\ k \notin DOMAIN e.l2
            /\ \A x \in Keys \ {k} : Found(e, x, TRUE) = Found(c, x, TRUE)
    BY <1>1, Erasing, Zenon
  <2>. QED
    BY <2>2, Zenon
<1>3. [View(m) EXCEPT ![k] = s] = [View(c) EXCEPT ![k] = s]
  BY <1>2 DEF View
<1>4. PutState(c, k, s, disk) = Promoted(m, k, s, disk)
  BY DEF PutState
<1>. HIDE DEF m
<1>5. LET e == Promoted(m, k, s, disk)
      IN  /\ Fits(e, L1Capacity, L2Capacity) /\ StoredIn(e, q)
          /\ disk => View(e) = [View(m) EXCEPT ![k] = s]
  BY <1>1, <1>2, Promoting, Zenon
<1>. QED
  BY <1>3, <1>4, <1>5, Zenon DEF q

(* A get moves the entry it finds and changes nothing that is found.       *)
LEMMA Getting ==
  ASSUME NEW c, NEW k \in Keys, NEW disk \in BOOLEAN, NEW p,
         Fits(c, L1Capacity, L2Capacity), StoredIn(c, p)
  PROVE  LET e == GetState(c, k, disk)
         IN  /\ Fits(e, L1Capacity, L2Capacity) /\ StoredIn(e, p)
             /\ disk => View(e) = View(c)
             /\ Found(c, k, disk) \in States \cup {None}
<1>1. Found(c, k, disk) \in States \cup {None}
  BY DEF Found, Fits, IsCache, IsTable
<1>2. CASE k \in DOMAIN c.l1
  <2>. DEFINE o == Append(Unlinked(c.l1_order, k), k)
              e == GetState(c, k, disk)
  <2>1. Level(c.l1_order, c.l1) /\ c.l1[k] \in States
    BY <1>2 DEF Fits, IsCache, Level, IsTable
  <2>2. /\ Level(Unlinked(c.l1_order, k), Without(c.l1, k))
        /\ Len(Unlinked(c.l1_order, k)) = Len(c.l1_order) - 1
    BY <1>2, <2>1, Unlinking
  <2>3. k \notin DOMAIN Without(c.l1, k)
    BY DEF Without
  <2>4. /\ Level(o, With(Without(c.l1, k), k, c.l1[k]))
        /\ Len(o) = Len(Unlinked(c.l1_order, k)) + 1
    BY <2>1, <2>2, <2>3, Linking
  <2>5. Len(o) = Len(c.l1_order)
    BY <2>1, <2>2, <2>4 DEF Level
  <2>6. DOMAIN With(Without(c.l1, k), k, c.l1[k]) = DOMAIN c.l1
    BY <1>2 DEF With, Without
  <2>7. e = [l1 |-> c.l1, l2 |-> c.l2, l1_order |-> o, l2_order |-> c.l2_order, db |-> c.db]
    BY <1>2 DEF GetState, Fits, IsCache
  <2>. HIDE DEF o, e
  <2>8. o \in Seq(Keys) /\ Lists(o, c.l1)
    BY <2>4, <2>6 DEF Level, Lists
  <2>9. IsCache(e)
    BY <2>7, <2>8 DEF IsCache, Fits
  <2>10. Fits(e, L1Capacity, L2Capacity)
    BY <2>5, <2>7, <2>8, <2>9 DEF Fits
  <2>11. StoredIn(e, p)
    BY <2>7 DEF StoredIn
  <2>12. View(e) = View(c)
    <3>1. ASSUME NEW x \in Keys PROVE Found(e, x, TRUE) = Found(c, x, TRUE)
      BY <2>7 DEF Found
    <3>. QED
      BY <3>1 DEF View
  <2>. QED
    BY <2>10, <2>11, <2>12, <1>1 DEF e
<1>3. CASE k \notin DOMAIN c.l1 /\ Found(c, k, disk) = None
  BY <1>1, <1>3 DEF GetState
<1>4. CASE k \notin DOMAIN c.l1 /\ Found(c, k, disk) # None
  <2>. DEFINE m == Erased(c, k)
              s == Found(c, k, disk)
  <2>1. GetState(c, k, disk) = Promoted(m, k, s, disk)
    BY <1>4 DEF GetState
  <2>2. /\ Fits(m, L1Capacity, L2Capacity) /\ StoredIn(m, p)
        /\ k \notin DOMAIN m.l1 /\ k \notin DOMAIN m.l2
        /\ \A x \in Keys \ {k} : Found(m, x, TRUE) = Found(c, x, TRUE)
    <3>2. LET e == Erased(c, k)
          IN  /\ Fits(e, L1Capacity, L2Capacity) /\ StoredIn(e, p) /\ e.db = c.db
              /\ k \notin DOMAIN e.l1 /\ k \notin DOMAIN e.l2
              /\ \A x \in Keys \ {k} : Found(e, x, TRUE) = Found(c, x, TRUE)
      BY Erasing, Zenon
    <3>. QED
      BY <3>2, Zenon
  <2>3. s \in States /\ s \in p[k]
    BY <1>1, <1>4 DEF Found, StoredIn
  <2>4. disk => [View(m) EXCEPT ![k] = s] = View(c)
    BY <2>2, <1>4 DEF View, Found
  <2>. HIDE DEF m, s
  <2>5. LET e == Promoted(m, k, s, disk)
        IN  /\ Fits(e, L1Capacity, L2Capacity) /\ StoredIn(e, p)
            /\ disk => View(e) = [View(m) EXCEPT ![k] = s]
    BY <2>2, <2>3, Promoting
  <2>. QED
    BY <2>1, <2>4, <2>5, <1>1
<1>. QED
  BY <1>2, <1>3, <1>4

(* A deletion leaves nothing of its key, unless the disk failed.           *)
LEMMA Deleting ==
  ASSUME NEW c, NEW k \in Keys, NEW disk \in BOOLEAN, NEW p \in [Keys -> SUBSET States],
         Fits(c, L1Capacity, L2Capacity), StoredIn(c, p)
  PROVE  LET e == DeletedState(c, k, disk)
         IN  /\ Fits(e, L1Capacity, L2Capacity)
             /\ disk => /\ StoredIn(e, [p EXCEPT ![k] = {}])
                        /\ View(e) = [View(c) EXCEPT ![k] = None]
<1>. DEFINE m == Erased(c, k)
            e == DeletedState(c, k, disk)
<1>1. LET x == Erased(c, k)
      IN  /\ Fits(x, L1Capacity, L2Capacity) /\ StoredIn(x, p) /\ x.db = c.db
          /\ k \notin DOMAIN x.l1 /\ k \notin DOMAIN x.l2
          /\ \A y \in Keys \ {k} : Found(x, y, TRUE) = Found(c, y, TRUE)
  BY Erasing, Zenon
<1>2. e = [m EXCEPT !.db = [m.db EXCEPT ![k] = IF disk THEN None ELSE @]]
  BY DEF DeletedState
<1>. HIDE DEF m, e
<1>3. /\ Fits(m, L1Capacity, L2Capacity) /\ StoredIn(m, p)
      /\ k \notin DOMAIN m.l1 /\ k \notin DOMAIN m.l2
      /\ \A y \in Keys \ {k} : Found(m, y, TRUE) = Found(c, y, TRUE)
  BY <1>1, Zenon DEF m
<1>4. e = [l1 |-> m.l1, l2 |-> m.l2, l1_order |-> m.l1_order, l2_order |-> m.l2_order,
           db |-> [m.db EXCEPT ![k] = IF disk THEN None ELSE @]]
  BY <1>2, <1>3 DEF Fits, IsCache
<1>5. m.db \in [Keys -> States \cup {None}]
  BY <1>3 DEF Fits, IsCache
<1>6. \A x \in Keys : e.db[x] = IF x = k /\ disk THEN None ELSE m.db[x]
  BY <1>4, <1>5
<1>7. e.db \in [Keys -> States \cup {None}]
  BY <1>4, <1>5
<1>8. IsCache(e)
  BY <1>3, <1>4, <1>7 DEF IsCache, Fits
<1>9. Fits(e, L1Capacity, L2Capacity)
  BY <1>3, <1>4, <1>8 DEF Fits
<1>10. ASSUME disk PROVE StoredIn(e, [p EXCEPT ![k] = {}])
  BY <1>3, <1>4, <1>6, <1>10 DEF StoredIn
<1>11. ASSUME disk PROVE View(e) = [View(c) EXCEPT ![k] = None]
  <2>1. ASSUME NEW x \in Keys
        PROVE  Found(e, x, TRUE) = IF x = k THEN None ELSE Found(c, x, TRUE)
    <3>1. CASE x = k
      BY <3>1, <1>3, <1>4, <1>6, <1>11 DEF Found
    <3>2. CASE x # k
      <4>1. Found(e, x, TRUE) = Found(m, x, TRUE)
        BY <3>2, <1>4, <1>6 DEF Found
      <4>. QED
        BY <4>1, <3>2, <1>3
    <3>. QED
      BY <3>1, <3>2
  <2>. QED
    BY <2>1 DEF View
<1>. QED
  BY <1>9, <1>10, <1>11 DEF e

(* A process that ends leaves the rows it saved; an orderly one all.       *)
LEMMA Closing ==
  ASSUME NEW c, NEW saved, NEW p,
         Fits(c, L1Capacity, L2Capacity), StoredIn(c, p)
  PROVE  LET e == Closed(c, saved)
         IN  /\ Fits(e, L1Capacity, L2Capacity) /\ StoredIn(e, p)
             /\ e.l1_order = <<>> /\ e.l2_order = <<>>
             /\ \A k \in Keys : /\ View(e)[k] \in p[k] \cup {None}
                                /\ View(e)[k] # None => View(c)[k] # None
             /\ saved = Keys => View(e) = View(c)
<1>. DEFINE e == Closed(c, saved)
<1>1. e = [l1 |-> NoEntries, l2 |-> NoEntries, l1_order |-> <<>>, l2_order |-> <<>>,
           db |-> Saved(c, saved)]
  BY DEF Closed
<1>. HIDE DEF e
<1>2. \A k \in Keys : e.db[k] = IF k \notin saved THEN c.db[k]
                                ELSE IF k \in DOMAIN c.l2 THEN c.l2[k]
                                ELSE IF k \in DOMAIN c.l1 THEN c.l1[k] ELSE c.db[k]
  BY <1>1 DEF Saved
<1>3. /\ c.db \in [Keys -> States \cup {None}]
      /\ \A k \in DOMAIN c.l1 : c.l1[k] \in States
      /\ \A k \in DOMAIN c.l2 : c.l2[k] \in States
  BY DEF Fits, IsCache, IsTable
<1>4. e.db \in [Keys -> States \cup {None}]
  <2>1. \A k \in Keys : e.db[k] \in States \cup {None}
    BY <1>2, <1>3
  <2>2. e.db = [k \in Keys |-> e.db[k]]
    BY <1>1 DEF Saved
  <2>. QED
    BY <2>1, <2>2
<1>5. DOMAIN e.l1 = {} /\ DOMAIN e.l2 = {} /\ IsTable(e.l1) /\ IsTable(e.l2)
  BY <1>1 DEF NoEntries, IsTable
<1>6. IsCache(e)
  BY <1>1, <1>4, <1>5 DEF IsCache
<1>7. Fits(e, L1Capacity, L2Capacity)
  BY <1>1, <1>5, <1>6, StateCacheAssumption DEF Fits, Lists, ToSet
<1>8. StoredIn(e, p)
  BY <1>2, <1>5 DEF StoredIn
<1>9. \A k \in Keys : View(e)[k] = e.db[k]
  BY <1>5 DEF View, Found
<1>10. ASSUME NEW k \in Keys PROVE View(e)[k] # None => View(c)[k] # None
  <2>1. None \notin States
    BY StateCacheAssumption DEF States
  <2>. QED
    BY <1>2, <1>3, <1>9, <2>1 DEF View, Found
<1>11. ASSUME saved = Keys PROVE View(e) = View(c)
  <2>1. ASSUME NEW k \in Keys PROVE View(e)[k] = View(c)[k]
    BY <1>2, <1>9, <1>11 DEF View, Found, Fits
  <2>. QED
    BY <2>1 DEF View
<1>12. ASSUME NEW k \in Keys PROVE View(e)[k] \in p[k] \cup {None}
  BY <1>8, <1>9 DEF StoredIn
<1>. QED
  BY <1>1, <1>7, <1>8, <1>10, <1>11, <1>12 DEF e
-----------------------------------------------------------------------------
(* The cache in every state.  Whatever SQLite answers, a level and its      *)
(* order agree; once the manager is closed nothing enters them, and no      *)
(* deletion goes on.                                                       *)
ClosedIsEmpty  == ~initialized => cache.l1_order = <<>> /\ cache.l2_order = <<>>
DeletesAreOpen == \A d \in Deletes : deletion[d].stage \in {"plain", "listed"} => initialized
CacheInv ==
  /\ TypeOK /\ Fits(cache, L1Capacity, L2Capacity)
  /\ ClosedIsEmpty /\ DeletesAreOpen

(* Any state may be among those of a key: what is said of the levels under  *)
(* a set of past states holds of their types.                              *)
Anything == [k \in Keys |-> States]

(* Every level holds sequences of turns.                                   *)
LEMMA AnythingStored ==
  ASSUME CacheInv
  PROVE  StoredIn(cache, Anything) /\ Anything \in [Keys -> SUBSET States]
BY DEF CacheInv, TypeOK, IsCache, IsTable, StoredIn, Anything

(* A turn's get disturbs no state; unless the disk fails it reads the last. *)
LEMMA GetSteps ==
  ASSUME CacheInv, NEW r \in Turns, Get(r), NEW p, StoredIn(cache, p)
  PROVE  /\ Fits(cache', L1Capacity, L2Capacity) /\ StoredIn(cache', p)
         /\ held' \in [Turns -> States]
         /\ ~initialized => cache' = cache
         /\ ~DiskFails =>
              /\ View(cache') = View(cache)
              /\ held' = [held EXCEPT ![r] =
                   IF r \notin Fresh /\ initialized /\ View(cache)[KeyOf[r]] # None
                   THEN View(cache)[KeyOf[r]] ELSE <<>>]
<1>. DEFINE k == KeyOf[r]
            reads == initialized /\ r \notin Fresh
<1>1. PICK disk \in Disk :
        /\ held' = [held EXCEPT ![r] = Base(IF reads THEN Found(cache, k, disk) ELSE None)]
        /\ cache' = IF reads THEN GetState(cache, k, disk) ELSE cache
  BY DEF Get
<1>2. disk \in BOOLEAN /\ (~DiskFails => disk = TRUE) /\ k \in Keys
  BY StateCacheAssumption DEF Disk
<1>3. Fits(cache, L1Capacity, L2Capacity) /\ held \in [Turns -> States]
  BY DEF CacheInv, TypeOK
<1>. HIDE DEF k
<1>4. LET e == GetState(cache, k, disk)
      IN  /\ Fits(e, L1Capacity, L2Capacity) /\ StoredIn(e, p)
          /\ disk => View(e) = View(cache)
          /\ Found(cache, k, disk) \in States \cup {None}
  BY <1>2, <1>3, Getting, Zenon
<1>5. Fits(cache', L1Capacity, L2Capacity) /\ StoredIn(cache', p)
  BY <1>1, <1>3, <1>4
<1>6. <<>> \in States /\ None \notin States
  BY StateCacheAssumption DEF States
<1>7. held' \in [Turns -> States]
  BY <1>1, <1>3, <1>4, <1>6 DEF Base
<1>8. ~initialized => cache' = cache
  BY <1>1
<1>9. ASSUME ~DiskFails
      PROVE  /\ View(cache') = View(cache)
             /\ held' = [held EXCEPT ![r] =
                  IF r \notin Fresh /\ initialized /\ View(cache)[k] # None
                  THEN View(cache)[k] ELSE <<>>]
  <2>1. disk = TRUE
    BY <1>2, <1>9
  <2>2. View(cache') = View(cache)
    BY <1>1, <1>4, <2>1
  <2>3. View(cache)[k] = Found(cache, k, disk)
    BY <1>2, <2>1 DEF View
  <2>4. Base(IF reads THEN Found(cache, k, disk) ELSE None)
        = IF r \notin Fresh /\ initialized /\ View(cache)[k] # None
          THEN View(cache)[k] ELSE <<>>
    BY <2>3 DEF Base
  <2>. QED
    BY <1>1, <2>2, <2>4
<1>. QED
  BY <1>5, <1>7, <1>8, <1>9 DEF k

(* A turn's put: the key's state is the turn's, the others stay.           *)
LEMMA PutSteps ==
  ASSUME CacheInv, NEW r \in Turns, Put(r), NEW p \in [Keys -> SUBSET States],
         StoredIn(cache, p)
  PROVE  LET k == KeyOf[r]
             s == Append(held[r], r)
         IN  /\ Fits(cache', L1Capacity, L2Capacity) /\ s \in States
             /\ initialized => StoredIn(cache', [p EXCEPT ![k] = @ \cup {s}])
             /\ ~initialized => cache' = cache
             /\ initialized /\ ~DiskFails => View(cache') = [View(cache) EXCEPT ![k] = s]
<1>. DEFINE k == KeyOf[r]
            s == Append(held[r], r)
<1>1. k \in Keys /\ s \in States /\ Fits(cache, L1Capacity, L2Capacity)
  BY StateCacheAssumption DEF CacheInv, TypeOK, States
<1>2. CASE ~initialized
  <2>1. cache' = cache
    BY <1>2 DEF Put
  <2>. QED
    BY <1>1, <1>2, <2>1
<1>3. CASE initialized
  <2>1. PICK disk \in Disk : cache' = PutState(cache, k, s, disk)
    BY <1>3 DEF Put
  <2>2. disk \in BOOLEAN /\ (~DiskFails => disk = TRUE)
    BY StateCacheAssumption DEF Disk
  <2>. HIDE DEF k, s
  <2>3. LET e == PutState(cache, k, s, disk)
            q == [p EXCEPT ![k] = @ \cup {s}]
        IN  /\ Fits(e, L1Capacity, L2Capacity) /\ StoredIn(e, q)
            /\ disk => View(e) = [View(cache) EXCEPT ![k] = s]
    BY <1>1, <2>2, Putting, Zenon
  <2>4. /\ Fits(cache', L1Capacity, L2Capacity)
        /\ StoredIn(cache', [p EXCEPT ![k] = @ \cup {s}])
        /\ ~DiskFails => View(cache') = [View(cache) EXCEPT ![k] = s]
    BY <2>1, <2>2, <2>3
  <2>. QED
    BY <1>1, <1>3, <2>4 DEF k, s
<1>. QED
  BY <1>2, <1>3

(* One erasure of a deletion: the key is gone from every level.            *)
LEMMA DeleteSteps ==
  ASSUME CacheInv, NEW d \in Deletes, NEW k \in Keys, NEW next \in DeleteStages,
         NEW todo \in SUBSET (Levels \X Keys), DeleteKey(d, k, next, todo),
         NEW p \in [Keys -> SUBSET States], StoredIn(cache, p)
  PROVE  /\ Fits(cache', L1Capacity, L2Capacity)
         /\ deletion' \in [Deletes -> [stage : DeleteStages, todo : SUBSET (Levels \X Keys),
                                       found : BOOLEAN]]
         /\ deletion'[d].stage = next /\ deletion'[d].todo = todo
         /\ \A e \in Deletes \ {d} : deletion'[e] = deletion[e]
         /\ ~DiskFails => /\ StoredIn(cache', [p EXCEPT ![k] = {}])
                          /\ View(cache') = [View(cache) EXCEPT ![k] = None]
<1>1. PICK disk \in Disk :
        /\ cache' = DeletedState(cache, k, disk)
        /\ deletion' = [deletion EXCEPT ![d] =
             [stage |-> next, todo |-> todo, found |-> @.found \/ Had(cache, k, disk)]]
  BY DEF DeleteKey
<1>2. disk \in BOOLEAN /\ (~DiskFails => disk = TRUE)
  BY StateCacheAssumption DEF Disk
<1>3. Fits(cache, L1Capacity, L2Capacity)
  BY DEF CacheInv
<1>4. LET e == DeletedState(cache, k, disk)
      IN  /\ Fits(e, L1Capacity, L2Capacity)
          /\ disk => /\ StoredIn(e, [p EXCEPT ![k] = {}])
                     /\ View(e) = [View(cache) EXCEPT ![k] = None]
  BY <1>2, <1>3, Deleting, Zenon
<1>5. deletion \in [Deletes -> [stage : DeleteStages, todo : SUBSET (Levels \X Keys),
                                found : BOOLEAN]]
  BY DEF CacheInv, TypeOK
<1>. DEFINE found == deletion[d].found \/ Had(cache, k, disk)
<1>6. found \in BOOLEAN
  OBVIOUS
<1>7. deletion' = [deletion EXCEPT ![d] = [stage |-> next, todo |-> todo, found |-> found]]
  BY <1>1
<1>. HIDE DEF found
<1>8. /\ deletion' \in [Deletes -> [stage : DeleteStages, todo : SUBSET (Levels \X Keys),
                                    found : BOOLEAN]]
      /\ deletion'[d].stage = next /\ deletion'[d].todo = todo
      /\ \A e \in Deletes \ {d} : deletion'[e] = deletion[e]
  BY <1>5, <1>6, <1>7
<1>. QED
  BY <1>1, <1>2, <1>4, <1>8

(* When the process closes or ends, the levels are emptied, no state of     *)
(* another key or time comes up, and the deletions under way are cut.       *)
LEMMA CloseSteps ==
  ASSUME CacheInv, NEW saved, cache' = Closed(cache, saved), deletion' = Cut,
         NEW p, StoredIn(cache, p)
  PROVE  /\ Fits(cache', L1Capacity, L2Capacity) /\ StoredIn(cache', p)
         /\ cache'.l1_order = <<>> /\ cache'.l2_order = <<>>
         /\ \A k \in Keys : /\ View(cache')[k] \in p[k] \cup {None}
                            /\ View(cache')[k] # None => View(cache)[k] # None
         /\ saved = Keys => View(cache') = View(cache)
         /\ deletion' \in [Deletes -> [stage : DeleteStages, todo : SUBSET (Levels \X Keys),
                                       found : BOOLEAN]]
         /\ \A d \in Deletes : /\ deletion'[d].stage \notin {"plain", "listed"}
                               /\ deletion'[d].stage \in {"cut", deletion[d].stage}
<1>1. Fits(cache, L1Capacity, L2Capacity)
  BY DEF CacheInv
<1>2. LET e == Closed(cache, saved)
      IN  /\ Fits(e, L1Capacity, L2Capacity) /\ StoredIn(e, p)
          /\ e.l1_order = <<>> /\ e.l2_order = <<>>
          /\ \A k \in Keys : /\ View(e)[k] \in p[k] \cup {None}
                             /\ View(e)[k] # None => View(cache)[k] # None
          /\ saved = Keys => View(e) = View(cache)
  BY <1>1, Closing, Zenon
<1>3. deletion \in [Deletes -> [stage : DeleteStages, todo : SUBSET (Levels \X Keys),
                                found : BOOLEAN]]
  BY DEF CacheInv, TypeOK
<1>4. ASSUME NEW d \in Deletes
      PROVE  /\ deletion'[d] \in [stage : DeleteStages, todo : SUBSET (Levels \X Keys),
                                  found : BOOLEAN]
             /\ deletion'[d].stage \notin {"plain", "listed"}
             /\ deletion'[d].stage \in {"cut", deletion[d].stage}
  <2>. DEFINE c == [deletion[d] EXCEPT !.stage = "cut", !.todo = {}]
  <2>1. deletion'[d] = IF deletion[d].stage \in {"plain", "listed"} THEN c ELSE deletion[d]
    BY DEF Cut
  <2>2. c = [[deletion[d] EXCEPT !.stage = "cut"] EXCEPT !.todo = {}]
    OBVIOUS
  <2>. HIDE DEF c
  <2>3. PICK m : m = [deletion[d] EXCEPT !.stage = "cut"]
    OBVIOUS
  <2>4. /\ m \in [stage : DeleteStages, todo : SUBSET (Levels \X Keys), found : BOOLEAN]
        /\ m.stage = "cut"
    BY <1>3, <2>3 DEF DeleteStages
  <2>5. c = [m EXCEPT !.todo = {}]
    BY <2>2, <2>3
  <2>6. /\ c \in [stage : DeleteStages, todo : SUBSET (Levels \X Keys), found : BOOLEAN]
        /\ c.stage = "cut"
    BY <2>4, <2>5
  <2>. QED
    BY <1>3, <2>1, <2>6
<1>5. deletion' = [d \in Deletes |-> deletion'[d]]
  BY DEF Cut
<1>. QED
  BY <1>2, <1>4, <1>5

(* The empty cache holds nothing.                                          *)
LEMMA CacheInvInit == Init => CacheInv
<1>. SUFFICES ASSUME Init PROVE CacheInv
  OBVIOUS
<1>1. /\ DOMAIN cache.l1 = {} /\ DOMAIN cache.l2 = {}
      /\ cache.l1_order = <<>> /\ cache.l2_order = <<>>
      /\ cache.db \in [Keys -> States \cup {None}]
      /\ cache = [l1 |-> cache.l1, l2 |-> cache.l2, l1_order |-> cache.l1_order,
                  l2_order |-> cache.l2_order, db |-> cache.db]
  BY DEF Init, NoEntries
<1>2. IsTable(cache.l1) /\ IsTable(cache.l2)
  BY DEF Init, NoEntries, IsTable
<1>3. IsCache(cache)
  BY <1>1, <1>2 DEF IsCache
<1>4. Fits(cache, L1Capacity, L2Capacity)
  BY <1>1, <1>3, StateCacheAssumption DEF Fits, Lists, ToSet
<1>5. TypeOK
  BY <1>3, StateCacheAssumption DEF Init, TypeOK, TurnStages, DeleteStages, States
<1>. QED
  BY <1>1, <1>4, <1>5 DEF CacheInv, ClosedIsEmpty, DeletesAreOpen, Init

(* Every step keeps the invariant of the three levels.                      *)
LEMMA CacheInvStep == CacheInv /\ [Next]_vars => CacheInv'
<1>. SUFFICES ASSUME CacheInv, [Next]_vars PROVE CacheInv'
  OBVIOUS
<1>. USE DEF bounds, history, routes, manager
<1>1. /\ TypeOK /\ Fits(cache, L1Capacity, L2Capacity) /\ ClosedIsEmpty /\ DeletesAreOpen
      /\ StoredIn(cache, Anything) /\ Anything \in [Keys -> SUBSET States]
  BY AnythingStored DEF CacheInv
<1>2. ASSUME NEW c, Fits(c, L1Capacity, L2Capacity) PROVE IsCache(c)
  BY <1>2 DEF Fits
<1>3. CASE UNCHANGED vars
  BY <1>1, <1>3 DEF vars, CacheInv, TypeOK, ClosedIsEmpty, DeletesAreOpen
<1>4. ASSUME NEW r \in Turns, Get(r) PROVE CacheInv'
  <2>1. /\ Fits(cache', L1Capacity, L2Capacity) /\ held' \in [Turns -> States]
        /\ ~initialized => cache' = cache
    BY <1>1, <1>4, GetSteps
  <2>2. TypeOK'
    BY <1>1, <1>2, <1>4, <2>1 DEF TypeOK, Get, TurnStages
  <2>. QED
    BY <1>1, <1>4, <2>1, <2>2 DEF CacheInv, ClosedIsEmpty, DeletesAreOpen, Get
<1>5. ASSUME NEW r \in Turns, Put(r) PROVE CacheInv'
  <2>. DEFINE s == Append(held[r], r)
  <2>1. /\ Fits(cache', L1Capacity, L2Capacity) /\ s \in States
        /\ ~initialized => cache' = cache
    BY <1>1, <1>5, PutSteps
  <2>2. /\ past' = [past EXCEPT ![KeyOf[r]] = @ \cup {s}] \/ past' = past
        /\ \/ since' = [d \in Deletes |->
                IF deletion[d].stage = "new" THEN {} ELSE since[d] \cup {r}]
           \/ since' = since
    BY <1>5 DEF Put
  <2>. HIDE DEF s
  <2>3. past' \in [Keys -> SUBSET States] /\ since' \in [Deletes -> SUBSET Turns]
    BY <1>1, <2>1, <2>2, StateCacheAssumption DEF TypeOK
  <2>4. /\ stage' \in [Turns -> TurnStages] /\ initialized' = initialized
        /\ UNCHANGED <<held, deletion, crashes, stops>>
    BY <1>1, <1>5 DEF Put, TypeOK, TurnStages
  <2>5. TypeOK'
    BY <1>1, <1>2, <2>1, <2>3, <2>4 DEF TypeOK
  <2>. QED
    BY <1>1, <2>1, <2>4, <2>5 DEF CacheInv, ClosedIsEmpty, DeletesAreOpen
<1>6. ASSUME NEW r \in Turns, Fail(r) PROVE CacheInv'
  BY <1>1, <1>6 DEF Fail, CacheInv, TypeOK, TurnStages, ClosedIsEmpty, DeletesAreOpen
<1>7. ASSUME NEW d \in Deletes, NEW k \in Keys, NEW next \in {"plain", "listed"},
             NEW todo \in SUBSET (Levels \X Keys), DeleteKey(d, k, next, todo), initialized,
             UNCHANGED <<initialized, stage, held, since, bounds>>
      PROVE  CacheInv'
  <2>0. next \in DeleteStages
    BY DEF DeleteStages
  <2>1. /\ Fits(cache', L1Capacity, L2Capacity)
        /\ deletion' \in [Deletes -> [stage : DeleteStages, todo : SUBSET (Levels \X Keys),
                                      found : BOOLEAN]]
    BY <1>1, <1>7, <2>0, DeleteSteps
  <2>2. past' \in [Keys -> SUBSET States]
    BY <1>1, <1>7 DEF TypeOK, DeleteKey
  <2>3. TypeOK'
    BY <1>1, <1>2, <1>7, <2>1, <2>2 DEF TypeOK
  <2>. QED
    BY <1>7, <2>1, <2>3 DEF CacheInv, ClosedIsEmpty, DeletesAreOpen
<1>8. ASSUME NEW d \in Deletes, DeletePlain(d) PROVE CacheInv'
  <2>1. PICK k \in Plain : DeleteKey(d, k, "plain", {})
    BY <1>8 DEF DeletePlain
  <2>2. k \in Keys
    BY StateCacheAssumption
  <2>. QED
    BY <1>7, <1>8, <2>1, <2>2 DEF DeletePlain
<1>9. ASSUME NEW d \in Deletes, List(d) PROVE CacheInv'
  <2>1. PICK disk \in Disk :
          deletion' = [deletion EXCEPT ![d].stage = "listed", ![d].todo = Listed(d, disk)]
    BY <1>9 DEF List
  <2>2. Listed(d, disk) \in SUBSET (Levels \X Keys)
    BY DEF Listed
  <2>3. deletion' \in [Deletes -> [stage : DeleteStages, todo : SUBSET (Levels \X Keys),
                                   found : BOOLEAN]]
    <3>1. PICK c : c = [deletion EXCEPT ![d].stage = "listed"]
      OBVIOUS
    <3>2. c \in [Deletes -> [stage : DeleteStages, todo : SUBSET (Levels \X Keys),
                            found : BOOLEAN]]
      BY <1>1, <3>1 DEF TypeOK, DeleteStages
    <3>3. PICK T : T = Listed(d, disk)
      OBVIOUS
    <3>4. deletion' = [c EXCEPT ![d].todo = T]
      BY <2>1, <3>1, <3>3
    <3>. QED
      BY <2>2, <3>2, <3>3, <3>4
  <2>4. initialized
    BY <1>1, <1>9 DEF List, DeletesAreOpen
  <2>. QED
    BY <1>1, <1>9, <2>3, <2>4 DEF List, CacheInv, TypeOK, ClosedIsEmpty, DeletesAreOpen
<1>10. ASSUME NEW d \in Deletes, DeleteNext(d) PROVE CacheInv'
  <2>1. PICK x \in deletion[d].todo : DeleteKey(d, x[2], "listed", deletion[d].todo \ {x})
    BY <1>10 DEF DeleteNext
  <2>2. deletion[d].todo \in SUBSET (Levels \X Keys)
    BY <1>1 DEF TypeOK
  <2>3. x[2] \in Keys /\ deletion[d].todo \ {x} \in SUBSET (Levels \X Keys)
    BY <2>2
  <2>4. initialized
    BY <1>1, <1>10 DEF DeleteNext, DeletesAreOpen
  <2>. QED
    BY <1>7, <1>10, <2>1, <2>3, <2>4 DEF DeleteNext
<1>11. ASSUME NEW d \in Deletes, DeleteEnd(d) PROVE CacheInv'
  <2>1. deletion' \in [Deletes -> [stage : DeleteStages, todo : SUBSET (Levels \X Keys),
                                   found : BOOLEAN]]
    BY <1>1, <1>11 DEF DeleteEnd, TypeOK, DeleteStages
  <2>2. initialized
    BY <1>1, <1>11 DEF DeleteEnd, DeletesAreOpen
  <2>. QED
    BY <1>1, <1>11, <2>1, <2>2 DEF DeleteEnd, CacheInv, TypeOK, ClosedIsEmpty, DeletesAreOpen
<1>12. CASE Shutdown
  <2>1. PICK saved : cache' = Closed(cache, saved)
    BY <1>12 DEF Shutdown
  <2>2. deletion' = Cut
    BY <1>12 DEF Shutdown
  <2>3. /\ Fits(cache', L1Capacity, L2Capacity)
        /\ cache'.l1_order = <<>> /\ cache'.l2_order = <<>>
        /\ deletion' \in [Deletes -> [stage : DeleteStages, todo : SUBSET (Levels \X Keys),
                                      found : BOOLEAN]]
        /\ \A d \in Deletes : deletion'[d].stage \notin {"plain", "listed"}
    BY <1>1, <2>1, <2>2, CloseSteps
  <2>4. stops' \in 0..MaxStops /\ crashes' \in 0..MaxCrashes
    BY <1>1, <1>12, StateCacheAssumption DEF TypeOK, Shutdown
  <2>5. stage' \in [Turns -> TurnStages]
    BY <1>1, <1>12 DEF TypeOK, Shutdown, TurnStages
  <2>6. initialized' = FALSE /\ UNCHANGED <<held, past, since>>
    BY <1>12 DEF Shutdown
  <2>7. TypeOK'
    BY <1>1, <1>2, <2>3, <2>4, <2>5, <2>6 DEF TypeOK
  <2>. QED
    BY <1>1, <2>3, <2>6, <2>7 DEF CacheInv, ClosedIsEmpty, DeletesAreOpen
<1>13. CASE Crash
  <2>1. PICK saved : cache' = Closed(cache, saved)
    BY <1>13 DEF Crash
  <2>2. deletion' = Cut
    BY <1>13 DEF Crash
  <2>3. /\ Fits(cache', L1Capacity, L2Capacity)
        /\ cache'.l1_order = <<>> /\ cache'.l2_order = <<>>
        /\ deletion' \in [Deletes -> [stage : DeleteStages, todo : SUBSET (Levels \X Keys),
                                      found : BOOLEAN]]
        /\ \A d \in Deletes : deletion'[d].stage \notin {"plain", "listed"}
    BY <1>1, <2>1, <2>2, CloseSteps
  <2>4. crashes' \in 0..MaxCrashes /\ stops' \in 0..MaxStops
    BY <1>1, <1>13, StateCacheAssumption DEF TypeOK, Crash
  <2>5. stage' \in [Turns -> TurnStages]
    BY <1>1, <1>13 DEF TypeOK, Crash, TurnStages
  <2>6. initialized' = FALSE /\ UNCHANGED <<held, past, since>>
    BY <1>13 DEF Crash
  <2>7. TypeOK'
    BY <1>1, <1>2, <2>3, <2>4, <2>5, <2>6 DEF TypeOK
  <2>. QED
    BY <1>1, <2>3, <2>6, <2>7 DEF CacheInv, ClosedIsEmpty, DeletesAreOpen
<1>14. CASE Initialize
  BY <1>1, <1>14 DEF Initialize, CacheInv, TypeOK, ClosedIsEmpty, DeletesAreOpen
<1>. QED
  BY <1>3, <1>4, <1>5, <1>6, <1>8, <1>9, <1>10, <1>11, <1>12, <1>13, <1>14 DEF Next

(* The invariant of the three levels holds throughout.                      *)
LEMMA CacheAlways == Spec => []CacheInv
BY CacheInvInit, CacheInvStep, PTL DEF Spec

(* Levels, orders, turns, deletions and histories keep their types.        *)
THEOREM TypeCorrect == Spec => []TypeOK
<1>1. CacheInv => TypeOK
  BY DEF CacheInv
<1>. QED
  BY <1>1, CacheAlways, PTL

(* Through every interleaving of turns, deletions, failures of the disk,    *)
(* shutdowns and crashes the order lists name exactly the entries of their  *)
(* levels, no key is in two levels, and neither exceeds its capacity.      *)
THEOREM LevelsStayConsistent == Spec => []CacheConsistent
<1>1. CacheInv => CacheConsistent
  <2>. SUFFICES ASSUME CacheInv PROVE CacheConsistent
    OBVIOUS
  <2>1. Fits(cache, L1Capacity, L2Capacity)
    BY DEF CacheInv
  <2>2. Level(cache.l1_order, cache.l1) /\ Level(cache.l2_order, cache.l2)
    BY <2>1 DEF Fits, IsCache, Level
  <2>3. Size(cache.l1) = Len(cache.l1_order) /\ Size(cache.l2) = Len(cache.l2_order)
    BY <2>2, SizeIsLength
  <2>. QED
    BY <2>1, <2>3 DEF CacheInv, CacheConsistent, ClosedIsEmpty, Fits
<1>. QED
  BY <1>1, CacheAlways, PTL

-----------------------------------------------------------------------------
(* The cache as a map from keys to states, while SQLite works.  What any    *)
(* level holds was put since the key's last deletion, or a crash could      *)
(* bring back a deleted state; and of a session that is being deleted only  *)
(* what was put since, or is still on the call's list, can be read.        *)
PutSince(d, k) == \E r \in since[d] : KeyOf[r] = k
Accounted(d, k) ==
  /\ deletion[d].stage = "plain" /\ k \in Plain => PutSince(d, k)
  /\ deletion[d].stage = "listed" =>
       PutSince(d, k) \/ \E n \in Levels : <<n, k>> \in deletion[d].todo
  /\ deletion[d].stage = "done" => PutSince(d, k)
DeletesAdvance ==
  \A d \in Deletes, k \in Keys :
    SessionOf[k] = DeleteOf[d] /\ View(cache)[k] # None => Accounted(d, k)
StoreInv == CacheInv /\ StoredIn(cache, past) /\ DeletesAdvance

(* Initially nothing is stored and nothing is being deleted.                *)
LEMMA StoreInvInit == Init => StoreInv
<1>. SUFFICES ASSUME Init PROVE StoreInv
  OBVIOUS
<1>1. \A k \in Keys : View(cache)[k] = None
  BY DEF Init, NoEntries, View, Found
<1>2. StoredIn(cache, past)
  BY DEF Init, NoEntries, StoredIn
<1>. QED
  BY <1>1, <1>2, CacheInvInit DEF StoreInv, DeletesAdvance

(* Nothing about a deletion changes when its record, the puts since, and    *)
(* what can be read stay as they are, or less can be read.                 *)
LEMMA StillAccounted ==
  ASSUME DeletesAdvance, UNCHANGED since, NEW d \in Deletes,
         \/ deletion'[d] = deletion[d]
         \/ /\ deletion'[d].stage \notin {"plain", "listed"}
            /\ deletion'[d].stage \in {"cut", deletion[d].stage},
         NEW k \in Keys, View(cache')[k] # None => View(cache)[k] # None,
         SessionOf[k] = DeleteOf[d], View(cache')[k] # None
  PROVE  Accounted(d, k)'
BY DEF DeletesAdvance, Accounted, PutSince

(* Every step keeps what the refinement needs, while SQLite works.          *)
LEMMA StoreInvStep == ASSUME ~DiskFails PROVE StoreInv /\ [Next]_vars => StoreInv'
<1>. SUFFICES ASSUME StoreInv, [Next]_vars PROVE StoreInv'
  OBVIOUS
<1>. USE DEF bounds, history, routes, manager
<1>1. /\ CacheInv /\ CacheInv' /\ StoredIn(cache, past) /\ DeletesAdvance
      /\ past \in [Keys -> SUBSET States]
      /\ deletion \in [Deletes -> [stage : DeleteStages, todo : SUBSET (Levels \X Keys),
                                   found : BOOLEAN]]
  BY CacheInvStep DEF StoreInv, CacheInv, TypeOK
<1>2. SUFFICES StoredIn(cache, past)' /\ DeletesAdvance'
  BY <1>1 DEF StoreInv
<1>3. ASSUME cache' = cache, UNCHANGED <<deletion, past, since>>
      PROVE  StoredIn(cache, past)' /\ DeletesAdvance'
  BY <1>1, <1>3 DEF StoredIn, DeletesAdvance, Accounted, PutSince
<1>4. CASE UNCHANGED vars
  BY <1>3, <1>4 DEF vars
<1>5. ASSUME NEW r \in Turns, Get(r) PROVE StoredIn(cache, past)' /\ DeletesAdvance'
  <2>1. StoredIn(cache', past) /\ View(cache') = View(cache)
    BY <1>1, <1>5, GetSteps
  <2>2. UNCHANGED <<deletion, past, since>>
    BY <1>5 DEF Get
  <2>3. DeletesAdvance'
    BY <1>1, <2>1, <2>2, StillAccounted DEF DeletesAdvance
  <2>. QED
    BY <2>1, <2>2, <2>3
<1>6. ASSUME NEW r \in Turns, Put(r) PROVE StoredIn(cache, past)' /\ DeletesAdvance'
  <2>. DEFINE key == KeyOf[r]
              s == Append(held[r], r)
  <2>1. CASE ~initialized
    BY <1>1, <1>3, <1>6, <2>1, PutSteps DEF Put
  <2>2. CASE initialized
    <3>1. /\ StoredIn(cache', [past EXCEPT ![key] = @ \cup {s}])
          /\ View(cache') = [View(cache) EXCEPT ![key] = s]
      BY <1>1, <1>6, <2>2, PutSteps
    <3>2. /\ past' = [past EXCEPT ![key] = @ \cup {s}] /\ deletion' = deletion
          /\ since' = [d \in Deletes |->
               IF deletion[d].stage = "new" THEN {} ELSE since[d] \cup {r}]
      BY <1>6, <2>2 DEF Put
    <3>. HIDE DEF key, s
    <3>3. ASSUME NEW d \in Deletes, NEW k \in Keys,
                 SessionOf[k] = DeleteOf[d], View(cache')[k] # None
          PROVE  Accounted(d, k)'
      <4>1. CASE deletion[d].stage = "new"
        BY <3>2, <4>1 DEF Accounted
      <4>2. CASE deletion[d].stage # "new" /\ k = key
        <5>1. PutSince(d, k)'
          BY <3>2, <4>2 DEF PutSince, key
        <5>. QED
          BY <5>1 DEF Accounted
      <4>3. CASE deletion[d].stage # "new" /\ k # key
        <5>1. Accounted(d, k)
          BY <1>1, <3>1, <3>3, <4>3 DEF DeletesAdvance, View
        <5>2. PutSince(d, k) => PutSince(d, k)'
          BY <3>2, <4>3 DEF PutSince
        <5>. QED
          BY <3>2, <5>1, <5>2 DEF Accounted
      <4>. QED
        BY <4>1, <4>2, <4>3
    <3>4. DeletesAdvance'
      BY <3>3 DEF DeletesAdvance
    <3>. QED
      BY <3>1, <3>2, <3>4
  <2>. QED
    BY <2>1, <2>2
<1>7. ASSUME NEW r \in Turns, Fail(r) PROVE StoredIn(cache, past)' /\ DeletesAdvance'
  BY <1>3, <1>7 DEF Fail
<1>8. ASSUME NEW d \in Deletes, NEW k \in Keys, NEW next \in DeleteStages,
             NEW todo \in SUBSET (Levels \X Keys), DeleteKey(d, k, next, todo), UNCHANGED since,
             \A x \in Keys \ {k} :
               SessionOf[x] = DeleteOf[d] /\ View(cache)[x] # None => Accounted(d, x)'
      PROVE  StoredIn(cache, past)' /\ DeletesAdvance'
  <2>1. /\ StoredIn(cache', [past EXCEPT ![k] = {}])
        /\ View(cache') = [View(cache) EXCEPT ![k] = None]
        /\ \A e \in Deletes \ {d} : deletion'[e] = deletion[e]
    BY <1>1, <1>8, DeleteSteps
  <2>2. past' = [past EXCEPT ![k] = {}]
    BY <1>8 DEF DeleteKey
  <2>3. ASSUME NEW x \in Keys, View(cache')[x] # None PROVE x # k /\ View(cache)[x] # None
    BY <2>1, <2>3 DEF View
  <2>4. ASSUME NEW e \in Deletes, NEW x \in Keys,
               SessionOf[x] = DeleteOf[e], View(cache')[x] # None
        PROVE  Accounted(e, x)'
    <3>1. CASE e = d
      BY <1>8, <2>3, <2>4, <3>1
    <3>2. CASE e # d
      BY <1>1, <1>8, <2>1, <2>3, <2>4, <3>2, StillAccounted
    <3>. QED
      BY <3>1, <3>2
  <2>5. DeletesAdvance'
    BY <2>4 DEF DeletesAdvance
  <2>. QED
    BY <2>1, <2>2, <2>5
<1>9. ASSUME NEW d \in Deletes, DeletePlain(d)
      PROVE  StoredIn(cache, past)' /\ DeletesAdvance'
  <2>1. PICK k \in Plain : SessionOf[k] = DeleteOf[d] /\ DeleteKey(d, k, "plain", {})
    BY <1>9 DEF DeletePlain
  <2>2. k \in Keys /\ "plain" \in DeleteStages /\ {} \in SUBSET (Levels \X Keys)
    BY StateCacheAssumption DEF DeleteStages
  <2>3. deletion'[d].stage = "plain" /\ UNCHANGED since
    BY <1>1, <1>9, <2>1 DEF DeletePlain, DeleteKey
  <2>4. ASSUME NEW x \in Keys \ {k}, SessionOf[x] = DeleteOf[d] PROVE Accounted(d, x)'
    BY <2>1, <2>3, <2>4, StateCacheAssumption DEF Accounted
  <2>. QED
    BY <1>8, <2>1, <2>2, <2>3, <2>4
<1>10. ASSUME NEW d \in Deletes, List(d) PROVE StoredIn(cache, past)' /\ DeletesAdvance'
  <2>1. PICK disk \in Disk :
          deletion' = [deletion EXCEPT ![d].stage = "listed", ![d].todo = Listed(d, disk)]
    BY <1>10 DEF List
  <2>2. disk = TRUE
    BY DEF Disk
  <2>3. /\ deletion'[d].stage = "listed" /\ deletion'[d].todo = Listed(d, TRUE)
        /\ \A e \in Deletes \ {d} : deletion'[e] = deletion[e]
    <3>1. PICK T : T = Listed(d, disk)
      OBVIOUS
    <3>2. PICK c : c = [deletion EXCEPT ![d].stage = "listed"]
      OBVIOUS
    <3>3. c \in [Deletes -> [stage : DeleteStages, todo : SUBSET (Levels \X Keys),
                             found : BOOLEAN]]
      BY <1>1, <3>2 DEF DeleteStages
    <3>4. deletion' = [c EXCEPT ![d].todo = T]
      BY <2>1, <3>1, <3>2
    <3>5. c[d].stage = "listed" /\ \A e \in Deletes \ {d} : c[e] = deletion[e]
      BY <1>1, <3>2
    <3>6. /\ deletion'[d].stage = c[d].stage /\ deletion'[d].todo = T
          /\ \A e \in Deletes \ {d} : deletion'[e] = c[e]
      BY <3>3, <3>4
    <3>. QED
      BY <2>2, <3>1, <3>5, <3>6
  <2>4. UNCHANGED <<cache, past, since>> /\ deletion[d].stage = "plain"
    BY <1>10 DEF List
  <2>5. ASSUME NEW k \in Keys, SessionOf[k] = DeleteOf[d], View(cache)[k] # None
        PROVE  Accounted(d, k)'
    <3>1. CASE k \in Plain
      BY <1>1, <2>3, <2>4, <2>5, <3>1 DEF DeletesAdvance, Accounted, PutSince
    <3>2. CASE k \notin Plain
      <4>1. PICK n \in Levels : Stored(n, k, TRUE)
        BY <2>5 DEF View, Found, Stored, Levels
      <4>2. <<n, k>> \in Listed(d, TRUE)
        BY <2>5, <3>2, <4>1 DEF Listed
      <4>. QED
        BY <2>3, <4>2 DEF Accounted
    <3>. QED
      BY <3>1, <3>2
  <2>6. ASSUME NEW e \in Deletes, NEW k \in Keys,
               SessionOf[k] = DeleteOf[e], View(cache')[k] # None
        PROVE  Accounted(e, k)'
    <3>1. CASE e = d
      BY <2>4, <2>5, <2>6, <3>1
    <3>2. CASE e # d
      BY <1>1, <2>3, <2>4, <2>6, <3>2, StillAccounted
    <3>. QED
      BY <3>1, <3>2
  <2>7. DeletesAdvance'
    BY <2>6 DEF DeletesAdvance
  <2>. QED
    BY <1>1, <2>4, <2>7 DEF StoredIn
<1>11. ASSUME NEW d \in Deletes, DeleteNext(d)
       PROVE  StoredIn(cache, past)' /\ DeletesAdvance'
  <2>1. PICK x \in deletion[d].todo : DeleteKey(d, x[2], "listed", deletion[d].todo \ {x})
    BY <1>11 DEF DeleteNext
  <2>2. /\ deletion[d].todo \in SUBSET (Levels \X Keys) /\ deletion[d].stage = "listed"
        /\ UNCHANGED since
    BY <1>1, <1>11 DEF DeleteNext
  <2>3. /\ x[2] \in Keys /\ deletion[d].todo \ {x} \in SUBSET (Levels \X Keys)
        /\ "listed" \in DeleteStages
    BY <2>2 DEF DeleteStages
  <2>4. deletion'[d].stage = "listed" /\ deletion'[d].todo = deletion[d].todo \ {x}
    BY <1>1, <2>1 DEF DeleteKey
  <2>5. ASSUME NEW y \in Keys \ {x[2]}, SessionOf[y] = DeleteOf[d], View(cache)[y] # None
        PROVE  Accounted(d, y)'
    <3>1. PutSince(d, y) \/ \E n \in Levels : <<n, y>> \in deletion[d].todo
      BY <1>1, <2>2, <2>5 DEF DeletesAdvance, Accounted
    <3>2. \A n \in Levels : <<n, y>> # x
      BY <2>5
    <3>. QED
      BY <2>2, <2>4, <3>1, <3>2 DEF Accounted, PutSince
  <2>. QED
    BY <1>8, <2>1, <2>2, <2>3, <2>5
<1>12. ASSUME NEW d \in Deletes, DeleteEnd(d) PROVE StoredIn(cache, past)' /\ DeletesAdvance'
  <2>1. /\ deletion[d].stage = "listed" /\ deletion[d].todo = {}
        /\ UNCHANGED <<cache, past, since>>
    BY <1>12 DEF DeleteEnd
  <2>2. /\ deletion'[d].stage = "done"
        /\ \A e \in Deletes \ {d} : deletion'[e] = deletion[e]
    BY <1>1, <1>12 DEF DeleteEnd
  <2>3. ASSUME NEW e \in Deletes, NEW k \in Keys,
               SessionOf[k] = DeleteOf[e], View(cache')[k] # None
        PROVE  Accounted(e, k)'
    <3>1. CASE e = d
      BY <1>1, <2>1, <2>2, <2>3, <3>1 DEF DeletesAdvance, Accounted, PutSince
    <3>2. CASE e # d
      BY <1>1, <2>1, <2>2, <2>3, <3>2, StillAccounted
    <3>. QED
      BY <3>1, <3>2
  <2>4. DeletesAdvance'
    BY <2>3 DEF DeletesAdvance
  <2>. QED
    BY <1>1, <2>1, <2>4 DEF StoredIn
<1>13. ASSUME NEW saved, cache' = Closed(cache, saved), deletion' = Cut,
              UNCHANGED <<past, since>>
       PROVE  StoredIn(cache, past)' /\ DeletesAdvance'
  <2>1. /\ StoredIn(cache', past)
        /\ \A k \in Keys : View(cache')[k] # None => View(cache)[k] # None
        /\ \A d \in Deletes : /\ deletion'[d].stage \notin {"plain", "listed"}
                              /\ deletion'[d].stage \in {"cut", deletion[d].stage}
    BY <1>1, <1>13, CloseSteps
  <2>2. DeletesAdvance'
    BY <1>1, <1>13, <2>1, StillAccounted DEF DeletesAdvance
  <2>. QED
    BY <1>13, <2>1, <2>2
<1>14. CASE Shutdown
  BY <1>13, <1>14 DEF Shutdown
<1>15. CASE Crash
  BY <1>13, <1>15 DEF Crash
<1>16. CASE Initialize
  BY <1>3, <1>16 DEF Initialize
<1>. QED
  BY <1>4, <1>5, <1>6, <1>7, <1>9, <1>10, <1>11, <1>12, <1>14, <1>15, <1>16 DEF Next

(* What the refinement needs holds throughout, while SQLite works.          *)
LEMMA StoreAlways == ASSUME ~DiskFails PROVE Spec => []StoreInv
<1>1. StoreInv /\ [Next]_vars => StoreInv'
  BY StoreInvStep
<1>. QED
  BY <1>1, StoreInvInit, PTL DEF Spec

(* While SQLite works, a delete call that reports success and was not cut   *)
(* by a shutdown has left nothing of the session in any level: what is      *)
(* found later was put since, whatever was evicted, promoted or restored   *)
(* by a restart while the call went through its keys.                      *)
THEOREM DeletedStaysGone == ASSUME ~DiskFails PROVE Spec => []DeletedMeansGone
<1>1. StoreInv => DeletedMeansGone
  BY DEF StoreInv, DeletesAdvance, Accounted, PutSince, DeletedMeansGone, Visible, View
<1>. QED
  BY <1>1, StoreAlways, PTL

(* The caches start as an empty store.                                      *)
LEMMA StoreStarts == Init => Store!Init
BY DEF Init, NoEntries, Store!Init, Visible, Found

(* Every step of the caches is a step of the store, or none.                *)
LEMMA StoreSteps ==
  ASSUME ~DiskFails PROVE StoreInv /\ [Next]_vars => ImplementsStoreStep
<1>. SUFFICES ASSUME StoreInv, [Next]_vars PROVE ImplementsStoreStep
  OBVIOUS
<1>. USE DEF bounds, history, routes, manager
<1>. DEFINE store == [k \in Keys |-> Visible(k)]
<1>1. store = View(cache) /\ store' = View(cache')
  BY DEF Visible, View
<1>2. /\ CacheInv /\ StoredIn(cache, past) /\ past \in [Keys -> SUBSET States]
      /\ DeletesAreOpen
  BY DEF StoreInv, CacheInv, TypeOK
<1>. HIDE DEF store
<1>3. ASSUME store' = store, UNCHANGED <<past, held, initialized, crashes>>
      PROVE  ImplementsStoreStep
  BY <1>3 DEF ImplementsStoreStep, Store!vars, store
<1>4. CASE UNCHANGED vars
  BY <1>1, <1>3, <1>4 DEF vars
<1>5. ASSUME NEW r \in Turns, Get(r) PROVE ImplementsStoreStep
  <2>1. /\ store' = store
        /\ held' = [held EXCEPT ![r] =
             IF r \notin Fresh /\ initialized /\ store[KeyOf[r]] # None
             THEN store[KeyOf[r]] ELSE <<>>]
    BY <1>1, <1>2, <1>5, GetSteps
  <2>2. UNCHANGED <<past, initialized, crashes>>
    BY <1>5 DEF Get
  <2>3. Store!Read(r)
    BY <2>1, <2>2 DEF Store!Read, store
  <2>. QED
    BY <2>3 DEF ImplementsStoreStep, Store!Next
<1>6. ASSUME NEW r \in Turns, Put(r) PROVE ImplementsStoreStep
  <2>1. CASE ~initialized
    <3>1. cache' = cache
      BY <1>2, <1>6, <2>1, PutSteps
    <3>. QED
      BY <1>1, <1>3, <1>6, <2>1, <3>1 DEF Put
  <2>2. CASE initialized
    <3>1. store' = [store EXCEPT ![KeyOf[r]] = Append(held[r], r)]
      BY <1>1, <1>2, <1>6, <2>2, PutSteps
    <3>2. /\ past' = [past EXCEPT ![KeyOf[r]] = @ \cup {Append(held[r], r)}]
          /\ UNCHANGED <<held, initialized, crashes>>
      BY <1>6, <2>2 DEF Put
    <3>3. Store!Write(r)
      BY <2>2, <3>1, <3>2 DEF Store!Write, store
    <3>. QED
      BY <3>3 DEF ImplementsStoreStep, Store!Next
  <2>. QED
    BY <2>1, <2>2
<1>7. ASSUME NEW r \in Turns, Fail(r) PROVE ImplementsStoreStep
  BY <1>1, <1>3, <1>7 DEF Fail
<1>8. ASSUME NEW d \in Deletes, NEW k \in Keys, NEW next \in DeleteStages,
             NEW todo \in SUBSET (Levels \X Keys), DeleteKey(d, k, next, todo), initialized,
             UNCHANGED <<initialized, stage, held, since, bounds>>
      PROVE  ImplementsStoreStep
  <2>1. store' = [store EXCEPT ![k] = None]
    BY <1>1, <1>2, <1>8, DeleteSteps
  <2>2. past' = [past EXCEPT ![k] = {}]
    BY <1>8 DEF DeleteKey
  <2>3. Store!Delete(k)
    BY <1>8, <2>1, <2>2 DEF Store!Delete, store
  <2>. QED
    BY <2>3 DEF ImplementsStoreStep, Store!Next
<1>9. ASSUME NEW d \in Deletes, DeletePlain(d) PROVE ImplementsStoreStep
  <2>1. PICK k \in Plain : DeleteKey(d, k, "plain", {})
    BY <1>9 DEF DeletePlain
  <2>2. k \in Keys /\ "plain" \in DeleteStages /\ {} \in SUBSET (Levels \X Keys)
    BY StateCacheAssumption DEF DeleteStages
  <2>. QED
    BY <1>8, <1>9, <2>1, <2>2 DEF DeletePlain
<1>10. ASSUME NEW d \in Deletes, List(d) PROVE ImplementsStoreStep
  BY <1>1, <1>3, <1>10 DEF List
<1>11. ASSUME NEW d \in Deletes, DeleteNext(d) PROVE ImplementsStoreStep
  <2>1. PICK x \in deletion[d].todo : DeleteKey(d, x[2], "listed", deletion[d].todo \ {x})
    BY <1>11 DEF DeleteNext
  <2>2. deletion[d].todo \in SUBSET (Levels \X Keys)
    BY <1>2 DEF CacheInv, TypeOK
  <2>3. /\ x[2] \in Keys /\ deletion[d].todo \ {x} \in SUBSET (Levels \X Keys)
        /\ "listed" \in DeleteStages
    BY <2>2 DEF DeleteStages
  <2>4. initialized
    BY <1>2, <1>11 DEF DeleteNext, DeletesAreOpen
  <2>. QED
    BY <1>8, <1>11, <2>1, <2>3, <2>4 DEF DeleteNext
<1>12. ASSUME NEW d \in Deletes, DeleteEnd(d) PROVE ImplementsStoreStep
  BY <1>1, <1>3, <1>12 DEF DeleteEnd
<1>13. CASE Shutdown
  <2>1. cache' = Closed(cache, Keys) /\ deletion' = Cut
    BY <1>13 DEF Shutdown
  <2>2. store' = store
    BY <1>1, <1>2, <2>1, CloseSteps
  <2>3. Store!Close
    BY <1>13, <2>2 DEF Shutdown, Store!Close, store
  <2>. QED
    BY <2>3 DEF ImplementsStoreStep, Store!Next
<1>14. CASE Crash
  <2>1. PICK saved : cache' = Closed(cache, saved)
    BY <1>14 DEF Crash
  <2>2. deletion' = Cut
    BY <1>14 DEF Crash
  <2>3. \A k \in Keys : store'[k] \in past[k] \cup {None}
    BY <1>1, <1>2, <2>1, <2>2, CloseSteps
  <2>4. DOMAIN store' = Keys
    BY <1>1 DEF View
  <2>5. Store!Crash
    BY <1>14, <2>3, <2>4 DEF Crash, Store!Crash, store
  <2>. QED
    BY <2>5 DEF ImplementsStoreStep, Store!Next
<1>15. CASE Initialize
  <2>1. store' = store
    BY <1>1, <1>15 DEF Initialize
  <2>2. Store!Open
    BY <1>15, <2>1 DEF Initialize, Store!Open, store
  <2>. QED
    BY <2>2 DEF ImplementsStoreStep, Store!Next
<1>. QED
  BY <1>4, <1>5, <1>6, <1>7, <1>9, <1>10, <1>11, <1>12, <1>13, <1>14, <1>15 DEF Next

(* While SQLite works, the manager and its routes implement SessionStore:   *)
(* evictions, promotions, stale rows, shutdowns and restarts are invisible, *)
(* a turn reads the last state put, and a crash brings back nothing from    *)
(* before a deletion.                                                      *)
THEOREM CacheImplementsStore == ASSUME ~DiskFails PROVE Spec => ImplementsStore
<1>1. StoreInv /\ [Next]_vars => ImplementsStoreStep
  BY StoreSteps
<1>. QED
  BY <1>1, StoreStarts, StoreAlways, PTL DEF Spec, ImplementsStore

=============================================================================
