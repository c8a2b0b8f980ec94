-------------------------- MODULE AdapterCacheProofs --------------------------
(***************************************************************************)
(* Proofs about AdapterCache: whatever the order of registrations, uploads,  *)
(* evictions, pauses and deletions, the budgets hold, a request that decodes *)
(* has its weights on the GPU and latest_ is the newest version left.       *)
(*                                                                         *)
(* Sums over sets and erase() on a sequence are recursive definitions; they  *)
(* are reached by induction on numbers, which the least-number principle of  *)
(* WellFoundedInduction gives.                                             *)
(***************************************************************************)
EXTENDS AdapterCache, FiniteSetTheorems, WellFoundedInduction, TLAPS

-----------------------------------------------------------------------------
(* Every set of numbers has a least one: the induction below.              *)
LEMMA Least ==
  ASSUME NEW T \in SUBSET Nat, T # {}
  PROVE  \E n \in T : \A m \in T : n <= m
<1> DEFINE R == OpToRel(<, Nat)
<1>1. IsWellFoundedOn(R, Nat)
  BY NatLessThanWellFounded
<1> HIDE DEF R
<1>2. PICK x \in T : \A y \in T : ~ (<<y, x>> \in R)
  BY <1>1, WFMin
<1>3. \A y \in T : <<y, x>> \in R <=> y < x
  BY DEF R, OpToRel
<1>4. ASSUME NEW y \in T PROVE x <= y
  <2>1. x \in Nat /\ y \in Nat /\ ~(y < x)
    BY <1>2, <1>3
  <2> QED BY <2>1
<1> QED BY <1>4

(* Induction over the numbers, by the least counterexample.                *)
LEMMA Induct ==
  ASSUME NEW T, 0 \in T, \A n \in Nat : n \in T => n + 1 \in T
  PROVE  \A n \in Nat : n \in T
<1> SUFFICES ASSUME Nat \ T # {} PROVE FALSE
  OBVIOUS
<1>1. PICK n \in Nat \ T : \A m \in Nat \ T : n <= m
  BY Least
<1>2. n # 0
  OBVIOUS
<1>3. n - 1 \in Nat /\ n - 1 \in T
  BY <1>1, <1>2
<1> QED BY <1>3

(* The recursive function of Without is defined on every prefix.           *)
LEMMA RestExists ==
  ASSUME NEW S, NEW s \in Seq(S), NEW vs
  PROVE  \E f : /\ f = [i \in 0..Len(s) |->
                          IF i = 0 THEN <<>>
                          ELSE IF s[i] \in vs THEN f[i - 1] ELSE Append(f[i - 1], s[i])]
                /\ Without(s, vs) = f[Len(s)]
<1> DEFINE Rest(f, n) ==
             f = [i \in 0..n |-> IF i = 0 THEN <<>>
                                 ELSE IF s[i] \in vs THEN f[i - 1] ELSE Append(f[i - 1], s[i])]
           T == {n \in Nat : \E f : Rest(f, n)}
<1>1. 0 \in T
  <2>1. PICK f : f = [i \in 0..0 |-> <<>>]
    OBVIOUS
  <2>2. Rest(f, 0)
    BY <2>1
  <2> QED BY <2>2
<1>2. ASSUME NEW n \in Nat, n \in T PROVE n + 1 \in T
  <2>1. PICK f : Rest(f, n)
    BY <1>2
  <2>2. PICK g : g = [i \in 0..(n + 1) |->
                        IF i = 0 THEN <<>>
                        ELSE IF s[i] \in vs THEN f[i - 1] ELSE Append(f[i - 1], s[i])]
    OBVIOUS
  <2>3. ASSUME NEW i \in 0..n PROVE g[i] = f[i]
    <3>1. f[i] = IF i = 0 THEN <<>> ELSE IF s[i] \in vs THEN f[i - 1] ELSE Append(f[i - 1], s[i])
      BY <2>1
    <3>2. i \in 0..(n + 1)
      OBVIOUS
    <3>3. g[i] = IF i = 0 THEN <<>> ELSE IF s[i] \in vs THEN f[i - 1] ELSE Append(f[i - 1], s[i])
      BY <2>2, <3>2
    <3> QED BY <3>1, <3>3
  <2>4. \A i \in 0..(n + 1) : i # 0 => i - 1 \in 0..n
    OBVIOUS
  <2>5. Rest(g, n + 1)
    BY <2>2, <2>3, <2>4
  <2>6. \E h : Rest(h, n + 1)
    BY <2>5
  <2> HIDE DEF Rest
  <2> QED BY <2>6
<1> HIDE DEF T
<1>3. Len(s) \in Nat /\ \A n \in Nat : n \in T
  BY <1>1, <1>2, Induct
<1>4. \E f : Rest(f, Len(s))
  BY <1>3 DEF T
<1>5. PICK f : f = CHOOSE g : Rest(g, Len(s))
  OBVIOUS
<1>6. Rest(f, Len(s))
  BY <1>4, <1>5
<1>7. Without(s, vs) = f[Len(s)]
  BY <1>5 DEF Without
<1> QED BY <1>6, <1>7

(* erase() drops the given elements and keeps the others in their order.   *)
LEMMA WithoutIs ==
  ASSUME NEW S, NEW s \in Seq(S), NEW vs
  PROVE  /\ Without(s, vs) \in Seq(S)
         /\ ToSet(Without(s, vs)) = ToSet(s) \ vs
         /\ IsInjective(s) => IsInjective(Without(s, vs))
         /\ s # <<>> /\ Last(s) \notin vs =>
              Without(s, vs) # <<>> /\ Last(Without(s, vs)) = Last(s)
<1>1. PICK f : /\ f = [i \in 0..Len(s) |->
                         IF i = 0 THEN <<>>
                         ELSE IF s[i] \in vs THEN f[i - 1] ELSE Append(f[i - 1], s[i])]
               /\ Without(s, vs) = f[Len(s)]
  BY RestExists
<1> DEFINE Good(i) ==
             /\ f[i] \in Seq(S)
             /\ \A v : (\E k \in 1..Len(f[i]) : f[i][k] = v)
                         <=> v \notin vs /\ \E j \in 1..i : s[j] = v
             /\ IsInjective(s) => \A k, l \in 1..Len(f[i]) : f[i][k] = f[i][l] => k = l
             /\ i # 0 /\ s[i] \notin vs => f[i] # <<>> /\ f[i][Len(f[i])] = s[i]
           T == {i \in Nat : i <= Len(s) => Good(i)}
<1>2. 0 \in T
  <2>0. <<>> \in Seq(S) /\ Len(<<>>) = 0
    OBVIOUS
  <2>1. PICK e : e = <<>>
    OBVIOUS
  <2>2. f[0] = e /\ e \in Seq(S) /\ Len(e) = 0
    BY <1>1, <2>0, <2>1
  <2>3. Good(0)
    BY <2>1, <2>2
  <2> QED BY <2>3
<1>3. ASSUME NEW i \in Nat, i \in T PROVE i + 1 \in T
  <2> SUFFICES ASSUME i + 1 <= Len(s) PROVE Good(i + 1)
    OBVIOUS
  <2>1. Good(i) /\ Len(s) \in Nat /\ i + 1 \in 1..Len(s) /\ s[i + 1] \in S
        /\ DOMAIN s = 1..Len(s)
    BY <1>3
  <2>2. f[i + 1] = IF s[i + 1] \in vs THEN f[i] ELSE Append(f[i], s[i + 1])
    <3>1. i + 1 \in 0..Len(s) /\ i + 1 # 0 /\ (i + 1) - 1 = i
      BY <2>1
    <3>2. f[i + 1] = IF s[i + 1] \in vs THEN f[(i + 1) - 1] ELSE Append(f[(i + 1) - 1], s[i + 1])
      BY <1>1, <3>1
    <3> QED BY <3>1, <3>2
  <2>3. CASE s[i + 1] \in vs
    <3>1. f[i + 1] = f[i]
      BY <2>2, <2>3
    <3>2. \A v : v \notin vs => ((\E j \in 1..i : s[j] = v) <=> \E j \in 1..(i + 1) : s[j] = v)
      BY <2>1, <2>3
    <3>3. PICK a : a = f[i] /\ a = f[i + 1]
      BY <3>1
    <3>4. \A v : (\E k \in 1..Len(a) : a[k] = v) <=> v \notin vs /\ \E j \in 1..(i + 1) : s[j] = v
      BY <2>1, <3>2, <3>3
    <3>5. IsInjective(s) => \A k, l \in 1..Len(a) : a[k] = a[l] => k = l
      BY <2>1, <3>3
    <3> QED BY <2>1, <2>3, <3>3, <3>4, <3>5
  <2>4. CASE s[i + 1] \notin vs
    <3> DEFINE a == f[i]
               e == s[i + 1]
               b == f[i + 1]
    <3>1. b = Append(a, e) /\ a \in Seq(S) /\ e \in S
      BY <2>1, <2>2, <2>4
    <3>2. /\ b \in Seq(S) /\ Len(b) = Len(a) + 1 /\ Len(a) \in Nat /\ b[Len(a) + 1] = e
          /\ \A k \in 1..Len(a) : b[k] = a[k]
      BY <3>1
    <3>3. \A v : (\E k \in 1..Len(b) : b[k] = v) <=> (v = e \/ \E k \in 1..Len(a) : a[k] = v)
      <4> HIDE DEF a, b, e
      <4> QED BY <3>2
    <3>4. \A v : (\E j \in 1..(i + 1) : s[j] = v) <=> (v = e \/ \E j \in 1..i : s[j] = v)
      BY <2>1
    <3>5. \A v : (\E k \in 1..Len(b) : b[k] = v) <=> v \notin vs /\ \E j \in 1..(i + 1) : s[j] = v
      BY <2>1, <2>4, <3>3, <3>4
    <3>6. ASSUME IsInjective(s) PROVE \A k, l \in 1..Len(b) : b[k] = b[l] => k = l
      <4>1. \A k \in 1..Len(a) : a[k] # e
        <5> SUFFICES ASSUME NEW k \in 1..Len(a), a[k] = e PROVE FALSE
          OBVIOUS
        <5>1. PICK j \in 1..i : s[j] = e
          BY <2>1
        <5> QED BY <2>1, <3>6, <5>1 DEF IsInjective
      <4>2. \A k, l \in 1..Len(a) : a[k] = a[l] => k = l
        BY <2>1, <3>6
      <4> HIDE DEF a, b, e
      <4> QED BY <3>2, <4>1, <4>2
    <3> QED BY <2>1, <3>2, <3>5, <3>6
  <2> QED BY <2>3, <2>4
<1> HIDE DEF T
<1>4. Len(s) \in Nat /\ \A i \in Nat : i \in T
  BY <1>2, <1>3, Induct
<1>5. Good(Len(s))
  BY <1>4 DEF T
<1>6. PICK t : t = Without(s, vs) /\ t = f[Len(s)]
  BY <1>1
<1>7. t \in Seq(S) /\ DOMAIN t = 1..Len(t) /\ DOMAIN s = 1..Len(s)
  BY <1>5, <1>6
<1>8. ToSet(t) = ToSet(s) \ vs
  <2>1. \A v : v \in ToSet(t) <=> \E k \in 1..Len(t) : t[k] = v
    BY <1>7 DEF ToSet
  <2>2. \A v : v \in ToSet(s) <=> \E k \in 1..Len(s) : s[k] = v
    BY <1>7 DEF ToSet
  <2>3. \A v : (\E k \in 1..Len(t) : t[k] = v) <=> v \notin vs /\ \E j \in 1..Len(s) : s[j] = v
    BY <1>5, <1>6
  <2>4. \A v : v \in ToSet(t) <=> v \notin vs /\ v \in ToSet(s)
    BY <2>1, <2>2, <2>3
  <2> QED BY <2>4
<1>9. IsInjective(s) => IsInjective(t)
  BY <1>5, <1>6, <1>7 DEF IsInjective
<1>10. s # <<>> /\ Last(s) \notin vs => t # <<>> /\ Last(t) = Last(s)
  BY <1>4, <1>5, <1>6 DEF Last
<1> QED BY <1>6, <1>7, <1>8, <1>9, <1>10

-----------------------------------------------------------------------------
(* Sizes of versions are numbers.                                          *)
Sized(vs) == IsFiniteSet(vs) /\ \A v \in vs : Size[v] \in Nat
Picked(vs) == CHOOSE v \in vs : TRUE
SumOf(g, D) == g = [vs \in D |-> IF vs = {} THEN 0
                                 ELSE Size[Picked(vs)] + g[vs \ {Picked(vs)}]]

Sums(g, S) == SumOf(g, SUBSET S)

(* The fold of Bytes is defined on every finite set.                       *)
LEMMA SumExists ==
  ASSUME NEW S, IsFiniteSet(S)
  PROVE  \E g : Sums(g, S) /\ Bytes(S) = g[S]
<1> DEFINE D(n) == {vs \in SUBSET S : Cardinality(vs) <= n}
           T == {n \in Nat : \E g : SumOf(g, D(n))}
<1>1. \A vs \in SUBSET S : IsFiniteSet(vs) /\ Cardinality(vs) \in Nat
                           /\ Cardinality(vs) <= Cardinality(S) /\ (Cardinality(vs) = 0 <=> vs = {})
  BY FS_Subset, FS_CardinalityType, FS_EmptySet
<1>2. \A vs \in SUBSET S : vs # {} =>
        /\ Picked(vs) \in vs /\ vs \ {Picked(vs)} \in SUBSET S
        /\ Cardinality(vs \ {Picked(vs)}) = Cardinality(vs) - 1
  BY <1>1, FS_RemoveElement DEF Picked
<1>3. 0 \in T
  <2>1. PICK g : g = [vs \in D(0) |-> 0]
    OBVIOUS
  <2>2. \A vs \in D(0) : vs = {}
    BY <1>1
  <2>3. SumOf(g, D(0))
    BY <2>1, <2>2 DEF SumOf
  <2>4. \E h : SumOf(h, D(0))
    BY <2>3
  <2> HIDE DEF D
  <2> QED BY <2>4
<1>4. ASSUME NEW n \in Nat, n \in T PROVE n + 1 \in T
  <2>1. PICK g : SumOf(g, D(n))
    BY <1>4
  <2>2. PICK h : h = [vs \in D(n + 1) |-> IF vs = {} THEN 0
                                          ELSE Size[Picked(vs)] + g[vs \ {Picked(vs)}]]
    OBVIOUS
  <2>3. D(n) \subseteq D(n + 1) /\ \A vs \in D(n + 1) : vs # {} => vs \ {Picked(vs)} \in D(n)
    BY <1>1, <1>2
  <2> HIDE DEF D, T
  <2>4. ASSUME NEW vs \in D(n) PROVE h[vs] = g[vs]
    <3>1. g[vs] = IF vs = {} THEN 0 ELSE Size[Picked(vs)] + g[vs \ {Picked(vs)}]
      BY <2>1 DEF SumOf
    <3>2. vs \in D(n + 1)
      BY <2>3
    <3>3. h[vs] = IF vs = {} THEN 0 ELSE Size[Picked(vs)] + g[vs \ {Picked(vs)}]
      BY <2>2, <3>2
    <3> QED BY <3>1, <3>3
  <2>5. SumOf(h, D(n + 1))
    BY <2>2, <2>3, <2>4 DEF SumOf
  <2>6. \E k : SumOf(k, D(n + 1))
    BY <2>5
  <2> QED BY <2>6 DEF T
<1> HIDE DEF T
<1>5. Cardinality(S) \in Nat /\ \A n \in Nat : n \in T
  BY <1>1, <1>3, <1>4, Induct
<1>6. D(Cardinality(S)) = SUBSET S
  BY <1>1
<1>7. \E g : SumOf(g, SUBSET S)
  BY <1>5, <1>6 DEF T
<1>8. PICK g : g = CHOOSE h : SumOf(h, SUBSET S)
  OBVIOUS
<1>9. SumOf(g, SUBSET S)
  BY <1>7, <1>8
<1>10. Bytes(S) = g[S]
  BY <1>8 DEF Bytes, MapThenSumSet, MapThenFoldSet, SumOf, Picked
<1> QED BY <1>9, <1>10 DEF Sums

(* Functions that fold the same sets agree.                                *)
LEMMA SumsAgree ==
  ASSUME NEW S, IsFiniteSet(S), NEW R, R \subseteq S, NEW g, NEW h,
         Sums(g, R), Sums(h, S)
  PROVE  \A vs \in SUBSET R : g[vs] = h[vs]
<1> DEFINE T == {n \in Nat : \A vs \in SUBSET R : Cardinality(vs) = n => g[vs] = h[vs]}
<1>1. \A vs \in SUBSET R : IsFiniteSet(vs) /\ Cardinality(vs) \in Nat /\ vs \in SUBSET S
                           /\ (Cardinality(vs) = 0 <=> vs = {})
  <2>1. \A vs \in SUBSET R : vs \in SUBSET S
    OBVIOUS
  <2> QED BY <2>1, FS_Subset, FS_CardinalityType, FS_EmptySet
<1>2. \A vs \in SUBSET R :
        /\ g[vs] = IF vs = {} THEN 0 ELSE Size[Picked(vs)] + g[vs \ {Picked(vs)}]
        /\ h[vs] = IF vs = {} THEN 0 ELSE Size[Picked(vs)] + h[vs \ {Picked(vs)}]
  BY <1>1 DEF SumOf, Sums
<1>3. \A vs \in SUBSET R : vs # {} =>
        /\ vs \ {Picked(vs)} \in SUBSET R
        /\ Cardinality(vs \ {Picked(vs)}) = Cardinality(vs) - 1
  BY <1>1, FS_RemoveElement DEF Picked
<1>4. 0 \in T
  BY <1>1, <1>2
<1>5. ASSUME NEW n \in Nat, n \in T PROVE n + 1 \in T
  <2> SUFFICES ASSUME NEW vs \in SUBSET R, Cardinality(vs) = n + 1 PROVE g[vs] = h[vs]
    OBVIOUS
  <2>1. vs # {}
    BY <1>1
  <2>2. vs \ {Picked(vs)} \in SUBSET R /\ Cardinality(vs \ {Picked(vs)}) = n
    BY <1>3, <2>1
  <2>3. g[vs \ {Picked(vs)}] = h[vs \ {Picked(vs)}]
    BY <1>5, <2>2
  <2> QED BY <1>2, <2>1, <2>3
<1> HIDE DEF T
<1>6. \A n \in Nat : n \in T
  BY <1>4, <1>5, Induct
<1> QED BY <1>1, <1>6 DEF T

(* The sum of a set is that of an element and of the rest, whichever the    *)
(* fold takes first.                                                       *)
LEMMA BytesOne ==
  ASSUME NEW S, IsFiniteSet(S)
  PROVE  /\ S = {} => Bytes(S) = 0
         /\ S # {} => Bytes(S) = Size[Picked(S)] + Bytes(S \ {Picked(S)})
<1>1. PICK g : Sums(g, S) /\ Bytes(S) = g[S]
  BY SumExists
<1>2. S \in SUBSET S
  OBVIOUS
<1>3. g[S] = IF S = {} THEN 0 ELSE Size[Picked(S)] + g[S \ {Picked(S)}]
  BY <1>1, <1>2 DEF SumOf, Sums
<1>4. ASSUME NEW R \in SUBSET S PROVE Bytes(R) = g[R]
  <2>1. IsFiniteSet(R)
    BY FS_Subset
  <2>2. PICK h : Sums(h, R) /\ Bytes(R) = h[R]
    BY <2>1, SumExists
  <2>3. \A vs \in SUBSET R : h[vs] = g[vs]
    BY <1>1, <2>2, SumsAgree
  <2>4. h[R] = g[R]
    BY <2>3
  <2> QED BY <2>2, <2>4
<1> QED BY <1>1, <1>3, <1>4

(* The same for every version of the set.                                  *)
LEMMA BytesSplit ==
  ASSUME NEW S, Sized(S)
  PROVE  Bytes(S) \in Nat /\ \A v \in S : Bytes(S) = Size[v] + Bytes(S \ {v})
<1> DEFINE T == {n \in Nat : \A R \in SUBSET S : Cardinality(R) <= n =>
                    Bytes(R) \in Nat /\ \A v \in R : Bytes(R) = Size[v] + Bytes(R \ {v})}
<1>1. \A R \in SUBSET S : IsFiniteSet(R) /\ Cardinality(R) \in Nat
                          /\ (Cardinality(R) = 0 <=> R = {})
  BY FS_Subset, FS_CardinalityType, FS_EmptySet DEF Sized
<1>2. 0 \in T
  <2>1. \A R \in SUBSET S : Cardinality(R) <= 0 => R = {}
    BY <1>1
  <2>2. Bytes({}) = 0
    BY FS_EmptySet, BytesOne
  <2> SUFFICES ASSUME NEW R \in SUBSET S, Cardinality(R) <= 0
               PROVE  Bytes(R) \in Nat /\ \A v \in R : Bytes(R) = Size[v] + Bytes(R \ {v})
    OBVIOUS
  <2>3. R = {}
    BY <2>1
  <2>4. Bytes(R) = 0
    BY <2>2, <2>3
  <2> QED BY <2>3, <2>4
<1>3. ASSUME NEW n \in Nat, n \in T PROVE n + 1 \in T
  <2> SUFFICES ASSUME NEW R \in SUBSET S, Cardinality(R) = n + 1
               PROVE  Bytes(R) \in Nat /\ \A v \in R : Bytes(R) = Size[v] + Bytes(R \ {v})
    BY <1>1, <1>3
  <2>1. IsFiniteSet(R) /\ R # {}
    BY <1>1
  <2>2. PICK c : c = Picked(R)
    OBVIOUS
  <2>3. c \in R /\ Bytes(R) = Size[c] + Bytes(R \ {c}) /\ Size[c] \in Nat
    BY <2>1, <2>2, BytesOne DEF Picked, Sized
  <2>4. ASSUME NEW v \in R
        PROVE  IsFiniteSet(R \ {v}) /\ R \ {v} \in SUBSET S /\ Cardinality(R \ {v}) = n
    <3>1. Cardinality(R \ {v}) = Cardinality(R) - 1
      BY <2>1, FS_RemoveElement
    <3> QED BY <1>1, <3>1
  <2>5. \A v \in R : /\ Bytes(R \ {v}) \in Nat
                     /\ \A w \in R \ {v} : Bytes(R \ {v}) = Size[w] + Bytes((R \ {v}) \ {w})
    BY <1>3, <2>4
  <2>6. ASSUME NEW v \in R, v # c PROVE Bytes(R) = Size[v] + Bytes(R \ {v})
    <3>1. (R \ {c}) \ {v} = (R \ {v}) \ {c} /\ v \in R \ {c} /\ c \in R \ {v}
      BY <2>3, <2>6
    <3>2. PICK b : b = Bytes((R \ {v}) \ {c})
      OBVIOUS
    <3>3. Bytes(R \ {c}) = Size[v] + b /\ Bytes(R \ {v}) = Size[c] + b
      BY <2>3, <2>5, <3>1, <3>2
    <3>4. b \in Nat
      <4>1. Cardinality((R \ {v}) \ {c}) = Cardinality(R \ {v}) - 1
        BY <2>4, <3>1, FS_RemoveElement
      <4>2. Cardinality((R \ {v}) \ {c}) <= n
        BY <2>4, <4>1
      <4>3. (R \ {v}) \ {c} \in SUBSET S
        OBVIOUS
      <4> QED BY <1>3, <3>2, <4>2, <4>3
    <3> QED BY <2>3, <3>3, <3>4 DEF Sized
  <2> QED BY <2>3, <2>5, <2>6
<1> HIDE DEF T
<1>4. \A n \in Nat : n \in T
  BY <1>2, <1>3, Induct
<1>5. S \in SUBSET S /\ Cardinality(S) \in Nat
  BY <1>1
<1> QED BY <1>4, <1>5 DEF T

(* Sums of parts of a set.                                                 *)
LEMMA BytesLess ==
  ASSUME NEW S, Sized(S), NEW R, R \subseteq S
  PROVE  /\ Sized(R) /\ Sized(S \ R)
         /\ Bytes(R) \in Nat /\ Bytes(S) \in Nat /\ Bytes(S \ R) \in Nat
         /\ Bytes(S) = Bytes(R) + Bytes(S \ R)
<1> DEFINE T == {n \in Nat : \A U \in SUBSET S : Cardinality(U) = n =>
                   Bytes(S) = Bytes(U) + Bytes(S \ U)}
<1>1. \A U \in SUBSET S : /\ IsFiniteSet(U) /\ Cardinality(U) \in Nat
                          /\ (Cardinality(U) = 0 <=> U = {}) /\ Sized(U)
  BY FS_Subset, FS_CardinalityType, FS_EmptySet DEF Sized
<1>2. \A U \in SUBSET S : Bytes(U) \in Nat /\ \A v \in U : Bytes(U) = Size[v] + Bytes(U \ {v})
  BY <1>1, BytesSplit
<1>3. 0 \in T
  <2> SUFFICES ASSUME NEW U \in SUBSET S, Cardinality(U) = 0 PROVE Bytes(S) = Bytes(U) + Bytes(S \ U)
    OBVIOUS
  <2>1. U = {} /\ S \ U = S
    BY <1>1
  <2>2. Bytes(U) = 0
    BY <2>1, FS_EmptySet, BytesOne
  <2>3. Bytes(S) \in Nat
    BY BytesSplit
  <2> QED BY <2>1, <2>2, <2>3
<1>4. ASSUME NEW n \in Nat, n \in T PROVE n + 1 \in T
  <2> SUFFICES ASSUME NEW U \in SUBSET S, Cardinality(U) = n + 1
               PROVE  Bytes(S) = Bytes(U) + Bytes(S \ U)
    OBVIOUS
  <2>1. PICK v \in U : TRUE
    BY <1>1
  <2>2. PICK V : V = U \ {v}
    OBVIOUS
  <2>3. Cardinality(V) = n /\ V \in SUBSET S
    <3>1. Cardinality(U \ {v}) = Cardinality(U) - 1
      BY <1>1, FS_RemoveElement
    <3> QED BY <2>2, <3>1
  <2>4. Bytes(S) = Bytes(V) + Bytes(S \ V)
    BY <1>4, <2>3
  <2>5. v \in S \ V /\ (S \ V) \ {v} = S \ U /\ S \ V \in SUBSET S /\ S \ U \in SUBSET S
    BY <2>1, <2>2
  <2>6. Bytes(S \ V) = Size[v] + Bytes(S \ U)
    BY <1>2, <2>5
  <2>7. Bytes(U) = Size[v] + Bytes(V)
    BY <1>2, <2>1, <2>2
  <2>8. Size[v] \in Nat /\ Bytes(V) \in Nat /\ Bytes(S \ U) \in Nat
    BY <1>2, <2>1, <2>3, <2>5 DEF Sized
  <2> QED BY <2>4, <2>6, <2>7, <2>8
<1> HIDE DEF T
<1>5. R \in SUBSET S /\ S \ R \in SUBSET S /\ S \in SUBSET S
  OBVIOUS
<1>6. Cardinality(R) \in T
  BY <1>1, <1>3, <1>4, <1>5, Induct
<1>7. Bytes(S) = Bytes(R) + Bytes(S \ R)
  BY <1>5, <1>6 DEF T
<1> QED BY <1>1, <1>2, <1>5, <1>7

(* One more version adds its bytes, unless it was there.                   *)
LEMMA BytesAdd ==
  ASSUME NEW S, Sized(S), NEW v, Size[v] \in Nat
  PROVE  /\ Sized(S \cup {v}) /\ Bytes(S \cup {v}) \in Nat /\ Bytes(S) \in Nat
         /\ Bytes(S \cup {v}) <= Bytes(S) + Size[v]
         /\ v \notin S => Bytes(S \cup {v}) = Bytes(S) + Size[v]
<1>1. PICK U : U = S \cup {v}
  OBVIOUS
<1>2. Sized(U)
  BY <1>1, FS_AddElement DEF Sized
<1>3. Bytes(U) \in Nat /\ Bytes(S) \in Nat
  BY <1>2, BytesSplit
<1>4. CASE v \in S
  <2>1. U = S
    BY <1>1, <1>4
  <2> QED BY <1>1, <1>2, <1>3, <1>4, <2>1
<1>5. CASE v \notin S
  <2>1. U \ {v} = S /\ v \in U
    BY <1>1, <1>5
  <2>2. Bytes(U) = Size[v] + Bytes(S)
    BY <1>2, <2>1, BytesSplit
  <2> QED BY <1>1, <1>2, <1>3, <1>5, <2>2
<1> QED BY <1>4, <1>5

-----------------------------------------------------------------------------
(* The stage of a request says what it holds; a lease is never taken away,  *)
(* since only residents without one are evicted.                           *)
Leases ==
  \A r \in Requests :
    /\ req[r].lease # "evicted"
    /\ req[r].stage = "running" <=> req[r].lease = "cached"
    /\ req[r].stage = "running" => req[r].handle \in ToSet(gpu)
    /\ req[r].stage # "new" => req[r].handle \in Versions
OnGpu ==
  /\ IsInjective(gpu) /\ gpu_bytes = Bytes(ToSet(gpu)) /\ gpu_bytes <= GpuBudget
OnHost == IsFiniteSet(InRam) /\ RamWithinBudget

(* The inductive invariant.                                                *)
IInv == TypeOK /\ Leases /\ OnGpu /\ OnHost /\ LatestIsNewest

(* Elements of sequences.                                                  *)
LEMMA ToSetFacts ==
  ASSUME NEW S, NEW s \in Seq(S)
  PROVE  /\ ToSet(s) \subseteq S /\ IsFiniteSet(ToSet(s))
         /\ s = <<>> <=> ToSet(s) = {}
         /\ s # <<>> => Last(s) \in ToSet(s)
         /\ \A e \in S : /\ Append(s, e) \in Seq(S) /\ Append(s, e) # <<>>
                         /\ ToSet(Append(s, e)) = ToSet(s) \cup {e}
                         /\ Last(Append(s, e)) = e
                         /\ IsInjective(s) /\ e \notin ToSet(s) => IsInjective(Append(s, e))
<1>1. /\ Len(s) \in Nat /\ DOMAIN s = 1..Len(s) /\ \A i \in 1..Len(s) : s[i] \in S
      /\ s = <<>> <=> Len(s) = 0
  OBVIOUS
<1>2. ToSet(s) \subseteq S
  BY <1>1 DEF ToSet
<1>3. IsFiniteSet(ToSet(s))
  <2>1. IsFiniteSet(1..Len(s))
    BY <1>1, FS_Interval
  <2>2. s \in Surjection(1..Len(s), ToSet(s))
    <3>1. s \in [1..Len(s) -> ToSet(s)]
      BY <1>1 DEF ToSet
    <3>2. \A t \in ToSet(s) : \E i \in 1..Len(s) : s[i] = t
      BY <1>1 DEF ToSet
    <3> QED BY <3>1, <3>2 DEF Surjection
  <2> QED BY <2>1, <2>2, FS_Surjection
<1>4. s = <<>> <=> ToSet(s) = {}
  <2>1. s # <<>> => 1 \in 1..Len(s)
    BY <1>1
  <2> QED BY <1>1, <2>1 DEF ToSet
<1>5. s # <<>> => Last(s) \in ToSet(s)
  <2>1. s # <<>> => Len(s) \in 1..Len(s)
    BY <1>1
  <2> QED BY <1>1, <2>1 DEF ToSet, Last
<1>6. ASSUME NEW e \in S
      PROVE  /\ Append(s, e) \in Seq(S) /\ Append(s, e) # <<>>
             /\ ToSet(Append(s, e)) = ToSet(s) \cup {e}
             /\ Last(Append(s, e)) = e
             /\ IsInjective(s) /\ e \notin ToSet(s) => IsInjective(Append(s, e))
  <2> DEFINE a == Append(s, e)
  <2>1. /\ a \in Seq(S) /\ a # <<>> /\ Len(a) = Len(s) + 1 /\ DOMAIN a = 1..(Len(s) + 1)
        /\ a[Len(s) + 1] = e /\ \A i \in 1..Len(s) : a[i] = s[i]
    BY <1>1
  <2> HIDE DEF a
  <2>2. \A x : x \in ToSet(a) <=> x \in ToSet(s) \cup {e}
    <3>1. \A x : x \in ToSet(a) <=> \E i \in 1..(Len(s) + 1) : a[i] = x
      BY <2>1 DEF ToSet
    <3>2. \A x : x \in ToSet(s) <=> \E i \in 1..Len(s) : s[i] = x
      BY <1>1 DEF ToSet
    <3> QED BY <1>1, <2>1, <3>1, <3>2
  <2>3. Last(a) = e
    BY <2>1 DEF Last
  <2>4. IsInjective(s) /\ e \notin ToSet(s) => IsInjective(a)
    <3>1. e \notin ToSet(s) => \A i \in 1..Len(s) : s[i] # e
      BY <1>1 DEF ToSet
    <3> QED BY <1>1, <2>1, <3>1 DEF IsInjective
  <2> QED BY <2>1, <2>2, <2>3, <2>4 DEF a
<1> QED BY <1>2, <1>3, <1>4, <1>5, <1>6

(* The residents and what the RAM holds have sizes.                        *)
LEMMA AllSized ==
  ASSUME IInv
  PROVE  /\ Sized(ToSet(gpu)) /\ ToSet(gpu) \subseteq Versions
         /\ Sized(InRam) /\ InRam \subseteq Versions
<1>1. \A v \in Versions : Size[v] \in Nat
  BY BudgetAssumption
<1>2. ToSet(gpu) \subseteq Versions /\ IsFiniteSet(ToSet(gpu))
  BY ToSetFacts DEF IInv, TypeOK
<1>3. InRam \subseteq Versions
  <2>1. \A id \in Ids : registry[id] \subseteq Versions
    BY DEF IInv, TypeOK
  <2>2. \A r \in Requests : req[r].handle \in Versions \cup {None}
    BY DEF IInv, TypeOK
  <2> QED BY <2>1, <2>2 DEF InRam
<1> QED BY <1>1, <1>2, <1>3 DEF Sized, IInv, OnHost

(* Dropping residents that no request leases frees their bytes and changes  *)
(* no lease.                                                               *)
LEMMA EvictIs ==
  ASSUME IInv, NEW vs, vs \subseteq Idle
  PROVE  /\ Evict(vs) \in Seq(Versions) /\ ToSet(Evict(vs)) = ToSet(gpu) \ vs
         /\ IsInjective(Evict(vs))
         /\ gpu_bytes - Bytes(vs) \in Nat /\ gpu_bytes - Bytes(vs) <= GpuBudget
         /\ gpu_bytes - Bytes(vs) = Bytes(ToSet(gpu) \ vs)
         /\ EvictedFrom(req, vs) = req
         /\ \A r \in Requests : req[r].stage = "running" => req[r].handle \in ToSet(gpu) \ vs
<1>1. gpu \in Seq(Versions) /\ IsInjective(gpu) /\ vs \subseteq ToSet(gpu)
  BY DEF IInv, TypeOK, OnGpu, Idle
<1>2. /\ Evict(vs) \in Seq(Versions) /\ ToSet(Evict(vs)) = ToSet(gpu) \ vs
      /\ IsInjective(Evict(vs))
  BY <1>1, WithoutIs DEF Evict
<1>3. /\ Bytes(vs) \in Nat /\ Bytes(ToSet(gpu)) \in Nat /\ Bytes(ToSet(gpu) \ vs) \in Nat
      /\ Bytes(ToSet(gpu)) = Bytes(vs) + Bytes(ToSet(gpu) \ vs)
  BY <1>1, AllSized, BytesLess
<1>4. gpu_bytes = Bytes(ToSet(gpu)) /\ gpu_bytes <= GpuBudget /\ GpuBudget \in Nat
  BY BudgetAssumption DEF IInv, OnGpu
<1>5. \A r \in Requests : ~(req[r].handle \in vs /\ req[r].lease = "cached")
  BY DEF Idle, Leased, Holds
<1>6. EvictedFrom(req, vs) = req
  <2>1. req = [r \in Requests |-> req[r]]
    BY DEF IInv, TypeOK
  <2> QED BY <1>5, <2>1 DEF EvictedFrom
<1>7. \A r \in Requests : req[r].stage = "running" => req[r].handle \in ToSet(gpu) \ vs
  BY <1>5 DEF IInv, Leases
<1> QED BY <1>2, <1>3, <1>4, <1>6, <1>7

(* admit_gpu() chooses among those.                                        *)
LEMMA VictimsAreIdle ==
  ASSUME IInv, NEW n
  PROVE  Victims(n) \subseteq Idle
<1> DEFINE idle == Without(gpu, ToSet(gpu) \ Idle)
           room == {k \in 0 .. Len(idle) :
                      gpu_bytes - Bytes(ToSet(SubSeq(idle, 1, k))) + n <= GpuBudget}
<1>1. idle \in Seq(Versions) /\ ToSet(idle) = Idle
  <2>1. gpu \in Seq(Versions) /\ Idle \subseteq ToSet(gpu)
    BY DEF IInv, TypeOK, Idle
  <2>2. idle \in Seq(Versions) /\ ToSet(idle) = ToSet(gpu) \ (ToSet(gpu) \ Idle)
    BY <2>1, WithoutIs
  <2> QED BY <2>1, <2>2
<1>2. Victims(n) = IF room = {} THEN ToSet(idle) ELSE ToSet(SubSeq(idle, 1, Min(room)))
  BY DEF Victims
<1>3. \A k \in 0 .. Len(idle) : ToSet(SubSeq(idle, 1, k)) \subseteq ToSet(idle)
  <2> HIDE DEF idle
  <2> SUFFICES ASSUME NEW k \in 0 .. Len(idle) PROVE ToSet(SubSeq(idle, 1, k)) \subseteq ToSet(idle)
    OBVIOUS
  <2>1. DOMAIN idle = 1..Len(idle) /\ Len(idle) \in Nat
    BY <1>1
  <2>2. PICK p : p = SubSeq(idle, 1, k)
    OBVIOUS
  <2>3. DOMAIN p = 1..k /\ \A i \in 1..k : p[i] = idle[i] /\ i \in 1..Len(idle)
    BY <1>1, <2>1, <2>2
  <2> QED BY <2>1, <2>2, <2>3 DEF ToSet
<1>4. room # {} => Min(room) \in 0 .. Len(idle)
  <2>1. room \in SUBSET Nat /\ room \subseteq 0 .. Len(idle)
    BY <1>1
  <2> HIDE DEF room, idle
  <2>2. ASSUME room # {} PROVE Min(room) \in room
    <3>1. PICK k \in room : \A m \in room : k <= m
      BY <2>1, <2>2, Least
    <3> QED BY <3>1 DEF Min
  <2> QED BY <2>1, <2>2
<1> HIDE DEF room, idle
<1> QED BY <1>1, <1>2, <1>3, <1>4
-----------------------------------------------------------------------------
(* A step that drops packages from RAM keeps it within its budget.         *)
LEMMA HostKept ==
  ASSUME IInv, InRam' \subseteq InRam
  PROVE  OnHost'
<1>1. Sized(InRam) /\ Sized(InRam') /\ Bytes(InRam)' \in Nat /\ Bytes(InRam) \in Nat
      /\ Bytes(InRam)' <= Bytes(InRam)
  <2>1. PICK R : R = InRam'
    OBVIOUS
  <2>2. /\ Sized(R) /\ Bytes(R) \in Nat /\ Bytes(InRam) \in Nat /\ Bytes(InRam \ R) \in Nat
        /\ Bytes(InRam) = Bytes(R) + Bytes(InRam \ R)
    BY <2>1, AllSized, BytesLess
  <2>3. Bytes(InRam)' = Bytes(R)
    BY <2>1
  <2> QED BY <2>1, <2>2, <2>3, AllSized
<1>2. Bytes(InRam) <= RamBudget /\ RamBudget \in Nat
  BY BudgetAssumption DEF IInv, OnHost, RamWithinBudget
<1> QED BY <1>1, <1>2 DEF OnHost, RamWithinBudget, Sized

(* Evictions change nothing that a request, the RAM or the registry holds. *)
LEMMA AfterEviction ==
  ASSUME IInv, NEW vs, vs \subseteq Idle, gpu' = Evict(vs), gpu_bytes' = gpu_bytes - Bytes(vs),
         req' = req, UNCHANGED registered, trimming' \in BOOLEAN
  PROVE  IInv'
<1>1. /\ gpu' \in Seq(Versions) /\ ToSet(gpu') = ToSet(gpu) \ vs /\ IsInjective(gpu')
      /\ gpu_bytes' \in Nat /\ gpu_bytes' <= GpuBudget /\ gpu_bytes' = Bytes(ToSet(gpu'))
      /\ \A r \in Requests : req[r].stage = "running" => req[r].handle \in ToSet(gpu')
  BY EvictIs
<1>2. TypeOK'
  BY <1>1 DEF IInv, TypeOK, registered
<1>3. Leases'
  BY <1>1 DEF IInv, Leases
<1>4. OnGpu'
  <2>1. Bytes(ToSet(gpu))' = Bytes(ToSet(gpu'))
    OBVIOUS
  <2> QED BY <1>1, <2>1 DEF OnGpu
<1>5. OnHost'
  BY HostKept DEF InRam, registered
<1>6. LatestIsNewest'
  BY DEF IInv, LatestIsNewest, registered
<1> QED BY <1>2, <1>3, <1>4, <1>5, <1>6 DEF IInv
-----------------------------------------------------------------------------
(* The steps of the registry.                                              *)
LEMMA OrderIs ==
  ASSUME IInv, NEW id \in Ids
  PROVE  /\ order[id] \in Seq(Versions) /\ registry[id] \subseteq Versions
         /\ ToSet(order[id]) = registry[id] /\ IsInjective(order[id])
         /\ latest[id] = IF order[id] = <<>> THEN None ELSE Last(order[id])
         /\ latest[id] \in Versions \cup {None}
         /\ registry[id] # {} => latest[id] \in registry[id]
<1>1. /\ order[id] \in Seq(Versions) /\ registry[id] \subseteq Versions
      /\ latest[id] \in Versions \cup {None}
  BY DEF IInv, TypeOK
<1>2. /\ ToSet(order[id]) = registry[id] /\ IsInjective(order[id])
      /\ latest[id] = IF order[id] = <<>> THEN None ELSE Last(order[id])
  BY DEF IInv, LatestIsNewest
<1>3. registry[id] # {} => latest[id] \in registry[id]
  BY <1>1, <1>2, ToSetFacts
<1> QED BY <1>1, <1>2, <1>3

(* A step that changes one id of the registry, order and newest in agreement. *)
LEMMA RegistryStep ==
  ASSUME IInv, NEW id \in Ids, NEW vs \in SUBSET Versions, NEW o \in Seq(Versions),
         ToSet(o) = vs, IsInjective(o),
         registry' = [registry EXCEPT ![id] = vs],
         order' = [order EXCEPT ![id] = o],
         latest' = [latest EXCEPT ![id] = IF o = <<>> THEN None ELSE Last(o)],
         UNCHANGED <<gpu, gpu_bytes, req>>, trimming' \in BOOLEAN,
         OnHost'
  PROVE  IInv'
<1> DEFINE l == IF o = <<>> THEN None ELSE Last(o)
<1>1. l \in Versions \cup {None}
  BY ToSetFacts
<1> HIDE DEF l
<1>2. /\ registry \in [Ids -> SUBSET Versions] /\ order \in [Ids -> Seq(Versions)]
      /\ latest \in [Ids -> Versions \cup {None}]
  BY DEF IInv, TypeOK
<1>3. latest' = [latest EXCEPT ![id] = l]
  BY DEF l
<1>4. /\ registry' \in [Ids -> SUBSET Versions] /\ order' \in [Ids -> Seq(Versions)]
      /\ latest' \in [Ids -> Versions \cup {None}]
  BY <1>1, <1>2, <1>3
<1>5. /\ registry'[id] = vs /\ order'[id] = o /\ latest'[id] = l
      /\ \A i \in Ids \ {id} : /\ registry'[i] = registry[i] /\ order'[i] = order[i]
                             /\ latest'[i] = latest[i]
  BY <1>2, <1>3
<1>6. TypeOK'
  BY <1>4 DEF IInv, TypeOK
<1>7. Leases' /\ OnGpu'
  <2>1. Bytes(ToSet(gpu))' = Bytes(ToSet(gpu'))
    OBVIOUS
  <2>2. gpu' = gpu /\ gpu_bytes' = gpu_bytes /\ req' = req
    OBVIOUS
  <2> QED BY <2>1, <2>2 DEF IInv, Leases, OnGpu
<1>8. LatestIsNewest'
  <2> SUFFICES ASSUME NEW i \in Ids
               PROVE  /\ ToSet(order'[i]) = registry'[i] /\ IsInjective(order'[i])
                      /\ latest'[i] = IF order'[i] = <<>> THEN None ELSE Last(order'[i])
    BY DEF LatestIsNewest
  <2>1. CASE i = id
    BY <1>5, <2>1 DEF l
  <2>2. CASE i # id
    BY <1>5, <2>2 DEF IInv, LatestIsNewest
  <2> QED BY <2>1, <2>2
<1> QED BY <1>6, <1>7, <1>8 DEF IInv

(* register_adapter() moves a version to the end of its id's order.        *)
LEMMA RegisterStep ==
  ASSUME IInv, NEW id \in Ids, NEW v \in Versions, Register(id, v)
  PROVE  IInv'
<1> DEFINE others == Without(order[id], {v})
<1>1. /\ order[id] \in Seq(Versions) /\ registry[id] \subseteq Versions
      /\ ToSet(order[id]) = registry[id] /\ IsInjective(order[id])
  BY OrderIs
<1>2. others \in Seq(Versions) /\ ToSet(others) = registry[id] \ {v} /\ IsInjective(others)
  BY <1>1, WithoutIs
<1> HIDE DEF others
<1>3. PICK o : o = Append(others, v)
  OBVIOUS
<1>4. /\ o \in Seq(Versions) /\ o # <<>> /\ ToSet(o) = registry[id] \cup {v}
      /\ IsInjective(o) /\ Last(o) = v
  BY <1>2, <1>3, ToSetFacts
<1>5. /\ registry' = [registry EXCEPT ![id] = registry[id] \cup {v}]
      /\ order' = [order EXCEPT ![id] = o]
      /\ latest' = [latest EXCEPT ![id] = IF o = <<>> THEN None ELSE Last(o)]
      /\ UNCHANGED <<gpu, gpu_bytes, req, trimming>>
  <2>1. /\ registry' = [registry EXCEPT ![id] = @ \cup {v}]
        /\ order' = [order EXCEPT ![id] = Append(Without(@, {v}), v)]
        /\ latest' = [latest EXCEPT ![id] = v]
        /\ UNCHANGED <<gpu, gpu_bytes, req, trimming>>
    BY DEF Register, SetLatest
  <2>2. order' = [order EXCEPT ![id] = o]
    BY <1>3, <2>1 DEF others
  <2> QED BY <1>4, <2>1, <2>2
<1>6. OnHost'
  <2>1. InRam' = InRam \cup {v}
    <3>1. registry \in [Ids -> SUBSET Versions]
      BY DEF IInv, TypeOK
    <3>2. UNION {registry'[i] : i \in Ids} = (UNION {registry[i] : i \in Ids}) \cup {v}
      BY <1>5, <3>1
    <3> QED BY <1>5, <3>2 DEF InRam
  <2>2. Size[v] \in Nat /\ RamBudget \in Nat
    BY BudgetAssumption
  <2>3. /\ Sized(InRam \cup {v}) /\ Bytes(InRam \cup {v}) \in Nat /\ Bytes(InRam) \in Nat
        /\ Bytes(InRam \cup {v}) <= Bytes(InRam) + Size[v]
    BY <2>2, AllSized, BytesAdd
  <2>4. Size[v] + Bytes(InRam) <= RamBudget
    BY DEF Register, Fits
  <2>5. Bytes(InRam)' = Bytes(InRam')
    OBVIOUS
  <2> QED BY <2>1, <2>2, <2>3, <2>4, <2>5 DEF OnHost, RamWithinBudget, Sized
<1>7. registry[id] \cup {v} \in SUBSET Versions /\ trimming' \in BOOLEAN
  BY <1>1, <1>5 DEF IInv, TypeOK
<1> QED BY <1>4, <1>5, <1>6, <1>7, RegistryStep

(* erase() of one version takes it out of the order.                       *)
LEMMA EraseVersionStep ==
  ASSUME IInv, NEW id \in Ids, NEW v \in Versions, EraseVersion(id, v)
  PROVE  IInv'
<1>1. PICK o : o = Without(order[id], {v})
  OBVIOUS
<1>2. /\ order[id] \in Seq(Versions) /\ registry[id] \subseteq Versions
      /\ ToSet(order[id]) = registry[id] /\ IsInjective(order[id])
      /\ latest[id] = IF order[id] = <<>> THEN None ELSE Last(order[id])
  BY OrderIs
<1>3. /\ o \in Seq(Versions) /\ ToSet(o) = registry[id] \ {v} /\ IsInjective(o)
      /\ order[id] # <<>> /\ Last(order[id]) # v => o # <<>> /\ Last(o) = Last(order[id])
  BY <1>1, <1>2, WithoutIs
<1>4. /\ registry[id] # {}
      /\ registry' = [registry EXCEPT ![id] = registry[id] \ {v}]
      /\ order' = [order EXCEPT ![id] = o]
      /\ latest' = [latest EXCEPT ![id] = LatestWithout(id, v)]
      /\ trimming' = TRUE /\ UNCHANGED <<gpu, gpu_bytes, req>>
  BY <1>1 DEF EraseVersion
<1>5. LatestWithout(id, v) = IF o = <<>> THEN None ELSE Last(o)
  <2>1. order[id] # <<>>
    BY <1>2, <1>4, ToSetFacts
  <2> QED BY <1>1, <1>2, <1>3, <2>1 DEF LatestWithout
<1>6. OnHost'
  <2>1. registry \in [Ids -> SUBSET Versions]
    BY DEF IInv, TypeOK
  <2>2. InRam' \subseteq InRam
    BY <1>4, <2>1 DEF InRam
  <2> QED BY <2>2, HostKept
<1>7. registry[id] \ {v} \in SUBSET Versions
  BY <1>2
<1> QED BY <1>3, <1>4, <1>5, <1>6, <1>7, RegistryStep

(* erase() of the whole id empties the order.                              *)
LEMMA EraseAllStep ==
  ASSUME IInv, NEW id \in Ids, EraseAll(id)
  PROVE  IInv'
<1>0. <<>> \in Seq(Versions)
  OBVIOUS
<1>1. PICK o : o = <<>> /\ o \in Seq(Versions)
  BY <1>0
<1>2. ToSet(o) = {} /\ IsInjective(o)
  <2>1. ToSet(o) = {}
    BY <1>1, ToSetFacts
  <2>2. DOMAIN o = {}
    BY <1>1
  <2> QED BY <2>1, <2>2 DEF IsInjective
<1>3. /\ registry' = [registry EXCEPT ![id] = {}]
      /\ order' = [order EXCEPT ![id] = o]
      /\ latest' = [latest EXCEPT ![id] = IF o = <<>> THEN None ELSE Last(o)]
      /\ trimming' = TRUE /\ UNCHANGED <<gpu, gpu_bytes, req>>
  BY <1>1 DEF EraseAll
<1>4. OnHost'
  <2>1. registry \in [Ids -> SUBSET Versions]
    BY DEF IInv, TypeOK
  <2>2. InRam' \subseteq InRam
    BY <1>3, <2>1 DEF InRam
  <2> QED BY <2>2, HostKept
<1>5. {} \in SUBSET Versions
  OBVIOUS
<1> QED BY <1>1, <1>2, <1>3, <1>4, <1>5, RegistryStep

-----------------------------------------------------------------------------
(* A step of one request: what it holds afterwards is in RAM, its lease goes *)
(* with the stage, and the others find their versions still resident.      *)
Request == [stage : Stages, handle : Versions \cup {None}, lease : {"none", "cached", "evicted"}]

(* A step of one request: what it asks of the residents and of its own record. *)
LEMMA RequestStep ==
  ASSUME IInv, NEW r \in Requests, NEW q \in Request, req' = [req EXCEPT ![r] = q],
         q.lease # "evicted", q.stage = "running" <=> q.lease = "cached",
         q.stage = "running" => q.handle \in ToSet(gpu'),
         q.stage # "new" => q.handle \in Versions,
         q.handle \in InRam \cup {None},
         gpu' \in Seq(Versions), IsInjective(gpu'), gpu_bytes' \in Nat,
         gpu_bytes' = Bytes(ToSet(gpu')), gpu_bytes' <= GpuBudget,
         \A p \in Requests \ {r} : req[p].stage = "running" => req[p].handle \in ToSet(gpu'),
         UNCHANGED registered, trimming' \in BOOLEAN
  PROVE  IInv'
<1>1. req \in [Requests -> Request]
  BY DEF IInv, TypeOK, Request
<1>2. /\ req' \in [Requests -> Request] /\ req'[r] = q
      /\ \A p \in Requests \ {r} : req'[p] = req[p]
  BY <1>1
<1>3. TypeOK'
  BY <1>2 DEF IInv, TypeOK, Request, registered
<1>4. Leases'
  <2> SUFFICES ASSUME NEW p \in Requests
               PROVE  /\ req'[p].lease # "evicted"
                      /\ req'[p].stage = "running" <=> req'[p].lease = "cached"
                      /\ req'[p].stage = "running" => req'[p].handle \in ToSet(gpu')
                      /\ req'[p].stage # "new" => req'[p].handle \in Versions
    BY DEF Leases
  <2>1. CASE p = r
    BY <1>2, <2>1
  <2>2. CASE p # r
    BY <1>2, <2>2 DEF IInv, Leases
  <2> QED BY <2>1, <2>2
<1>5. OnGpu'
  <2>1. Bytes(ToSet(gpu))' = Bytes(ToSet(gpu'))
    OBVIOUS
  <2> QED BY <2>1 DEF OnGpu
<1>6. OnHost'
  <2>1. \A p \in Requests : req'[p].handle \in InRam \cup {None}
    BY <1>2 DEF InRam
  <2>2. InRam' \subseteq InRam
    BY <2>1 DEF InRam, registered
  <2> QED BY <2>2, HostKept
<1>7. LatestIsNewest'
  BY DEF IInv, LatestIsNewest, registered
<1> QED BY <1>3, <1>4, <1>5, <1>6, <1>7 DEF IInv

(* What RequestStep asks of the GPU when nothing happens there.            *)
LEMMA GpuStays ==
  ASSUME IInv, UNCHANGED <<gpu, gpu_bytes>>
  PROVE  /\ gpu' \in Seq(Versions) /\ IsInjective(gpu') /\ gpu_bytes' \in Nat
         /\ gpu_bytes' = Bytes(ToSet(gpu')) /\ gpu_bytes' <= GpuBudget
         /\ \A p \in Requests : req[p].stage = "running" => req[p].handle \in ToSet(gpu')
  BY DEF IInv, TypeOK, OnGpu, Leases

(* What a request that leases holds is in RAM and has a size.              *)
LEMMA ReqIs ==
  ASSUME IInv, NEW r \in Requests
  PROVE  /\ req \in [Requests -> Request] /\ req[r] \in Request
         /\ req[r].handle \in InRam \cup {None}
         /\ req[r].lease # "evicted"
         /\ req[r].stage = "running" <=> req[r].lease = "cached"
         /\ req[r].stage # "new" => req[r].handle \in Versions
  BY DEF IInv, TypeOK, Leases, Request, InRam

(* resolve() gives a request the handle of a registered version.           *)
LEMMA ResolveStep ==
  ASSUME IInv, NEW r \in Requests, NEW id \in Ids, NEW v \in Versions, Resolve(r, id, v)
  PROVE  IInv'
<1> DEFINE q == [req[r] EXCEPT !.stage = "bound", !.handle = v]
<1>1. /\ req[r].stage = "new" /\ v \in registry[id]
      /\ req' = [req EXCEPT ![r].stage = "bound", ![r].handle = v]
      /\ UNCHANGED <<registered, gpu, gpu_bytes, trimming>>
  BY OrderIs DEF Resolve
<1>2. v \in InRam
  BY <1>1 DEF InRam
<1>3. /\ q \in Request /\ q.stage = "bound" /\ q.handle = v /\ q.lease = req[r].lease
      /\ req' = [req EXCEPT ![r] = q]
  BY <1>1, ReqIs DEF Request, Stages
<1>4. req[r].lease # "evicted" /\ req[r].lease # "cached"
  BY <1>1, ReqIs
<1> HIDE DEF q
<1>5. trimming' \in BOOLEAN
  BY <1>1 DEF IInv, TypeOK
<1> QED BY <1>1, <1>2, <1>3, <1>4, <1>5, GpuStays, RequestStep

(* acquire() finds its version resident and leases it.                     *)
LEMMA HitStep ==
  ASSUME IInv, NEW r \in Requests, Hit(r)
  PROVE  IInv'
<1> DEFINE q == [req[r] EXCEPT !.stage = "running", !.lease = "cached"]
           v == req[r].handle
           others == Without(gpu, {v})
<1>1. /\ req[r].stage = "bound" /\ v \in ToSet(gpu)
      /\ gpu' = Append(others, v)
      /\ req' = [req EXCEPT ![r].stage = "running", ![r].lease = "cached"]
      /\ UNCHANGED <<registered, gpu_bytes, trimming>>
  BY DEF Hit
<1>2. /\ q \in Request /\ q.stage = "running" /\ q.handle = v /\ q.lease = "cached"
      /\ req' = [req EXCEPT ![r] = q] /\ v \in Versions
  BY <1>1, ReqIs DEF Request, Stages
<1>3. gpu \in Seq(Versions) /\ IsInjective(gpu)
  BY DEF IInv, TypeOK, OnGpu
<1>4. others \in Seq(Versions) /\ ToSet(others) = ToSet(gpu) \ {v} /\ IsInjective(others)
  BY <1>3, WithoutIs
<1>5. v \in InRam \cup {None}
  BY ReqIs
<1> HIDE DEF q, v, others
<1>6. gpu' \in Seq(Versions) /\ IsInjective(gpu') /\ ToSet(gpu') = ToSet(gpu)
  <2>1. v \notin ToSet(others) /\ v \in Versions
    BY <1>2, <1>4
  <2>2. PICK a : a = Append(others, v)
    OBVIOUS
  <2>3. a \in Seq(Versions) /\ IsInjective(a) /\ ToSet(a) = ToSet(others) \cup {v}
    BY <1>4, <2>1, <2>2, ToSetFacts
  <2>4. gpu' = a
    BY <1>1, <2>2
  <2> QED BY <1>1, <1>4, <2>3, <2>4
<1>7. /\ gpu_bytes' \in Nat /\ gpu_bytes' = Bytes(ToSet(gpu')) /\ gpu_bytes' <= GpuBudget
      /\ trimming' \in BOOLEAN
  BY <1>1, <1>6 DEF IInv, TypeOK, OnGpu
<1>8. \A p \in Requests : req[p].stage = "running" => req[p].handle \in ToSet(gpu')
  BY <1>6 DEF IInv, Leases
<1> QED BY <1>1, <1>2, <1>5, <1>6, <1>7, <1>8, RequestStep

(* acquire() evicts, uploads and leases.                                   *)
LEMMA MissStep ==
  ASSUME IInv, NEW r \in Requests, Miss(r)
  PROVE  IInv'
<1>1. PICK v, vs : v = req[r].handle /\ vs = Victims(Size[v])
  OBVIOUS
<1>2. /\ req[r].stage = "bound" /\ v \notin ToSet(gpu)
      /\ gpu_bytes - Bytes(vs) + Size[v] <= GpuBudget
      /\ gpu' = Append(Evict(vs), v) /\ gpu_bytes' = gpu_bytes - Bytes(vs) + Size[v]
      /\ req' = [EvictedFrom(req, vs) EXCEPT ![r].stage = "running", ![r].lease = "cached"]
      /\ UNCHANGED <<registered, trimming>>
  BY <1>1 DEF Miss, Missed
<1>3. /\ Evict(vs) \in Seq(Versions) /\ ToSet(Evict(vs)) = ToSet(gpu) \ vs
      /\ IsInjective(Evict(vs))
      /\ gpu_bytes - Bytes(vs) \in Nat
      /\ gpu_bytes - Bytes(vs) = Bytes(ToSet(gpu) \ vs)
      /\ EvictedFrom(req, vs) = req
      /\ \A p \in Requests : req[p].stage = "running" => req[p].handle \in ToSet(gpu) \ vs
  <2>1. vs \subseteq Idle
    BY <1>1, VictimsAreIdle
  <2> QED BY <2>1, EvictIs
<1>4. PICK q : q = [req[r] EXCEPT !.stage = "running", !.lease = "cached"]
  OBVIOUS
<1>5. /\ q \in Request /\ q.stage = "running" /\ q.handle = v /\ q.lease = "cached"
      /\ req' = [req EXCEPT ![r] = q] /\ v \in Versions /\ v \in InRam \cup {None}
  BY <1>1, <1>2, <1>3, <1>4, ReqIs DEF Request, Stages
<1>6. /\ gpu' \in Seq(Versions) /\ IsInjective(gpu') /\ ToSet(gpu') = (ToSet(gpu) \ vs) \cup {v}
  BY <1>2, <1>3, <1>5, ToSetFacts
<1>7. gpu_bytes' = Bytes(ToSet(gpu')) /\ gpu_bytes' \in Nat /\ gpu_bytes' <= GpuBudget
  <2>1. Size[v] \in Nat
    BY <1>5, BudgetAssumption
  <2>2. Sized(ToSet(gpu) \ vs)
    BY AllSized, FS_Difference DEF Sized
  <2>3. Bytes((ToSet(gpu) \ vs) \cup {v}) = Bytes(ToSet(gpu) \ vs) + Size[v]
    BY <1>2, <2>1, <2>2, BytesAdd
  <2> QED BY <1>2, <1>3, <1>6, <2>1, <2>3
<1>8. trimming' \in BOOLEAN
  BY <1>2 DEF IInv, TypeOK
<1> QED BY <1>2, <1>3, <1>5, <1>6, <1>7, <1>8, RequestStep

(* acquire() evicts, then the upload fails and the handle is dropped.      *)
LEMMA FailStep ==
  ASSUME IInv, NEW r \in Requests, Fail(r)
  PROVE  IInv'
<1>1. PICK vs : /\ vs = {} \/ vs = Victims(Size[req[r].handle])
                /\ gpu' = Evict(vs) /\ gpu_bytes' = gpu_bytes - Bytes(vs)
                /\ req' = [EvictedFrom(req, vs) EXCEPT ![r] = NoRequest]
                /\ UNCHANGED <<registered, trimming>>
  BY DEF Fail
<1>2. vs \subseteq Idle
  BY <1>1, VictimsAreIdle
<1>3. /\ Evict(vs) \in Seq(Versions) /\ ToSet(Evict(vs)) = ToSet(gpu) \ vs
      /\ IsInjective(Evict(vs))
      /\ gpu_bytes - Bytes(vs) \in Nat /\ gpu_bytes - Bytes(vs) <= GpuBudget
      /\ gpu_bytes - Bytes(vs) = Bytes(ToSet(gpu) \ vs)
      /\ EvictedFrom(req, vs) = req
      /\ \A p \in Requests : req[p].stage = "running" => req[p].handle \in ToSet(gpu) \ vs
  BY <1>2, EvictIs
<1>4. /\ NoRequest \in Request /\ NoRequest.stage = "new" /\ NoRequest.lease = "none"
      /\ NoRequest.handle = None
  BY DEF NoRequest, Request, Stages
<1>5. trimming' \in BOOLEAN
  BY <1>1 DEF IInv, TypeOK
<1>6. req' = [req EXCEPT ![r] = NoRequest]
  BY <1>1, <1>3
<1>7. /\ gpu' \in Seq(Versions) /\ IsInjective(gpu') /\ gpu_bytes' \in Nat
      /\ gpu_bytes' = Bytes(ToSet(gpu')) /\ gpu_bytes' <= GpuBudget
      /\ \A p \in Requests : req[p].stage = "running" => req[p].handle \in ToSet(gpu')
  BY <1>1, <1>3
<1> QED BY <1>1, <1>4, <1>5, <1>6, <1>7, RequestStep

(* trim() drops what nobody leases.                                        *)
LEMMA TrimStep ==
  ASSUME IInv, Trim
  PROVE  IInv'
<1>1. /\ gpu' = Evict(Idle) /\ gpu_bytes' = gpu_bytes - Bytes(Idle)
      /\ req' = EvictedFrom(req, Idle) /\ trimming' = FALSE /\ UNCHANGED registered
  BY DEF Trim
<1>2. Idle \subseteq Idle /\ EvictedFrom(req, Idle) = req
  BY EvictIs
<1> QED BY <1>1, <1>2, AfterEviction

(* A paused request drops its lease and trims.                             *)
LEMMA TrimPausedStep ==
  ASSUME IInv, NEW r \in Requests, TrimPaused(r)
  PROVE  IInv'
<1>1. /\ gpu' = Evict(Idle) /\ gpu_bytes' = gpu_bytes - Bytes(Idle)
      /\ req' = [EvictedFrom(req, Idle) EXCEPT ![r].stage = "paused"]
      /\ UNCHANGED <<registered, trimming>> /\ req[r].stage = "pausing"
  BY DEF TrimPaused
<1>2. /\ Evict(Idle) \in Seq(Versions) /\ ToSet(Evict(Idle)) = ToSet(gpu) \ Idle
      /\ IsInjective(Evict(Idle))
      /\ gpu_bytes - Bytes(Idle) \in Nat /\ gpu_bytes - Bytes(Idle) <= GpuBudget
      /\ gpu_bytes - Bytes(Idle) = Bytes(ToSet(gpu) \ Idle)
      /\ EvictedFrom(req, Idle) = req
      /\ \A p \in Requests : req[p].stage = "running" => req[p].handle \in ToSet(gpu) \ Idle
  BY EvictIs
<1>3. PICK q : q = [req[r] EXCEPT !.stage = "paused"]
  OBVIOUS
<1>4. /\ q \in Request /\ q.stage = "paused" /\ q.handle = req[r].handle
      /\ q.lease = req[r].lease /\ req' = [req EXCEPT ![r] = q]
      /\ req[r].handle \in Versions /\ req[r].handle \in InRam \cup {None}
      /\ req[r].lease # "evicted" /\ req[r].lease # "cached"
  BY <1>1, <1>2, <1>3, ReqIs DEF Request, Stages
<1>5. /\ gpu' \in Seq(Versions) /\ IsInjective(gpu') /\ gpu_bytes' \in Nat
      /\ gpu_bytes' = Bytes(ToSet(gpu')) /\ gpu_bytes' <= GpuBudget
      /\ \A p \in Requests : req[p].stage = "running" => req[p].handle \in ToSet(gpu')
      /\ trimming' \in BOOLEAN
  BY <1>1, <1>2 DEF IInv, TypeOK
<1> QED BY <1>1, <1>4, <1>5, RequestStep

(* Pause, resume and finish.                                               *)
LEMMA PauseStep ==
  ASSUME IInv, NEW r \in Requests, Pause(r) \/ Resume(r) \/ Finish(r)
  PROVE  IInv'
<1>1. /\ UNCHANGED <<registered, gpu, gpu_bytes, trimming>>
      /\ req[r].stage # "new"
  BY DEF Pause, Resume, Finish
<1>2. PICK q \in Request :
        /\ req' = [req EXCEPT ![r] = q] /\ q.lease = "none" /\ q.stage # "running"
        /\ q.stage # "new" => q.handle \in Versions
        /\ q.handle \in InRam \cup {None}
  <2>1. CASE Pause(r)
    <3>1. PICK q : q = [req[r] EXCEPT !.stage = "pausing", !.lease = "none"]
      OBVIOUS
    <3>2. /\ q \in Request /\ q.stage = "pausing" /\ q.handle = req[r].handle /\ q.lease = "none"
          /\ req' = [req EXCEPT ![r] = q]
      BY <2>1, <3>1, ReqIs DEF Pause, Request, Stages
    <3> QED BY <1>1, <3>2, ReqIs
  <2>2. CASE Resume(r)
    <3>1. PICK q : q = [req[r] EXCEPT !.stage = "bound"]
      OBVIOUS
    <3>2. /\ q \in Request /\ q.stage = "bound" /\ q.handle = req[r].handle /\ q.lease = "none"
          /\ req' = [req EXCEPT ![r] = q]
      BY <2>2, <3>1, ReqIs DEF Resume, Request, Stages
    <3> QED BY <1>1, <3>2, ReqIs
  <2>3. CASE Finish(r)
    <3>1. /\ NoRequest \in Request /\ NoRequest.stage = "new" /\ NoRequest.lease = "none"
          /\ NoRequest.handle = None
      BY DEF NoRequest, Request, Stages
    <3> QED BY <2>3, <3>1 DEF Finish
  <2> QED BY <2>1, <2>2, <2>3
<1>3. trimming' \in BOOLEAN
  BY <1>1 DEF IInv, TypeOK
<1> QED BY <1>1, <1>2, <1>3, GpuStays, RequestStep

-----------------------------------------------------------------------------
(* It holds at first.                                                      *)
LEMMA InitIInv == Init => IInv
<1> SUFFICES ASSUME Init PROVE IInv
  OBVIOUS
<1>0. <<>> \in Seq(Versions)
  OBVIOUS
<1>1. PICK e : e = <<>> /\ e \in Seq(Versions)
  BY <1>0
<1>2. ToSet(e) = {} /\ IsInjective(e)
  <2>1. ToSet(e) = {}
    BY <1>1, ToSetFacts
  <2>2. DOMAIN e = {}
    BY <1>1
  <2> QED BY <2>1, <2>2 DEF IsInjective
<1>3. Bytes({}) = 0 /\ IsFiniteSet({})
  BY FS_EmptySet, BytesOne
<1>4. /\ registry = [id \in Ids |-> {}] /\ order = [id \in Ids |-> e]
      /\ latest = [id \in Ids |-> None]
      /\ gpu = e /\ gpu_bytes = 0 /\ trimming = FALSE
      /\ req = [r \in Requests |-> NoRequest]
  BY <1>1 DEF Init
<1>5. TypeOK
  BY <1>1, <1>4 DEF TypeOK, NoRequest, Stages
<1>6. Leases
  BY <1>4 DEF Leases, NoRequest
<1>7. OnGpu
  BY <1>2, <1>3, <1>4, BudgetAssumption DEF OnGpu
<1>8. InRam = {}
  BY <1>4 DEF InRam, NoRequest
<1>9. OnHost
  BY <1>3, <1>8, BudgetAssumption DEF OnHost, RamWithinBudget
<1>10. LatestIsNewest
  BY <1>1, <1>2, <1>4 DEF LatestIsNewest
<1> QED BY <1>5, <1>6, <1>7, <1>9, <1>10 DEF IInv

(* Every step keeps it.                                                    *)
LEMMA Inductive == IInv /\ [Next]_vars => IInv'
<1> SUFFICES ASSUME IInv, [Next]_vars PROVE IInv'
  OBVIOUS
<1>1. ASSUME NEW id \in Ids, NEW v \in Versions, Register(id, v) \/ EraseVersion(id, v)
      PROVE  IInv'
  BY <1>1, RegisterStep, EraseVersionStep
<1>2. ASSUME NEW id \in Ids, EraseAll(id) PROVE IInv'
  BY <1>2, EraseAllStep
<1>3. CASE Trim
  BY <1>3, TrimStep
<1>4. ASSUME NEW r \in Requests, NEW id \in Ids, NEW v \in Versions, Resolve(r, id, v)
      PROVE  IInv'
  BY <1>4, ResolveStep
<1>5. ASSUME NEW r \in Requests,
             Hit(r) \/ Miss(r) \/ Fail(r) \/ Finish(r) \/ Pause(r) \/ TrimPaused(r) \/ Resume(r)
      PROVE  IInv'
  BY <1>5, HitStep, MissStep, FailStep, PauseStep, TrimPausedStep
<1>6. CASE UNCHANGED vars
  <2>1. /\ registry' = registry /\ order' = order /\ latest' = latest /\ gpu' = gpu
        /\ gpu_bytes' = gpu_bytes /\ req' = req /\ trimming' = trimming
    BY <1>6 DEF vars
  <2>2. OnHost'
    BY <2>1, HostKept DEF InRam
  <2>3. Bytes(ToSet(gpu))' = Bytes(ToSet(gpu'))
    OBVIOUS
  <2> QED BY <2>1, <2>2, <2>3 DEF IInv, TypeOK, Leases, OnGpu, LatestIsNewest
<1> QED BY <1>1, <1>2, <1>3, <1>4, <1>5, <1>6 DEF Next

(* No lease outlives its resident copy, so nothing is on the device beside   *)
(* the residents.                                                          *)
LEMMA NothingBeside == IInv => OnDevice = 0
<1> SUFFICES ASSUME IInv PROVE OnDevice = 0
  OBVIOUS
<1>1. {r \in Requests : req[r].lease = "evicted"} = {}
  BY DEF IInv, Leases
<1> QED BY <1>1 DEF OnDevice, MapThenSumSet, MapThenFoldSet

(* The values the program keeps have the types the model gives them.       *)
THEOREM TypeCorrect == Spec => []TypeOK
<1>1. IInv => TypeOK
  BY DEF IInv
<1> QED BY <1>1, InitIInv, Inductive, PTL DEF Spec

(* Whatever the order of registrations, uploads, evictions, pauses, failures *)
(* and deletions: gpu_bytes is the exact sum of the residents, no version is *)
(* resident twice, nothing leased lies outside the residents, and the sums   *)
(* on the GPU and in RAM (deleted versions that requests hold included)     *)
(* never exceed their budgets.                                             *)
THEOREM BudgetsHold == Spec => []WithinBudgets
<1>1. IInv => WithinBudgets
  <2> SUFFICES ASSUME IInv PROVE WithinBudgets
    OBVIOUS
  <2>1. gpu_bytes \in Nat /\ OnDevice = 0
    BY NothingBeside DEF IInv, TypeOK
  <2> QED BY <2>1 DEF IInv, OnGpu, OnHost, WithinBudgets, GpuWithinBudget
<1> QED BY <1>1, InitIInv, Inductive, PTL DEF Spec

(* A request that decodes keeps the weights it leased resident, however many *)
(* evictions, trims and deletions others cause meanwhile.                  *)
THEOREM RunningStaysResident == Spec => []RunningIsResident
<1>1. IInv => RunningIsResident
  BY DEF IInv, Leases, RunningIsResident
<1> QED BY <1>1, InitIInv, Inductive, PTL DEF Spec

(* After any sequence of registrations and deletions the versions in order   *)
(* are the registered ones, and latest_ is the last registered of them.     *)
THEOREM LatestStaysNewest == Spec => []LatestIsNewest
<1>1. IInv => LatestIsNewest
  BY DEF IInv
<1> QED BY <1>1, InitIInv, Inductive, PTL DEF Spec
==============================================================================
