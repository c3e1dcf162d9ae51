--------------------------- MODULE VectorTheorems ---------------------------
(***************************************************************************)
(* What the vector operations return, preserve and bound, for vectors of   *)
(* any capacity.                                                           *)
(***************************************************************************)
EXTENDS Vector, Integers, FiniteSetTheorems, TLAPS

(* The members of a finite set of naturals have the ranks 0, 1, 2, ...     *)
LEMMA RankRises ==
    ASSUME NEW n \in Nat, NEW K \in SUBSET (0 .. n - 1)
    PROVE  /\ \A k \in K : Rank(K, k) \in 0 .. Cardinality(K) - 1
           /\ \A a, b \in K : a < b => Rank(K, a) < Rank(K, b)
<1> DEFINE Below(k) == {j \in K : j < k}
           C == 0 .. Cardinality(K) - 1
<1>1. IsFiniteSet(K) /\ Cardinality(K) \in Nat
  <2>1. IsFiniteSet(0 .. n - 1)
    BY FS_Interval
  <2>2. IsFiniteSet(K)
    BY <2>1, FS_Subset
  <2> QED
    BY <2>2, FS_CardinalityType
<1>2. \A k \in K : /\ IsFiniteSet(Below(k))
                   /\ Cardinality(Below(k)) \in Nat
                   /\ Rank(K, k) = Cardinality(Below(k))
  BY <1>1, FS_Subset, FS_CardinalityType DEF Rank
<1>3. \A k \in K : Rank(K, k) \in C
  <2> TAKE k \in K
  <2>1. Below(k) \in SUBSET K /\ Below(k) # K
    OBVIOUS
  <2>2. Cardinality(Below(k)) < Cardinality(K)
    BY <1>1, <1>2, <2>1, FS_Subset
  <2> QED
    BY <1>1, <1>2, <2>2
<1>4. \A a, b \in K : a < b => Rank(K, a) < Rank(K, b)
  <2> SUFFICES ASSUME NEW a \in K, NEW b \in K, a < b
               PROVE  Rank(K, a) < Rank(K, b)
    OBVIOUS
  <2>1. a \in Nat /\ b \in Nat /\ K \subseteq Nat
    OBVIOUS
  <2>2. Below(a) \in SUBSET Below(b)
    <3>1. \A j \in K : j < a => j < b
      BY <2>1
    <3> QED
      BY <3>1
  <2>3. a \in Below(b) /\ a \notin Below(a)
    BY <2>1
  <2>4. Cardinality(Below(a)) <= Cardinality(Below(b))
    BY <1>2, <2>2, FS_Subset
  <2>5. Cardinality(Below(a)) # Cardinality(Below(b))
    BY <1>2, <2>2, <2>3, FS_Subset
  <2>6. /\ Rank(K, a) = Cardinality(Below(a)) /\ Cardinality(Below(a)) \in Nat
        /\ Rank(K, b) = Cardinality(Below(b)) /\ Cardinality(Below(b)) \in Nat
    BY <1>2
  <2> QED
    BY <2>4, <2>5, <2>6
<1> QED
  BY <1>3, <1>4

(* Every rank below the size of K is taken.                                *)
LEMMA RankOnto ==
    ASSUME NEW n \in Nat, NEW K \in SUBSET (0 .. n - 1),
           NEW i \in 0 .. Cardinality(K) - 1
    PROVE  \E k \in K : Rank(K, k) = i
<1> DEFINE C == 0 .. Cardinality(K) - 1
           f == [k \in K |-> Rank(K, k)]
<1>1. IsFiniteSet(K) /\ Cardinality(K) \in Nat
  <2>1. IsFiniteSet(0 .. n - 1)
    BY FS_Interval
  <2>2. IsFiniteSet(K)
    BY <2>1, FS_Subset
  <2> QED
    BY <2>2, FS_CardinalityType
<1>3. \A k \in K : Rank(K, k) \in C
  BY RankRises
<1>4. \A a, b \in K : a < b => Rank(K, a) < Rank(K, b)
  BY RankRises
<1>5. f \in Injection(K, C)
  <2>1. f \in [K -> C]
    BY <1>3
  <2>2. \A a, b \in K : f[a] = f[b] => a = b
    <3> SUFFICES ASSUME NEW a \in K, NEW b \in K, Rank(K, a) = Rank(K, b)
                 PROVE  a = b
      OBVIOUS
    <3>1. ~(a < b) /\ ~(b < a)
      BY <1>3, <1>4
    <3> QED
      BY <3>1
  <2> QED
    BY <2>1, <2>2 DEF Injection, IsInjective
<1>6. IsFiniteSet(C) /\ Cardinality(C) = Cardinality(K)
  BY <1>1, FS_Interval
<1>7. f \in Surjection(K, C)
  BY <1>5, <1>6, FS_Injection
<1> QED
  BY <1>7 DEF Surjection

(* 0 .. n - 1 has n members.                                               *)
LEMMA CountFromZero ==
    ASSUME NEW n \in Nat
    PROVE  IsFiniteSet(0 .. n - 1) /\ Cardinality(0 .. n - 1) = n
<1>1. 0 \in Int /\ n - 1 \in Int
  OBVIOUS
<1>2. /\ IsFiniteSet(0 .. n - 1)
      /\ Cardinality(0 .. n - 1) = IF 0 > n - 1 THEN 0 ELSE (n - 1) - 0 + 1
  BY <1>1, FS_Interval
<1> QED
  BY <1>2

(* The parts of a vector, and what its live slots hold.                    *)
LEMMA VectorParts ==
    ASSUME NEW S, NEW cap \in Nat, NEW v \in VectorOf(S, cap)
    PROVE  /\ v.len \in Nat /\ v.len <= cap
           /\ v.mem \in [0 .. cap - 1 -> S]
           /\ \A i \in Live(v) : i \in 0 .. cap - 1 /\ i < v.len /\ v.mem[i] \in Elements(v)
           /\ Elements(v) \subseteq S
<1>1. /\ v.len \in Nat /\ v.len <= cap
      /\ v.mem \in [0 .. cap - 1 -> S]
  BY DEF VectorOf
<1>2. \A i \in Live(v) : i \in 0 .. cap - 1 /\ i < v.len
  BY <1>1 DEF Live
<1>3. \A i \in Live(v) : v.mem[i] \in Elements(v)
  BY DEF Elements
<1> QED
  BY <1>1, <1>2, <1>3 DEF Elements

(* A nonempty set of positions has a first one, and First returns it.      *)
LEMMA FirstIsFirst ==
    ASSUME NEW n \in Nat, NEW P \in SUBSET (0 .. n - 1), P # {}
    PROVE  First(P) \in P
<1>1. IsFiniteSet(P) /\ Cardinality(P) \in Nat /\ Cardinality(P) # 0
  <2>1. IsFiniteSet(0 .. n - 1)
    BY FS_Interval
  <2>2. IsFiniteSet(P)
    BY <2>1, FS_Subset
  <2> QED
    BY <2>2, FS_CardinalityType, FS_EmptySet
<1>2. PICK p \in P : Rank(P, p) = 0
  <2>1. 0 \in 0 .. Cardinality(P) - 1
    BY <1>1
  <2> QED
    BY <2>1, RankOnto
<1>3. {j \in P : j < p} = {}
  <2>1. IsFiniteSet({j \in P : j < p})
    BY <1>1, FS_Subset
  <2> QED
    BY <1>2, <2>1, FS_EmptySet DEF Rank
<1>4. \A q \in P : p <= q
  BY <1>3
<1> QED
  BY <1>4 DEF First

(* push_back with room left writes the slot behind the last one only.      *)
LEMMA PushBackSpec ==
    ASSUME NEW S, NEW cap \in Nat, NEW v \in VectorOf(S, cap), NEW x \in S,
           v.len < cap
    PROVE  /\ PushBack(v, x) \in VectorOf(S, cap)
           /\ PushBack(v, x).len = v.len + 1
           /\ PushBack(v, x).mem[v.len] = x
           /\ \A i \in 0 .. cap - 1 : i # v.len => PushBack(v, x).mem[i] = v.mem[i]
BY DEF PushBack, VectorOf

(* std::erase keeps the elements that differ from x: every live slot holds *)
(* one that was at the same place or further back, an unerased front stays *)
(* where it is, and the slots behind the new end are not touched.          *)
LEMMA EraseSpec ==
    ASSUME NEW S, NEW cap \in Nat, NEW v \in VectorOf(S, cap), NEW x
    PROVE  /\ Erase(v, x) \in VectorOf(S, cap)
           /\ Erase(v, x).len <= v.len
           /\ (\E i \in Live(v) : v.mem[i] = x) => Erase(v, x).len < v.len
           /\ \A i \in Live(Erase(v, x)) :
                 \E k \in Kept(v, x) : k >= i /\ Erase(v, x).mem[i] = v.mem[k]
           /\ \A i \in 0 .. cap - 1 :
                 i >= Erase(v, x).len => Erase(v, x).mem[i] = v.mem[i]
           /\ v.len >= 1 /\ v.mem[0] # x =>
                 Erase(v, x).len >= 1 /\ Erase(v, x).mem[0] = v.mem[0]
<1> DEFINE K == Kept(v, x)
           n == Cardinality(K)
           E == Erase(v, x)
           At(i) == CHOOSE k \in K : Rank(K, k) = i
<1>1. /\ v.mem \in [0 .. cap - 1 -> S] /\ v.len \in 0 .. cap
      /\ K \in SUBSET (0 .. v.len - 1) /\ v.len \in Nat
  BY DEF VectorOf, Kept, Live
<1>2. /\ IsFiniteSet(0 .. v.len - 1) /\ Cardinality(0 .. v.len - 1) = v.len
  BY <1>1, CountFromZero
<1>3. /\ IsFiniteSet(K) /\ n \in Nat /\ n <= v.len
      /\ n = v.len => K = 0 .. v.len - 1
  <2>1. IsFiniteSet(K) /\ n <= v.len /\ (n = v.len => K = 0 .. v.len - 1)
    BY <1>1, <1>2, FS_Subset
  <2> QED
    BY <2>1, FS_CardinalityType
<1>4. /\ E.len = n
      /\ E.mem = [i \in 0 .. cap - 1 |-> IF i < n THEN v.mem[At(i)] ELSE v.mem[i]]
  BY <1>1 DEF Erase
<1>5. \A i \in 0 .. n - 1 : At(i) \in K /\ Rank(K, At(i)) = i
  BY <1>1, RankOnto
<1>6. \A k \in K : Rank(K, k) \in Nat /\ Rank(K, k) <= k
  <2> TAKE k \in K
  <2>1. k \in Nat /\ {j \in K : j < k} \in SUBSET (0 .. k - 1)
    BY <1>1
  <2>2. IsFiniteSet(0 .. k - 1) /\ Cardinality(0 .. k - 1) = k
    BY <2>1, CountFromZero
  <2>3. IsFiniteSet({j \in K : j < k}) /\ Cardinality({j \in K : j < k}) <= k
    BY <2>1, <2>2, FS_Subset
  <2> QED
    BY <2>3, FS_CardinalityType DEF Rank
<1>7. \A i \in 0 .. n - 1 : At(i) >= i /\ At(i) \in 0 .. cap - 1
  BY <1>1, <1>5, <1>6
<1>8. E \in VectorOf(S, cap)
  <2>1. E = [mem |-> E.mem, len |-> E.len]
    BY DEF Erase
  <2>2. \A i \in 0 .. cap - 1 : E.mem[i] \in S
    <3> TAKE i \in 0 .. cap - 1
    <3>1. CASE i < n
      <4>1. i \in 0 .. n - 1
        BY <1>3, <3>1
      <4>2. At(i) \in 0 .. cap - 1
        BY <1>7, <4>1
      <4> QED
        BY <1>1, <1>4, <3>1, <4>2
    <3>2. CASE ~(i < n)
      BY <1>1, <1>4, <3>2
    <3> QED
      BY <3>1, <3>2
  <2>3. E.mem \in [0 .. cap - 1 -> S] /\ E.len \in 0 .. cap
    BY <1>1, <1>3, <1>4, <2>2
  <2> QED
    BY <2>1, <2>3 DEF VectorOf
<1>9. (\E i \in Live(v) : v.mem[i] = x) => E.len < v.len
  <2> SUFFICES ASSUME NEW i \in Live(v), v.mem[i] = x
               PROVE  E.len < v.len
    OBVIOUS
  <2>1. i \in 0 .. v.len - 1 /\ i \notin K
    BY DEF Live, Kept
  <2> QED
    BY <1>1, <1>3, <1>4, <2>1
<1>10. \A i \in Live(E) : \E k \in K : k >= i /\ E.mem[i] = v.mem[k]
  <2> SUFFICES ASSUME NEW i \in 0 .. n - 1
               PROVE  At(i) \in K /\ At(i) >= i /\ E.mem[i] = v.mem[At(i)]
    BY <1>4 DEF Live
  <2>1. i \in 0 .. cap - 1 /\ i < n
    BY <1>1, <1>3
  <2> QED
    BY <1>4, <1>5, <1>7, <2>1
<1>11. \A i \in 0 .. cap - 1 : i >= E.len => E.mem[i] = v.mem[i]
  BY <1>3, <1>4
<1>12. ASSUME v.len >= 1, v.mem[0] # x
       PROVE  E.len >= 1 /\ E.mem[0] = v.mem[0]
  <2>1. 0 \in K
    BY <1>1, <1>12 DEF Kept, Live
  <2>2. n >= 1
    BY <1>3, <2>1, FS_EmptySet
  <2>3. At(0) \in K /\ Rank(K, At(0)) = 0
    BY <1>3, <1>5, <2>2
  <2>4. {j \in K : j < At(0)} = {}
    <3>1. IsFiniteSet({j \in K : j < At(0)})
      BY <1>3, FS_Subset
    <3> QED
      BY <2>3, <3>1, FS_EmptySet DEF Rank
  <2>5. At(0) = 0
    <3>1. At(0) \in Nat /\ ~(0 < At(0))
      BY <1>1, <2>1, <2>3, <2>4
    <3> QED
      BY <3>1
  <2>6. 0 \in 0 .. cap - 1 /\ 0 < n
    BY <1>1, <1>3, <2>2
  <2> QED
    BY <1>4, <2>2, <2>5, <2>6
<1> HIDE DEF At, E, n
<1> QED
  BY <1>1, <1>3, <1>4, <1>8, <1>9, <1>10, <1>11, <1>12 DEF E

(* std::erase takes x out and nothing else.                                *)
LEMMA EraseElements ==
    ASSUME NEW S, NEW cap \in Nat, NEW v \in VectorOf(S, cap), NEW x
    PROVE  Elements(Erase(v, x)) = Elements(v) \ {x}
<1> DEFINE K == Kept(v, x)
           n == Cardinality(K)
           At(i) == CHOOSE k \in K : Rank(K, k) = i
<1>1. v.mem \in [0 .. cap - 1 -> S] /\ v.len \in Nat /\ v.len <= cap /\ K \in SUBSET (0 .. v.len - 1)
  BY DEF VectorOf, Kept, Live
<1>2. IsFiniteSet(K) /\ n \in Nat
  <2>1. IsFiniteSet(0 .. v.len - 1)
    BY <1>1, CountFromZero
  <2> QED
    BY <1>1, <2>1, FS_Subset, FS_CardinalityType
<1>3. /\ \A k \in K : Rank(K, k) \in 0 .. n - 1
      /\ \A j, k \in K : j < k => Rank(K, j) < Rank(K, k)
  <2> HIDE DEF K
  <2> QED
    BY <1>1, RankRises
<1>4. Elements(Erase(v, x)) \subseteq Elements(v) \ {x}
  <2>1. \A i \in Live(Erase(v, x)) : \E k \in K : Erase(v, x).mem[i] = v.mem[k]
    BY EraseSpec
  <2> QED
    BY <2>1 DEF Elements, Kept
<1>5. ASSUME NEW k \in K PROVE v.mem[k] \in Elements(Erase(v, x))
  <2> DEFINE i == Rank(K, k)
  <2>1. i \in Nat /\ i < n
    BY <1>2, <1>3
  <2>2. ASSUME NEW j \in K, Rank(K, j) = i PROVE j = k
    <3>1. ~(j < k) /\ ~(k < j)
      BY <1>3, <2>1, <2>2
    <3> QED
      BY <1>1, <3>1
  <2>3. At(i) = k
    BY <2>2
  <2>4. i \in Live(Erase(v, x)) /\ i \in DOMAIN v.mem
    <3>1. Erase(v, x).len = n /\ n <= v.len
      <4>1. Erase(v, x).len = n
        BY DEF Erase
      <4> QED
        BY <4>1, EraseSpec
    <3> QED
      BY <1>1, <1>2, <2>1, <3>1 DEF Live
  <2>5. Erase(v, x).mem[i] = v.mem[At(i)]
    BY <2>1, <2>4 DEF Erase
  <2> QED
    BY <2>3, <2>4, <2>5 DEF Elements
<1>6. Elements(v) \ {x} \subseteq Elements(Erase(v, x))
  BY <1>5 DEF Elements, Kept
<1> QED
  BY <1>4, <1>6

(* push_back adds x and nothing else.                                      *)
LEMMA PushBackElements ==
    ASSUME NEW S, NEW cap \in Nat, NEW v \in VectorOf(S, cap), NEW x \in S,
           v.len < cap
    PROVE  Elements(PushBack(v, x)) = Elements(v) \cup {x}
<1>1. /\ PushBack(v, x).len = v.len + 1 /\ PushBack(v, x).mem[v.len] = x
      /\ \A i \in 0 .. cap - 1 : i # v.len => PushBack(v, x).mem[i] = v.mem[i]
  BY PushBackSpec
<1>2. v.len \in Nat
  BY DEF VectorOf
<1>3. Live(PushBack(v, x)) = Live(v) \cup {v.len}
  BY <1>1, <1>2 DEF Live
<1>4. \A i \in Live(v) : PushBack(v, x).mem[i] = v.mem[i]
  BY <1>1, <1>2 DEF Live
<1> QED
  BY <1>1, <1>3, <1>4 DEF Elements

(* std::erase keeps the elements apart, and so does push_back of another.  *)
(* No element of v is in two places.                                       *)
Distinct(v) == \A i, k \in Live(v) : v.mem[i] = v.mem[k] => i = k

LEMMA EraseKeepsDistinct ==
    ASSUME NEW S, NEW cap \in Nat, NEW v \in VectorOf(S, cap), NEW x, Distinct(v)
    PROVE  Distinct(Erase(v, x))
<1> DEFINE K == Kept(v, x)
           n == Cardinality(K)
           At(i) == CHOOSE k \in K : Rank(K, k) = i
<1>1. v.mem \in [0 .. cap - 1 -> S] /\ v.len \in Nat /\ v.len \in 0 .. cap /\ K \in SUBSET (0 .. v.len - 1)
  BY DEF VectorOf, Kept, Live
<1>2. IsFiniteSet(K) /\ n \in Nat /\ n <= v.len
  <2>1. IsFiniteSet(0 .. v.len - 1) /\ Cardinality(0 .. v.len - 1) = v.len
    BY <1>1, CountFromZero
  <2> QED
    BY <1>1, <2>1, FS_Subset, FS_CardinalityType
<1>3. \A i \in 0 .. n - 1 : At(i) \in K /\ Rank(K, At(i)) = i
  BY <1>1, RankOnto
<1>4. \A i \in Live(Erase(v, x)) : i \in 0 .. n - 1 /\ Erase(v, x).mem[i] = v.mem[At(i)]
  BY <1>1, <1>2 DEF Erase, Live
<1>5. K \subseteq Live(v)
  BY DEF Kept
<1> SUFFICES ASSUME NEW i \in Live(Erase(v, x)), NEW k \in Live(Erase(v, x)),
                    Erase(v, x).mem[i] = Erase(v, x).mem[k]
             PROVE  i = k
  BY DEF Distinct
<1>6. At(i) \in Live(v) /\ At(k) \in Live(v) /\ v.mem[At(i)] = v.mem[At(k)]
  BY <1>3, <1>4, <1>5
<1>7. At(i) = At(k)
  BY <1>6 DEF Distinct
<1>8. Rank(K, At(i)) = i /\ Rank(K, At(k)) = k
  BY <1>3, <1>4
<1> QED
  BY <1>7, <1>8

LEMMA PushBackKeepsDistinct ==
    ASSUME NEW S, NEW cap \in Nat, NEW v \in VectorOf(S, cap), NEW x \in S,
           v.len < cap, Distinct(v), x \notin Elements(v)
    PROVE  Distinct(PushBack(v, x))
<1>1. /\ PushBack(v, x).len = v.len + 1 /\ PushBack(v, x).mem[v.len] = x
      /\ \A i \in 0 .. cap - 1 : i # v.len => PushBack(v, x).mem[i] = v.mem[i]
  BY PushBackSpec
<1>2. v.len \in Nat
  BY DEF VectorOf
<1>3. \A i \in Live(PushBack(v, x)) : i = v.len \/ (i \in Live(v) /\ i # v.len)
  BY <1>1, <1>2 DEF Live
<1>4. \A i \in Live(v) : /\ PushBack(v, x).mem[i] = v.mem[i]
                         /\ PushBack(v, x).mem[i] # x
  BY <1>1, <1>2 DEF Live, Elements
<1> QED
  BY <1>1, <1>3, <1>4 DEF Distinct

(* A vector shorter than a finite set does not hold all of it.             *)
LEMMA SomethingIsLeft ==
    ASSUME NEW S, NEW cap \in Nat, NEW v \in VectorOf(S, cap),
           IsFiniteSet(S), v.len < Cardinality(S)
    PROVE  S \ Elements(v) # {}
<1> DEFINE f == [i \in Live(v) |-> v.mem[i]]
<1>1. v.len \in Nat /\ IsFiniteSet(Live(v)) /\ Cardinality(Live(v)) = v.len
  BY CountFromZero DEF VectorOf, Live
<1>2. f \in Surjection(Live(v), Elements(v))
  BY DEF Surjection, Elements
<1>3. Cardinality(Elements(v)) <= v.len /\ IsFiniteSet(Elements(v))
  BY <1>1, <1>2, FS_Surjection
<1>4. CASE S \subseteq Elements(v)
  <2>1. Cardinality(S) <= Cardinality(Elements(v))
    BY <1>3, <1>4, FS_Subset
  <2>2. Cardinality(S) \in Nat /\ Cardinality(Elements(v)) \in Nat
    BY <1>3, FS_CardinalityType
  <2> QED
    BY <1>1, <1>3, <2>1, <2>2
<1> QED
  BY <1>4
=============================================================================
