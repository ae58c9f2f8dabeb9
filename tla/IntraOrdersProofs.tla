------------------------- MODULE IntraOrdersProofs -------------------------
(***************************************************************************)
(* Proofs about IntraOrders for every set of orders and processes: what    *)
(* the tables hold is what was filled, however the rows are cut into       *)
(* batches and however runs and rebuilds overlap; a pending order knows    *)
(* all its hedges; and the engine never refuses a batch.  Every sum, every *)
(* minimum and every loop of the model is shown to be what it should be by *)
(* induction over the numbers, which the first lemmas prepare.             *)
(***************************************************************************)
EXTENDS IntraOrders, FiniteSetTheorems, WellFoundedInduction, TLAPS

-----------------------------------------------------------------------------
(* Numbers, sums and orders.                                               *)

LEMMA LeastOf ==
    ASSUME NEW T, T \subseteq Nat, T # {}
    PROVE  \E x \in T : \A y \in T : x =< y
  <1>1. \E R : /\ IsWellFoundedOn(R, Nat)
               /\ \A x, y \in Nat : y < x => <<y, x>> \in R
    <2>1. \A x, y \in Nat : y < x => <<y, x>> \in OpToRel(<, Nat)
      BY DEF OpToRel
    <2>2. IsWellFoundedOn(OpToRel(<, Nat), Nat)
      BY NatLessThanWellFounded
    <2>. QED  BY <2>1, <2>2, Zenon
  <1>2. PICK R : /\ IsWellFoundedOn(R, Nat)
                 /\ \A x, y \in Nat : y < x => <<y, x>> \in R
    BY <1>1
  <1>3. PICK x \in T : \A y \in T : ~ (<<y, x>> \in R)
    BY <1>2, WFMin
  <1>4. ASSUME NEW y \in T
        PROVE  x =< y
    <2>1. ~(y < x)
      BY <1>2, <1>3
    <2>. QED  BY <2>1
  <1>. QED  BY <1>4

(* Induction: a set of numbers with 0 and every successor has them all.    *)
LEMMA SetInduction ==
    ASSUME NEW S, 0 \in S, \A n \in Nat : n \in S => n + 1 \in S
    PROVE  \A n \in Nat : n \in S
  <1>. SUFFICES ASSUME Nat \ S # {}  PROVE FALSE
    OBVIOUS
  <1>1. PICK n \in Nat \ S : \A m \in Nat \ S : n =< m
    <2>. DEFINE T == Nat \ S
    <2>. HIDE DEF T
    <2>1. T \subseteq Nat /\ T # {}
      BY DEF T
    <2>2. \E x \in T : \A y \in T : x =< y
      BY <2>1, LeastOf
    <2>. QED  BY <2>2 DEF T
  <1>2. n # 0 /\ n - 1 \in Nat /\ n - 1 < n
    BY <1>1
  <1>3. n - 1 \in S
    BY <1>1, <1>2
  <1>. QED  BY <1>1, <1>2, <1>3

(* A set without one of its elements. *)
LEMMA OneLess ==
    ASSUME NEW S, IsFiniteSet(S), NEW x \in S
    PROVE  /\ IsFiniteSet(S \ {x}) /\ Cardinality(S) \in Nat \ {0}
           /\ Cardinality(S \ {x}) \in Nat
           /\ Cardinality(S \ {x}) = Cardinality(S) - 1
  BY FS_RemoveElement, FS_CardinalityType, FS_EmptySet

(***************************************************************************)
(* The partial sums of a function, as MapThenSumSet takes them.            *)
(***************************************************************************)
AnyOf(s) == CHOOSE x \in s : TRUE

PartialSums(g, f) ==
    /\ g \in [SUBSET DOMAIN f -> Int]
    /\ \A s \in SUBSET DOMAIN f :
         g[s] = IF s = {} THEN 0 ELSE f[AnyOf(s)] + g[s \ {AnyOf(s)}]

LEMMA PartialSumsExist ==
    ASSUME NEW S, IsFiniteSet(S), NEW f \in [S -> Int]
    PROVE  \E g : PartialSums(g, f)
  <1>. DEFINE Upto(g, n) == \A s \in SUBSET S : Cardinality(s) =< n =>
                 g[s] = IF s = {} THEN 0 ELSE f[AnyOf(s)] + g[s \ {AnyOf(s)}]
              N == {n \in Nat : \E g \in [SUBSET S -> Int] : Upto(g, n)}
  <1>1. \A s \in SUBSET S : IsFiniteSet(s) /\ Cardinality(s) \in Nat
                            /\ Cardinality(s) =< Cardinality(S)
    BY FS_Subset, FS_CardinalityType
  <1>2. \A s \in SUBSET S : s # {} =>
          /\ AnyOf(s) \in s /\ s \ {AnyOf(s)} \in SUBSET S
          /\ Cardinality(s \ {AnyOf(s)}) = Cardinality(s) - 1
          /\ Cardinality(s) # 0
    <2>. SUFFICES ASSUME NEW s \in SUBSET S, s # {}
         PROVE  /\ AnyOf(s) \in s /\ s \ {AnyOf(s)} \in SUBSET S
                /\ Cardinality(s \ {AnyOf(s)}) = Cardinality(s) - 1
                /\ Cardinality(s) # 0
      OBVIOUS
    <2>1. AnyOf(s) \in s
      BY DEF AnyOf
    <2>. QED  BY <1>1, <2>1, OneLess
  <1>3. 0 \in N
    <2>. DEFINE g == [s \in SUBSET S |-> 0]
    <2>1. \A s \in SUBSET S : Cardinality(s) =< 0 => s = {}
      BY <1>1, FS_EmptySet
    <2>2. g \in [SUBSET S -> Int] /\ Upto(g, 0)
      BY <2>1
    <2>. QED  BY <2>2
  <1>4. ASSUME NEW n \in Nat, n \in N
        PROVE  n + 1 \in N
    <2>1. PICK g \in [SUBSET S -> Int] : Upto(g, n)
      BY <1>4
    <2>. DEFINE h == [s \in SUBSET S |->
                        IF s = {} THEN 0 ELSE f[AnyOf(s)] + g[s \ {AnyOf(s)}]]
    <2>2. h \in [SUBSET S -> Int]
      <3>1. \A s \in SUBSET S : s # {} =>
              f[AnyOf(s)] \in Int /\ g[s \ {AnyOf(s)}] \in Int
        BY <1>2, <2>1
      <3>. QED  BY <3>1
    <2>3. \A s \in SUBSET S : Cardinality(s) =< n => h[s] = g[s]
      BY <2>1
    <2>4. ASSUME NEW s \in SUBSET S, Cardinality(s) =< n + 1
          PROVE  h[s] = IF s = {} THEN 0 ELSE f[AnyOf(s)] + h[s \ {AnyOf(s)}]
      <3>1. CASE s = {}
        BY <3>1
      <3>2. CASE s # {}
        <4>1. s \ {AnyOf(s)} \in SUBSET S /\ Cardinality(s \ {AnyOf(s)}) =< n
          BY <1>1, <1>2, <2>4, <3>2
        <4>2. h[s \ {AnyOf(s)}] = g[s \ {AnyOf(s)}]
          BY <2>3, <4>1
        <4>. QED  BY <3>2, <4>2
      <3>. QED  BY <3>1, <3>2
    <2>. HIDE DEF h
    <2>5. Upto(h, n + 1)
      BY <2>4
    <2>. QED  BY <2>2, <2>5
  <1>. HIDE DEF N
  <1>5. Cardinality(S) \in N
    BY <1>1, <1>3, <1>4, SetInduction
  <1>6. PICK g \in [SUBSET S -> Int] : Upto(g, Cardinality(S))
    BY <1>5 DEF N
  <1>7. PartialSums(g, f)
    BY <1>1, <1>6 DEF PartialSums
  <1>. QED  BY <1>7

(* The order in which the elements are taken does not matter. *)
LEMMA AnyOrder ==
    ASSUME NEW S, IsFiniteSet(S), NEW f \in [S -> Int], NEW g,
           PartialSums(g, f)
    PROVE  \A s \in SUBSET S : \A x \in s : g[s] = f[x] + g[s \ {x}]
  <1>. DEFINE N == {n \in Nat : \A s \in SUBSET S : Cardinality(s) = n =>
                       \A x \in s : g[s] = f[x] + g[s \ {x}]}
  <1>1. \A s \in SUBSET S : IsFiniteSet(s) /\ Cardinality(s) \in Nat
    BY FS_Subset, FS_CardinalityType
  <1>2. 0 \in N
    BY <1>1, FS_EmptySet
  <1>3. ASSUME NEW n \in Nat, n \in N
        PROVE  n + 1 \in N
    <2>. SUFFICES ASSUME NEW s \in SUBSET S, Cardinality(s) = n + 1, NEW x \in s
         PROVE  g[s] = f[x] + g[s \ {x}]
      OBVIOUS
    <2>. DEFINE c == AnyOf(s)
    <2>1. c \in s
      BY DEF AnyOf
    <2>. HIDE DEF c
    <2>2. g[s] = f[c] + g[s \ {c}]
      BY <2>1 DEF PartialSums, c
    <2>3. CASE x = c
      BY <2>2, <2>3
    <2>4. CASE x # c
      <3>1. /\ s \ {c} \in SUBSET S /\ Cardinality(s \ {c}) = n
            /\ s \ {x} \in SUBSET S /\ Cardinality(s \ {x}) = n
        BY <1>1, <2>1, OneLess
      <3>2. x \in s \ {c} /\ c \in s \ {x}
        BY <2>1, <2>4
      <3>3. g[s \ {c}] = f[x] + g[(s \ {c}) \ {x}]
        BY <1>3, <3>1, <3>2
      <3>4. g[s \ {x}] = f[c] + g[(s \ {x}) \ {c}]
        BY <1>3, <3>1, <3>2
      <3>5. (s \ {c}) \ {x} = (s \ {x}) \ {c} /\ (s \ {c}) \ {x} \in SUBSET S
        OBVIOUS
      <3>6. g[(s \ {c}) \ {x}] \in Int /\ f[c] \in Int /\ f[x] \in Int
        BY <2>1, <3>5 DEF PartialSums
      <3>. DEFINE rest == g[(s \ {c}) \ {x}]
      <3>7. g[s] = f[c] + (f[x] + rest)
        BY <2>2, <3>3
      <3>8. g[s \ {x}] = f[c] + rest
        BY <3>4, <3>5
      <3>9. rest \in Int /\ f[c] \in Int /\ f[x] \in Int
        BY <3>6
      <3>. HIDE DEF rest
      <3>. QED  BY <3>7, <3>8, <3>9
    <2>. QED  BY <2>3, <2>4
  <1>. HIDE DEF N
  <1>4. \A n \in Nat : n \in N
    BY <1>2, <1>3, SetInduction
  <1>. QED  BY <1>1, <1>4 DEF N

LEMMA SumIs ==
    ASSUME NEW S, IsFiniteSet(S), NEW f \in [S -> Int]
    PROVE  \E g : PartialSums(g, f) /\ Sum(f) = g[S]
  <1>1. PICK h : PartialSums(h, f)
    BY PartialSumsExist
  <1>. DEFINE E(g) == g = [s \in SUBSET DOMAIN f |->
                 IF s = {} THEN 0 ELSE f[AnyOf(s)] + g[s \ {AnyOf(s)}]]
              g == CHOOSE g : E(g)
  <1>2. E(h)
    BY <1>1 DEF PartialSums
  <1>3. Sum(f) = g[DOMAIN f]
    BY Zenon DEF Sum, MapThenSumSet, MapThenFoldSet, AnyOf
  <1>4. E(g)
    BY <1>2, Zenon
  <1>. HIDE DEF g
  <1>5. \A s \in SUBSET S :
          g[s] = IF s = {} THEN 0 ELSE f[AnyOf(s)] + g[s \ {AnyOf(s)}]
    BY <1>4
  <1>6. DOMAIN g = SUBSET S /\ g = [s \in SUBSET S |-> g[s]]
    BY <1>4
  <1>. DEFINE N == {n \in Nat : \A s \in SUBSET S : Cardinality(s) = n => g[s] \in Int}
  <1>7. \A s \in SUBSET S : IsFiniteSet(s) /\ Cardinality(s) \in Nat
    BY FS_Subset, FS_CardinalityType
  <1>8. 0 \in N
    BY <1>5, <1>7, FS_EmptySet
  <1>9. ASSUME NEW n \in Nat, n \in N
        PROVE  n + 1 \in N
    <2>. SUFFICES ASSUME NEW s \in SUBSET S, Cardinality(s) = n + 1
         PROVE  g[s] \in Int
      OBVIOUS
    <2>1. s # {}
      BY FS_EmptySet
    <2>. DEFINE c == AnyOf(s)
    <2>2. c \in s
      BY <2>1 DEF AnyOf
    <2>. HIDE DEF c
    <2>3. g[s] = f[c] + g[s \ {c}]
      BY <1>5, <2>1 DEF c
    <2>4. s \ {c} \in SUBSET S /\ Cardinality(s \ {c}) = n
      BY <1>7, <2>2, OneLess
    <2>5. g[s \ {c}] \in Int
      BY <1>9, <2>4
    <2>6. f[c] \in Int
      BY <2>2
    <2>. QED  BY <2>3, <2>5, <2>6
  <1>. HIDE DEF N
  <1>10. \A n \in Nat : n \in N
    BY <1>8, <1>9, SetInduction
  <1>11. \A s \in SUBSET S : g[s] \in Int
    BY <1>7, <1>10 DEF N
  <1>12. PartialSums(g, f)
    BY <1>5, <1>6, <1>11 DEF PartialSums
  <1>. QED  BY <1>3, <1>12

(* A sum changes by as much as the one summand that changes.  *)
LEMMA SumChange ==
    ASSUME NEW S, IsFiniteSet(S), NEW f \in [S -> Int], NEW h \in [S -> Int],
           NEW x \in S, \A y \in S : y # x => f[y] = h[y]
    PROVE  /\ Sum(f) \in Int /\ Sum(h) \in Int
           /\ Sum(h) = Sum(f) + (h[x] - f[x])
  <1>1. PICK g1 : PartialSums(g1, f) /\ Sum(f) = g1[S]
    BY SumIs
  <1>2. PICK g2 : PartialSums(g2, h) /\ Sum(h) = g2[S]
    BY SumIs
  <1>. DEFINE N == {n \in Nat : \A s \in SUBSET (S \ {x}) :
                      Cardinality(s) = n => g1[s] = g2[s]}
  <1>3. \A s \in SUBSET S : IsFiniteSet(s) /\ Cardinality(s) \in Nat
    BY FS_Subset, FS_CardinalityType
  <1>4. 0 \in N
    <2>1. \A s \in SUBSET S : Cardinality(s) = 0 => s = {}
      BY <1>3, FS_EmptySet
    <2>. QED  BY <1>1, <1>2, <2>1 DEF PartialSums
  <1>5. ASSUME NEW n \in Nat, n \in N
        PROVE  n + 1 \in N
    <2>. SUFFICES ASSUME NEW s \in SUBSET (S \ {x}), Cardinality(s) = n + 1
         PROVE  g1[s] = g2[s]
      OBVIOUS
    <2>1. s # {} /\ s \in SUBSET S
      BY FS_EmptySet
    <2>. DEFINE c == AnyOf(s)
    <2>2. c \in s
      BY <2>1 DEF AnyOf
    <2>. HIDE DEF c
    <2>3. g1[s] = f[c] + g1[s \ {c}] /\ g2[s] = h[c] + g2[s \ {c}]
      BY <1>1, <1>2, <2>1 DEF c, PartialSums
    <2>4. s \ {c} \in SUBSET (S \ {x}) /\ Cardinality(s \ {c}) = n
      BY <1>3, <2>1, <2>2, OneLess
    <2>5. g1[s \ {c}] = g2[s \ {c}] /\ f[c] = h[c]
      BY <1>5, <2>2, <2>4
    <2>. QED  BY <2>3, <2>5
  <1>. HIDE DEF N
  <1>6. \A n \in Nat : n \in N
    BY <1>4, <1>5, SetInduction
  <1>7. g1[S \ {x}] = g2[S \ {x}]
    <2>1. S \ {x} \in SUBSET (S \ {x}) /\ Cardinality(S \ {x}) \in Nat
      BY <1>3
    <2>. QED  BY <1>6, <2>1 DEF N
  <1>8. g1[S] = f[x] + g1[S \ {x}] /\ g2[S] = h[x] + g2[S \ {x}]
    <2>1. S \in SUBSET S /\ x \in S
      OBVIOUS
    <2>2. PartialSums(g1, f) /\ PartialSums(g2, h)
      BY <1>1, <1>2
    <2>3. g1[S] = f[x] + g1[S \ {x}]
      BY <2>1, <2>2, AnyOrder
    <2>4. g2[S] = h[x] + g2[S \ {x}]
      BY <2>1, <2>2, AnyOrder
    <2>. QED  BY <2>3, <2>4
  <1>9. g1[S \ {x}] \in Int /\ f[x] \in Int /\ h[x] \in Int
    BY <1>1 DEF PartialSums
  <1>. QED  BY <1>1, <1>2, <1>7, <1>8, <1>9

LEMMA SumOfNothing ==
    ASSUME NEW S, IsFiniteSet(S), NEW f \in [S -> Int], \A x \in S : f[x] = 0
    PROVE  Sum(f) = 0
  <1>1. PICK g : PartialSums(g, f) /\ Sum(f) = g[S]
    BY SumIs
  <1>. DEFINE N == {n \in Nat : \A s \in SUBSET S : Cardinality(s) = n => g[s] = 0}
  <1>2. \A s \in SUBSET S : IsFiniteSet(s) /\ Cardinality(s) \in Nat
    BY FS_Subset, FS_CardinalityType
  <1>3. 0 \in N
    <2>1. \A s \in SUBSET S : Cardinality(s) = 0 => s = {}
      BY <1>2, FS_EmptySet
    <2>. QED  BY <1>1, <2>1 DEF PartialSums
  <1>4. ASSUME NEW n \in Nat, n \in N
        PROVE  n + 1 \in N
    <2>. SUFFICES ASSUME NEW s \in SUBSET S, Cardinality(s) = n + 1
         PROVE  g[s] = 0
      OBVIOUS
    <2>1. s # {}
      BY FS_EmptySet
    <2>2. PICK x \in s : TRUE
      BY <2>1
    <2>3. g[s] = f[x] + g[s \ {x}]
      BY <1>1, AnyOrder
    <2>4. s \ {x} \in SUBSET S /\ Cardinality(s \ {x}) = n
      BY <1>2, OneLess
    <2>. QED  BY <1>4, <2>3, <2>4
  <1>. HIDE DEF N
  <1>5. \A n \in Nat : n \in N
    BY <1>3, <1>4, SetInduction
  <1>. QED  BY <1>1, <1>2, <1>5 DEF N

-----------------------------------------------------------------------------
(* Elements in the order of their keys.                                    *)

Keyed(S, key) ==
    /\ \A i \in S : key[i] \in Int \X Int \X Int \X Int
    /\ \A i, j \in S : i # j => key[i] # key[j]

LEMMA PrecedesIs ==
    ASSUME NEW a \in Int \X Int \X Int \X Int, NEW b \in Int \X Int \X Int \X Int
    PROVE  Precedes(a, b) <=>
             \/ a[1] < b[1]
             \/ a[1] = b[1] /\ a[2] < b[2]
             \/ a[1] = b[1] /\ a[2] = b[2] /\ a[3] < b[3]
             \/ a[1] = b[1] /\ a[2] = b[2] /\ a[3] = b[3] /\ a[4] < b[4]
  <1>1. 1..4 = {1, 2, 3, 4} /\ 1..(1 - 1) = {} /\ 1..(2 - 1) = {1}
        /\ 1..(3 - 1) = {1, 2} /\ 1..(4 - 1) = {1, 2, 3}
    OBVIOUS
  <1>. DEFINE At(k) == a[k] < b[k] /\ \A l \in 1..(k - 1) : a[l] = b[l]
  <1>2. Precedes(a, b) <=> At(1) \/ At(2) \/ At(3) \/ At(4)
    BY <1>1 DEF Precedes
  <1>3. At(1) <=> a[1] < b[1]
    BY <1>1
  <1>4. At(2) <=> a[1] = b[1] /\ a[2] < b[2]
    BY <1>1
  <1>5. At(3) <=> a[1] = b[1] /\ a[2] = b[2] /\ a[3] < b[3]
    BY <1>1
  <1>6. At(4) <=> a[1] = b[1] /\ a[2] = b[2] /\ a[3] = b[3] /\ a[4] < b[4]
    BY <1>1
  <1>. QED  BY <1>2, <1>3, <1>4, <1>5, <1>6

LEMMA PrecedesOrders ==
    ASSUME NEW S, NEW key, Keyed(S, key)
    PROVE  /\ \A i \in S : ~Precedes(key[i], key[i])
           /\ \A i, j \in S : i = j \/ Precedes(key[i], key[j])
                                      \/ Precedes(key[j], key[i])
           /\ \A i, j, k \in S : Precedes(key[i], key[j]) /\ Precedes(key[j], key[k])
                                  => Precedes(key[i], key[k])
  <1>1. \A i \in S : key[i] \in Int \X Int \X Int \X Int
    BY DEF Keyed
  <1>2. \A i \in S : ~Precedes(key[i], key[i])
    BY <1>1, PrecedesIs
  <1>3. ASSUME NEW i \in S, NEW j \in S, i # j
        PROVE  Precedes(key[i], key[j]) \/ Precedes(key[j], key[i])
    <2>. DEFINE a == key[i]
                b == key[j]
    <2>1. a \in Int \X Int \X Int \X Int /\ b \in Int \X Int \X Int \X Int /\ a # b
      BY <1>1, <1>3 DEF Keyed
    <2>. HIDE DEF a, b
    <2>2. ~(a[1] = b[1] /\ a[2] = b[2] /\ a[3] = b[3] /\ a[4] = b[4])
      BY <2>1
    <2>3. /\ a[1] \in Int /\ a[2] \in Int /\ a[3] \in Int /\ a[4] \in Int
          /\ b[1] \in Int /\ b[2] \in Int /\ b[3] \in Int /\ b[4] \in Int
      BY <2>1
    <2>4. Precedes(a, b) \/ Precedes(b, a)
      BY <2>1, <2>2, <2>3, PrecedesIs
    <2>. QED  BY <2>4 DEF a, b
  <1>4. ASSUME NEW i \in S, NEW j \in S, NEW k \in S,
               Precedes(key[i], key[j]), Precedes(key[j], key[k])
        PROVE  Precedes(key[i], key[k])
    <2>. DEFINE a == key[i]
                b == key[j]
                c == key[k]
    <2>1. /\ a \in Int \X Int \X Int \X Int /\ b \in Int \X Int \X Int \X Int
          /\ c \in Int \X Int \X Int \X Int
          /\ Precedes(a, b) /\ Precedes(b, c)
      BY <1>1, <1>4
    <2>. HIDE DEF a, b, c
    <2>2. /\ a[1] \in Int /\ a[2] \in Int /\ a[3] \in Int /\ a[4] \in Int
          /\ b[1] \in Int /\ b[2] \in Int /\ b[3] \in Int /\ b[4] \in Int
          /\ c[1] \in Int /\ c[2] \in Int /\ c[3] \in Int /\ c[4] \in Int
      BY <2>1
    <2>3. Precedes(a, c)
      BY <2>1, <2>2, PrecedesIs
    <2>. QED  BY <2>3 DEF a, c
  <1>. QED  BY <1>2, <1>3, <1>4

(* A finite set has a last element. *)
LEMMA LastOne ==
    ASSUME NEW S, NEW key, Keyed(S, key)
    PROVE  \A T \in SUBSET S : IsFiniteSet(T) /\ T # {} =>
             \E m \in T : \A i \in T : i = m \/ Precedes(key[i], key[m])
  <1>. DEFINE N == {n \in Nat : \A T \in SUBSET S :
                      IsFiniteSet(T) /\ T # {} /\ Cardinality(T) = n =>
                        \E m \in T : \A i \in T : i = m \/ Precedes(key[i], key[m])}
  <1>1. 0 \in N
    BY FS_EmptySet
  <1>2. ASSUME NEW n \in Nat, n \in N
        PROVE  n + 1 \in N
    <2>. SUFFICES ASSUME NEW T \in SUBSET S, IsFiniteSet(T), T # {},
                         Cardinality(T) = n + 1
         PROVE  \E m \in T : \A i \in T : i = m \/ Precedes(key[i], key[m])
      OBVIOUS
    <2>1. PICK x \in T : TRUE
      OBVIOUS
    <2>2. IsFiniteSet(T \ {x}) /\ Cardinality(T \ {x}) = n /\ T \ {x} \in SUBSET S
      BY OneLess
    <2>3. CASE T \ {x} = {}
      BY <2>3
    <2>4. CASE T \ {x} # {}
      <3>1. PICK m \in T \ {x} : \A i \in T \ {x} : i = m \/ Precedes(key[i], key[m])
        BY <1>2, <2>2, <2>4
      <3>2. CASE Precedes(key[x], key[m])
        BY <3>1, <3>2
      <3>3. CASE Precedes(key[m], key[x])
        <4>1. \A i \in T : i = x \/ Precedes(key[i], key[x])
          BY <3>1, <3>3, PrecedesOrders
        <4>. QED  BY <4>1
      <3>. QED  BY <3>1, <3>2, <3>3, PrecedesOrders
    <2>. QED  BY <2>3, <2>4
  <1>. HIDE DEF N
  <1>3. \A n \in Nat : n \in N
    BY <1>1, <1>2, SetInduction
  <1>. QED  BY <1>3, FS_CardinalityType DEF N

(* A finite set can be put in order. *)
Sorted(s, S, key) ==
    /\ s \in [1..Cardinality(S) -> S]
    /\ Range(s) = S
    /\ \A k, l \in DOMAIN s : k < l => Precedes(key[s[k]], key[s[l]])

LEMMA SortedExists ==
    ASSUME NEW S, NEW key, Keyed(S, key)
    PROVE  \A T \in SUBSET S : IsFiniteSet(T) => \E s : Sorted(s, T, key)
  <1>. DEFINE N == {n \in Nat : \A T \in SUBSET S :
                      IsFiniteSet(T) /\ Cardinality(T) = n => \E s : Sorted(s, T, key)}
  <1>1. 0 \in N
    <2>. SUFFICES ASSUME NEW T \in SUBSET S, IsFiniteSet(T), Cardinality(T) = 0
         PROVE  \E s : Sorted(s, T, key)
      OBVIOUS
    <2>. DEFINE s == [k \in 1..0 |-> 0]
    <2>1. T = {}
      BY FS_EmptySet
    <2>2. Sorted(s, T, key)
      BY <2>1 DEF Sorted, Range
    <2>. QED  BY <2>2
  <1>2. ASSUME NEW n \in Nat, n \in N
        PROVE  n + 1 \in N
    <2>. SUFFICES ASSUME NEW T \in SUBSET S, IsFiniteSet(T), Cardinality(T) = n + 1
         PROVE  \E s : Sorted(s, T, key)
      OBVIOUS
    <2>1. T # {}
      BY FS_EmptySet
    <2>2. PICK m \in T : \A i \in T : i = m \/ Precedes(key[i], key[m])
      BY <2>1, LastOne
    <2>3. IsFiniteSet(T \ {m}) /\ Cardinality(T \ {m}) = n /\ T \ {m} \in SUBSET S
      BY OneLess
    <2>4. PICK s : Sorted(s, T \ {m}, key)
      BY <1>2, <2>3
    <2>. DEFINE u == [k \in 1..(n + 1) |-> IF k = n + 1 THEN m ELSE s[k]]
    <2>5. s \in [1..n -> T \ {m}] /\ Range(s) = T \ {m}
      BY <2>3, <2>4 DEF Sorted
    <2>6. u \in [1..Cardinality(T) -> T]
      BY <2>5
    <2>7. Range(u) = T
      <3>1. \A i \in T \ {m} : \E k \in 1..n : s[k] = i
        BY <2>5 DEF Range
      <3>2. \A i \in T : \E k \in 1..(n + 1) : u[k] = i
        <4>. SUFFICES ASSUME NEW i \in T
             PROVE  \E k \in 1..(n + 1) : u[k] = i
          OBVIOUS
        <4>1. CASE i = m
          <5>1. n + 1 \in 1..(n + 1) /\ u[n + 1] = m
            OBVIOUS
          <5>. QED  BY <4>1, <5>1
        <4>2. CASE i # m
          <5>1. PICK k \in 1..n : s[k] = i
            BY <3>1, <4>2
          <5>2. k \in 1..(n + 1) /\ u[k] = i
            BY <5>1
          <5>. QED  BY <5>2
        <4>. QED  BY <4>1, <4>2
      <3>3. DOMAIN u = 1..(n + 1) /\ \A k \in DOMAIN u : u[k] \in T
        BY <2>6
      <3>. HIDE DEF u
      <3>. QED  BY <3>2, <3>3 DEF Range
    <2>8. ASSUME NEW k \in DOMAIN u, NEW l \in DOMAIN u, k < l
          PROVE  Precedes(key[u[k]], key[u[l]])
      <3>1. k \in 1..n /\ u[k] = s[k] /\ s[k] \in T \ {m}
        BY <2>5, <2>8
      <3>2. CASE l = n + 1
        BY <2>2, <3>1, <3>2
      <3>3. CASE l # n + 1
        <4>1. l \in 1..n /\ u[l] = s[l]
          BY <3>3
        <4>. QED  BY <2>4, <2>5, <2>8, <3>1, <4>1 DEF Sorted
      <3>. QED  BY <3>2, <3>3
    <2>. HIDE DEF u
    <2>9. Sorted(u, T, key)
      BY <2>6, <2>7, <2>8 DEF Sorted
    <2>. QED  BY <2>9
  <1>. HIDE DEF N
  <1>3. \A n \in Nat : n \in N
    BY <1>1, <1>2, SetInduction
  <1>. QED  BY <1>3, FS_CardinalityType DEF N

LEMMA InOrderIs ==
    ASSUME NEW S, IsFiniteSet(S), NEW key, Keyed(S, key)
    PROVE  /\ InOrder(S, key) \in Seq(S) /\ Range(InOrder(S, key)) = S
           /\ \A k, l \in DOMAIN InOrder(S, key) :
                InOrder(S, key)[k] = InOrder(S, key)[l] => k = l
  <1>. DEFINE s == InOrder(S, key)
  <1>1. \E u : Sorted(u, S, key)
    BY SortedExists
  <1>2. InOrder(S, key) = CHOOSE u \in [1..Cardinality(S) -> S] :
          /\ Range(u) = S
          /\ \A k, l \in DOMAIN u : k < l => Precedes(key[u[k]], key[u[l]])
    BY DEF InOrder
  <1>3. \E u \in [1..Cardinality(S) -> S] :
          /\ Range(u) = S
          /\ \A k, l \in DOMAIN u : k < l => Precedes(key[u[k]], key[u[l]])
    BY <1>1 DEF Sorted
  <1>4. Sorted(s, S, key)
    BY <1>2, <1>3 DEF Sorted
  <1>. HIDE DEF s
  <1>5. Cardinality(S) \in Nat /\ DOMAIN s = 1..Cardinality(S)
    BY <1>4, FS_CardinalityType DEF Sorted
  <1>6. s \in Seq(S)
    BY <1>4, <1>5 DEF Sorted
  <1>7. ASSUME NEW k \in DOMAIN s, NEW l \in DOMAIN s, s[k] = s[l]
        PROVE  k = l
    <2>1. s[k] \in S
      BY <1>4 DEF Sorted
    <2>2. k < l => Precedes(key[s[k]], key[s[k]])
      BY <1>4, <1>7 DEF Sorted
    <2>3. l < k => Precedes(key[s[k]], key[s[k]])
      BY <1>4, <1>7 DEF Sorted
    <2>4. ~(k < l) /\ ~(l < k)
      BY <2>1, <2>2, <2>3, PrecedesOrders
    <2>. QED  BY <1>5, <2>4
  <1>8. Range(s) = S
    BY <1>4 DEF Sorted
  <1>. QED  BY <1>6, <1>7, <1>8 DEF s

-----------------------------------------------------------------------------
(* Rows and their aggregates.                                              *)

Time == Nat \cup {Absent}
Row == [src : Nat, upd : Nat, fill : {0, 1}, filled : BOOLEAN,
        terminal : BOOLEAN]
Life == [first : Nat, last : Nat, fill : Nat, lastFill : Time,
         terminal : BOOLEAN, termTs : Time, termSrc : Time, count : Nat \ {0}]
Lives == Life \cup {NoLife}

LEMMA LifeCounts == /\ \A a \in Life : a.count # 0 /\ a # NoLife
                    /\ NoLife.count = 0 /\ NoLife \in Lives
  BY DEF Life, Lives, NoLife

LEMMA LifeOfType == \A row \in Row : LifeOf(row) \in Life
  BY DEF Row, Life, LifeOf, FillUpdate, Absent, Time

LEMMA CombineType == \A a, b \in Life : Combine(a, b) \in Life
  BY DEF Life, Combine, MinOf, MaxOf, Time, Earlier, Absent

LEMMA MergedIs ==
    ASSUME NEW a \in Lives, NEW b \in Lives
    PROVE  /\ Merged(NoLife, b) = b
           /\ Merged(a, NoLife) = a
           /\ a \in Life /\ b \in Life => Merged(a, b) = Combine(a, b)
           /\ Merged(a, b) \in Lives
           /\ a \in Life \/ b \in Life => Merged(a, b) \in Life
  <1>1. Merged(NoLife, b) = b
    BY LifeCounts DEF Merged
  <1>2. Merged(a, NoLife) = a
    BY LifeCounts DEF Merged, Lives
  <1>3. a \in Life /\ b \in Life => Merged(a, b) = Combine(a, b)
    BY LifeCounts DEF Merged
  <1>. QED  BY <1>1, <1>2, <1>3, CombineType DEF Lives

LEMMA CombineAssociates ==
    ASSUME NEW a \in Life, NEW b \in Life, NEW c \in Life
    PROVE  Combine(Combine(a, b), c) = Combine(a, Combine(b, c))
  <1>. DEFINE ab == Combine(a, b)
              bc == Combine(b, c)
              l == Combine(ab, c)
              r == Combine(a, bc)
  <1>1. ab \in Life /\ bc \in Life
    BY CombineType
  <1>2. \A x, y, z \in Nat : MinOf(MinOf(x, y), z) = MinOf(x, MinOf(y, z))
    BY DEF MinOf
  <1>3. \A x, y, z \in Time : MaxOf(MaxOf(x, y), z) = MaxOf(x, MaxOf(y, z))
    BY DEF MaxOf, Time, Absent
  <1>4. l.first = r.first
    BY <1>2 DEF Combine, Life
  <1>5. l.last = r.last
    <2>1. /\ l.last = MaxOf(MaxOf(a.last, b.last), c.last)
          /\ r.last = MaxOf(a.last, MaxOf(b.last, c.last))
      BY DEF Combine
    <2>2. a.last \in Time /\ b.last \in Time /\ c.last \in Time
      BY DEF Life, Time
    <2>. QED  BY <1>3, <2>1, <2>2
  <1>10. l.lastFill = r.lastFill
    <2>1. /\ l.lastFill = MaxOf(MaxOf(a.lastFill, b.lastFill), c.lastFill)
          /\ r.lastFill = MaxOf(a.lastFill, MaxOf(b.lastFill, c.lastFill))
      BY DEF Combine
    <2>2. a.lastFill \in Time /\ b.lastFill \in Time /\ c.lastFill \in Time
      BY DEF Life
    <2>. QED  BY <1>3, <2>1, <2>2
  <1>6. l.fill = r.fill /\ l.count = r.count /\ l.terminal = r.terminal
    <2>1. /\ l.fill = (a.fill + b.fill) + c.fill
          /\ r.fill = a.fill + (b.fill + c.fill)
          /\ l.count = (a.count + b.count) + c.count
          /\ r.count = a.count + (b.count + c.count)
          /\ l.terminal = ((a.terminal \/ b.terminal) \/ c.terminal)
          /\ r.terminal = (a.terminal \/ (b.terminal \/ c.terminal))
      BY DEF Combine
    <2>2. /\ a.fill \in Nat /\ b.fill \in Nat /\ c.fill \in Nat
          /\ a.count \in Nat /\ b.count \in Nat /\ c.count \in Nat
      BY DEF Life
    <2>. QED  BY <2>1, <2>2
  <1>7. l.termTs = r.termTs /\ l.termSrc = r.termSrc
    BY DEF Combine, Life, Time, Absent, Earlier
  <1>8. l \in Life /\ r \in Life
    BY <1>1, CombineType
  <1>. HIDE DEF l, r
  <1>9. l = r
    BY <1>4, <1>5, <1>6, <1>7, <1>8, <1>10 DEF Life
  <1>. QED  BY <1>9 DEF l, r

LEMMA MergedAssociates ==
    ASSUME NEW a \in Lives, NEW b \in Lives, NEW c \in Lives
    PROVE  Merged(Merged(a, b), c) = Merged(a, Merged(b, c))
  <1>1. CASE a = NoLife \/ b = NoLife \/ c = NoLife
    <2>1. Merged(a, b) \in Lives /\ Merged(b, c) \in Lives
      BY MergedIs
    <2>. QED  BY <1>1, <2>1, MergedIs
  <1>2. CASE a \in Life /\ b \in Life /\ c \in Life
    <2>1. Merged(a, b) = Combine(a, b) /\ Merged(b, c) = Combine(b, c)
      BY <1>2, MergedIs
    <2>2. Combine(a, b) \in Life /\ Combine(b, c) \in Life
      BY <1>2, CombineType
    <2>3. /\ Merged(Combine(a, b), c) = Combine(Combine(a, b), c)
          /\ Merged(a, Combine(b, c)) = Combine(a, Combine(b, c))
      BY <1>2, <2>2, MergedIs DEF Lives
    <2>. QED  BY <1>2, <2>1, <2>3, CombineAssociates
  <1>. QED  BY <1>1, <1>2 DEF Lives

Inside(row, start, end) == start =< row.src /\ row.src < end

(* The aggregates of the first rows, one after the other. *)
Running(u, read, start, end) ==
    /\ u \in [0..Len(read) -> Lives]
    /\ u[0] = NoLife
    /\ \A k \in 1..Len(read) :
         u[k] = IF Inside(read[k], start, end)
                THEN Merged(u[k - 1], LifeOf(read[k])) ELSE u[k - 1]

LEMMA AggregateIs ==
    ASSUME NEW read \in Seq(Row), NEW start, NEW end
    PROVE  \E u : /\ Running(u, read, start, end)
                  /\ Aggregate(read, start, end) = u[Len(read)]
  <1>. DEFINE
     E(u, n) == u = [k \in 0..n |->
                  IF k = 0 THEN NoLife
                  ELSE IF Inside(read[k], start, end)
                       THEN Merged(u[k - 1], LifeOf(read[k])) ELSE u[k - 1]]
     N == {n \in Nat : \E u : E(u, n)}
  <1>1. 0 \in N
    <2>. DEFINE u == [k \in 0..0 |-> NoLife]
    <2>1. E(u, 0)
      OBVIOUS
    <2>. QED  BY <2>1
  <1>2. ASSUME NEW n \in Nat, n \in N
        PROVE  n + 1 \in N
    <2>1. PICK u : E(u, n)
      BY <1>2
    <2>. DEFINE last == IF Inside(read[n + 1], start, end)
                        THEN Merged(u[n], LifeOf(read[n + 1])) ELSE u[n]
                w == [k \in 0..(n + 1) |-> IF k = n + 1 THEN last ELSE u[k]]
    <2>2. ASSUME NEW k \in 0..(n + 1)
          PROVE  w[k] = IF k = 0 THEN NoLife
                  ELSE IF Inside(read[k], start, end)
                       THEN Merged(w[k - 1], LifeOf(read[k])) ELSE w[k - 1]
      <3>1. CASE k = n + 1
        <4>1. w[k] = last /\ w[k - 1] = u[n] /\ k # 0
          BY <3>1
        <4>. HIDE DEF w
        <4>. QED  BY <3>1, <4>1
      <3>2. CASE k # n + 1
        <4>1. k \in 0..n /\ w[k] = u[k] /\ (k # 0 => w[k - 1] = u[k - 1])
          BY <3>2
        <4>2. u[k] = IF k = 0 THEN NoLife
                  ELSE IF Inside(read[k], start, end)
                       THEN Merged(u[k - 1], LifeOf(read[k])) ELSE u[k - 1]
          BY <2>1, <4>1
        <4>. HIDE DEF w
        <4>. QED  BY <4>1, <4>2
      <3>. QED  BY <3>1, <3>2
    <2>3. w = [k \in 0..(n + 1) |-> w[k]]
      OBVIOUS
    <2>. HIDE DEF w
    <2>4. E(w, n + 1)
      BY <2>2, <2>3
    <2>. QED  BY <2>4
  <1>. HIDE DEF N
  <1>3. Len(read) \in N
    BY <1>1, <1>2, SetInduction
  <1>4. \E u : E(u, Len(read))
    BY <1>3 DEF N
  <1>. DEFINE u == CHOOSE u : E(u, Len(read))
  <1>5. E(u, Len(read))
    BY <1>4, Zenon
  <1>6. Aggregate(read, start, end) = u[Len(read)]
    BY Zenon DEF Aggregate, Inside
  <1>. HIDE DEF u
  <1>7. DOMAIN u = 0..Len(read) /\ u = [k \in 0..Len(read) |-> u[k]]
    BY <1>5
  <1>8. /\ u[0] = NoLife
        /\ \A k \in 1..Len(read) :
             u[k] = IF Inside(read[k], start, end)
                    THEN Merged(u[k - 1], LifeOf(read[k])) ELSE u[k - 1]
    <2>1. Len(read) \in Nat
      OBVIOUS
    <2>2. \A k \in 0..Len(read) : u[k] = IF k = 0 THEN NoLife
                  ELSE IF Inside(read[k], start, end)
                       THEN Merged(u[k - 1], LifeOf(read[k])) ELSE u[k - 1]
      BY <1>5, Zenon
    <2>. QED  BY <2>1, <2>2
  <1>. DEFINE M == {k \in Nat : k =< Len(read) => u[k] \in Lives}
  <1>9. 0 \in M
    BY <1>8, LifeCounts
  <1>10. ASSUME NEW k \in Nat, k \in M
         PROVE  k + 1 \in M
    <2>. SUFFICES ASSUME k + 1 =< Len(read)
         PROVE  u[k + 1] \in Lives
      OBVIOUS
    <2>1. k + 1 \in 1..Len(read) /\ read[k + 1] \in Row /\ u[k] \in Lives
      BY <1>10
    <2>2. LifeOf(read[k + 1]) \in Lives
      BY <2>1, LifeOfType DEF Lives
    <2>3. Merged(u[k], LifeOf(read[k + 1])) \in Lives
      BY <2>1, <2>2, MergedIs
    <2>4. u[k + 1] \in {u[k], Merged(u[k], LifeOf(read[k + 1]))}
      BY <1>8, <2>1
    <2>. QED  BY <2>1, <2>3, <2>4
  <1>. HIDE DEF M
  <1>11. \A k \in Nat : k \in M
    BY <1>9, <1>10, SetInduction
  <1>12. u \in [0..Len(read) -> Lives]
    BY <1>7, <1>11 DEF M
  <1>. QED  BY <1>6, <1>8, <1>12 DEF Running

LEMMA AggregateType ==
    ASSUME NEW read \in Seq(Row), NEW start, NEW end
    PROVE  Aggregate(read, start, end) \in Lives
  <1>1. PICK u : /\ Running(u, read, start, end)
                 /\ Aggregate(read, start, end) = u[Len(read)]
    BY AggregateIs
  <1>. QED  BY <1>1 DEF Running

(* A further row is merged if it lies in the range. *)
LEMMA AggregateAppend ==
    ASSUME NEW read \in Seq(Row), NEW row \in Row, NEW start, NEW end
    PROVE  Aggregate(Append(read, row), start, end) =
             IF Inside(row, start, end)
             THEN Merged(Aggregate(read, start, end), LifeOf(row))
             ELSE Aggregate(read, start, end)
  <1>. DEFINE more == Append(read, row)
  <1>1. more \in Seq(Row) /\ Len(more) = Len(read) + 1 /\ Len(read) \in Nat
        /\ more[Len(read) + 1] = row /\ \A k \in 1..Len(read) : more[k] = read[k]
    OBVIOUS
  <1>. HIDE DEF more
  <1>2. PICK u : /\ Running(u, read, start, end)
                 /\ Aggregate(read, start, end) = u[Len(read)]
    BY AggregateIs
  <1>3. PICK w : /\ Running(w, more, start, end)
                 /\ Aggregate(more, start, end) = w[Len(more)]
    BY <1>1, AggregateIs
  <1>. DEFINE N == {k \in Nat : k =< Len(read) => u[k] = w[k]}
  <1>4. 0 \in N
    BY <1>2, <1>3 DEF Running
  <1>5. ASSUME NEW k \in Nat, k \in N
        PROVE  k + 1 \in N
    <2>. SUFFICES ASSUME k + 1 =< Len(read)
         PROVE  u[k + 1] = w[k + 1]
      OBVIOUS
    <2>1. k + 1 \in 1..Len(read) /\ k + 1 \in 1..Len(more)
          /\ read[k + 1] = more[k + 1] /\ u[k] = w[k] /\ (k + 1) - 1 = k
      BY <1>1, <1>5
    <2>2. u[k + 1] = IF Inside(read[k + 1], start, end)
                     THEN Merged(u[k], LifeOf(read[k + 1])) ELSE u[k]
      BY <1>2, <2>1 DEF Running
    <2>3. w[k + 1] = IF Inside(more[k + 1], start, end)
                     THEN Merged(w[k], LifeOf(more[k + 1])) ELSE w[k]
      BY <1>3, <2>1 DEF Running
    <2>. QED  BY <2>1, <2>2, <2>3
  <1>. HIDE DEF N
  <1>6. \A k \in Nat : k \in N
    BY <1>4, <1>5, SetInduction
  <1>7. u[Len(read)] = w[Len(read)]
    BY <1>1, <1>6 DEF N
  <1>8. w[Len(read) + 1] = IF Inside(row, start, end)
                     THEN Merged(w[Len(read)], LifeOf(row)) ELSE w[Len(read)]
    <2>1. Len(read) + 1 \in 1..Len(more) /\ (Len(read) + 1) - 1 = Len(read)
      BY <1>1
    <2>2. w[Len(read) + 1] =
            IF Inside(more[Len(read) + 1], start, end)
            THEN Merged(w[(Len(read) + 1) - 1], LifeOf(more[Len(read) + 1]))
            ELSE w[(Len(read) + 1) - 1]
      BY <1>3, <2>1 DEF Running
    <2>. QED  BY <1>1, <2>1, <2>2
  <1>. QED  BY <1>1, <1>2, <1>3, <1>7, <1>8 DEF more

Ascending(read) ==
    \A k, l \in DOMAIN read : k < l => read[k].src < read[l].src

(* What two successive ranges hold together. *)
LEMMA AggregateSplit ==
    ASSUME NEW read \in Seq(Row), Ascending(read),
           NEW start \in Int, NEW mid \in Int, NEW end \in Int,
           start =< mid, mid =< end
    PROVE  Aggregate(read, start, end)
             = Merged(Aggregate(read, start, mid), Aggregate(read, mid, end))
  <1>1. PICK u : /\ Running(u, read, start, end)
                 /\ Aggregate(read, start, end) = u[Len(read)]
    BY AggregateIs
  <1>2. PICK v : /\ Running(v, read, start, mid)
                 /\ Aggregate(read, start, mid) = v[Len(read)]
    BY AggregateIs
  <1>3. PICK w : /\ Running(w, read, mid, end)
                 /\ Aggregate(read, mid, end) = w[Len(read)]
    BY AggregateIs
  <1>. DEFINE
     N == {k \in Nat : k =< Len(read) =>
             /\ u[k] = Merged(v[k], w[k])
             /\ (\A l \in 1..k : read[l].src < mid) => w[k] = NoLife}
  <1>4. 0 \in N
    <2>1. u[0] = NoLife /\ v[0] = NoLife /\ w[0] = NoLife
      BY <1>1, <1>2, <1>3 DEF Running
    <2>2. Merged(NoLife, NoLife) = NoLife
      BY MergedIs, LifeCounts
    <2>. QED  BY <2>1, <2>2
  <1>5. ASSUME NEW k \in Nat, k \in N
        PROVE  k + 1 \in N
    <2>. SUFFICES ASSUME k + 1 =< Len(read)
         PROVE  /\ u[k + 1] = Merged(v[k + 1], w[k + 1])
                /\ (\A l \in 1..(k + 1) : read[l].src < mid) => w[k + 1] = NoLife
      OBVIOUS
    <2>. DEFINE row == read[k + 1]
    <2>1. k + 1 \in 1..Len(read) /\ k \in 0..Len(read) /\ (k + 1) - 1 = k
          /\ row \in Row /\ row.src \in Int
      <3>1. k + 1 \in 1..Len(read) /\ k \in 0..Len(read) /\ (k + 1) - 1 = k
        OBVIOUS
      <3>2. row \in Row
        BY <3>1
      <3>3. \A r \in Row : r.src \in Int
        BY DEF Row
      <3>. QED  BY <3>1, <3>2, <3>3
    <2>2. LifeOf(row) \in Lives
      BY <2>1, LifeOfType DEF Lives
    <2>. DEFINE life == LifeOf(row)
    <2>3. u[k + 1] = IF Inside(row, start, end) THEN Merged(u[k], life) ELSE u[k]
      BY <1>1, <2>1 DEF Running
    <2>4. v[k + 1] = IF Inside(row, start, mid) THEN Merged(v[k], life) ELSE v[k]
      BY <1>2, <2>1 DEF Running
    <2>5. w[k + 1] = IF Inside(row, mid, end) THEN Merged(w[k], life) ELSE w[k]
      BY <1>3, <2>1 DEF Running
    <2>6. v[k] \in Lives /\ w[k] \in Lives
      BY <1>2, <1>3, <2>1 DEF Running
    <2>7. u[k] = Merged(v[k], w[k])
      BY <1>5, <2>1
    <2>8. row.src < mid => w[k] = NoLife
      <3>. SUFFICES ASSUME row.src < mid
           PROVE  w[k] = NoLife
        OBVIOUS
      <3>1. ASSUME NEW l \in 1..k
            PROVE  read[l].src < mid
        <4>1. l \in DOMAIN read /\ k + 1 \in DOMAIN read /\ l < k + 1
          BY <2>1
        <4>2. read[l].src < row.src
          BY <4>1 DEF Ascending
        <4>3. read[l] \in Row
          BY <4>1
        <4>4. read[l].src \in Int
          BY <4>3 DEF Row
        <4>. QED  BY <2>1, <4>2, <4>4
      <3>. QED  BY <1>5, <2>1, <3>1
    <2>9. (\A l \in 1..(k + 1) : read[l].src < mid) => row.src < mid
      BY <2>1
    <2>. HIDE DEF row, life, N
    <2>10. CASE row.src < mid
      <3>1. w[k] = NoLife /\ ~Inside(row, mid, end)
            /\ (Inside(row, start, end) <=> Inside(row, start, mid))
        BY <2>1, <2>8, <2>10 DEF Inside
      <3>2. w[k + 1] = NoLife
        BY <2>5, <3>1
      <3>3. u[k] = v[k]
        BY <2>6, <2>7, <3>1, MergedIs
      <3>4. u[k + 1] = v[k + 1] /\ v[k + 1] \in Lives
        BY <2>2, <2>3, <2>4, <2>6, <3>1, <3>3, MergedIs DEF life
      <3>. QED  BY <3>2, <3>4, MergedIs
    <2>11. CASE mid =< row.src
      <3>1. ~Inside(row, start, mid) /\ ~(row.src < mid)
            /\ (Inside(row, start, end) <=> Inside(row, mid, end))
        BY <2>1, <2>11 DEF Inside
      <3>2. u[k + 1] = Merged(v[k + 1], w[k + 1])
        BY <2>2, <2>3, <2>4, <2>5, <2>6, <2>7, <3>1, MergedAssociates DEF life
      <3>. QED  BY <2>9, <3>1, <3>2
    <2>. QED  BY <2>1, <2>10, <2>11
  <1>. HIDE DEF N
  <1>6. \A k \in Nat : k \in N
    BY <1>4, <1>5, SetInduction
  <1>7. Len(read) \in Nat
    OBVIOUS
  <1>. QED  BY <1>1, <1>2, <1>3, <1>6, <1>7 DEF N

(* What an aggregate tells of the rows. *)
LEMMA AggregateTells ==
    ASSUME NEW read \in Seq(Row), NEW start \in Int, NEW end \in Int
    PROVE  LET a == Aggregate(read, start, end)
           IN  /\ \A k \in DOMAIN read : Inside(read[k], start, end) =>
                     a \in Life /\ read[k].src =< a.last
               /\ a \in Life =>
                     \E k \in DOMAIN read : /\ Inside(read[k], start, end)
                                            /\ a.last = read[k].src
               /\ a \in Life /\ a.terminal =>
                     \E k \in DOMAIN read : /\ Inside(read[k], start, end)
                                            /\ read[k].terminal
  <1>1. PICK u : /\ Running(u, read, start, end)
                 /\ Aggregate(read, start, end) = u[Len(read)]
    BY AggregateIs
  <1>. DEFINE
     Says(a, n) == /\ \A k \in 1..n : Inside(read[k], start, end) =>
                     a \in Life /\ read[k].src =< a.last
                   /\ a \in Life =>
                        \E k \in 1..n : /\ Inside(read[k], start, end)
                                        /\ a.last = read[k].src
                   /\ a \in Life /\ a.terminal =>
                        \E k \in 1..n : /\ Inside(read[k], start, end)
                                        /\ read[k].terminal
     N == {n \in Nat : n =< Len(read) => Says(u[n], n)}
  <1>2. 0 \in N
    <2>1. u[0] \notin Life
      BY <1>1, LifeCounts DEF Running
    <2>2. 1..0 = {}
      OBVIOUS
    <2>. QED  BY <2>1, <2>2
  <1>3. ASSUME NEW n \in Nat, n \in N
        PROVE  n + 1 \in N
    <2>. SUFFICES ASSUME n + 1 =< Len(read)
         PROVE  Says(u[n + 1], n + 1)
      OBVIOUS
    <2>. DEFINE row == read[n + 1]
                life == LifeOf(row)
    <2>1. n + 1 \in 1..Len(read) /\ n \in 0..Len(read) /\ (n + 1) - 1 = n
          /\ row \in Row /\ row.src \in Nat
      <3>1. n + 1 \in 1..Len(read) /\ n \in 0..Len(read) /\ (n + 1) - 1 = n
        OBVIOUS
      <3>2. row \in Row
        BY <3>1
      <3>3. \A r \in Row : r.src \in Nat
        BY DEF Row
      <3>. QED  BY <3>1, <3>2, <3>3
    <2>2. u[n + 1] = IF Inside(row, start, end) THEN Merged(u[n], life) ELSE u[n]
      BY <1>1, <2>1 DEF Running
    <2>3. u[n] \in Lives /\ Says(u[n], n)
      BY <1>1, <1>3, <2>1 DEF Running
    <2>4. life \in Life /\ life \in Lives /\ life.last = row.src
          /\ life.terminal = row.terminal
      BY <2>1, LifeOfType DEF Lives, LifeOf
    <2>5. \A k \in 1..(n + 1) : k = n + 1 \/ k \in 1..n
      OBVIOUS
    <2>6. n + 1 \in 1..(n + 1) /\ \A k \in 1..n : k \in 1..(n + 1)
      OBVIOUS
    <2>7. \A k \in 1..n : read[k].src \in Nat
      <3>1. \A k \in 1..n : read[k] \in Row
        BY <2>1
      <3>2. \A r \in Row : r.src \in Nat
        BY DEF Row
      <3>. QED  BY <3>1, <3>2
    <2>8. CASE ~Inside(row, start, end)
      <3>1. u[n + 1] = u[n]
        BY <2>2, <2>8
      <3>. QED  BY <2>3, <2>5, <2>6, <2>8, <3>1
    <2>9. CASE Inside(row, start, end) /\ u[n] = NoLife
      <3>1. u[n + 1] = life
        BY <2>2, <2>4, <2>9, MergedIs
      <3>2. \A k \in 1..n : ~Inside(read[k], start, end)
        BY <2>3, <2>9, LifeCounts
      <3>3. row.src =< row.src
        BY <2>1
      <3>. HIDE DEF life, N
      <3>4. \A k \in 1..(n + 1) : Inside(read[k], start, end) =>
                     life \in Life /\ read[k].src =< life.last
        BY <2>4, <2>5, <3>2, <3>3
      <3>5. \E k \in 1..(n + 1) : /\ Inside(read[k], start, end)
                                        /\ life.last = read[k].src
        BY <2>4, <2>6, <2>9
      <3>6. life.terminal => \E k \in 1..(n + 1) : /\ Inside(read[k], start, end)
                                        /\ read[k].terminal
        BY <2>4, <2>6, <2>9
      <3>. QED  BY <3>1, <3>4, <3>5, <3>6
    <2>10. CASE Inside(row, start, end) /\ u[n] \in Life
      <3>. DEFINE a == u[n]
                  b == u[n + 1]
      <3>1. b = Combine(a, life) /\ b \in Life
        BY <2>2, <2>3, <2>4, <2>10, MergedIs, CombineType
      <3>2. b.last = MaxOf(a.last, row.src) /\ b.terminal = (a.terminal \/ row.terminal)
        BY <2>4, <3>1 DEF Combine
      <3>3. a.last \in Nat
        BY <2>10 DEF Life
      <3>4. Says(a, n) /\ a \in Life
        BY <2>3, <2>10
      <3>. HIDE DEF life, N, a, b, row
      <3>5. a.last =< b.last /\ row.src =< b.last /\ b.last \in {a.last, row.src}
        BY <2>1, <3>2, <3>3 DEF MaxOf
      <3>6. \A k \in 1..(n + 1) : Inside(read[k], start, end) =>
                     b \in Life /\ read[k].src =< b.last
        <4>1. \A k \in 1..n : Inside(read[k], start, end) => read[k].src =< a.last
          BY <3>4
        <4>2. b.last \in Nat
          BY <3>1 DEF Life
        <4>3. \A k \in 1..n : Inside(read[k], start, end) => read[k].src =< b.last
          BY <2>7, <3>3, <3>5, <4>1, <4>2
        <4>. QED  BY <2>5, <3>1, <3>5, <4>3 DEF row
      <3>7. \E k \in 1..(n + 1) : /\ Inside(read[k], start, end)
                                        /\ b.last = read[k].src
        BY <2>6, <2>10, <3>4, <3>5 DEF row
      <3>8. b.terminal => \E k \in 1..(n + 1) : /\ Inside(read[k], start, end)
                                        /\ read[k].terminal
        BY <2>6, <2>10, <3>2, <3>4 DEF row
      <3>. QED  BY <3>6, <3>7, <3>8 DEF b
    <2>. QED  BY <2>3, <2>8, <2>9, <2>10 DEF Lives
  <1>. HIDE DEF N
  <1>4. Len(read) \in N
    <2>1. \A n \in Nat : n \in N
      BY <1>2, <1>3, SetInduction
    <2>2. Len(read) \in Nat
      OBVIOUS
    <2>. QED  BY <2>1, <2>2
  <1>5. Says(u[Len(read)], Len(read))
    BY <1>4 DEF N
  <1>6. DOMAIN read = 1..Len(read)
    OBVIOUS
  <1>. QED  BY <1>1, <1>5, <1>6

-----------------------------------------------------------------------------
(* Tables and what matching moves in them.                                 *)

Order == [uts : Time, src : Nat, fill : Nat \ {0}, rem : Nat, cam : Nat,
          net : Nat, hts : Time, fts : Time, n : Nat]
Hedge == [create : Nat, fts : Time, amount : Nat, alloc : Nat]
Timing == [hts : Time, fts : Time, n : Nat]
OrderTable == [Margin -> Order \cup {NoOrder}]
HedgeTable == [Futures -> Hedge \cup {NoHedge}]

LEMMA RowsAreReal ==
    /\ \A o \in Order : o # NoOrder /\ o.fill # 0
    /\ \A h \in Hedge : h # NoHedge
    /\ NoOrder.fill = 0
  BY DEF Order, Hedge, NoOrder, NoHedge, Absent

Balanced(o) == o.fill = o.rem + o.cam + o.net

Sides == {Buys, Orders \ Buys}

NetOf(t, S) == Sum([i \in Margin \cap S |-> IF t[i] = NoOrder THEN 0 ELSE t[i].net])
CamOf(t, S) == Sum([i \in Margin \cap S |-> IF t[i] = NoOrder THEN 0 ELSE t[i].cam])
AllocOf(t, S) ==
    Sum([h \in Futures \cap S |-> IF t[h] = NoHedge THEN 0 ELSE t[h].alloc])

(* A table under the orders the engine holds. *)
Overlay(t, held) == [i \in Margin |-> IF held[i] = NoOrder THEN t[i] ELSE held[i]]

LEMMA FiniteParts ==
    \A S : /\ IsFiniteSet(Margin \cap S) /\ IsFiniteSet(Futures \cap S)
           /\ IsFiniteSet(Margin) /\ IsFiniteSet(Futures)
  <1>. SUFFICES ASSUME NEW S
       PROVE  /\ IsFiniteSet(Margin \cap S) /\ IsFiniteSet(Futures \cap S)
              /\ IsFiniteSet(Margin) /\ IsFiniteSet(Futures)
    OBVIOUS
  <1>1. IsFiniteSet(Orders) /\ Margin \cap S \subseteq Orders
        /\ Futures \cap S \subseteq Orders /\ Margin \subseteq Orders
        /\ Futures \subseteq Orders
    BY OrdersAssumption DEF Futures
  <1>. QED  BY <1>1, FS_Subset

(* One row of a table changes. *)
LEMMA RowChanges ==
    ASSUME NEW t \in OrderTable, NEW u \in OrderTable, NEW j \in Margin,
           \A i \in Margin : i # j => u[i] = t[i]
    PROVE  \A S :
             /\ NetOf(t, S) \in Int /\ NetOf(u, S) \in Int
             /\ CamOf(t, S) \in Int /\ CamOf(u, S) \in Int
             /\ NetOf(u, S) = NetOf(t, S)
                  + (IF j \notin S THEN 0
                     ELSE (IF u[j] = NoOrder THEN 0 ELSE u[j].net)
                            - (IF t[j] = NoOrder THEN 0 ELSE t[j].net))
             /\ CamOf(u, S) = CamOf(t, S)
                  + (IF j \notin S THEN 0
                     ELSE (IF u[j] = NoOrder THEN 0 ELSE u[j].cam)
                            - (IF t[j] = NoOrder THEN 0 ELSE t[j].cam))
  <1>. SUFFICES ASSUME NEW S
       PROVE /\ NetOf(t, S) \in Int /\ NetOf(u, S) \in Int
             /\ CamOf(t, S) \in Int /\ CamOf(u, S) \in Int
             /\ NetOf(u, S) = NetOf(t, S)
                  + (IF j \notin S THEN 0
                     ELSE (IF u[j] = NoOrder THEN 0 ELSE u[j].net)
                            - (IF t[j] = NoOrder THEN 0 ELSE t[j].net))
             /\ CamOf(u, S) = CamOf(t, S)
                  + (IF j \notin S THEN 0
                     ELSE (IF u[j] = NoOrder THEN 0 ELSE u[j].cam)
                            - (IF t[j] = NoOrder THEN 0 ELSE t[j].cam))
    OBVIOUS
  <1>. DEFINE net(v) == [i \in Margin \cap S |-> IF v[i] = NoOrder THEN 0 ELSE v[i].net]
              cam(v) == [i \in Margin \cap S |-> IF v[i] = NoOrder THEN 0 ELSE v[i].cam]
              P == Margin \cap S
  <1>1. \A v \in OrderTable : \A i \in Margin :
          v[i] = NoOrder \/ (v[i] # NoOrder /\ v[i].net \in Int /\ v[i].cam \in Int)
    <2>1. \A o \in Order : o.net \in Int /\ o.cam \in Int
      BY DEF Order
    <2>. QED  BY <2>1 DEF OrderTable
  <1>2. net(t) \in [P -> Int] /\ net(u) \in [P -> Int]
        /\ cam(t) \in [P -> Int] /\ cam(u) \in [P -> Int]
    BY <1>1
  <1>3. \A i \in P : i # j => net(t)[i] = net(u)[i] /\ cam(t)[i] = cam(u)[i]
    OBVIOUS
  <1>4. NetOf(t, S) = Sum(net(t)) /\ NetOf(u, S) = Sum(net(u))
        /\ CamOf(t, S) = Sum(cam(t)) /\ CamOf(u, S) = Sum(cam(u))
    BY DEF NetOf, CamOf
  <1>5. IsFiniteSet(P)
    BY FiniteParts
  <1>6. CASE j \in S
    <2>1. j \in P
      BY <1>6
    <2>2. /\ net(t)[j] = (IF t[j] = NoOrder THEN 0 ELSE t[j].net)
          /\ net(u)[j] = (IF u[j] = NoOrder THEN 0 ELSE u[j].net)
          /\ cam(t)[j] = (IF t[j] = NoOrder THEN 0 ELSE t[j].cam)
          /\ cam(u)[j] = (IF u[j] = NoOrder THEN 0 ELSE u[j].cam)
      BY <2>1
    <2>. HIDE DEF net, cam, P
    <2>3. Sum(net(t)) \in Int /\ Sum(net(u)) \in Int
          /\ Sum(net(u)) = Sum(net(t)) + (net(u)[j] - net(t)[j])
      BY <1>2, <1>3, <1>5, <2>1, SumChange
    <2>4. Sum(cam(t)) \in Int /\ Sum(cam(u)) \in Int
          /\ Sum(cam(u)) = Sum(cam(t)) + (cam(u)[j] - cam(t)[j])
      BY <1>2, <1>3, <1>5, <2>1, SumChange
    <2>. QED  BY <1>4, <1>6, <2>2, <2>3, <2>4
  <1>7. CASE j \notin S
    <2>1. net(t) = net(u) /\ cam(t) = cam(u)
      BY <1>7
    <2>. HIDE DEF net, cam, P
    <2>2. Sum(net(t)) \in Int /\ Sum(cam(t)) \in Int
      <3>1. \A f \in [P -> Int] : Sum(f) \in Int
        <4>. SUFFICES ASSUME NEW f \in [P -> Int]
             PROVE  Sum(f) \in Int
          OBVIOUS
        <4>1. PICK g : PartialSums(g, f) /\ Sum(f) = g[P]
          BY <1>5, SumIs
        <4>. QED  BY <4>1 DEF PartialSums
      <3>. QED  BY <1>2, <3>1
    <2>. QED  BY <1>4, <1>7, <2>1, <2>2
  <1>. QED  BY <1>6, <1>7

LEMMA HedgeChanges ==
    ASSUME NEW t \in HedgeTable, NEW u \in HedgeTable, NEW j \in Futures,
           \A i \in Futures : i # j => u[i] = t[i]
    PROVE  \A S :
             /\ AllocOf(t, S) \in Int /\ AllocOf(u, S) \in Int
             /\ AllocOf(u, S) = AllocOf(t, S)
                  + (IF j \notin S THEN 0
                     ELSE (IF u[j] = NoHedge THEN 0 ELSE u[j].alloc)
                            - (IF t[j] = NoHedge THEN 0 ELSE t[j].alloc))
  <1>. SUFFICES ASSUME NEW S
       PROVE /\ AllocOf(t, S) \in Int /\ AllocOf(u, S) \in Int
             /\ AllocOf(u, S) = AllocOf(t, S)
                  + (IF j \notin S THEN 0
                     ELSE (IF u[j] = NoHedge THEN 0 ELSE u[j].alloc)
                            - (IF t[j] = NoHedge THEN 0 ELSE t[j].alloc))
    OBVIOUS
  <1>. DEFINE net(v) == [i \in Futures \cap S |-> IF v[i] = NoHedge THEN 0 ELSE v[i].alloc]
              P == Futures \cap S
  <1>1. \A v \in HedgeTable : \A i \in Futures :
          v[i] = NoHedge \/ (v[i] # NoHedge /\ v[i].alloc \in Int)
    <2>1. \A o \in Hedge : o.alloc \in Int
      BY DEF Hedge
    <2>. QED  BY <2>1 DEF HedgeTable
  <1>2. net(t) \in [P -> Int] /\ net(u) \in [P -> Int]
    BY <1>1
  <1>3. \A i \in P : i # j => net(t)[i] = net(u)[i]
    OBVIOUS
  <1>4. AllocOf(t, S) = Sum(net(t)) /\ AllocOf(u, S) = Sum(net(u))
    BY DEF AllocOf
  <1>5. IsFiniteSet(P)
    BY FiniteParts
  <1>6. CASE j \in S
    <2>1. j \in P
      BY <1>6
    <2>2. /\ net(t)[j] = (IF t[j] = NoHedge THEN 0 ELSE t[j].alloc)
          /\ net(u)[j] = (IF u[j] = NoHedge THEN 0 ELSE u[j].alloc)
      BY <2>1
    <2>. HIDE DEF net, P
    <2>3. Sum(net(t)) \in Int /\ Sum(net(u)) \in Int
          /\ Sum(net(u)) = Sum(net(t)) + (net(u)[j] - net(t)[j])
      BY <1>2, <1>3, <1>5, <2>1, SumChange
    <2>. QED  BY <1>4, <1>6, <2>2, <2>3
  <1>7. CASE j \notin S
    <2>1. net(t) = net(u)
      BY <1>7
    <2>. HIDE DEF net, P
    <2>2. Sum(net(t)) \in Int
      <3>1. PICK g : PartialSums(g, net(t)) /\ Sum(net(t)) = g[P]
        BY <1>2, <1>5, SumIs
      <3>. QED  BY <1>2, <3>1 DEF PartialSums
    <2>. QED  BY <1>4, <1>7, <2>1, <2>2
  <1>. QED  BY <1>6, <1>7

-----------------------------------------------------------------------------
(* The matching loop.                                                      *)

(* Order b is order a after part of it was matched. *)
Less(a, b) ==
    /\ b.uts = a.uts /\ b.src = a.src /\ b.fill = a.fill
    /\ b.hts = a.hts /\ b.fts = a.fts /\ b.n = a.n
    /\ b.rem =< a.rem /\ Balanced(b)

(* What an event of order i moved in the table below t. *)
Moved(i, field, t, held, rest, held2, rest2) ==
    /\ rest2 \in Nat /\ rest2 =< rest
    /\ held2 \in OrderTable
    /\ \A j \in Margin :
         /\ held[j] = NoOrder => held2[j] = NoOrder
         /\ held[j] # NoOrder => held2[j] # NoOrder /\ Less(held[j], held2[j])
         /\ ~Opposite(i, j) => held2[j] = held[j]
    /\ \A S \in Sides :
         /\ NetOf(Overlay(t, held2), S) = NetOf(Overlay(t, held), S)
              + (IF field = "net" /\ i \notin S THEN rest - rest2 ELSE 0)
         /\ CamOf(Overlay(t, held2), S) = CamOf(Overlay(t, held), S)
              + (IF field = "cam" /\ i \notin S THEN rest - rest2 ELSE 0)

AllBalanced(held) == \A j \in Margin : held[j] # NoOrder => Balanced(held[j])

LEMMA OverlayType ==
    \A t, u \in OrderTable : Overlay(t, u) \in OrderTable
  BY DEF OrderTable, Overlay

LEMMA SumsAreNumbers ==
    \A t \in OrderTable : \A S : NetOf(t, S) \in Int /\ CamOf(t, S) \in Int
  <1>. SUFFICES ASSUME NEW t \in OrderTable, NEW S
       PROVE  NetOf(t, S) \in Int /\ CamOf(t, S) \in Int
    OBVIOUS
  <1>1. CASE Margin = {}
    <2>1. Margin \cap S = {}
      BY <1>1
    <2>. DEFINE f == [i \in Margin \cap S |-> IF t[i] = NoOrder THEN 0 ELSE t[i].net]
                g == [i \in Margin \cap S |-> IF t[i] = NoOrder THEN 0 ELSE t[i].cam]
    <2>2. f \in [Margin \cap S -> Int] /\ g \in [Margin \cap S -> Int]
          /\ (\A x \in Margin \cap S : f[x] = 0) /\ (\A x \in Margin \cap S : g[x] = 0)
      BY <2>1
    <2>3. NetOf(t, S) = Sum(f) /\ CamOf(t, S) = Sum(g)
      BY DEF NetOf, CamOf
    <2>. HIDE DEF f, g
    <2>4. Sum(f) = 0 /\ Sum(g) = 0
      BY <2>2, FiniteParts, SumOfNothing
    <2>. QED  BY <2>3, <2>4
  <1>2. CASE Margin # {}
    BY <1>2, RowChanges
  <1>. QED  BY <1>1, <1>2

LEMMA NothingMoved ==
    ASSUME NEW i, NEW field, NEW t \in OrderTable, NEW held \in OrderTable,
           AllBalanced(held), NEW rest \in Nat
    PROVE  Moved(i, field, t, held, rest, held, rest)
  <1>1. \A S : /\ NetOf(Overlay(t, held), S) \in Int
               /\ CamOf(Overlay(t, held), S) \in Int
    BY OverlayType, SumsAreNumbers
  <1>2. \A j \in Margin : held[j] # NoOrder => Less(held[j], held[j])
    <2>1. \A o \in Order : o.rem =< o.rem
      BY DEF Order
    <2>. QED  BY <2>1 DEF Less, AllBalanced, OrderTable
  <1>3. rest - rest = 0 /\ rest =< rest
    OBVIOUS
  <1>. QED  BY <1>1, <1>2, <1>3 DEF Moved

LEMMA MovedOn ==
    ASSUME NEW i, NEW field, NEW t \in OrderTable, NEW held \in OrderTable,
           NEW rest \in Nat, NEW held2, NEW rest2, NEW held3, NEW rest3,
           Moved(i, field, t, held, rest, held2, rest2),
           Moved(i, field, t, held2, rest2, held3, rest3)
    PROVE  Moved(i, field, t, held, rest, held3, rest3)
  <1>1. rest3 \in Nat /\ rest3 =< rest /\ rest2 \in Nat /\ held3 \in OrderTable
        /\ held2 \in OrderTable
    BY DEF Moved
  <1>2. ASSUME NEW j \in Margin
        PROVE  /\ held[j] = NoOrder => held3[j] = NoOrder
               /\ held[j] # NoOrder => held3[j] # NoOrder /\ Less(held[j], held3[j])
               /\ ~Opposite(i, j) => held3[j] = held[j]
    <2>1. held[j] = NoOrder => held3[j] = NoOrder
      BY DEF Moved
    <2>2. ~Opposite(i, j) => held3[j] = held[j]
      BY DEF Moved
    <2>3. ASSUME held[j] # NoOrder
          PROVE  held3[j] # NoOrder /\ Less(held[j], held3[j])
      <3>1. held2[j] # NoOrder /\ held3[j] # NoOrder
            /\ Less(held[j], held2[j]) /\ Less(held2[j], held3[j])
        BY <2>3 DEF Moved
      <3>2. held[j] \in Order /\ held2[j] \in Order /\ held3[j] \in Order
        BY <1>1, <2>3, <3>1 DEF OrderTable
      <3>3. held[j].rem \in Nat /\ held2[j].rem \in Nat /\ held3[j].rem \in Nat
        BY <3>2 DEF Order
      <3>. QED  BY <3>1, <3>3 DEF Less
    <2>. QED  BY <2>1, <2>2, <2>3
  <1>3. ASSUME NEW S \in Sides
        PROVE
         /\ NetOf(Overlay(t, held3), S) = NetOf(Overlay(t, held), S)
              + (IF field = "net" /\ i \notin S THEN rest - rest3 ELSE 0)
         /\ CamOf(Overlay(t, held3), S) = CamOf(Overlay(t, held), S)
              + (IF field = "cam" /\ i \notin S THEN rest - rest3 ELSE 0)
    <2>1. /\ NetOf(Overlay(t, held), S) \in Int /\ NetOf(Overlay(t, held2), S) \in Int
          /\ CamOf(Overlay(t, held), S) \in Int /\ CamOf(Overlay(t, held2), S) \in Int
      BY <1>1, OverlayType, SumsAreNumbers
    <2>2. /\ NetOf(Overlay(t, held2), S) = NetOf(Overlay(t, held), S)
              + (IF field = "net" /\ i \notin S THEN rest - rest2 ELSE 0)
          /\ NetOf(Overlay(t, held3), S) = NetOf(Overlay(t, held2), S)
              + (IF field = "net" /\ i \notin S THEN rest2 - rest3 ELSE 0)
      BY DEF Moved
    <2>3. /\ CamOf(Overlay(t, held2), S) = CamOf(Overlay(t, held), S)
              + (IF field = "cam" /\ i \notin S THEN rest - rest2 ELSE 0)
          /\ CamOf(Overlay(t, held3), S) = CamOf(Overlay(t, held2), S)
              + (IF field = "cam" /\ i \notin S THEN rest2 - rest3 ELSE 0)
      BY DEF Moved
    <2>. QED  BY <1>1, <2>1, <2>2, <2>3
  <1>. QED  BY <1>1, <1>2, <1>3 DEF Moved

LEMMA TakenIs ==
    ASSUME NEW o \in Order, Balanced(o), NEW q \in Nat, q =< o.rem,
           NEW field \in {"net", "cam"}
    PROVE  LET p == Taken(o, q, field)
           IN  /\ p \in Order /\ Less(o, p) /\ p.rem = o.rem - q
               /\ p.net = o.net + (IF field = "net" THEN q ELSE 0)
               /\ p.cam = o.cam + (IF field = "cam" THEN q ELSE 0)
  <1>0. /\ o.rem \in Nat /\ o.net \in Nat /\ o.cam \in Nat /\ o.fill \in Nat
        /\ o.fill = o.rem + o.cam + o.net /\ o.rem - q \in Nat
    BY DEF Order, Balanced
  <1>1. CASE field = "net"
    <2>. DEFINE r == [o EXCEPT !.rem = o.rem - q, !.net = o.net + q]
    <2>1. Taken(o, q, field) = r
      BY <1>1 DEF Taken, Order
    <2>2. o.rem - q \in Nat /\ o.net + q \in Nat
      BY <1>0
    <2>3. r \in Order
      BY <2>2 DEF Order
    <2>4. r.rem = o.rem - q /\ r.net = o.net + q /\ r.cam = o.cam
      BY DEF Order
    <2>5. r.uts = o.uts /\ r.src = o.src /\ r.fill = o.fill
      BY DEF Order
    <2>6. r.hts = o.hts /\ r.fts = o.fts /\ r.n = o.n
      BY DEF Order
    <2>. HIDE DEF r
    <2>7. Less(o, r)
      <3>1. r.rem =< o.rem
        BY <1>0, <2>4
      <3>2. Balanced(r)
        BY <1>0, <2>4, <2>5 DEF Balanced
      <3>. QED  BY <2>5, <2>6, <3>1, <3>2 DEF Less
    <2>8. /\ r.net = o.net + (IF field = "net" THEN q ELSE 0)
          /\ r.cam = o.cam + (IF field = "cam" THEN q ELSE 0)
      BY <1>0, <1>1, <2>4
    <2>. QED  BY <2>1, <2>3, <2>4, <2>7, <2>8
  <1>2. CASE field = "cam"
    <2>. DEFINE r == [o EXCEPT !.rem = o.rem - q, !.cam = o.cam + q]
    <2>1. Taken(o, q, field) = r
      BY <1>2 DEF Taken, Order
    <2>2. o.rem - q \in Nat /\ o.cam + q \in Nat
      BY <1>0
    <2>3. r \in Order
      BY <2>2 DEF Order
    <2>4. r.rem = o.rem - q /\ r.cam = o.cam + q /\ r.net = o.net
      BY DEF Order
    <2>5. r.uts = o.uts /\ r.src = o.src /\ r.fill = o.fill
      BY DEF Order
    <2>6. r.hts = o.hts /\ r.fts = o.fts /\ r.n = o.n
      BY DEF Order
    <2>. HIDE DEF r
    <2>7. Less(o, r)
      <3>1. r.rem =< o.rem
        BY <1>0, <2>4
      <3>2. Balanced(r)
        BY <1>0, <2>4, <2>5 DEF Balanced
      <3>. QED  BY <2>5, <2>6, <3>1, <3>2 DEF Less
    <2>8. /\ r.net = o.net + (IF field = "net" THEN q ELSE 0)
          /\ r.cam = o.cam + (IF field = "cam" THEN q ELSE 0)
      BY <1>0, <1>2, <2>4
    <2>. QED  BY <2>1, <2>3, <2>4, <2>7, <2>8
  <1>. QED  BY <1>1, <1>2

(* One turn of the loop. *)
LEMMA ConsumeMoves ==
    ASSUME NEW i \in Orders, NEW field \in {"net", "cam"}, NEW t \in OrderTable,
           NEW held \in OrderTable, AllBalanced(held), NEW rest \in Nat,
           NEW j \in Margin, held[j] # NoOrder, NEW acc,
           acc = Consume([rest |-> rest, held |-> held], i, j, field)
    PROVE  /\ acc = [rest |-> acc.rest, held |-> acc.held]
           /\ Moved(i, field, t, held, rest, acc.held, acc.rest)
           /\ Opposite(i, j) /\ acc.rest > 0 => acc.held[j].rem = 0
  <1>1. CASE ~Opposite(i, j)
    BY <1>1, NothingMoved DEF Consume
  <1>2. CASE Opposite(i, j)
    <2>. DEFINE o == held[j]
                q == MinOf(rest, o.rem)
                p == Taken(o, q, field)
                held2 == [held EXCEPT ![j] = p]
                rest2 == rest - q
    <2>1. Consume([rest |-> rest, held |-> held], i, j, field)
            = [rest |-> rest2, held |-> held2]
      BY <1>2 DEF Consume
    <2>2. o \in Order /\ Balanced(o) /\ o.rem \in Nat
      BY DEF OrderTable, AllBalanced, Order
    <2>. HIDE DEF o
    <2>3. q \in Nat /\ q =< o.rem /\ q =< rest /\ (rest - q = 0 \/ o.rem - q = 0)
      BY <2>2 DEF MinOf
    <2>. HIDE DEF q
    <2>4. /\ p \in Order /\ Less(o, p) /\ p.rem = o.rem - q
          /\ p.net = o.net + (IF field = "net" THEN q ELSE 0)
          /\ p.cam = o.cam + (IF field = "cam" THEN q ELSE 0)
      BY <2>2, <2>3, TakenIs
    <2>. HIDE DEF p
    <2>5. rest2 \in Nat /\ rest2 =< rest /\ rest - rest2 = q
      BY <2>3
    <2>. HIDE DEF rest2
    <2>6. held2 \in OrderTable /\ held2[j] = p
          /\ \A k \in Margin : k # j => held2[k] = held[k]
      BY <2>4 DEF OrderTable
    <2>. HIDE DEF held2
    <2>7. ASSUME NEW k \in Margin
          PROVE  /\ held[k] = NoOrder => held2[k] = NoOrder
                 /\ held[k] # NoOrder => held2[k] # NoOrder /\ Less(held[k], held2[k])
                 /\ ~Opposite(i, k) => held2[k] = held[k]
      <3>1. CASE k = j
        BY <1>2, <2>4, <2>6, <3>1, RowsAreReal DEF o
      <3>2. CASE k # j
        <4>1. held2[k] = held[k]
          BY <2>6, <3>2
        <4>2. held[k] # NoOrder => Less(held[k], held[k])
          <5>1. \A a \in Order : a.rem =< a.rem
            BY DEF Order
          <5>. QED  BY <5>1 DEF Less, AllBalanced, OrderTable
        <4>. QED  BY <4>1, <4>2
      <3>. QED  BY <3>1, <3>2
    <2>8. ASSUME NEW S \in Sides
          PROVE
            /\ NetOf(Overlay(t, held2), S) = NetOf(Overlay(t, held), S)
                 + (IF field = "net" /\ i \notin S THEN rest - rest2 ELSE 0)
            /\ CamOf(Overlay(t, held2), S) = CamOf(Overlay(t, held), S)
                 + (IF field = "cam" /\ i \notin S THEN rest - rest2 ELSE 0)
      <3>. DEFINE a == Overlay(t, held)
                  b == Overlay(t, held2)
      <3>1. a \in OrderTable /\ b \in OrderTable
        BY <2>6, OverlayType
      <3>2. a[j] = o /\ b[j] = p /\ a[j] # NoOrder /\ b[j] # NoOrder
        BY <2>2, <2>4, <2>6, RowsAreReal DEF Overlay, o
      <3>3. \A k \in Margin : k # j => b[k] = a[k]
        BY <2>6 DEF Overlay
      <3>. HIDE DEF a, b
      <3>4. /\ NetOf(a, S) \in Int /\ CamOf(a, S) \in Int
            /\ NetOf(b, S) = NetOf(a, S) + (IF j \notin S THEN 0 ELSE p.net - o.net)
            /\ CamOf(b, S) = CamOf(a, S) + (IF j \notin S THEN 0 ELSE p.cam - o.cam)
        BY <3>1, <3>2, <3>3, RowChanges
      <3>5. o.net \in Nat /\ o.cam \in Nat
        BY <2>2 DEF Order
      <3>6. j \in S <=> i \notin S
        <4>1. j \in Orders
          BY OrdersAssumption
        <4>. QED  BY <1>2, <4>1 DEF Sides, Opposite
      <3>. QED  BY <2>3, <2>4, <2>5, <3>4, <3>5, <3>6 DEF a, b
    <2>9. Moved(i, field, t, held, rest, held2, rest2)
      BY <2>5, <2>6, <2>7, <2>8 DEF Moved
    <2>10. rest2 > 0 => held2[j].rem = 0
      BY <2>3, <2>4, <2>6 DEF rest2
    <2>. QED  BY <2>1, <2>9, <2>10
  <1>. QED  BY <1>1, <1>2

LEMMA WalkMoves ==
    ASSUME NEW queue \in Seq(Margin), NEW held \in OrderTable, AllBalanced(held),
           \A k \in DOMAIN queue : held[queue[k]] # NoOrder,
           NEW i \in Orders, NEW quantity \in Nat, NEW field \in {"net", "cam"},
           NEW t \in OrderTable
    PROVE  LET walk == Walk(queue, held, i, quantity, field)
           IN  /\ Moved(i, field, t, held, quantity, walk.held, walk.rest)
               /\ walk.rest > 0 =>
                    \A k \in DOMAIN queue : Opposite(i, queue[k]) =>
                                              walk.held[queue[k]].rem = 0
  <1>. DEFINE
     E(u, n) == u = [k \in 0..n |->
                  IF k = 0 THEN [rest |-> quantity, held |-> held]
                  ELSE Consume(u[k - 1], i, queue[k], field)]
     N == {n \in Nat : \E u : E(u, n)}
  <1>1. 0 \in N
    <2>. DEFINE u == [k \in 0..0 |-> [rest |-> quantity, held |-> held]]
    <2>1. E(u, 0)
      OBVIOUS
    <2>. QED  BY <2>1
  <1>2. ASSUME NEW n \in Nat, n \in N
        PROVE  n + 1 \in N
    <2>1. PICK u : E(u, n)
      BY <1>2
    <2>. DEFINE last == Consume(u[n], i, queue[n + 1], field)
                w == [k \in 0..(n + 1) |-> IF k = n + 1 THEN last ELSE u[k]]
    <2>2. ASSUME NEW k \in 0..(n + 1)
          PROVE  w[k] = IF k = 0 THEN [rest |-> quantity, held |-> held]
                  ELSE Consume(w[k - 1], i, queue[k], field)
      <3>1. CASE k = n + 1
        <4>1. w[k] = last /\ w[k - 1] = u[n] /\ k # 0
          BY <3>1
        <4>. HIDE DEF w
        <4>. QED  BY <3>1, <4>1
      <3>2. CASE k # n + 1
        <4>1. k \in 0..n /\ w[k] = u[k] /\ (k # 0 => w[k - 1] = u[k - 1])
          BY <3>2
        <4>2. u[k] = IF k = 0 THEN [rest |-> quantity, held |-> held]
                  ELSE Consume(u[k - 1], i, queue[k], field)
          BY <2>1, <4>1
        <4>. HIDE DEF w
        <4>. QED  BY <4>1, <4>2
      <3>. QED  BY <3>1, <3>2
    <2>3. w = [k \in 0..(n + 1) |-> w[k]]
      OBVIOUS
    <2>. HIDE DEF w
    <2>4. E(w, n + 1)
      BY <2>2, <2>3
    <2>5. \E v : E(v, n + 1)
      BY <2>4, Zenon
    <2>6. n + 1 \in Nat
      OBVIOUS
    <2>. QED  BY <2>5, <2>6, Zenon
  <1>. HIDE DEF N
  <1>3. Len(queue) \in N /\ Len(queue) \in Nat
    BY <1>1, <1>2, SetInduction
  <1>4. \E u : E(u, Len(queue))
    BY <1>3 DEF N
  <1>. DEFINE u == CHOOSE u : E(u, Len(queue))
  <1>5. E(u, Len(queue))
    BY <1>4, Zenon
  <1>6. Walk(queue, held, i, quantity, field) = u[Len(queue)]
    BY Zenon DEF Walk
  <1>. HIDE DEF u
  <1>7. \A k \in 0..Len(queue) :
          u[k] = IF k = 0 THEN [rest |-> quantity, held |-> held]
                 ELSE Consume(u[k - 1], i, queue[k], field)
    BY <1>5, Zenon
  <1>. DEFINE
     Done(n) == /\ u[n] = [rest |-> u[n].rest, held |-> u[n].held]
                /\ Moved(i, field, t, held, quantity, u[n].held, u[n].rest)
                /\ u[n].rest > 0 => \A k \in 1..n :
                     Opposite(i, queue[k]) => u[n].held[queue[k]].rem = 0
     M == {n \in Nat : n =< Len(queue) => Done(n)}
  <1>8. 0 \in M
    <2>1. u[0] = [rest |-> quantity, held |-> held]
      BY <1>3, <1>7
    <2>2. Moved(i, field, t, held, quantity, held, quantity)
      BY NothingMoved
    <2>. QED  BY <2>1, <2>2
  <1>9. ASSUME NEW n \in Nat, n \in M
        PROVE  n + 1 \in M
    <2>. SUFFICES ASSUME n + 1 =< Len(queue)
         PROVE  Done(n + 1)
      OBVIOUS
    <2>. DEFINE acc == u[n]
                next == u[n + 1]
                j == queue[n + 1]
    <2>1. Done(n) /\ n + 1 \in 1..Len(queue) /\ n + 1 \in 0..Len(queue)
          /\ n + 1 # 0 /\ (n + 1) - 1 = n
      BY <1>3, <1>9
    <2>2. next = Consume(acc, i, j, field)
      BY <1>7, <2>1
    <2>3. j \in Margin /\ held[j] # NoOrder
      BY <2>1
    <2>4. /\ acc = [rest |-> acc.rest, held |-> acc.held]
          /\ Moved(i, field, t, held, quantity, acc.held, acc.rest)
          /\ acc.rest > 0 => \A k \in 1..n :
               Opposite(i, queue[k]) => acc.held[queue[k]].rem = 0
      BY <2>1
    <2>. HIDE DEF acc, next, j, M
    <2>5. acc.rest \in Nat /\ acc.held \in OrderTable /\ acc.held[j] # NoOrder
          /\ AllBalanced(acc.held)
      BY <2>3, <2>4 DEF Moved, Less, AllBalanced
    <2>6. /\ next = [rest |-> next.rest, held |-> next.held]
          /\ Moved(i, field, t, acc.held, acc.rest, next.held, next.rest)
          /\ Opposite(i, j) /\ next.rest > 0 => next.held[j].rem = 0
      <3>1. next = Consume([rest |-> acc.rest, held |-> acc.held], i, j, field)
        BY <2>2, <2>4
      <3>. QED  BY <2>3, <2>5, <3>1, ConsumeMoves
    <2>7. Moved(i, field, t, held, quantity, next.held, next.rest)
      BY <2>4, <2>6, MovedOn
    <2>8. ASSUME next.rest > 0, NEW k \in 1..(n + 1), Opposite(i, queue[k])
          PROVE  next.held[queue[k]].rem = 0
      <3>1. CASE k = n + 1
        BY <2>6, <2>8, <3>1 DEF j
      <3>2. CASE k # n + 1
        <4>1. k \in 1..n /\ k \in DOMAIN queue /\ queue[k] \in Margin
              /\ held[queue[k]] # NoOrder
          BY <2>1, <3>2
        <4>2. acc.rest > 0
          BY <2>5, <2>6, <2>8 DEF Moved
        <4>3. acc.held[queue[k]].rem = 0
          BY <2>4, <2>8, <4>1, <4>2
        <4>4. acc.held[queue[k]] # NoOrder
          BY <2>4, <4>1 DEF Moved
        <4>5. next.held[queue[k]].rem =< 0 /\ next.held[queue[k]] # NoOrder
              /\ next.held \in OrderTable
          BY <2>6, <4>1, <4>3, <4>4 DEF Moved, Less
        <4>6. next.held[queue[k]] \in Order
          BY <4>1, <4>5 DEF OrderTable
        <4>7. next.held[queue[k]].rem \in Nat
          BY <4>6 DEF Order
        <4>. QED  BY <4>5, <4>7
      <3>. QED  BY <3>1, <3>2
    <2>. QED  BY <2>6, <2>7, <2>8 DEF next
  <1>. HIDE DEF M
  <1>10. Len(queue) \in M
    BY <1>3, <1>8, <1>9, SetInduction
  <1>11. Done(Len(queue))
    <2>. HIDE DEF Done
    <2>1. Len(queue) =< Len(queue)
      BY <1>3
    <2>. QED  BY <1>10, <2>1, Zenon DEF M
  <1>12. DOMAIN queue = 1..Len(queue)
    OBVIOUS
  <1>. QED  BY <1>6, <1>11, <1>12

LEMMA StillPendingIs ==
    ASSUME NEW queue \in Seq(Margin), NEW held
    PROVE  /\ StillPending(queue, held) \in Seq(Margin)
           /\ Range(StillPending(queue, held))
                = {j \in Range(queue) : held[j].rem > 0}
  <1>. DEFINE
     E(u, n) == u = [k \in 0..n |->
                  IF k = 0 THEN <<>>
                  ELSE IF held[queue[k]].rem > 0 THEN Append(u[k - 1], queue[k])
                       ELSE u[k - 1]]
     N == {n \in Nat : \E u : E(u, n)}
  <1>1. 0 \in N
    <2>. DEFINE u == [k \in 0..0 |-> <<>>]
    <2>1. E(u, 0)
      OBVIOUS
    <2>. QED  BY <2>1
  <1>2. ASSUME NEW n \in Nat, n \in N
        PROVE  n + 1 \in N
    <2>1. PICK u : E(u, n)
      BY <1>2
    <2>. DEFINE last == IF held[queue[n + 1]].rem > 0 THEN Append(u[n], queue[n + 1])
                        ELSE u[n]
                w == [k \in 0..(n + 1) |-> IF k = n + 1 THEN last ELSE u[k]]
    <2>2. ASSUME NEW k \in 0..(n + 1)
          PROVE  w[k] = IF k = 0 THEN <<>>
                  ELSE IF held[queue[k]].rem > 0 THEN Append(w[k - 1], queue[k])
                       ELSE w[k - 1]
      <3>1. CASE k = n + 1
        <4>1. w[k] = last /\ w[k - 1] = u[n] /\ k # 0
          BY <3>1
        <4>. HIDE DEF w
        <4>. QED  BY <3>1, <4>1
      <3>2. CASE k # n + 1
        <4>1. k \in 0..n /\ w[k] = u[k] /\ (k # 0 => w[k - 1] = u[k - 1])
          BY <3>2
        <4>2. u[k] = IF k = 0 THEN <<>>
                  ELSE IF held[queue[k]].rem > 0 THEN Append(u[k - 1], queue[k])
                       ELSE u[k - 1]
          BY <2>1, <4>1
        <4>. HIDE DEF w
        <4>. QED  BY <4>1, <4>2
      <3>. QED  BY <3>1, <3>2
    <2>3. w = [k \in 0..(n + 1) |-> w[k]]
      OBVIOUS
    <2>. HIDE DEF w
    <2>4. E(w, n + 1)
      BY <2>2, <2>3
    <2>5. \E v : E(v, n + 1)
      BY <2>4, Zenon
    <2>6. n + 1 \in Nat
      OBVIOUS
    <2>. QED  BY <2>5, <2>6, Zenon
  <1>. HIDE DEF N
  <1>3. Len(queue) \in N /\ Len(queue) \in Nat
    BY <1>1, <1>2, SetInduction
  <1>4. \E u : E(u, Len(queue))
    BY <1>3 DEF N
  <1>. DEFINE u == CHOOSE u : E(u, Len(queue))
  <1>5. E(u, Len(queue))
    BY <1>4, Zenon
  <1>6. StillPending(queue, held) = u[Len(queue)]
    BY Zenon DEF StillPending
  <1>. HIDE DEF u
  <1>7. \A k \in 0..Len(queue) :
          u[k] = IF k = 0 THEN <<>>
                 ELSE IF held[queue[k]].rem > 0 THEN Append(u[k - 1], queue[k])
                      ELSE u[k - 1]
    BY <1>5, Zenon
  <1>. DEFINE
     Done(n) == /\ u[n] \in Seq(Margin)
                /\ \A j : (\E k \in 1..Len(u[n]) : u[n][k] = j)
                           <=> (held[j].rem > 0 /\ \E k \in 1..n : queue[k] = j)
     M == {n \in Nat : n =< Len(queue) => Done(n)}
  <1>8. 0 \in M
    <2>1. u[0] = <<>>
      BY <1>3, <1>7
    <2>2. u[0] \in Seq(Margin) /\ 1..Len(u[0]) = {} /\ 1..0 = {}
      BY <2>1
    <2>3. Done(0)
      BY <2>2
    <2>. QED  BY <2>3, Zenon
  <1>9. ASSUME NEW n \in Nat, n \in M
        PROVE  n + 1 \in M
    <2>. SUFFICES ASSUME n + 1 =< Len(queue)
         PROVE  Done(n + 1)
      OBVIOUS
    <2>1. Done(n) /\ n + 1 \in 1..Len(queue) /\ n + 1 \in 0..Len(queue)
          /\ n + 1 # 0 /\ (n + 1) - 1 = n
      <3>1. n =< Len(queue) /\ n + 1 \in 1..Len(queue) /\ n + 1 \in 0..Len(queue)
            /\ n + 1 # 0 /\ (n + 1) - 1 = n
        BY <1>3
      <3>2. Done(n)
        BY <1>9, <3>1, Zenon
      <3>. QED  BY <3>1, <3>2
    <2>. DEFINE x == queue[n + 1]
                old == u[n]
                new == u[n + 1]
    <2>2. new = IF held[x].rem > 0 THEN Append(old, x) ELSE old
      BY <1>7, <2>1
    <2>3. x \in Margin /\ old \in Seq(Margin)
      BY <2>1
    <2>4. \A j : (\E k \in 1..(n + 1) : queue[k] = j)
                  <=> (j = x \/ \E k \in 1..n : queue[k] = j)
      <3>1. \A k \in 1..(n + 1) : k = n + 1 \/ k \in 1..n
        OBVIOUS
      <3>2. n + 1 \in 1..(n + 1) /\ \A k \in 1..n : k \in 1..(n + 1)
        OBVIOUS
      <3>. QED  BY <3>1, <3>2
    <2>5. \A j : (\E k \in 1..Len(old) : old[k] = j)
                  <=> (held[j].rem > 0 /\ \E k \in 1..n : queue[k] = j)
      BY <2>1
    <2>. HIDE DEF x, old, new, M
    <2>6. CASE held[x].rem > 0
      <3>1. new = Append(old, x)
        BY <2>2, <2>6
      <3>2. new \in Seq(Margin) /\ Len(new) = Len(old) + 1 /\ new[Len(old) + 1] = x
            /\ (\A k \in 1..Len(old) : new[k] = old[k]) /\ Len(old) \in Nat
        BY <2>3, <3>1
      <3>3. \A j : (\E k \in 1..Len(new) : new[k] = j)
                  <=> (j = x \/ \E k \in 1..Len(old) : old[k] = j)
        <4>1. \A k \in 1..Len(new) : k = Len(old) + 1 \/ k \in 1..Len(old)
          BY <3>2
        <4>2. Len(old) + 1 \in 1..Len(new) /\ \A k \in 1..Len(old) : k \in 1..Len(new)
          BY <3>2
        <4>. QED  BY <3>2, <4>1, <4>2
      <3>. QED  BY <2>4, <2>5, <2>6, <3>2, <3>3 DEF new
    <2>7. CASE ~(held[x].rem > 0)
      <3>1. new = old
        BY <2>2, <2>7
      <3>. QED  BY <2>3, <2>4, <2>5, <2>7, <3>1 DEF new
    <2>. QED  BY <2>6, <2>7
  <1>. HIDE DEF M
  <1>10. Len(queue) \in M
    BY <1>3, <1>8, <1>9, SetInduction
  <1>11. Done(Len(queue))
    <2>. HIDE DEF Done
    <2>1. Len(queue) =< Len(queue)
      BY <1>3
    <2>. QED  BY <1>10, <2>1, Zenon DEF M
  <1>. DEFINE s == StillPending(queue, held)
  <1>12. s \in Seq(Margin) /\ \A j : (\E k \in 1..Len(s) : s[k] = j)
             <=> (held[j].rem > 0 /\ \E k \in 1..Len(queue) : queue[k] = j)
    BY <1>6, <1>11
  <1>. HIDE DEF s
  <1>13. DOMAIN s = 1..Len(s) /\ DOMAIN queue = 1..Len(queue)
    BY <1>12
  <1>14. \A j : j \in Range(s) <=> \E k \in 1..Len(s) : s[k] = j
    BY <1>13 DEF Range
  <1>15. \A j : j \in Range(queue) <=> \E k \in 1..Len(queue) : queue[k] = j
    BY <1>13 DEF Range
  <1>16. \A j : j \in Range(s) <=> j \in {l \in Range(queue) : held[l].rem > 0}
    BY <1>12, <1>14, <1>15
  <1>. QED  BY <1>12, <1>16 DEF s

-----------------------------------------------------------------------------
(* What an order knows of its hedges.                                      *)

IsMin(m, S) == m \in S /\ \A y \in S : m =< y
IsMax(m, S) == m \in S /\ \A y \in S : y =< m

LEMMA MinIs ==
    ASSUME NEW S, S \subseteq Int, NEW m, IsMin(m, S)
    PROVE  Min(S) = m
  <1>1. \A x \in S : (\A y \in S : x =< y) => x = m
    BY DEF IsMin
  <1>2. Min(S) = CHOOSE x \in S : \A y \in S : x =< y
    BY DEF Min
  <1>. QED  BY <1>1, <1>2 DEF IsMin

LEMMA MaxIs ==
    ASSUME NEW S, S \subseteq Int, NEW m, IsMax(m, S)
    PROVE  Max(S) = m
  <1>1. \A x \in S : (\A y \in S : x >= y) => x = m
    BY DEF IsMax
  <1>2. Max(S) = CHOOSE x \in S : \A y \in S : x >= y
    BY DEF Max
  <1>3. \A y \in S : m >= y
    BY DEF IsMax
  <1>. QED  BY <1>1, <1>2, <1>3 DEF IsMax

LEMMA MinExists ==
    ASSUME NEW S, S \subseteq Time, S # {}
    PROVE  \E m : IsMin(m, S)
  <1>. DEFINE T == {x + 1 : x \in S}
  <1>1. T \subseteq Nat /\ T # {}
    <2>1. \A x \in S : x + 1 \in Nat
      BY DEF Time, Absent
    <2>. QED  BY <2>1
  <1>2. PICK y \in T : \A z \in T : y =< z
    BY <1>1, LeastOf
  <1>3. PICK m \in S : y = m + 1
    BY <1>2
  <1>4. \A x \in S : x + 1 \in T /\ x \in Int
    BY DEF Time, Absent
  <1>5. \A x \in S : m + 1 =< x + 1
    BY <1>2, <1>3, <1>4
  <1>6. \A x \in S : m =< x
    BY <1>4, <1>5
  <1>. QED  BY <1>6 DEF IsMin

LEMMA MaxExists ==
    ASSUME NEW S, S \subseteq Int, S # {}, IsFiniteSet(S)
    PROVE  \E m : IsMax(m, S)
  <1>. DEFINE key == [x \in S |-> <<x, 0, 0, 0>>]
  <1>1. \A x \in S : key[x] \in Int \X Int \X Int \X Int /\ key[x][1] = x
                     /\ key[x][2] = 0 /\ key[x][3] = 0 /\ key[x][4] = 0
    OBVIOUS
  <1>. HIDE DEF key
  <1>2. Keyed(S, key)
    BY <1>1 DEF Keyed
  <1>3. PICK m \in S : \A x \in S : x = m \/ Precedes(key[x], key[m])
    <2>1. S \in SUBSET S
      OBVIOUS
    <2>. QED  BY <1>2, <2>1, LastOne
  <1>4. \A x \in S : x = m \/ x < m
    BY <1>1, <1>3, PrecedesIs
  <1>. QED  BY <1>4 DEF IsMax

Known(H, i) == {h \in Futures : H[h] # NoHedge /\ Anchor[h] = i}

Knows(a, i, H) ==
    /\ a.n = Cardinality(Known(H, i))
    /\ IF Known(H, i) = {} THEN a.hts = Absent
       ELSE IsMin(a.hts, {H[h].create : h \in Known(H, i)})
    /\ IsMax(a.fts, {H[h].fts : h \in Known(H, i)} \cup {Absent})

LEMMA KnownIs ==
    ASSUME NEW H \in HedgeTable, NEW i
    PROVE  /\ IsFiniteSet(Known(H, i)) /\ Cardinality(Known(H, i)) \in Nat
           /\ \A h \in Known(H, i) : H[h].create \in Nat /\ H[h].fts \in Time
  <1>1. IsFiniteSet(Futures) /\ Known(H, i) \subseteq Futures
    BY FiniteParts DEF Known
  <1>2. ASSUME NEW h \in Known(H, i)
        PROVE  H[h].create \in Nat /\ H[h].fts \in Time
    <2>1. H[h] \in Hedge
      BY DEF HedgeTable, Known
    <2>. QED  BY <2>1 DEF Hedge
  <1>. QED  BY <1>1, <1>2, FS_Subset, FS_CardinalityType

(* A hedge of another order changes nothing. *)
LEMMA KnowsStill ==
    ASSUME NEW H, NEW G, NEW h \in Futures, NEW i, NEW a, Knows(a, i, H),
           Anchor[h] # i, \A g \in Futures : g # h => G[g] = H[g]
    PROVE  Knows(a, i, G)
  <1>1. Known(G, i) = Known(H, i)
    BY DEF Known
  <1>2. \A g \in Known(H, i) : G[g] = H[g]
    BY DEF Known
  <1>3. {G[g].create : g \in Known(G, i)} = {H[g].create : g \in Known(H, i)}
    BY <1>1, <1>2
  <1>4. {G[g].fts : g \in Known(G, i)} = {H[g].fts : g \in Known(H, i)}
    BY <1>1, <1>2
  <1>. QED  BY <1>1, <1>3, <1>4 DEF Knows

(* record_hedge_order keeps what is known of the order. *)
LEMMA KnowsMore ==
    ASSUME NEW H \in HedgeTable, NEW G \in HedgeTable, NEW h \in Futures,
           H[h] = NoHedge, G[h] \in Hedge,
           \A g \in Futures : g # h => G[g] = H[g],
           NEW a \in Timing, Knows(a, Anchor[h], H)
    PROVE  LET b == Recorded(a, G[h].create, G[h].fts)
           IN  b \in Timing /\ Knows(b, Anchor[h], G)
  <1>. DEFINE i == Anchor[h]
              K == Known(H, i)
              L == Known(G, i)
              create == G[h].create
              fts == G[h].fts
              b == Recorded(a, create, fts)
  <1>1. L = K \cup {h} /\ h \notin K
    BY RowsAreReal DEF Known
  <1>2. \A g \in K : G[g] = H[g]
    BY <1>1 DEF Known
  <1>3. create \in Nat /\ fts \in Time
    BY DEF Hedge
  <1>4. IsFiniteSet(K) /\ \A g \in K : H[g].create \in Nat /\ H[g].fts \in Time
    BY KnownIs
  <1>5. Cardinality(L) = Cardinality(K) + 1
    BY <1>1, <1>4, FS_AddElement
  <1>. DEFINE C == {H[g].create : g \in K}
              F == {H[g].fts : g \in K} \cup {Absent}
  <1>6. {G[g].create : g \in L} = C \cup {create}
    BY <1>1, <1>2
  <1>7. {G[g].fts : g \in L} \cup {Absent} = F \cup {fts}
    BY <1>1, <1>2
  <1>8. C \subseteq Nat /\ F \subseteq Time /\ (K = {} <=> C = {}) /\ L # {}
    BY <1>1, <1>4 DEF Time
  <1>9. a.n = Cardinality(K) /\ (IF K = {} THEN a.hts = Absent ELSE IsMin(a.hts, C))
        /\ IsMax(a.fts, F)
    BY DEF Knows
  <1>10. a.hts \in Time /\ a.fts \in Time /\ a.n \in Nat
    BY DEF Timing
  <1>. HIDE DEF C, F, K, L, create, fts, i
  <1>11. b.n = a.n + 1 /\ b.fts = MaxOf(a.fts, fts)
         /\ b.hts = (IF a.hts = Absent THEN create ELSE MinOf(a.hts, create))
    BY DEF Recorded
  <1>12. b \in Timing
    <2>1. b = [hts |-> b.hts, fts |-> b.fts, n |-> b.n]
      BY DEF Recorded
    <2>2. b.hts \in Time /\ b.fts \in Time /\ b.n \in Nat
      BY <1>3, <1>10, <1>11 DEF Time, Absent, MinOf, MaxOf
    <2>. HIDE DEF b
    <2>. QED  BY <2>1, <2>2 DEF Timing
  <1>. HIDE DEF b
  <1>13. IsMin(b.hts, C \cup {create})
    <2>1. CASE K = {}
      BY <1>3, <1>8, <1>9, <1>11, <2>1 DEF IsMin
    <2>2. CASE K # {}
      <3>1. a.hts \in C /\ (\A y \in C : a.hts =< y) /\ a.hts \in Nat /\ a.hts # Absent
        <4>1. IsMin(a.hts, C)
          BY <1>9, <2>2
        <4>2. a.hts \in C /\ a.hts \in Nat
          BY <1>8, <4>1 DEF IsMin
        <4>. QED  BY <4>1, <4>2 DEF IsMin, Absent
      <3>2. b.hts \in {a.hts, create} /\ b.hts =< a.hts /\ b.hts =< create
            /\ b.hts \in Nat
        BY <1>3, <1>11, <3>1 DEF MinOf
      <3>3. \A y \in C : b.hts =< y
        BY <1>8, <3>1, <3>2
      <3>. QED  BY <3>1, <3>2, <3>3 DEF IsMin
    <2>. QED  BY <2>1, <2>2
  <1>14. IsMax(b.fts, F \cup {fts})
    <2>1. a.fts \in F /\ \A y \in F : y =< a.fts
      BY <1>9 DEF IsMax
    <2>2. a.fts \in Int /\ fts \in Int /\ \A y \in F : y \in Int
      BY <1>3, <1>8, <1>10 DEF Time, Absent
    <2>3. b.fts \in {a.fts, fts} /\ a.fts =< b.fts /\ fts =< b.fts /\ b.fts \in Int
      BY <1>11, <2>2 DEF MaxOf
    <2>4. \A y \in F : y =< b.fts
      BY <2>1, <2>2, <2>3
    <2>. QED  BY <2>1, <2>3, <2>4 DEF IsMax
  <1>15. Knows(b, i, G)
    BY <1>5, <1>6, <1>7, <1>8, <1>9, <1>11, <1>13, <1>14 DEF Knows, L
  <1>. QED  BY <1>12, <1>15 DEF b, create, fts, i

(* load_hedge_history *)
LEMMA HistoryKnows ==
    ASSUME hedges \in HedgeTable, NEW i
    PROVE  HedgeHistory(i) \in Timing /\ Knows(HedgeHistory(i), i, hedges)
  <1>. DEFINE K == Known(hedges, i)
              C == {hedges[h].create : h \in K}
              F == {hedges[h].fts : h \in K}
              a == HedgeHistory(i)
  <1>1. HedgesOf(i) = K
    BY DEF HedgesOf, Known
  <1>2. IsFiniteSet(K) /\ Cardinality(K) \in Nat
        /\ \A h \in K : hedges[h].create \in Nat /\ hedges[h].fts \in Time
    BY KnownIs
  <1>3. C \subseteq Nat /\ F \subseteq Time /\ C \subseteq Int /\ F \subseteq Int
        /\ C \subseteq Time
    BY <1>2 DEF Time, Absent
  <1>4. CASE K = {}
    <2>1. a = [hts |-> Absent, fts |-> Absent, n |-> 0]
      BY <1>1, <1>4 DEF HedgeHistory, Unhedged
    <2>2. a \in Timing
      BY <2>1 DEF Timing, Time
    <2>3. F \cup {Absent} = {Absent} /\ Cardinality(K) = 0
      BY <1>4, FS_EmptySet
    <2>4. IsMax(Absent, {Absent})
      BY DEF IsMax, Absent
    <2>. HIDE DEF a
    <2>. QED  BY <1>4, <2>1, <2>2, <2>3, <2>4 DEF a, Knows
  <1>5. CASE K # {}
    <2>1. a = [hts |-> Min(C), fts |-> Max(F), n |-> Cardinality(K)]
      BY <1>1, <1>5 DEF HedgeHistory
    <2>2. PICK m : IsMin(m, C)
      BY <1>3, <1>5, MinExists
    <2>3. Min(C) = m
      BY <1>3, <2>2, MinIs
    <2>4. IsFiniteSet(F)
      <3>. DEFINE f == [h \in K |-> hedges[h].fts]
      <3>1. f \in Surjection(K, F)
        BY DEF Surjection
      <3>. HIDE DEF f, F, K
      <3>. QED  BY <1>2, <3>1, FS_Surjection
    <2>5. PICK x : IsMax(x, F)
      BY <1>3, <1>5, <2>4, MaxExists
    <2>6. Max(F) = x
      BY <1>3, <2>5, MaxIs
    <2>7. x \in Time /\ m \in Nat
      BY <1>3, <2>2, <2>5 DEF IsMin, IsMax
    <2>8. IsMax(x, F \cup {Absent})
      BY <2>5, <2>7 DEF IsMax, Time, Absent
    <2>9. a \in Timing
      BY <1>2, <2>1, <2>3, <2>6, <2>7 DEF Timing, Time
    <2>. HIDE DEF a, C, F, K
    <2>10. a.n = Cardinality(K) /\ a.hts = m /\ a.fts = x
      BY <2>1, <2>3, <2>6
    <2>. QED  BY <1>5, <2>2, <2>8, <2>9, <2>10 DEF Knows, a, C, F, K
  <1>. QED  BY <1>4, <1>5

-----------------------------------------------------------------------------
(* The engine.                                                             *)

Pending(t) == {i \in Margin : t[i] # NoOrder /\ t[i].rem > 0}

(* The tables between two runs. *)
TablesGood(t, H) ==
    /\ t \in OrderTable /\ H \in HedgeTable /\ AllBalanced(t)
    /\ NetOf(t, Buys) = NetOf(t, Orders \ Buys)
    /\ CamOf(t, Buys) = AllocOf(H, Orders \ Buys)
    /\ CamOf(t, Orders \ Buys) = AllocOf(H, Buys)
    /\ \A i, j \in Pending(t) : ~Opposite(i, j)
    /\ \A i \in Pending(t) : Knows(t[i], i, H)

(* The hedges of a table and those that the engine adds. *)
Joined(H, done) == [h \in Futures |-> IF H[h] = NoHedge THEN done[h] ELSE H[h]]

(* What a batch is made of: complete orders that were not released yet. *)
Batch(ready, life) ==
    /\ ready \subseteq Orders /\ life \in [Orders -> Lives]
    /\ \A i \in ready :
         /\ life[i] \in Life
         /\ i \in Margin => orders[i] = NoOrder
         /\ i \in Futures => hedges[i] = NoHedge /\ Created(i) \in Nat

Engine(life) ==
    [held : OrderTable, queue : Seq(Margin), about : [Margin -> Timing],
     done : HedgeTable, life : {life}, failed : {FALSE}]

(* The engine after the events D. *)
EngineInv(eng, D, ready, life) ==
    /\ eng \in Engine(life)
    /\ \A i \in Margin : eng.held[i] # NoOrder <=> i \in PendingOrders \cup D
    /\ AllBalanced(eng.held)
    /\ \A i \in Margin \cap D : eng.held[i].fill = life[i].fill
    /\ \A i \in PendingOrders :
         /\ eng.held[i].fill = orders[i].fill /\ eng.held[i].uts = orders[i].uts
         /\ eng.held[i].src = orders[i].src
    /\ \A h \in Futures : eng.done[h] # NoHedge <=> h \in D
    /\ \A h \in Futures \cap D : eng.done[h].amount = life[h].fill
    /\ Range(eng.queue) = Pending(eng.held)
    /\ \A i, j \in Pending(eng.held) : ~Opposite(i, j)
    /\ LET t == Overlay(orders, eng.held)
           H == Joined(hedges, eng.done)
       IN  /\ NetOf(t, Buys) = NetOf(t, Orders \ Buys)
           /\ CamOf(t, Buys) = AllocOf(H, Orders \ Buys)
           /\ CamOf(t, Orders \ Buys) = AllocOf(H, Buys)
           /\ \A i \in PendingOrders \cup (ready \cap Margin) :
                Knows(eng.about[i], i, H)
    /\ \A i \in Margin : eng.held[i] # NoOrder =>
         /\ eng.held[i].hts = eng.about[i].hts
         /\ eng.held[i].fts = eng.about[i].fts
         /\ eng.held[i].n = eng.about[i].n

LEMMA PendingIs == PendingOrders = Pending(orders)
  BY DEF PendingOrders, Pending

LEMMA JoinedType == \A H, G \in HedgeTable : Joined(H, G) \in HedgeTable
  BY DEF HedgeTable, Joined

(* Knows speaks of three fields. *)
LEMMA KnowsFields ==
    ASSUME NEW a, NEW b, NEW i, NEW H, Knows(a, i, H),
           b.hts = a.hts, b.fts = a.fts, b.n = a.n
    PROVE  Knows(b, i, H)
  BY DEF Knows

(* MatchEngine::new *)
LEMMA EngineStarts ==
    ASSUME TablesGood(orders, hedges), NEW ready, NEW life, Batch(ready, life)
    PROVE  EngineInv(Seeded(ready, life), {}, ready, life)
  <1>. DEFINE eng == Seeded(ready, life)
              key == [i \in PendingOrders |-> Key(i, orders[i].uts, orders[i].src)]
              held == [i \in Margin |-> IF i \in PendingOrders THEN orders[i] ELSE NoOrder]
              about == [i \in Margin |->
                 IF i \in PendingOrders
                 THEN [hts |-> orders[i].hts, fts |-> orders[i].fts,
                       n |-> orders[i].n]
                 ELSE IF i \in ready THEN HedgeHistory(i) ELSE Unhedged]
              done == [h \in Futures |-> NoHedge]
              queue == InOrder(PendingOrders, key)
  <1>1. eng = [held |-> held, queue |-> queue, about |-> about, done |-> done,
               life |-> life, failed |-> FALSE]
    BY DEF Seeded
  <1>2. orders \in OrderTable /\ hedges \in HedgeTable /\ AllBalanced(orders)
    BY DEF TablesGood
  <1>3. PendingOrders \subseteq Margin /\ IsFiniteSet(PendingOrders)
        /\ \A i \in PendingOrders : orders[i] \in Order /\ orders[i] # NoOrder
                                    /\ orders[i].rem > 0
    <2>1. PendingOrders \subseteq Margin
      BY DEF PendingOrders
    <2>2. IsFiniteSet(PendingOrders)
      BY <2>1, FiniteParts, FS_Subset
    <2>. QED  BY <1>2, <2>1, <2>2 DEF PendingOrders, OrderTable
  <1>4. Keyed(PendingOrders, key)
    <2>1. \A i \in PendingOrders : orders[i].uts \in Int /\ orders[i].src \in Int
      BY <1>3 DEF Order, Time, Absent
    <2>2. \A i \in PendingOrders : i \in Int
      BY <1>3, OrdersAssumption
    <2>3. \A i \in PendingOrders : key[i] \in Int \X Int \X Int \X Int /\ key[i][4] = i
      BY <2>1, <2>2 DEF Key
    <2>. HIDE DEF key
    <2>. QED  BY <2>3 DEF Keyed
  <1>5. queue \in Seq(PendingOrders) /\ Range(queue) = PendingOrders
    BY <1>3, <1>4, InOrderIs
  <1>. HIDE DEF key, queue
  <1>6. queue \in Seq(Margin)
    BY <1>3, <1>5
  <1>7. held \in OrderTable /\ Pending(held) = PendingOrders
        /\ \A i \in Margin : held[i] # NoOrder <=> i \in PendingOrders
    BY <1>2, <1>3 DEF OrderTable, Pending
  <1>8. \A i \in Margin : about[i] \in Timing
    <2>1. \A i \in PendingOrders :
            [hts |-> orders[i].hts, fts |-> orders[i].fts, n |-> orders[i].n] \in Timing
      BY <1>3 DEF Order, Timing
    <2>2. \A i : HedgeHistory(i) \in Timing
      BY <1>2, HistoryKnows
    <2>3. Unhedged \in Timing
      BY DEF Unhedged, Timing, Time
    <2>. QED  BY <2>1, <2>2, <2>3
  <1>9. done \in HedgeTable /\ \A h \in Futures : done[h] = NoHedge
    BY DEF HedgeTable
  <1>10. eng \in Engine(life)
    <2>1. about \in [Margin -> Timing]
      BY <1>8
    <2>. HIDE DEF held, about, done, eng
    <2>. QED  BY <1>1, <1>6, <1>7, <1>9, <2>1 DEF Engine
  <1>11. Overlay(orders, held) = orders
    BY <1>2 DEF Overlay, OrderTable
  <1>12. Joined(hedges, done) = hedges
    BY <1>2 DEF Joined, HedgeTable
  <1>13. ASSUME NEW i \in PendingOrders \cup (ready \cap Margin)
         PROVE  Knows(about[i], i, hedges)
    <2>1. CASE i \in PendingOrders
      <3>1. Knows(orders[i], i, hedges)
        BY <2>1, PendingIs DEF TablesGood
      <3>2. i \in Margin /\ about[i].hts = orders[i].hts /\ about[i].fts = orders[i].fts
            /\ about[i].n = orders[i].n
        BY <1>3, <2>1
      <3>. HIDE DEF about
      <3>. QED  BY <3>1, <3>2, KnowsFields
    <2>2. CASE i \notin PendingOrders
      <3>1. about[i] = HedgeHistory(i)
        BY <2>2
      <3>. QED  BY <1>2, <3>1, HistoryKnows
    <2>. QED  BY <2>1, <2>2
  <1>14. \A i \in Margin : held[i] # NoOrder =>
           /\ held[i].hts = about[i].hts /\ held[i].fts = about[i].fts
           /\ held[i].n = about[i].n
    BY <1>3
  <1>15. AllBalanced(held)
    BY <1>2 DEF AllBalanced
  <1>16. \A i \in PendingOrders : held[i] = orders[i]
    BY <1>3
  <1>17. /\ NetOf(orders, Buys) = NetOf(orders, Orders \ Buys)
         /\ CamOf(orders, Buys) = AllocOf(hedges, Orders \ Buys)
         /\ CamOf(orders, Orders \ Buys) = AllocOf(hedges, Buys)
         /\ \A i, j \in PendingOrders : ~Opposite(i, j)
    BY PendingIs DEF TablesGood
  <1>18. /\ eng.held = held /\ eng.queue = queue /\ eng.about = about
         /\ eng.done = done
    BY <1>1
  <1>. HIDE DEF eng, held, about, done
  <1>. QED
    BY <1>5, <1>7, <1>9, <1>10, <1>11, <1>12, <1>13, <1>14, <1>15, <1>16, <1>17,
       <1>18 DEF EngineInv, eng

-----------------------------------------------------------------------------
(* The steps of the engine.                                                *)

(* What the invariant says of the engine without its records. *)
LEMMA EngineTypes ==
    ASSUME NEW eng, NEW D, NEW ready, NEW life, EngineInv(eng, D, ready, life)
    PROVE  /\ eng.held \in OrderTable /\ eng.queue \in Seq(Margin)
           /\ eng.about \in [Margin -> Timing] /\ eng.done \in HedgeTable
           /\ eng.life = life /\ eng.failed = FALSE
           /\ AllBalanced(eng.held)
           /\ \A k \in DOMAIN eng.queue : eng.held[eng.queue[k]] # NoOrder
  <1>1. /\ eng.held \in OrderTable /\ eng.queue \in Seq(Margin)
        /\ eng.about \in [Margin -> Timing] /\ eng.done \in HedgeTable
        /\ eng.life = life /\ eng.failed = FALSE
    BY DEF EngineInv, Engine
  <1>2. AllBalanced(eng.held) /\ Range(eng.queue) = Pending(eng.held)
    BY DEF EngineInv
  <1>3. \A k \in DOMAIN eng.queue : eng.queue[k] \in Pending(eng.held)
    BY <1>2 DEF Range
  <1>. QED  BY <1>1, <1>2, <1>3 DEF Pending

(* apply_margin *)
LEMMA MarginStep ==
    ASSUME TablesGood(orders, hedges), NEW ready, NEW life, Batch(ready, life),
           NEW eng, NEW D, EngineInv(eng, D, ready, life),
           NEW i \in Margin, i \in Events(ready, life), i \notin D
    PROVE  EngineInv(ApplyMargin(eng, i), D \cup {i}, ready, life)
  <1>. DEFINE lf == life[i]
              held == eng.held
              about == eng.about
              w == Walk(eng.queue, held, i, lf.fill, "net")
              held1 == w.held
              rest == w.rest
              order == [uts |-> lf.lastFill, src |-> lf.last,
                  fill |-> lf.fill, rem |-> rest, cam |-> 0,
                  net |-> lf.fill - rest, hts |-> about[i].hts,
                  fts |-> about[i].fts, n |-> about[i].n]
              held2 == [held1 EXCEPT ![i] = order]
              queue == StillPending(Append(eng.queue, i), held2)
              new == [eng EXCEPT !.held = held2, !.queue = queue]
  <1>1. /\ held \in OrderTable /\ eng.queue \in Seq(Margin)
        /\ about \in [Margin -> Timing] /\ eng.done \in HedgeTable
        /\ eng.life = life /\ AllBalanced(held)
        /\ \A k \in DOMAIN eng.queue : held[eng.queue[k]] # NoOrder
    BY EngineTypes
  <1>2. /\ i \in Orders /\ i \in ready /\ orders[i] = NoOrder /\ lf \in Life
        /\ lf.fill > 0 /\ i \notin PendingOrders /\ held[i] = NoOrder
        /\ i \notin Futures /\ orders \in OrderTable
    <2>1. i \in ready /\ lf.fill > 0
      BY DEF Events, Futures
    <2>2. i \in Orders /\ orders[i] = NoOrder /\ lf \in Life
      BY <2>1, OrdersAssumption DEF Batch
    <2>3. i \notin PendingOrders /\ i \notin Futures
      BY <2>2 DEF PendingOrders, Futures
    <2>4. held[i] = NoOrder
      BY <2>3 DEF EngineInv
    <2>. QED  BY <2>1, <2>2, <2>3, <2>4 DEF TablesGood
  <1>3. lf.fill \in Nat /\ lf.fill # 0 /\ lf.lastFill \in Time /\ lf.last \in Nat
    BY <1>2 DEF Life
  <1>4. ApplyMargin(eng, i) = new
    BY <1>1, <1>2 DEF ApplyMargin
  <1>. HIDE DEF lf
  <1>5. /\ Moved(i, "net", orders, held, lf.fill, held1, rest)
        /\ rest > 0 => \A k \in DOMAIN eng.queue :
             Opposite(i, eng.queue[k]) => held1[eng.queue[k]].rem = 0
    BY <1>1, <1>2, <1>3, WalkMoves
  <1>. HIDE DEF w, held1, rest
  <1>6. /\ rest \in Nat /\ rest =< lf.fill /\ held1 \in OrderTable
        /\ \A j \in Margin :
             /\ held[j] = NoOrder => held1[j] = NoOrder
             /\ held[j] # NoOrder => held1[j] # NoOrder /\ Less(held[j], held1[j])
    BY <1>5 DEF Moved
  <1>7. about[i].hts \in Time /\ about[i].fts \in Time /\ about[i].n \in Nat
    <2>1. about[i] \in Timing
      BY <1>1
    <2>. QED  BY <2>1 DEF Timing
  <1>8. order \in Order /\ Balanced(order)
    <2>1. lf.fill - rest \in Nat /\ 0 \in Nat /\ lf.fill \in Nat \ {0}
      BY <1>3, <1>6
    <2>2. order \in Order
      BY <1>3, <1>6, <1>7, <2>1 DEF Order
    <2>3. lf.fill = rest + 0 + (lf.fill - rest)
      BY <1>3, <1>6
    <2>. QED  BY <2>2, <2>3 DEF Balanced
  <1>9. /\ order.fill = lf.fill /\ order.rem = rest /\ order.cam = 0
        /\ order.net = lf.fill - rest /\ order.hts = about[i].hts
        /\ order.fts = about[i].fts /\ order.n = about[i].n /\ order # NoOrder
    <2>1. order # NoOrder
      BY <1>8, RowsAreReal
    <2>. QED  BY <2>1
  <1>. HIDE DEF order
  <1>10. held2 \in OrderTable /\ held2[i] = order
         /\ \A j \in Margin : j # i => held2[j] = held1[j]
    BY <1>6, <1>8 DEF OrderTable
  <1>. HIDE DEF held2
  <1>11. /\ Append(eng.queue, i) \in Seq(Margin)
         /\ Range(Append(eng.queue, i)) = Range(eng.queue) \cup {i}
    <2>. DEFINE s == Append(eng.queue, i)
    <2>1. /\ s \in Seq(Margin) /\ DOMAIN s = 1..(Len(eng.queue) + 1)
          /\ s[Len(eng.queue) + 1] = i /\ DOMAIN eng.queue = 1..Len(eng.queue)
          /\ Len(eng.queue) \in Nat
          /\ \A k \in 1..Len(eng.queue) : s[k] = eng.queue[k]
      BY <1>1
    <2>. HIDE DEF s
    <2>2. \A k \in DOMAIN s : k = Len(eng.queue) + 1 \/ k \in DOMAIN eng.queue
      BY <2>1
    <2>3. Len(eng.queue) + 1 \in DOMAIN s /\ \A k \in DOMAIN eng.queue : k \in DOMAIN s
      BY <2>1
    <2>4. \A x : x \in Range(s) <=> \E k \in DOMAIN s : s[k] = x
      BY DEF Range
    <2>5. \A x : x \in Range(eng.queue) <=> \E k \in DOMAIN eng.queue : eng.queue[k] = x
      BY DEF Range
    <2>6. \A x : x \in Range(s) <=> x \in Range(eng.queue) \cup {i}
      BY <2>1, <2>2, <2>3, <2>4, <2>5
    <2>. QED  BY <2>1, <2>6 DEF s
  <1>12. /\ queue \in Seq(Margin)
         /\ Range(queue) = {j \in Range(eng.queue) \cup {i} : held2[j].rem > 0}
    BY <1>11, StillPendingIs
  <1>. HIDE DEF queue
  <1>13. /\ new.held = held2 /\ new.queue = queue /\ new.about = about
         /\ new.done = eng.done /\ new.life = life /\ new \in Engine(life)
    BY <1>1, <1>10, <1>12 DEF Engine, EngineInv
  <1>. HIDE DEF new
  <1>14. \A j \in Margin : held2[j] # NoOrder <=> j \in PendingOrders \cup (D \cup {i})
    <2>1. \A j \in Margin : held[j] # NoOrder <=> j \in PendingOrders \cup D
      BY DEF EngineInv
    <2>. QED  BY <1>6, <1>9, <1>10, <2>1
  <1>15. \A j \in Margin : held2[j] # NoOrder /\ j # i =>
            held[j] # NoOrder /\ Less(held[j], held2[j])
    BY <1>6, <1>10
  <1>16. AllBalanced(held2)
    BY <1>8, <1>10, <1>15 DEF AllBalanced, Less
  <1>17. \A j \in Margin \cap (D \cup {i}) : held2[j].fill = life[j].fill
    <2>1. \A j \in Margin \cap D : held[j].fill = life[j].fill
      BY DEF EngineInv
    <2>. QED  BY <1>9, <1>10, <1>14, <1>15, <2>1 DEF Less, lf
  <1>18. \A j \in PendingOrders :
         /\ held2[j].fill = orders[j].fill /\ held2[j].uts = orders[j].uts
         /\ held2[j].src = orders[j].src
    <2>1. \A j \in PendingOrders :
         /\ held[j].fill = orders[j].fill /\ held[j].uts = orders[j].uts
         /\ held[j].src = orders[j].src
      BY DEF EngineInv
    <2>2. \A j \in PendingOrders : j \in Margin /\ j # i
      BY <1>2 DEF PendingOrders
    <2>. QED  BY <1>14, <1>15, <2>1, <2>2 DEF Less
  <1>19. /\ \A h \in Futures : eng.done[h] # NoHedge <=> h \in D \cup {i}
         /\ \A h \in Futures \cap (D \cup {i}) : eng.done[h].amount = life[h].fill
    BY <1>2 DEF EngineInv
  <1>20. \A j \in Margin : j # i =>
           (j \in Pending(held2) <=> j \in Range(eng.queue) /\ held2[j].rem > 0)
    <2>. SUFFICES ASSUME NEW j \in Margin, j # i
         PROVE  j \in Pending(held2) <=> j \in Range(eng.queue) /\ held2[j].rem > 0
      OBVIOUS
    <2>1. ASSUME j \in Range(eng.queue)  PROVE held2[j] # NoOrder
      <3>1. held[j] # NoOrder
        BY <2>1 DEF EngineInv, Pending
      <3>. QED  BY <1>6, <1>10, <3>1
    <2>2. ASSUME held2[j] # NoOrder, held2[j].rem > 0
          PROVE  j \in Range(eng.queue)
      <3>1. held[j] # NoOrder /\ held2[j].rem =< held[j].rem
        BY <1>15, <2>2 DEF Less
      <3>2. held[j] \in Order /\ held2[j] \in Order
        BY <1>1, <1>10, <2>2, <3>1 DEF OrderTable
      <3>3. held[j].rem \in Nat /\ held2[j].rem \in Nat
        BY <3>2 DEF Order
      <3>4. held[j].rem > 0
        BY <2>2, <3>1, <3>3
      <3>. QED  BY <3>1, <3>4 DEF EngineInv, Pending
    <2>. QED  BY <2>1, <2>2 DEF Pending
  <1>21. Range(queue) = Pending(held2)
    <2>1. i \in Pending(held2) <=> held2[i].rem > 0
      BY <1>9, <1>10 DEF Pending
    <2>2. Range(eng.queue) \subseteq Margin /\ Pending(held2) \subseteq Margin
      BY DEF EngineInv, Pending
    <2>. QED  BY <1>12, <1>20, <2>1, <2>2
  <1>22. \A j, k \in Pending(held2) : ~Opposite(j, k)
    <2>1. \A j, k \in Range(eng.queue) : ~Opposite(j, k)
      BY DEF EngineInv
    <2>2. ASSUME NEW j \in Pending(held2), i \in Pending(held2), j # i
          PROVE  ~Opposite(i, j) /\ ~Opposite(j, i)
      <3>1. rest > 0
        BY <1>9, <1>10, <2>2 DEF Pending
      <3>2. j \in Margin /\ j \in Range(eng.queue) /\ held1[j].rem > 0
        BY <1>10, <1>20, <2>2 DEF Pending
      <3>3. PICK k \in DOMAIN eng.queue : eng.queue[k] = j
        BY <3>2 DEF Range
      <3>4. Opposite(i, j) => held1[j].rem = 0
        BY <1>5, <3>1, <3>3
      <3>5. ~Opposite(i, j)
        BY <3>2, <3>4
      <3>. QED  BY <3>5 DEF Opposite
    <2>3. \A j \in Pending(held2) : j # i => j \in Range(eng.queue)
      BY <1>20 DEF Pending
    <2>4. ~Opposite(i, i)
      BY DEF Opposite
    <2>. QED  BY <2>1, <2>2, <2>3, <2>4
  <1>23. \A S \in Sides :
           /\ NetOf(Overlay(orders, held2), S)
                = NetOf(Overlay(orders, held), S) + (lf.fill - rest)
           /\ CamOf(Overlay(orders, held2), S) = CamOf(Overlay(orders, held), S)
           /\ NetOf(Overlay(orders, held), S) \in Int
    <2>. SUFFICES ASSUME NEW S \in Sides
         PROVE
           /\ NetOf(Overlay(orders, held2), S)
                = NetOf(Overlay(orders, held), S) + (lf.fill - rest)
           /\ CamOf(Overlay(orders, held2), S) = CamOf(Overlay(orders, held), S)
           /\ NetOf(Overlay(orders, held), S) \in Int
      OBVIOUS
    <2>. DEFINE a == Overlay(orders, held)
                b == Overlay(orders, held1)
                c == Overlay(orders, held2)
    <2>1. a \in OrderTable /\ b \in OrderTable /\ c \in OrderTable
      BY <1>1, <1>2, <1>6, <1>10, OverlayType
    <2>2. b[i] = NoOrder /\ c[i] = order
      BY <1>2, <1>6, <1>9, <1>10 DEF Overlay
    <2>3. \A j \in Margin : j # i => c[j] = b[j]
      BY <1>10 DEF Overlay
    <2>4. /\ NetOf(b, S) = NetOf(a, S) + (IF i \notin S THEN lf.fill - rest ELSE 0)
          /\ CamOf(b, S) = CamOf(a, S) + 0
      BY <1>5 DEF Moved
    <2>5. NetOf(a, S) \in Int /\ CamOf(a, S) \in Int
      BY <2>1, SumsAreNumbers
    <2>. HIDE DEF a, b, c
    <2>6. /\ NetOf(c, S) = NetOf(b, S) + (IF i \notin S THEN 0 ELSE order.net - 0)
          /\ CamOf(c, S) = CamOf(b, S) + (IF i \notin S THEN 0 ELSE order.cam - 0)
      BY <1>9, <2>1, <2>2, <2>3, RowChanges
    <2>. QED  BY <1>3, <1>6, <1>9, <2>4, <2>5, <2>6 DEF a, c
  <1>24. LET t == Overlay(orders, held2)
             H == Joined(hedges, eng.done)
         IN  /\ NetOf(t, Buys) = NetOf(t, Orders \ Buys)
             /\ CamOf(t, Buys) = AllocOf(H, Orders \ Buys)
             /\ CamOf(t, Orders \ Buys) = AllocOf(H, Buys)
             /\ \A j \in PendingOrders \cup (ready \cap Margin) :
                  Knows(about[j], j, H)
    <2>1. Buys \in Sides /\ Orders \ Buys \in Sides
      BY DEF Sides
    <2>2. LET t == Overlay(orders, held)
              H == Joined(hedges, eng.done)
          IN  /\ NetOf(t, Buys) = NetOf(t, Orders \ Buys)
              /\ CamOf(t, Buys) = AllocOf(H, Orders \ Buys)
              /\ CamOf(t, Orders \ Buys) = AllocOf(H, Buys)
              /\ \A j \in PendingOrders \cup (ready \cap Margin) :
                   Knows(about[j], j, H)
      BY DEF EngineInv
    <2>. QED  BY <1>23, <2>1, <2>2
  <1>25. \A j \in Margin : held2[j] # NoOrder =>
         /\ held2[j].hts = about[j].hts /\ held2[j].fts = about[j].fts
         /\ held2[j].n = about[j].n
    <2>1. \A j \in Margin : held[j] # NoOrder =>
         /\ held[j].hts = about[j].hts /\ held[j].fts = about[j].fts
         /\ held[j].n = about[j].n
      BY DEF EngineInv
    <2>. QED  BY <1>9, <1>10, <1>15, <2>1 DEF Less
  <1>. HIDE DEF held, about
  <1>26. EngineInv(new, D \cup {i}, ready, life)
    BY <1>13, <1>14, <1>16, <1>17, <1>18, <1>19, <1>21, <1>22, <1>24, <1>25
       DEF EngineInv
  <1>. QED  BY <1>4, <1>26

LEMMA RecordedType ==
    ASSUME NEW a \in Timing, NEW create \in Nat, NEW fts \in Time
    PROVE  Recorded(a, create, fts) \in Timing
  <1>. DEFINE b == Recorded(a, create, fts)
  <1>1. a.hts \in Time /\ a.fts \in Time /\ a.n \in Nat
    BY DEF Timing
  <1>2. b = [hts |-> b.hts, fts |-> b.fts, n |-> b.n]
    BY DEF Recorded
  <1>3. b.hts \in Time /\ b.fts \in Time /\ b.n \in Nat
    BY <1>1 DEF Recorded, Time, Absent, MinOf, MaxOf
  <1>. HIDE DEF b
  <1>4. b \in Timing
    BY <1>2, <1>3 DEF Timing
  <1>. QED  BY <1>4 DEF b

LEMMA ToldIs ==
    ASSUME NEW o \in Order, NEW a \in Timing
    PROVE  LET p == Told(o, a)
           IN  /\ p \in Order /\ p.uts = o.uts /\ p.src = o.src /\ p.fill = o.fill
               /\ p.rem = o.rem /\ p.cam = o.cam /\ p.net = o.net
               /\ p.hts = a.hts /\ p.fts = a.fts /\ p.n = a.n
  <1>. DEFINE p == Told(o, a)
  <1>1. a.hts \in Time /\ a.fts \in Time /\ a.n \in Nat
    BY DEF Timing
  <1>2. /\ p.uts = o.uts /\ p.src = o.src /\ p.fill = o.fill
        /\ p.rem = o.rem /\ p.cam = o.cam /\ p.net = o.net
    BY DEF Told, Order
  <1>3. p.hts = a.hts /\ p.fts = a.fts /\ p.n = a.n
    BY DEF Told, Order
  <1>4. p \in Order
    BY <1>1 DEF Told, Order
  <1>. QED  BY <1>2, <1>3, <1>4

ToldOne(held, m, a) ==
    IF m \notin Margin \/ held[m] = NoOrder THEN held
    ELSE [held EXCEPT ![m] = Told(held[m], a[m])]

(* record_hedge_order: what the tables under the engine sum to stays. *)
LEMMA ToldMoves ==
    ASSUME NEW held \in OrderTable, NEW t \in OrderTable, AllBalanced(held),
           NEW m, NEW a \in [Margin -> Timing]
    PROVE  LET told == ToldOne(held, m, a) IN
           /\ told \in OrderTable /\ AllBalanced(told)
           /\ \A j \in Margin :
                /\ held[j] = NoOrder => told[j] = NoOrder
                /\ held[j] # NoOrder =>
                     /\ told[j] # NoOrder /\ told[j].uts = held[j].uts
                     /\ told[j].src = held[j].src /\ told[j].fill = held[j].fill
                     /\ told[j].rem = held[j].rem
                     /\ IF j = m THEN /\ told[j].hts = a[j].hts
                                      /\ told[j].fts = a[j].fts
                                      /\ told[j].n = a[j].n
                        ELSE told[j] = held[j]
           /\ \A S : /\ NetOf(Overlay(t, told), S) = NetOf(Overlay(t, held), S)
                     /\ CamOf(Overlay(t, told), S) = CamOf(Overlay(t, held), S)
  <1>. DEFINE told == ToldOne(held, m, a)
  <1>1. CASE m \notin Margin \/ held[m] = NoOrder
    <2>1. told = held
      BY <1>1 DEF ToldOne
    <2>. HIDE DEF told
    <2>. QED  BY <1>1, <2>1 DEF told
  <1>2. CASE m \in Margin /\ held[m] # NoOrder
    <2>. DEFINE o == held[m]
                p == Told(o, a[m])
    <2>1. o \in Order /\ Balanced(o) /\ a[m] \in Timing
      BY <1>2 DEF OrderTable, AllBalanced
    <2>. HIDE DEF o
    <2>2. /\ p \in Order /\ p.uts = o.uts /\ p.src = o.src /\ p.fill = o.fill
          /\ p.rem = o.rem /\ p.cam = o.cam /\ p.net = o.net
          /\ p.hts = a[m].hts /\ p.fts = a[m].fts /\ p.n = a[m].n
      BY <2>1, ToldIs
    <2>3. told = [held EXCEPT ![m] = p]
      BY <1>2 DEF o, ToldOne
    <2>. HIDE DEF p, told
    <2>4. told \in OrderTable /\ told[m] = p /\ p # NoOrder
          /\ \A j \in Margin : j # m => told[j] = held[j]
      BY <1>2, <2>2, <2>3, RowsAreReal DEF OrderTable
    <2>5. Balanced(p)
      BY <2>1, <2>2 DEF Balanced
    <2>6. AllBalanced(told)
      BY <2>4, <2>5 DEF AllBalanced
    <2>7. ASSUME NEW S
          PROVE  /\ NetOf(Overlay(t, told), S) = NetOf(Overlay(t, held), S)
                 /\ CamOf(Overlay(t, told), S) = CamOf(Overlay(t, held), S)
      <3>. DEFINE x == Overlay(t, held)
                  y == Overlay(t, told)
      <3>1. x \in OrderTable /\ y \in OrderTable
        BY <2>4, OverlayType
      <3>2. x[m] = o /\ y[m] = p /\ o # NoOrder
        BY <1>2, <2>4 DEF Overlay, o
      <3>3. \A j \in Margin : j # m => y[j] = x[j]
        BY <2>4 DEF Overlay
      <3>. HIDE DEF x, y
      <3>4. /\ NetOf(x, S) \in Int /\ CamOf(x, S) \in Int
            /\ NetOf(y, S) = NetOf(x, S) + (IF m \notin S THEN 0 ELSE p.net - o.net)
            /\ CamOf(y, S) = CamOf(x, S) + (IF m \notin S THEN 0 ELSE p.cam - o.cam)
        BY <1>2, <2>4, <3>1, <3>2, <3>3, RowChanges
      <3>5. o.net \in Nat /\ o.cam \in Nat
        BY <2>1 DEF Order
      <3>6. p.net - o.net = 0 /\ p.cam - o.cam = 0
        BY <2>2, <3>5
      <3>. QED  BY <3>4, <3>6 DEF x, y
    <2>8. o = held[m]
      BY DEF o
    <2>. QED  BY <1>2, <2>2, <2>4, <2>6, <2>7, <2>8 DEF told
  <1>. QED  BY <1>1, <1>2

(* apply_futures *)
LEMMA FuturesStep ==
    ASSUME TablesGood(orders, hedges), NEW ready, NEW life, Batch(ready, life),
           NEW eng, NEW D, EngineInv(eng, D, ready, life),
           NEW i \in Futures, i \in Events(ready, life), i \notin D
    PROVE  EngineInv(ApplyFutures(eng, i), D \cup {i}, ready, life)
  <1>. DEFINE lf == life[i]
              m == Anchor[i]
              create == Created(i)
              about == IF m \notin Margin THEN eng.about
                 ELSE [eng.about EXCEPT ![m] =
                          Recorded(eng.about[m], create, lf.lastFill)]
              held == IF m \notin Margin \/ eng.held[m] = NoOrder THEN eng.held
                ELSE [eng.held EXCEPT ![m] = Told(eng.held[m], about[m])]
              w == Walk(eng.queue, held, i, lf.fill, "cam")
              held2 == w.held
              rest == w.rest
              hedge == [create |-> create, fts |-> lf.lastFill,
                        amount |-> lf.fill, alloc |-> lf.fill - rest]
              queue == StillPending(eng.queue, held2)
              done == [eng.done EXCEPT ![i] = hedge]
              new == [eng EXCEPT !.held = held2, !.about = about, !.queue = queue,
                                 !.done = done]
              H == Joined(hedges, eng.done)
              G == Joined(hedges, done)
  <1>1. /\ eng.held \in OrderTable /\ eng.queue \in Seq(Margin)
        /\ eng.about \in [Margin -> Timing] /\ eng.done \in HedgeTable
        /\ eng.life = life /\ AllBalanced(eng.held)
        /\ \A k \in DOMAIN eng.queue : eng.held[eng.queue[k]] # NoOrder
    BY EngineTypes
  <1>2. /\ i \in Orders /\ i \in ready /\ hedges[i] = NoHedge /\ lf \in Life
        /\ create \in Nat /\ eng.done[i] = NoHedge /\ i \notin Margin
        /\ hedges \in HedgeTable /\ orders \in OrderTable
    <2>1. i \in ready /\ i \in Orders /\ i \notin Margin
      BY DEF Events, Futures
    <2>2. hedges[i] = NoHedge /\ lf \in Life /\ create \in Nat
      BY <2>1 DEF Batch
    <2>3. eng.done[i] = NoHedge
      BY DEF EngineInv
    <2>. QED  BY <2>1, <2>2, <2>3 DEF TablesGood
  <1>3. lf.fill \in Nat /\ lf.lastFill \in Time
    BY <1>2 DEF Life
  <1>4. ApplyFutures(eng, i) = new
    <2>1. new = [[[[eng EXCEPT !.held = held2] EXCEPT !.about = about]
                     EXCEPT !.queue = queue] EXCEPT !.done = done]
      OBVIOUS
    <2>. QED  BY <1>1 DEF ApplyFutures
  <1>. HIDE DEF lf, create
  <1>5. about \in [Margin -> Timing] /\ \A j \in Margin : j # m => about[j] = eng.about[j]
    <2>1. CASE m \in Margin
      <3>1. eng.about[m] \in Timing
        BY <1>1, <2>1
      <3>2. Recorded(eng.about[m], create, lf.lastFill) \in Timing
        BY <1>2, <1>3, <3>1, RecordedType
      <3>. QED  BY <1>1, <2>1, <3>2
    <2>2. CASE m \notin Margin
      BY <1>1, <2>2
    <2>. QED  BY <2>1, <2>2
  <1>6. m \in Margin => about[m] = Recorded(eng.about[m], create, lf.lastFill)
    BY <1>1
  <1>. HIDE DEF about
  <1>7. /\ held \in OrderTable /\ AllBalanced(held)
        /\ \A j \in Margin :
                /\ eng.held[j] = NoOrder => held[j] = NoOrder
                /\ eng.held[j] # NoOrder =>
                     /\ held[j] # NoOrder /\ held[j].uts = eng.held[j].uts
                     /\ held[j].src = eng.held[j].src
                     /\ held[j].fill = eng.held[j].fill
                     /\ held[j].rem = eng.held[j].rem
                     /\ IF j = m THEN /\ held[j].hts = about[j].hts
                                      /\ held[j].fts = about[j].fts
                                      /\ held[j].n = about[j].n
                        ELSE held[j] = eng.held[j]
        /\ \A S : /\ NetOf(Overlay(orders, held), S) = NetOf(Overlay(orders, eng.held), S)
                  /\ CamOf(Overlay(orders, held), S) = CamOf(Overlay(orders, eng.held), S)
    <2>1. held = ToldOne(eng.held, m, about)
      BY DEF ToldOne
    <2>. HIDE DEF held
    <2>. QED  BY <1>1, <1>2, <1>5, <2>1, ToldMoves
  <1>. HIDE DEF held
  <1>8. \A k \in DOMAIN eng.queue : held[eng.queue[k]] # NoOrder
    <2>1. \A k \in DOMAIN eng.queue : eng.queue[k] \in Margin
      BY <1>1
    <2>. QED  BY <1>1, <1>7, <2>1
  <1>9. Moved(i, "cam", orders, held, lf.fill, held2, rest)
    BY <1>1, <1>2, <1>3, <1>7, <1>8, WalkMoves
  <1>. HIDE DEF w, held2, rest
  <1>10. /\ rest \in Nat /\ rest =< lf.fill /\ held2 \in OrderTable
         /\ \A j \in Margin :
              /\ held[j] = NoOrder => held2[j] = NoOrder
              /\ held[j] # NoOrder => held2[j] # NoOrder /\ Less(held[j], held2[j])
    BY <1>9 DEF Moved
  <1>11. hedge \in Hedge /\ hedge.create = create /\ hedge.fts = lf.lastFill
         /\ hedge.amount = lf.fill /\ hedge.alloc = lf.fill - rest
    <2>1. lf.fill - rest \in Nat
      BY <1>3, <1>10
    <2>. QED  BY <1>2, <1>3, <2>1 DEF Hedge
  <1>12. hedge # NoHedge
    BY <1>11, RowsAreReal
  <1>. HIDE DEF hedge
  <1>13. done \in HedgeTable /\ done[i] = hedge
         /\ \A h \in Futures : h # i => done[h] = eng.done[h]
    BY <1>1, <1>11 DEF HedgeTable
  <1>. HIDE DEF done
  <1>14. /\ queue \in Seq(Margin)
         /\ Range(queue) = {j \in Range(eng.queue) : held2[j].rem > 0}
    BY <1>1, StillPendingIs
  <1>. HIDE DEF queue
  <1>15. /\ new.held = held2 /\ new.queue = queue /\ new.about = about
         /\ new.done = done /\ new.life = life /\ new \in Engine(life)
    BY <1>1, <1>5, <1>10, <1>13, <1>14 DEF Engine, EngineInv
  <1>. HIDE DEF new
  <1>16. \A j \in Margin : held2[j] # NoOrder <=> eng.held[j] # NoOrder
    BY <1>7, <1>10
  <1>17. \A j \in Margin : held2[j] # NoOrder <=> j \in PendingOrders \cup (D \cup {i})
    <2>1. \A j \in Margin : eng.held[j] # NoOrder <=> j \in PendingOrders \cup D
      BY DEF EngineInv
    <2>. QED  BY <1>2, <1>16, <2>1
  <1>18. \A j \in Margin : held2[j] # NoOrder =>
           /\ eng.held[j] # NoOrder /\ held[j] # NoOrder /\ Less(held[j], held2[j])
           /\ held2[j].uts = eng.held[j].uts /\ held2[j].src = eng.held[j].src
           /\ held2[j].fill = eng.held[j].fill /\ held2[j].rem =< eng.held[j].rem
    BY <1>7, <1>10, <1>16 DEF Less
  <1>19. AllBalanced(held2)
    BY <1>18 DEF AllBalanced, Less
  <1>20. \A j \in Margin \cap (D \cup {i}) : held2[j].fill = life[j].fill
    <2>1. \A j \in Margin \cap D : eng.held[j].fill = life[j].fill
      BY DEF EngineInv
    <2>. QED  BY <1>2, <1>17, <1>18, <2>1
  <1>21. \A j \in PendingOrders :
         /\ held2[j].fill = orders[j].fill /\ held2[j].uts = orders[j].uts
         /\ held2[j].src = orders[j].src
    <2>1. \A j \in PendingOrders :
         /\ eng.held[j].fill = orders[j].fill /\ eng.held[j].uts = orders[j].uts
         /\ eng.held[j].src = orders[j].src
      BY DEF EngineInv
    <2>2. \A j \in PendingOrders : j \in Margin
      BY DEF PendingOrders
    <2>. QED  BY <1>17, <1>18, <2>1, <2>2
  <1>22. /\ \A h \in Futures : done[h] # NoHedge <=> h \in D \cup {i}
         /\ \A h \in Futures \cap (D \cup {i}) : done[h].amount = life[h].fill
    <2>1. /\ \A h \in Futures : eng.done[h] # NoHedge <=> h \in D
          /\ \A h \in Futures \cap D : eng.done[h].amount = life[h].fill
      BY DEF EngineInv
    <2>. QED  BY <1>11, <1>12, <1>13, <2>1 DEF lf
  <1>23. Pending(held2) \subseteq Pending(eng.held)
    <2>. SUFFICES ASSUME NEW j \in Pending(held2)
         PROVE  j \in Pending(eng.held)
      OBVIOUS
    <2>1. j \in Margin /\ held2[j] # NoOrder /\ held2[j].rem > 0
      BY DEF Pending
    <2>2. eng.held[j] # NoOrder /\ held2[j].rem =< eng.held[j].rem
      BY <1>18, <2>1
    <2>3. eng.held[j] \in Order /\ held2[j] \in Order
      BY <1>1, <1>10, <2>1, <2>2 DEF OrderTable
    <2>4. held2[j].rem \in Nat /\ eng.held[j].rem \in Nat
      BY <2>3 DEF Order
    <2>. QED  BY <2>1, <2>2, <2>4 DEF Pending
  <1>24. Range(queue) = Pending(held2)
    <2>1. Range(eng.queue) = Pending(eng.held)
      BY DEF EngineInv
    <2>2. \A j \in Pending(eng.held) : j \in Margin /\ held2[j] # NoOrder
      BY <1>16 DEF Pending
    <2>. QED  BY <1>14, <1>23, <2>1, <2>2 DEF Pending
  <1>25. \A j, k \in Pending(held2) : ~Opposite(j, k)
    <2>1. \A j, k \in Pending(eng.held) : ~Opposite(j, k)
      BY DEF EngineInv
    <2>. QED  BY <1>23, <2>1
  <1>26. /\ H \in HedgeTable /\ G \in HedgeTable /\ H[i] = NoHedge /\ G[i] = hedge
         /\ \A h \in Futures : h # i => G[h] = H[h]
    BY <1>1, <1>2, <1>13, JoinedType DEF Joined
  <1>. HIDE DEF H, G
  <1>27. \A S \in Sides :
           /\ NetOf(Overlay(orders, held2), S) = NetOf(Overlay(orders, eng.held), S)
           /\ CamOf(Overlay(orders, held2), S) = CamOf(Overlay(orders, eng.held), S)
                + (IF i \notin S THEN lf.fill - rest ELSE 0)
           /\ CamOf(Overlay(orders, eng.held), S) \in Int
           /\ AllocOf(G, S) = AllocOf(H, S)
                + (IF i \in S THEN lf.fill - rest ELSE 0)
           /\ AllocOf(H, S) \in Int
    <2>. SUFFICES ASSUME NEW S \in Sides
         PROVE
           /\ NetOf(Overlay(orders, held2), S) = NetOf(Overlay(orders, eng.held), S)
           /\ CamOf(Overlay(orders, held2), S) = CamOf(Overlay(orders, eng.held), S)
                + (IF i \notin S THEN lf.fill - rest ELSE 0)
           /\ CamOf(Overlay(orders, eng.held), S) \in Int
           /\ AllocOf(G, S) = AllocOf(H, S)
                + (IF i \in S THEN lf.fill - rest ELSE 0)
           /\ AllocOf(H, S) \in Int
      OBVIOUS
    <2>1. /\ NetOf(Overlay(orders, eng.held), S) \in Int
          /\ CamOf(Overlay(orders, eng.held), S) \in Int
      BY <1>1, <1>2, OverlayType, SumsAreNumbers
    <2>2. /\ NetOf(Overlay(orders, held2), S) = NetOf(Overlay(orders, held), S) + 0
          /\ CamOf(Overlay(orders, held2), S) = CamOf(Overlay(orders, held), S)
                + (IF i \notin S THEN lf.fill - rest ELSE 0)
      BY <1>9 DEF Moved
    <2>3. /\ NetOf(Overlay(orders, held), S) = NetOf(Overlay(orders, eng.held), S)
          /\ CamOf(Overlay(orders, held), S) = CamOf(Overlay(orders, eng.held), S)
      BY <1>7
    <2>4. /\ AllocOf(H, S) \in Int
          /\ AllocOf(G, S) = AllocOf(H, S)
               + (IF i \notin S THEN 0 ELSE hedge.alloc - 0)
      BY <1>12, <1>26, HedgeChanges
    <2>. QED  BY <1>3, <1>10, <1>11, <2>1, <2>2, <2>3, <2>4
  <1>28. /\ NetOf(Overlay(orders, held2), Buys) = NetOf(Overlay(orders, held2), Orders \ Buys)
         /\ CamOf(Overlay(orders, held2), Buys) = AllocOf(G, Orders \ Buys)
         /\ CamOf(Overlay(orders, held2), Orders \ Buys) = AllocOf(G, Buys)
    <2>1. Buys \in Sides /\ Orders \ Buys \in Sides
      BY DEF Sides
    <2>2. /\ NetOf(Overlay(orders, eng.held), Buys)
               = NetOf(Overlay(orders, eng.held), Orders \ Buys)
          /\ CamOf(Overlay(orders, eng.held), Buys) = AllocOf(H, Orders \ Buys)
          /\ CamOf(Overlay(orders, eng.held), Orders \ Buys) = AllocOf(H, Buys)
      BY DEF EngineInv, H
    <2>3. i \notin Buys <=> i \in Orders \ Buys
      BY <1>2
    <2>. QED  BY <1>27, <2>1, <2>2, <2>3
  <1>29. \A j \in PendingOrders \cup (ready \cap Margin) : Knows(about[j], j, G)
    <2>. SUFFICES ASSUME NEW j \in PendingOrders \cup (ready \cap Margin)
         PROVE  Knows(about[j], j, G)
      OBVIOUS
    <2>1. j \in Margin /\ Knows(eng.about[j], j, H)
      BY DEF EngineInv, H, PendingOrders
    <2>2. CASE j = m
      <3>1. eng.about[j] \in Timing
        BY <1>1, <2>1
      <3>2. Knows(Recorded(eng.about[j], G[i].create, G[i].fts), Anchor[i], G)
        BY <1>11, <1>26, <2>1, <2>2, <3>1, KnowsMore
      <3>3. G[i].create = create /\ G[i].fts = lf.lastFill
        BY <1>11, <1>26
      <3>. QED  BY <1>6, <2>1, <2>2, <3>2, <3>3
    <2>3. CASE j # m
      <3>1. Knows(eng.about[j], j, G)
        BY <1>26, <2>1, <2>3, KnowsStill
      <3>. QED  BY <1>5, <2>1, <2>3, <3>1
    <2>. QED  BY <2>2, <2>3
  <1>30. \A j \in Margin : held2[j] # NoOrder =>
         /\ held2[j].hts = about[j].hts /\ held2[j].fts = about[j].fts
         /\ held2[j].n = about[j].n
    <2>. SUFFICES ASSUME NEW j \in Margin, held2[j] # NoOrder
         PROVE  /\ held2[j].hts = about[j].hts /\ held2[j].fts = about[j].fts
                /\ held2[j].n = about[j].n
      OBVIOUS
    <2>1. /\ held2[j].hts = held[j].hts /\ held2[j].fts = held[j].fts
          /\ held2[j].n = held[j].n /\ eng.held[j] # NoOrder
      BY <1>18 DEF Less
    <2>2. /\ eng.held[j].hts = eng.about[j].hts /\ eng.held[j].fts = eng.about[j].fts
          /\ eng.held[j].n = eng.about[j].n
      BY <2>1 DEF EngineInv
    <2>3. CASE j = m
      BY <1>7, <2>1, <2>3
    <2>4. CASE j # m
      BY <1>5, <1>7, <2>1, <2>2, <2>4
    <2>. QED  BY <2>3, <2>4
  <1>31. EngineInv(new, D \cup {i}, ready, life)
    BY <1>15, <1>17, <1>19, <1>20, <1>21, <1>22, <1>24, <1>25, <1>28, <1>29, <1>30
       DEF EngineInv, G
  <1>. QED  BY <1>4, <1>31

LEMMA ApplyStep ==
    ASSUME TablesGood(orders, hedges), NEW ready, NEW life, Batch(ready, life),
           NEW eng, NEW D, EngineInv(eng, D, ready, life),
           NEW i \in Events(ready, life), i \notin D
    PROVE  EngineInv(Apply(eng, i), D \cup {i}, ready, life)
  <1>1. i \in Orders
    BY DEF Events, Batch
  <1>2. CASE i \in Margin
    BY <1>2, MarginStep DEF Apply
  <1>3. CASE i \notin Margin
    <2>1. i \in Futures
      BY <1>1, <1>3 DEF Futures
    <2>. QED  BY <1>3, <2>1, FuturesStep DEF Apply
  <1>. QED  BY <1>2, <1>3

(* The events of a batch in the order of their keys. *)
LEMMA EventsOrdered ==
    ASSUME NEW ready, NEW life, Batch(ready, life), NEW events, NEW ordered,
           events = Events(ready, life),
           ordered = InOrder(events, [i \in events |-> EventKey(life, i)])
    PROVE  /\ ordered \in Seq(events) /\ Range(ordered) = events
           /\ \A k, l \in DOMAIN ordered : ordered[k] = ordered[l] => k = l
  <1>. DEFINE key == [i \in events |-> EventKey(life, i)]
  <1>1. events \subseteq ready /\ events \subseteq Orders
    BY DEF Batch, Events
  <1>2. IsFiniteSet(events)
    BY <1>1, OrdersAssumption, FS_Subset
  <1>3. \A i \in events : /\ life[i].lastFill \in Int /\ life[i].last \in Int
                          /\ i \in Int /\ (i \notin Margin => Created(i) \in Int)
    <2>. SUFFICES ASSUME NEW i \in events
         PROVE  /\ life[i].lastFill \in Int /\ life[i].last \in Int
                /\ i \in Int /\ (i \notin Margin => Created(i) \in Int)
      OBVIOUS
    <2>1. life[i] \in Life /\ (i \in Futures => Created(i) \in Nat)
      BY <1>1 DEF Batch
    <2>2. life[i].lastFill \in Int /\ life[i].last \in Int
      BY <2>1 DEF Life, Time, Absent
    <2>3. i \in Orders /\ i \in Int
      BY <1>1, OrdersAssumption
    <2>. QED  BY <2>1, <2>2, <2>3 DEF Futures
  <1>4. \A i \in events : key[i] \in Int \X Int \X Int \X Int /\ key[i][4] = i
    <2>. SUFFICES ASSUME NEW i \in events
         PROVE  key[i] \in Int \X Int \X Int \X Int /\ key[i][4] = i
      OBVIOUS
    <2>1. key[i] = Key(i, IF i \in Margin THEN life[i].lastFill ELSE Created(i),
                       life[i].last)
      BY DEF EventKey
    <2>2. PICK ts \in Int : key[i] = Key(i, ts, life[i].last)
      BY <1>3, <2>1
    <2>3. PICK side \in Int : key[i] = <<ts, life[i].last, side, i>>
      BY <2>2 DEF Key
    <2>. HIDE DEF key
    <2>. QED  BY <1>3, <2>3
  <1>. HIDE DEF key
  <1>5. Keyed(events, key)
    BY <1>4 DEF Keyed
  <1>. QED  BY <1>2, <1>5, InOrderIs DEF key

(* A batch matched from its first event to its last. *)
LEMMA MatchedIs ==
    ASSUME TablesGood(orders, hedges), NEW ready, NEW life, Batch(ready, life)
    PROVE  EngineInv(Matched(ready, life), Events(ready, life), ready, life)
  <1>. DEFINE
     events == Events(ready, life)
     ordered == InOrder(events, [i \in events |-> EventKey(life, i)])
     E(u, n) == u = [k \in 0..n |->
                  IF k = 0 THEN Seeded(ready, life)
                  ELSE Apply(u[k - 1], ordered[k])]
     N == {n \in Nat : \E u : E(u, n)}
  <1>0. /\ ordered \in Seq(events) /\ Range(ordered) = events
        /\ \A k, l \in DOMAIN ordered : ordered[k] = ordered[l] => k = l
    BY EventsOrdered
  <1>m. Matched(ready, life) =
          LET after[k \in 0..Len(ordered)] ==
                IF k = 0 THEN Seeded(ready, life)
                ELSE Apply(after[k - 1], ordered[k])
          IN  after[Len(ordered)]
    BY Zenon DEF Matched
  <1>e. events = Events(ready, life)
    OBVIOUS
  <1>. HIDE DEF ordered, events
  <1>1. 0 \in N
    <2>. DEFINE u == [k \in 0..0 |-> Seeded(ready, life)]
    <2>1. E(u, 0)
      OBVIOUS
    <2>. QED  BY <2>1
  <1>2. ASSUME NEW n \in Nat, n \in N
        PROVE  n + 1 \in N
    <2>1. PICK u : E(u, n)
      BY <1>2
    <2>. DEFINE last == Apply(u[n], ordered[n + 1])
                w == [k \in 0..(n + 1) |-> IF k = n + 1 THEN last ELSE u[k]]
    <2>2. ASSUME NEW k \in 0..(n + 1)
          PROVE  w[k] = IF k = 0 THEN Seeded(ready, life)
                  ELSE Apply(w[k - 1], ordered[k])
      <3>1. CASE k = n + 1
        <4>1. w[k] = last /\ w[k - 1] = u[n] /\ k # 0
          BY <3>1
        <4>. HIDE DEF w
        <4>. QED  BY <3>1, <4>1
      <3>2. CASE k # n + 1
        <4>1. k \in 0..n /\ w[k] = u[k] /\ (k # 0 => w[k - 1] = u[k - 1])
          BY <3>2
        <4>2. u[k] = IF k = 0 THEN Seeded(ready, life)
                  ELSE Apply(u[k - 1], ordered[k])
          BY <2>1, <4>1
        <4>. HIDE DEF w
        <4>. QED  BY <4>1, <4>2
      <3>. QED  BY <3>1, <3>2
    <2>3. w = [k \in 0..(n + 1) |-> w[k]]
      OBVIOUS
    <2>. HIDE DEF w
    <2>4. E(w, n + 1)
      BY <2>2, <2>3
    <2>5. \E v : E(v, n + 1)
      BY <2>4, Zenon
    <2>6. n + 1 \in Nat
      OBVIOUS
    <2>. QED  BY <2>5, <2>6, Zenon
  <1>. HIDE DEF N
  <1>3. Len(ordered) \in N /\ Len(ordered) \in Nat
    BY <1>0, <1>1, <1>2, SetInduction
  <1>4. \E u : E(u, Len(ordered))
    BY <1>3 DEF N
  <1>. DEFINE u == CHOOSE u : E(u, Len(ordered))
  <1>5. E(u, Len(ordered))
    BY <1>4, Zenon
  <1>6. Matched(ready, life) = u[Len(ordered)]
    BY <1>m, Zenon
  <1>. HIDE DEF u
  <1>7. \A k \in 0..Len(ordered) :
          u[k] = IF k = 0 THEN Seeded(ready, life)
                 ELSE Apply(u[k - 1], ordered[k])
    BY <1>5, Zenon
  <1>. DEFINE
     D(n) == {ordered[l] : l \in 1..n}
     M == {n \in Nat : n =< Len(ordered) => EngineInv(u[n], D(n), ready, life)}
  <1>8. 0 \in M
    <2>1. u[0] = Seeded(ready, life)
      BY <1>3, <1>7
    <2>2. D(0) = {}
      OBVIOUS
    <2>. HIDE DEF D
    <2>3. EngineInv(u[0], D(0), ready, life)
      BY <2>1, <2>2, EngineStarts
    <2>. QED  BY <2>3
  <1>9. ASSUME NEW n \in Nat, n \in M
        PROVE  n + 1 \in M
    <2>. SUFFICES ASSUME n + 1 =< Len(ordered)
         PROVE  EngineInv(u[n + 1], D(n + 1), ready, life)
      OBVIOUS
    <2>1. n =< Len(ordered) /\ n + 1 \in 1..Len(ordered) /\ n + 1 \in 0..Len(ordered)
          /\ n + 1 # 0 /\ (n + 1) - 1 = n
      BY <1>3
    <2>2. EngineInv(u[n], D(n), ready, life)
      BY <1>9, <2>1
    <2>3. u[n + 1] = Apply(u[n], ordered[n + 1])
      BY <1>7, <2>1
    <2>4. ordered[n + 1] \in events
      BY <1>0, <2>1
    <2>5. ordered[n + 1] \notin D(n)
      <3>1. \A l \in 1..n : l \in DOMAIN ordered /\ l # n + 1
        BY <1>0, <2>1
      <3>2. n + 1 \in DOMAIN ordered
        BY <1>0, <2>1
      <3>. QED  BY <1>0, <3>1, <3>2
    <2>6. D(n + 1) = D(n) \cup {ordered[n + 1]}
      <3>1. \A l \in 1..(n + 1) : l = n + 1 \/ l \in 1..n
        OBVIOUS
      <3>2. n + 1 \in 1..(n + 1) /\ \A l \in 1..n : l \in 1..(n + 1)
        OBVIOUS
      <3>. QED  BY <3>1, <3>2
    <2>. HIDE DEF D, M
    <2>. QED  BY <1>e, <2>2, <2>3, <2>4, <2>5, <2>6, ApplyStep
  <1>. HIDE DEF M, D
  <1>10. Len(ordered) \in M
    BY <1>3, <1>8, <1>9, SetInduction
  <1>11. EngineInv(u[Len(ordered)], D(Len(ordered)), ready, life)
    BY <1>3, <1>10 DEF M
  <1>12. D(Len(ordered)) = events
    <2>1. DOMAIN ordered = 1..Len(ordered)
      BY <1>0
    <2>. QED  BY <1>0, <2>1 DEF D, Range
  <1>. QED  BY <1>6, <1>11, <1>12 DEF events

(* The synthesis transaction writes what the engine holds. *)
LEMMA TablesAfter ==
    ASSUME TablesGood(orders, hedges), NEW ready, NEW life, Batch(ready, life),
           NEW o, o = Upserted(Matched(ready, life).held),
           NEW h, h = Inserted(Matched(ready, life).done)
    PROVE  /\ TablesGood(o, h)
           /\ \A i \in Margin :
                /\ orders[i] # NoOrder => o[i] # NoOrder /\ o[i].fill = orders[i].fill
                /\ i \in Events(ready, life) =>
                     o[i] # NoOrder /\ o[i].fill = life[i].fill
                /\ orders[i] = NoOrder /\ i \notin Events(ready, life) => o[i] = NoOrder
           /\ \A i \in Futures :
                /\ hedges[i] # NoHedge => h[i] = hedges[i]
                /\ i \in Events(ready, life) =>
                     h[i] # NoHedge /\ h[i].amount = life[i].fill
                /\ hedges[i] = NoHedge /\ i \notin Events(ready, life) => h[i] = NoHedge
  <1>. DEFINE eng == Matched(ready, life)
              D == Events(ready, life)
  <1>1. EngineInv(eng, D, ready, life)
    BY MatchedIs
  <1>2. D \subseteq ready /\ orders \in OrderTable /\ hedges \in HedgeTable
        /\ AllBalanced(orders)
    BY DEF Events, TablesGood
  <1>3. o = Upserted(eng.held) /\ h = Inserted(eng.done)
    OBVIOUS
  <1>. HIDE DEF eng, D
  <1>4. eng.held \in OrderTable /\ eng.done \in HedgeTable /\ AllBalanced(eng.held)
    BY <1>1, EngineTypes
  <1>5. \A i \in Margin : eng.held[i] # NoOrder <=> i \in PendingOrders \cup D
    BY <1>1 DEF EngineInv
  <1>6. \A i \in Margin \cap D : orders[i] = NoOrder
    BY <1>2 DEF Batch
  <1>7. \A i \in PendingOrders :
         /\ eng.held[i].fill = orders[i].fill /\ eng.held[i].uts = orders[i].uts
         /\ eng.held[i].src = orders[i].src
    BY <1>1 DEF EngineInv
  <1>8. o = Overlay(orders, eng.held)
    <2>1. ASSUME NEW i \in Margin, eng.held[i] # NoOrder, orders[i] # NoOrder
          PROVE  [eng.held[i] EXCEPT !.fill = orders[i].fill, !.uts = orders[i].uts,
                                     !.src = orders[i].src] = eng.held[i]
      <3>1. i \in PendingOrders
        BY <1>5, <1>6, <2>1
      <3>2. eng.held[i] \in Order
        BY <1>4, <2>1 DEF OrderTable
      <3>. DEFINE x == eng.held[i]
                  y == orders[i]
      <3>4. x \in Order /\ x.fill = y.fill /\ x.uts = y.uts /\ x.src = y.src
        BY <1>7, <3>1, <3>2
      <3>. HIDE DEF x, y
      <3>5. [x EXCEPT !.fill = y.fill, !.uts = y.uts, !.src = y.src] = x
        BY <3>4 DEF Order
      <3>. QED  BY <3>5 DEF x, y
    <2>. QED  BY <1>3, <2>1 DEF Upserted, Overlay
  <1>9. h = Joined(hedges, eng.done)
    BY <1>3 DEF Inserted, Joined
  <1>10. o \in OrderTable /\ h \in HedgeTable
    BY <1>2, <1>4, <1>8, <1>9, OverlayType, JoinedType
  <1>11. \A i \in Margin : o[i] = IF eng.held[i] = NoOrder THEN orders[i] ELSE eng.held[i]
    BY <1>8 DEF Overlay
  <1>12. AllBalanced(o)
    BY <1>2, <1>4, <1>11 DEF AllBalanced
  <1>13. ASSUME NEW i \in Pending(o)
         PROVE  i \in Margin /\ o[i] = eng.held[i] /\ i \in Pending(eng.held)
                /\ i \in PendingOrders \cup (ready \cap Margin)
    <2>1. i \in Margin /\ o[i] # NoOrder /\ o[i].rem > 0
      BY DEF Pending
    <2>2. eng.held[i] # NoOrder
      <3>1. SUFFICES ASSUME eng.held[i] = NoOrder  PROVE FALSE
        OBVIOUS
      <3>2. o[i] = orders[i]
        BY <1>11, <2>1, <3>1
      <3>3. i \in PendingOrders
        BY <2>1, <3>2 DEF PendingOrders
      <3>. QED  BY <1>5, <2>1, <3>1, <3>3
    <2>3. o[i] = eng.held[i]
      BY <1>11, <2>1, <2>2
    <2>. QED  BY <1>2, <1>5, <2>1, <2>2, <2>3 DEF Pending
  <1>14. \A i, j \in Pending(o) : ~Opposite(i, j)
    BY <1>1, <1>13 DEF EngineInv
  <1>15. \A i \in Pending(o) : Knows(o[i], i, h)
    <2>. SUFFICES ASSUME NEW i \in Pending(o)
         PROVE  Knows(o[i], i, h)
      OBVIOUS
    <2>1. i \in Margin /\ o[i] = eng.held[i] /\ i \in Pending(eng.held)
          /\ i \in PendingOrders \cup (ready \cap Margin)
      BY <1>13
    <2>2. Knows(eng.about[i], i, h)
      BY <1>1, <1>9, <2>1 DEF EngineInv
    <2>3. o[i].hts = eng.about[i].hts /\ o[i].fts = eng.about[i].fts
          /\ o[i].n = eng.about[i].n
      BY <1>1, <2>1 DEF EngineInv, Pending
    <2>. QED  BY <2>2, <2>3, KnowsFields
  <1>16. /\ NetOf(o, Buys) = NetOf(o, Orders \ Buys)
         /\ CamOf(o, Buys) = AllocOf(h, Orders \ Buys)
         /\ CamOf(o, Orders \ Buys) = AllocOf(h, Buys)
    BY <1>1, <1>8, <1>9 DEF EngineInv
  <1>17. TablesGood(o, h)
    BY <1>10, <1>12, <1>14, <1>15, <1>16 DEF TablesGood
  <1>18. ASSUME NEW i \in Margin
         PROVE  /\ orders[i] # NoOrder => o[i] # NoOrder /\ o[i].fill = orders[i].fill
                /\ i \in D => o[i] # NoOrder /\ o[i].fill = life[i].fill
                /\ orders[i] = NoOrder /\ i \notin D => o[i] = NoOrder
    <2>1. ASSUME orders[i] # NoOrder
          PROVE  o[i] # NoOrder /\ o[i].fill = orders[i].fill
      <3>1. CASE eng.held[i] = NoOrder
        BY <1>11, <2>1, <3>1
      <3>2. CASE eng.held[i] # NoOrder
        <4>1. i \in PendingOrders
          BY <1>5, <1>6, <2>1, <3>2
        <4>. QED  BY <1>7, <1>11, <3>2, <4>1
      <3>. QED  BY <3>1, <3>2
    <2>2. ASSUME i \in D
          PROVE  o[i] # NoOrder /\ o[i].fill = life[i].fill
      <3>1. eng.held[i] # NoOrder
        BY <1>5, <2>2
      <3>2. eng.held[i].fill = life[i].fill
        BY <1>1, <2>2 DEF EngineInv
      <3>. QED  BY <1>11, <3>1, <3>2
    <2>3. ASSUME orders[i] = NoOrder, i \notin D
          PROVE  o[i] = NoOrder
      <3>1. i \notin PendingOrders
        BY <2>3 DEF PendingOrders
      <3>. QED  BY <1>5, <1>11, <2>3, <3>1
    <2>. QED  BY <2>1, <2>2, <2>3
  <1>19. ASSUME NEW i \in Futures
         PROVE  /\ hedges[i] # NoHedge => h[i] = hedges[i]
                /\ i \in D => h[i] # NoHedge /\ h[i].amount = life[i].fill
                /\ hedges[i] = NoHedge /\ i \notin D => h[i] = NoHedge
    <2>1. h[i] = IF hedges[i] = NoHedge THEN eng.done[i] ELSE hedges[i]
      BY <1>9 DEF Joined
    <2>2. (eng.done[i] # NoHedge <=> i \in D)
          /\ (i \in D => eng.done[i].amount = life[i].fill)
      BY <1>1 DEF EngineInv
    <2>3. i \in D => hedges[i] = NoHedge
      BY <1>2 DEF Batch
    <2>. QED  BY <2>1, <2>2, <2>3
  <1>. QED  BY <1>17, <1>18, <1>19 DEF D

-----------------------------------------------------------------------------
(* The inductive invariant.                                                *)

(* The center: rows in source order, none long after a terminal one. *)
CenterInv ==
    /\ now \in Nat /\ Start =< now
    /\ rows \in [Orders -> Seq(Row)]
    /\ \A i \in Orders :
         /\ Ascending(rows[i])
         /\ \A k \in DOMAIN rows[i] : Start =< rows[i][k].src /\ rows[i][k].src < now
         /\ \A k, l \in DOMAIN rows[i] :
              rows[i][k].terminal => rows[i][l].src =< rows[i][k].src + Lag

(* What may be released when the rows before end were read. *)
Behindhand(released, end) ==
    /\ Start - 1 =< released
    /\ released =< end - Reorder - 1 \/ released =< Start - 1

MarkInv ==
    /\ mark.read \in Int /\ Start =< mark.read /\ mark.read =< now
    /\ mark.released \in Int /\ Behindhand(mark.released, mark.read)

ProcInv ==
    /\ DOMAIN proc = Procs
    /\ \A p \in Procs :
         /\ proc[p] \in [pc : {"idle", "reset", "load", "commit"}, start : Int,
                         end : Int, released : Int]
         /\ proc[p].pc # "idle" => proc[p].end =< now
         /\ proc[p].pc = "commit" =>
              /\ Start =< proc[p].start /\ proc[p].start =< proc[p].end
              /\ Behindhand(proc[p].released, proc[p].end)

(* An order whose rows are still collected. *)
Open(i) ==
    /\ lifecycle[i] = FillsRead(i)
    /\ i \in Margin => orders[i] = NoOrder
    /\ i \in Futures => hedges[i] = NoHedge

(* An order that was released: no row of it can still come. *)
Complete(i) ==
    /\ lifecycle[i] = NoLife
    /\ FillsRead(i) \in Life
    /\ \E k \in DOMAIN rows[i] :
         rows[i][k].terminal /\ rows[i][k].src + Lag < mark.read
    /\ i \in Margin => orders[i].fill = FillsRead(i).fill
    /\ i \in Futures => hedges[i] # NoHedge /\ hedges[i].amount = FillsRead(i).fill

LifeInv ==
    /\ lifecycle \in [Orders -> Lives]
    /\ \A i \in Orders : Open(i) \/ Complete(i)

IntraInv ==
    /\ CenterInv
    /\ MarkInv
    /\ ProcInv
    /\ LifeInv
    /\ TablesGood(orders, hedges)
    /\ \A i \in PendingOrders : orders[i].src > mark.finalized

LEMMA Numbers ==
    /\ Start \in Nat /\ Reorder \in Nat /\ Lag \in Nat
    /\ \A d \in Behind : d \in Nat
  BY OrdersAssumption

(* Empty tables. *)
LEMMA EmptyTables ==
    ASSUME NEW t, t = [i \in Margin |-> NoOrder],
           NEW h, h = [i \in Futures |-> NoHedge]
    PROVE  TablesGood(t, h) /\ Pending(t) = {}
  <1>1. t \in OrderTable /\ h \in HedgeTable
    BY DEF OrderTable, HedgeTable
  <1>2. \A i \in Margin : t[i] = NoOrder
    OBVIOUS
  <1>3. \A i \in Futures : h[i] = NoHedge
    OBVIOUS
  <1>4. Pending(t) = {} /\ AllBalanced(t)
    BY <1>2 DEF Pending, AllBalanced
  <1>5. \A S : NetOf(t, S) = 0 /\ CamOf(t, S) = 0 /\ AllocOf(h, S) = 0
    <2>. SUFFICES ASSUME NEW S
         PROVE  NetOf(t, S) = 0 /\ CamOf(t, S) = 0 /\ AllocOf(h, S) = 0
      OBVIOUS
    <2>. DEFINE
       n == [i \in Margin \cap S |-> IF t[i] = NoOrder THEN 0 ELSE t[i].net]
       c == [i \in Margin \cap S |-> IF t[i] = NoOrder THEN 0 ELSE t[i].cam]
       a == [i \in Futures \cap S |-> IF h[i] = NoHedge THEN 0 ELSE h[i].alloc]
    <2>1. /\ n \in [Margin \cap S -> Int] /\ c \in [Margin \cap S -> Int]
          /\ a \in [Futures \cap S -> Int]
          /\ (\A x \in Margin \cap S : n[x] = 0) /\ (\A x \in Margin \cap S : c[x] = 0)
          /\ \A x \in Futures \cap S : a[x] = 0
      BY <1>2, <1>3
    <2>2. NetOf(t, S) = Sum(n) /\ CamOf(t, S) = Sum(c) /\ AllocOf(h, S) = Sum(a)
      BY DEF NetOf, CamOf, AllocOf
    <2>. HIDE DEF n, c, a
    <2>3. Sum(n) = 0 /\ Sum(c) = 0 /\ Sum(a) = 0
      BY <2>1, FiniteParts, SumOfNothing
    <2>. QED  BY <2>2, <2>3
  <1>. QED  BY <1>1, <1>4, <1>5 DEF TablesGood

(* Rows outside a range leave its aggregate empty. *)
LEMMA NothingInside ==
    ASSUME NEW read \in Seq(Row), NEW start \in Int, NEW end \in Int,
           \A k \in DOMAIN read : ~Inside(read[k], start, end)
    PROVE  Aggregate(read, start, end) = NoLife
  <1>1. Aggregate(read, start, end) \notin Life
    BY AggregateTells
  <1>. QED  BY <1>1, AggregateType DEF Lives

(* What the rows of an order are. *)
LEMMA RowsAre ==
    ASSUME CenterInv, NEW i \in Orders
    PROVE  /\ rows[i] \in Seq(Row) /\ Ascending(rows[i])
           /\ \A k \in DOMAIN rows[i] :
                /\ rows[i][k] \in Row /\ rows[i][k].src \in Nat
                /\ Start =< rows[i][k].src /\ rows[i][k].src < now
           /\ \A k, l \in DOMAIN rows[i] :
                rows[i][k].terminal => rows[i][l].src =< rows[i][k].src + Lag
  <1>1. rows[i] \in Seq(Row) /\ Ascending(rows[i])
        /\ \A k \in DOMAIN rows[i] : Start =< rows[i][k].src /\ rows[i][k].src < now
    BY DEF CenterInv
  <1>2. \A k, l \in DOMAIN rows[i] :
                rows[i][k].terminal => rows[i][l].src =< rows[i][k].src + Lag
    BY DEF CenterInv
  <1>3. \A k \in DOMAIN rows[i] : rows[i][k] \in Row
    BY <1>1
  <1>4. \A r \in Row : r.src \in Nat
    BY DEF Row
  <1>. QED  BY <1>1, <1>2, <1>3, <1>4

LEMMA InitIntra ==
    ASSUME Init  PROVE  IntraInv
  <1>1. CenterInv
    <2>1. rows = [i \in Orders |-> <<>>] /\ now = Start
      BY DEF Init
    <2>2. \A i \in Orders : rows[i] = <<>> /\ DOMAIN rows[i] = {}
      BY <2>1
    <2>3. rows \in [Orders -> Seq(Row)]
      BY <2>1
    <2>. QED  BY <2>1, <2>2, <2>3, Numbers DEF CenterInv, Ascending
  <1>2. MarkInv
    BY Numbers DEF Init, StartMark, MarkInv, Behindhand
  <1>3. ProcInv
    BY DEF Init, Idle, ProcInv
  <1>4. TablesGood(orders, hedges) /\ Pending(orders) = {}
    BY EmptyTables DEF Init
  <1>5. LifeInv
    <2>1. ASSUME NEW i \in Orders
          PROVE  Open(i)
      <3>1. FillsRead(i) = NoLife
        <4>1. rows[i] = <<>> /\ mark.read = Start
          BY DEF Init, StartMark
        <4>2. DOMAIN rows[i] = {} /\ rows[i] \in Seq(Row)
          BY <4>1
        <4>3. Start \in Int /\ mark.read \in Int
          BY <4>1, Numbers
        <4>4. Aggregate(rows[i], Start, mark.read) = NoLife
          BY <4>2, <4>3, NothingInside
        <4>. QED  BY <4>4 DEF FillsRead, Delta
      <3>. QED  BY <3>1 DEF Init, Open
    <2>2. lifecycle \in [Orders -> Lives]
      BY LifeCounts DEF Init
    <2>. QED  BY <2>1, <2>2 DEF LifeInv
  <1>. QED  BY <1>1, <1>2, <1>3, <1>4, <1>5, PendingIs DEF IntraInv

(* Time passes: the rows of the moment are not read yet. *)
LEMMA TickIntra ==
    ASSUME IntraInv, Tick  PROVE  IntraInv'
  <1>1. CenterInv /\ MarkInv /\ ProcInv /\ LifeInv /\ TablesGood(orders, hedges)
        /\ \A i \in PendingOrders : orders[i].src > mark.finalized
    BY DEF IntraInv
  <1>2. /\ now' = now + 1 /\ now \in Nat /\ Start =< now
        /\ lifecycle' = lifecycle /\ orders' = orders /\ hedges' = hedges
        /\ mark' = mark /\ proc' = proc /\ mark.read \in Int /\ mark.read =< now
    BY <1>1 DEF Tick, tables, CenterInv, MarkInv
  <1>3. PICK emitting \in SUBSET {i \in Orders : MayEmit(i)} :
          \E kind \in [emitting -> RowKind] :
            rows' = [i \in Orders |->
                          IF i \in emitting
                          THEN Append(rows[i], RowNow(i, kind[i]))
                          ELSE rows[i]]
    BY DEF Tick
  <1>4. PICK kind \in [emitting -> RowKind] :
            rows' = [i \in Orders |->
                          IF i \in emitting
                          THEN Append(rows[i], RowNow(i, kind[i]))
                          ELSE rows[i]]
    BY <1>3
  <1>5. ASSUME NEW i \in Orders, i \in emitting
        PROVE  /\ RowNow(i, kind[i]) \in Row /\ RowNow(i, kind[i]).src = now
               /\ \A k \in DOMAIN rows[i] :
                    rows[i][k].terminal => now =< rows[i][k].src + Lag
    <2>1. MayEmit(i) /\ kind[i] \in RowKind
      BY <1>5
    <2>2. ASSUME Terminated(i)
          PROVE  /\ TerminalTime(i) \in Nat
                 /\ \A k \in DOMAIN rows[i] :
                      rows[i][k].terminal => TerminalTime(i) =< rows[i][k].src
      <3>. DEFINE T == {rows[i][k].src : k \in {l \in DOMAIN rows[i] : rows[i][l].terminal}}
      <3>1. T \subseteq Nat /\ T # {}
        BY <1>1, <2>2, RowsAre DEF Terminated
      <3>2. T \subseteq Time /\ T \subseteq Int
        BY <3>1 DEF Time
      <3>3. PICK m : IsMin(m, T)
        BY <3>1, <3>2, MinExists
      <3>4. Min(T) = m
        BY <3>2, <3>3, MinIs
      <3>5. TerminalTime(i) = m
        BY <3>4 DEF TerminalTime
      <3>. QED  BY <3>1, <3>3, <3>5 DEF IsMin
    <2>3. RowNow(i, kind[i]) \in Row
      <3>1. (IF Terminated(i) THEN TerminalTime(i) ELSE now) \in Nat
        BY <1>2, <2>2
      <3>. QED  BY <1>2, <2>1, <3>1 DEF RowNow, Row, RowKind
    <2>4. ASSUME NEW k \in DOMAIN rows[i], rows[i][k].terminal
          PROVE  now =< rows[i][k].src + Lag
      <3>1. Terminated(i)
        BY <2>4 DEF Terminated
      <3>2. now =< TerminalTime(i) + Lag
        BY <2>1, <3>1 DEF MayEmit
      <3>3. rows[i][k].src \in Nat
        BY <1>1, <2>4, RowsAre
      <3>. QED  BY <1>2, <2>2, <2>4, <3>1, <3>2, <3>3, Numbers
    <2>. QED  BY <2>3, <2>4 DEF RowNow
  <1>6. ASSUME NEW i \in Orders
        PROVE  /\ rows'[i] \in Seq(Row) /\ Ascending(rows'[i])
               /\ \A k \in DOMAIN rows'[i] :
                    Start =< rows'[i][k].src /\ rows'[i][k].src < now'
               /\ \A k, l \in DOMAIN rows'[i] :
                    rows'[i][k].terminal => rows'[i][l].src =< rows'[i][k].src + Lag
               /\ DOMAIN rows[i] \subseteq DOMAIN rows'[i]
               /\ \A k \in DOMAIN rows[i] : rows'[i][k] = rows[i][k]
               /\ Aggregate(rows'[i], Start, mark.read) = Aggregate(rows[i], Start, mark.read)
    <2>. DEFINE old == rows[i]
    <2>1. /\ old \in Seq(Row) /\ Ascending(old)
          /\ \A k \in DOMAIN old :
                /\ old[k] \in Row /\ old[k].src \in Nat
                /\ Start =< old[k].src /\ old[k].src < now
          /\ \A k, l \in DOMAIN old :
                old[k].terminal => old[l].src =< old[k].src + Lag
      BY <1>1, RowsAre
    <2>2. CASE i \notin emitting
      <3>1. rows'[i] = old
        BY <1>4, <2>2
      <3>2. \A k \in DOMAIN old : old[k].src < now'
        BY <1>2, <2>1
      <3>. HIDE DEF old
      <3>. QED  BY <2>1, <3>1, <3>2 DEF old
    <2>3. CASE i \in emitting
      <3>. DEFINE row == RowNow(i, kind[i])
                  new == Append(old, row)
                  n == Len(old) + 1
      <3>1. rows'[i] = new
        BY <1>4, <2>3
      <3>2. row \in Row /\ row.src = now
            /\ \A k \in DOMAIN old : old[k].terminal => now =< old[k].src + Lag
        BY <1>5, <2>3
      <3>. HIDE DEF row
      <3>3. /\ new \in Seq(Row) /\ DOMAIN new = 1..n /\ new[n] = row /\ Len(old) \in Nat
            /\ DOMAIN old = 1..Len(old) /\ \A k \in 1..Len(old) : new[k] = old[k]
        BY <2>1, <3>2
      <3>4. \A k \in DOMAIN new : k = n \/ k \in DOMAIN old
        BY <3>3
      <3>5. n \notin DOMAIN old /\ \A k \in DOMAIN old : k < n /\ new[k] = old[k]
        BY <3>3
      <3>6. Aggregate(new, Start, mark.read) = Aggregate(old, Start, mark.read)
        <4>1. ~Inside(row, Start, mark.read)
          BY <1>2, <3>2 DEF Inside
        <4>. QED  BY <2>1, <3>2, <4>1, AggregateAppend
      <3>. HIDE DEF new, n, old
      <3>7. Ascending(new)
        <4>. SUFFICES ASSUME NEW k \in DOMAIN new, NEW l \in DOMAIN new, k < l
             PROVE  new[k].src < new[l].src
          BY DEF Ascending
        <4>1. k # n
          <5>1. \A j \in DOMAIN new : j =< n
            BY <3>3
          <5>2. k \in Int /\ l \in Int /\ n \in Int /\ l =< n
            BY <3>3, <5>1 DEF n
          <5>. QED  BY <5>2
        <4>2. k \in DOMAIN old /\ new[k] = old[k]
          BY <3>4, <3>5, <4>1
        <4>3. CASE l = n
          BY <2>1, <3>2, <3>3, <4>2, <4>3
        <4>4. CASE l \in DOMAIN old
          BY <2>1, <3>5, <4>2, <4>4 DEF Ascending
        <4>. QED  BY <3>4, <4>3, <4>4
      <3>8. \A k \in DOMAIN new : Start =< new[k].src /\ new[k].src < now'
        BY <1>2, <2>1, <3>2, <3>3, <3>4, <3>5
      <3>9. ASSUME NEW k \in DOMAIN new, NEW l \in DOMAIN new, new[k].terminal
            PROVE  new[l].src =< new[k].src + Lag
        <4>1. CASE k = n
          <5>1. new[k].src = now
            BY <3>2, <3>3, <4>1
          <5>2. new[l].src \in Nat /\ new[l].src =< now
            BY <1>2, <2>1, <3>2, <3>3, <3>4, <3>5
          <5>. QED  BY <1>2, <5>1, <5>2, Numbers
        <4>2. CASE k # n
          <5>1. k \in DOMAIN old /\ new[k] = old[k]
            BY <3>4, <3>5, <4>2
          <5>2. CASE l = n
            BY <3>2, <3>3, <3>9, <5>1, <5>2
          <5>3. CASE l \in DOMAIN old
            BY <2>1, <3>5, <3>9, <5>1, <5>3
          <5>. QED  BY <3>4, <5>2, <5>3
        <4>. QED  BY <4>1, <4>2
      <3>10. DOMAIN old \subseteq DOMAIN new
        BY <3>3 DEF n
      <3>. QED  BY <3>1, <3>3, <3>5, <3>6, <3>7, <3>8, <3>9, <3>10 DEF old
    <2>. QED  BY <2>2, <2>3
  <1>7. CenterInv'
    <2>1. rows' = [i \in Orders |-> rows'[i]]
      BY <1>4
    <2>2. rows' \in [Orders -> Seq(Row)]
      BY <1>6, <2>1
    <2>3. now' \in Nat /\ Start =< now'
      BY <1>2, Numbers
    <2>. QED  BY <1>6, <2>2, <2>3 DEF CenterInv, Ascending
  <1>8. MarkInv' /\ ProcInv'
    <2>1. MarkInv'
      BY <1>1, <1>2 DEF MarkInv, Behindhand
    <2>2. ASSUME NEW p \in Procs, proc[p].pc # "idle"
          PROVE  proc[p].end =< now'
      <3>1. proc[p].end =< now /\ proc[p].end \in Int
        BY <1>1, <2>2 DEF ProcInv
      <3>. QED  BY <1>2, <3>1
    <2>3. ProcInv'
      BY <1>1, <1>2, <2>2 DEF ProcInv, Behindhand
    <2>. QED  BY <2>1, <2>3
  <1>9. LifeInv'
    <2>1. ASSUME NEW i \in Orders
          PROVE  Open(i)' \/ Complete(i)'
      <3>1. FillsRead(i)' = FillsRead(i)
        BY <1>2, <1>6 DEF FillsRead, Delta
      <3>2. CASE Open(i)
        BY <1>2, <3>1, <3>2 DEF Open
      <3>3. CASE Complete(i)
        <4>1. PICK k \in DOMAIN rows[i] :
                rows[i][k].terminal /\ rows[i][k].src + Lag < mark.read
          BY <3>3 DEF Complete
        <4>2. k \in DOMAIN rows'[i] /\ rows'[i][k] = rows[i][k]
          BY <1>6
        <4>. QED  BY <1>2, <3>1, <3>3, <4>1, <4>2 DEF Complete
      <3>. QED  BY <1>1, <3>2, <3>3 DEF LifeInv
    <2>. QED  BY <1>1, <1>2, <2>1 DEF LifeInv
  <1>10. TablesGood(orders, hedges)' /\ PendingOrders' = PendingOrders
    BY <1>1, <1>2 DEF PendingOrders
  <1>. QED  BY <1>1, <1>2, <1>7, <1>8, <1>9, <1>10 DEF IntraInv

(* A process that loads the watermark. *)
LEMMA LoadedIs ==
    ASSUME MarkInv, NEW end \in Int, end =< now
    PROVE  /\ Loaded(end) \in [pc : {"idle", "reset", "load", "commit"}, start : Int,
                               end : Int, released : Int]
           /\ Loaded(end).pc # "idle" => Loaded(end).end =< now
           /\ Loaded(end).pc = "commit" =>
                /\ Start =< Loaded(end).start /\ Loaded(end).start =< Loaded(end).end
                /\ Behindhand(Loaded(end).released, Loaded(end).end)
  <1>1. /\ mark.read \in Int /\ Start =< mark.read /\ mark.read =< now
        /\ mark.released \in Int /\ Behindhand(mark.released, mark.read)
    BY DEF MarkInv
  <1>2. CASE end < mark.read
    BY <1>2 DEF Loaded, Idle
  <1>3. CASE mark.read =< end
    <2>. DEFINE r == MaxOf(end - Reorder - 1, mark.released)
    <2>1. Loaded(end) = [pc |-> "commit", start |-> mark.read, end |-> end,
                         released |-> r]
      BY <1>1, <1>3 DEF Loaded
    <2>2. r \in Int /\ Behindhand(r, end)
      BY <1>1, <1>3, Numbers DEF MaxOf, Behindhand
    <2>. HIDE DEF r
    <2>. QED  BY <1>1, <1>3, <2>1, <2>2
  <1>. QED  BY <1>1, <1>2, <1>3

(* A step that only moves processes. *)
LEMMA OnlyProc ==
    ASSUME IntraInv, ProcInv', UNCHANGED <<now, rows, tables>>
    PROVE  IntraInv'
  <1>1. /\ now' = now /\ rows' = rows /\ lifecycle' = lifecycle
        /\ orders' = orders /\ hedges' = hedges /\ mark' = mark
    BY DEF tables
  <1>2. CenterInv' /\ MarkInv'
    BY <1>1 DEF IntraInv, CenterInv, MarkInv
  <1>3. LifeInv'
    <2>1. \A i \in Orders : FillsRead(i)' = FillsRead(i)
      BY <1>1 DEF FillsRead, Delta
    <2>. QED  BY <1>1, <2>1 DEF IntraInv, LifeInv, Open, Complete
  <1>. QED  BY <1>1, <1>2, <1>3 DEF IntraInv, PendingOrders

LEMMA LaunchIntra ==
    ASSUME IntraInv, NEW p \in Procs, NEW d \in Behind, NEW rebuild \in BOOLEAN,
           Launch(p, now - 1 - d, rebuild)
    PROVE  IntraInv'
  <1>. DEFINE end == (now - 1 - d) + 1
              memory == IF rebuild THEN [Idle EXCEPT !.pc = "reset", !.end = end]
                        ELSE Loaded(end)
  <1>1. MarkInv /\ ProcInv /\ now \in Nat
    BY DEF IntraInv, CenterInv
  <1>2. end \in Int /\ end =< now
    BY <1>1, Numbers
  <1>3. proc' = [proc EXCEPT ![p] = memory] /\ UNCHANGED <<now, rows, tables>>
    BY DEF Launch
  <1>. HIDE DEF end
  <1>4. /\ memory \in [pc : {"idle", "reset", "load", "commit"}, start : Int,
                       end : Int, released : Int]
        /\ memory.pc # "idle" => memory.end =< now
        /\ memory.pc = "commit" =>
             /\ Start =< memory.start /\ memory.start =< memory.end
             /\ Behindhand(memory.released, memory.end)
    <2>1. CASE rebuild
      <3>1. memory = [pc |-> "reset", start |-> 0, end |-> end, released |-> 0]
        BY <2>1 DEF Idle
      <3>. HIDE DEF memory
      <3>. QED  BY <1>2, <3>1
    <2>2. CASE ~rebuild
      <3>1. memory = Loaded(end)
        BY <2>2
      <3>. HIDE DEF memory
      <3>. QED  BY <1>1, <1>2, <3>1, LoadedIs
    <2>. QED  BY <2>1, <2>2
  <1>. HIDE DEF memory
  <1>5. now' = now
    BY <1>3
  <1>6. ProcInv'
    BY <1>1, <1>3, <1>4, <1>5 DEF ProcInv, Behindhand
  <1>. QED  BY <1>3, <1>6, OnlyProc

LEMMA LoadIntra ==
    ASSUME IntraInv, NEW p \in Procs, Load(p)
    PROVE  IntraInv'
  <1>. DEFINE memory == Loaded(proc[p].end)
  <1>1. MarkInv /\ ProcInv
    BY DEF IntraInv
  <1>2. proc[p].end \in Int /\ proc[p].end =< now
    <2>1. proc[p].pc = "load"
      BY DEF Load
    <2>. QED  BY <1>1, <2>1 DEF ProcInv
  <1>3. proc' = [proc EXCEPT ![p] = memory] /\ UNCHANGED <<now, rows, tables>>
    BY DEF Load
  <1>4. /\ memory \in [pc : {"idle", "reset", "load", "commit"}, start : Int,
                       end : Int, released : Int]
        /\ memory.pc # "idle" => memory.end =< now
        /\ memory.pc = "commit" =>
             /\ Start =< memory.start /\ memory.start =< memory.end
             /\ Behindhand(memory.released, memory.end)
    BY <1>1, <1>2, LoadedIs
  <1>. HIDE DEF memory
  <1>5. now' = now
    BY <1>3
  <1>6. ProcInv'
    BY <1>1, <1>3, <1>4, <1>5 DEF ProcInv, Behindhand
  <1>. QED  BY <1>3, <1>6, OnlyProc

LEMMA AbortIntra ==
    ASSUME IntraInv, NEW p \in Procs, Abort(p)
    PROVE  IntraInv'
  <1>1. ProcInv
    BY DEF IntraInv
  <1>2. proc' = [proc EXCEPT ![p] = Idle] /\ UNCHANGED <<now, rows, tables>>
    BY DEF Abort
  <1>3. now' = now
    BY <1>2
  <1>4. ProcInv'
    BY <1>1, <1>2, <1>3 DEF ProcInv, Behindhand, Idle
  <1>. QED  BY <1>2, <1>4, OnlyProc

LEMMA ResetIntra ==
    ASSUME IntraInv, NEW p \in Procs, Reset(p)
    PROVE  IntraInv'
  <1>1. /\ CenterInv /\ ProcInv
    BY DEF IntraInv
  <1>2. /\ lifecycle' = [i \in Orders |-> NoLife]
        /\ orders' = [i \in Margin |-> NoOrder]
        /\ hedges' = [i \in Futures |-> NoHedge]
        /\ mark' = StartMark
        /\ proc' = [proc EXCEPT ![p].pc = "load"]
        /\ now' = now /\ rows' = rows /\ proc[p].pc = "reset"
    BY DEF Reset
  <1>3. CenterInv'
    BY <1>1, <1>2 DEF CenterInv
  <1>4. MarkInv'
    BY <1>1, <1>2, Numbers DEF MarkInv, StartMark, Behindhand, CenterInv
  <1>5. ProcInv'
    <2>1. proc'[p].pc = "load" /\ proc'[p].end = proc[p].end
          /\ proc'[p].start = proc[p].start /\ proc'[p].released = proc[p].released
      BY <1>1, <1>2 DEF ProcInv
    <2>2. proc'[p] \in [pc : {"idle", "reset", "load", "commit"}, start : Int,
                       end : Int, released : Int]
      BY <1>1, <1>2 DEF ProcInv
    <2>3. \A q \in Procs : q # p => proc'[q] = proc[q]
      BY <1>1, <1>2 DEF ProcInv
    <2>4. DOMAIN proc' = Procs
      BY <1>1, <1>2 DEF ProcInv
    <2>. QED  BY <1>1, <1>2, <2>1, <2>2, <2>3, <2>4 DEF ProcInv, Behindhand
  <1>6. TablesGood(orders', hedges') /\ Pending(orders') = {}
    BY <1>2, EmptyTables
  <1>7. PendingOrders' = {}
    BY <1>6 DEF Pending, PendingOrders
  <1>8. LifeInv'
    <2>1. ASSUME NEW i \in Orders
          PROVE  Open(i)'
      <3>1. rows[i] \in Seq(Row) /\ Start \in Int
        BY <1>1, RowsAre, Numbers
      <3>2. \A k \in DOMAIN rows[i] : ~Inside(rows[i][k], Start, Start)
        <4>1. \A k \in DOMAIN rows[i] : rows[i][k].src \in Nat
          BY <1>1, RowsAre
        <4>. QED  BY <3>1, <4>1 DEF Inside
      <3>3. Aggregate(rows[i], Start, Start) = NoLife
        BY <3>1, <3>2, NothingInside
      <3>4. FillsRead(i)' = NoLife
        <4>1. mark'.read = Start
          BY <1>2 DEF StartMark
        <4>. QED  BY <1>2, <3>3, <4>1 DEF FillsRead, Delta
      <3>. QED  BY <1>2, <3>4 DEF Open
    <2>2. lifecycle' \in [Orders -> Lives]
      BY <1>2, LifeCounts
    <2>. QED  BY <2>1, <2>2 DEF LifeInv
  <1>. QED  BY <1>3, <1>4, <1>5, <1>6, <1>7, <1>8 DEF IntraInv

(* What a transaction finds: its aggregates and the batch they make. *)
LEMMA LivesAre ==
    ASSUME IntraInv, NEW end \in Int, mark.read =< end, NEW i \in Orders
    PROVE  LET life == Merged(lifecycle[i], Delta(i, mark.read, end))
               read == Aggregate(rows[i], Start, end)
           IN  /\ read \in Lives /\ life \in Lives
               /\ Open(i) => life = read
               /\ Complete(i) => life = NoLife /\ read = FillsRead(i)
  <1>. DEFINE before == Aggregate(rows[i], Start, mark.read)
              delta == Aggregate(rows[i], mark.read, end)
              read == Aggregate(rows[i], Start, end)
  <1>1. CenterInv /\ MarkInv /\ LifeInv
    BY DEF IntraInv
  <1>2. /\ mark.read \in Int /\ Start \in Int /\ Start =< mark.read
        /\ rows[i] \in Seq(Row) /\ Ascending(rows[i])
    BY <1>1, RowsAre, Numbers DEF MarkInv
  <1>3. read = Merged(before, delta)
    BY <1>2, AggregateSplit
  <1>4. before \in Lives /\ delta \in Lives /\ read \in Lives
    BY <1>2, AggregateType
  <1>5. FillsRead(i) = before /\ Delta(i, mark.read, end) = delta
    BY DEF FillsRead, Delta
  <1>6. Merged(lifecycle[i], delta) \in Lives
    <2>1. lifecycle[i] \in Lives
      BY <1>1 DEF LifeInv
    <2>. QED  BY <1>4, <2>1, MergedIs
  <1>7. Open(i) => Merged(lifecycle[i], delta) = read
    BY <1>3, <1>5 DEF Open
  <1>8. ASSUME Complete(i)
        PROVE  Merged(lifecycle[i], delta) = NoLife /\ read = before
    <2>1. PICK k \in DOMAIN rows[i] :
            rows[i][k].terminal /\ rows[i][k].src + Lag < mark.read
      BY <1>8 DEF Complete
    <2>2. \A l \in DOMAIN rows[i] : ~Inside(rows[i][l], mark.read, end)
      <3>. SUFFICES ASSUME NEW l \in DOMAIN rows[i]
           PROVE  ~Inside(rows[i][l], mark.read, end)
        OBVIOUS
      <3>1. rows[i][l].src =< rows[i][k].src + Lag /\ rows[i][l].src \in Nat
            /\ rows[i][k].src \in Nat
        BY <1>1, <2>1, RowsAre
      <3>. QED  BY <1>2, <2>1, <3>1, Numbers DEF Inside
    <2>3. delta = NoLife
      BY <1>2, <2>2, NothingInside
    <2>4. lifecycle[i] = NoLife
      BY <1>8 DEF Complete
    <2>. HIDE DEF delta, before, read
    <2>. QED  BY <1>3, <1>4, <2>3, <2>4, MergedIs, LifeCounts
  <1>. QED  BY <1>4, <1>5, <1>6, <1>7, <1>8

(* What is ready is complete: the reorder window covers the late rows. *)
LEMMA ReadyIsComplete ==
    ASSUME IntraInv, Lag =< Reorder, NEW end \in Int, mark.read =< end,
           NEW released \in Int, Behindhand(released, end), NEW i \in Orders,
           LET life == Merged(lifecycle[i], Delta(i, mark.read, end))
           IN  life.count > 0 /\ life.terminal /\ life.last =< released
    PROVE  /\ Open(i) /\ Aggregate(rows[i], Start, end) \in Life
           /\ Created(i) \in Nat
           /\ \E k \in DOMAIN rows[i] : rows[i][k].terminal /\ rows[i][k].src + Lag < end
  <1>. DEFINE life == Merged(lifecycle[i], Delta(i, mark.read, end))
              read == Aggregate(rows[i], Start, end)
  <1>1. CenterInv /\ MarkInv /\ LifeInv
    BY DEF IntraInv
  <1>2. /\ read \in Lives /\ life \in Lives
        /\ Open(i) => life = read
        /\ Complete(i) => life = NoLife
    BY LivesAre
  <1>3. life.count > 0 /\ life.terminal /\ life.last =< released
    OBVIOUS
  <1>4. /\ Start \in Int /\ rows[i] \in Seq(Row)
        /\ \A k \in DOMAIN rows[i] : rows[i][k].src \in Nat
    BY <1>1, RowsAre, Numbers
  <1>. HIDE DEF life
  <1>5. life # NoLife
    BY <1>3, LifeCounts
  <1>6. Open(i) /\ life = read
    BY <1>1, <1>2, <1>5 DEF LifeInv
  <1>7. read \in Life /\ read.terminal /\ read.last =< released /\ read.last \in Nat
    <2>1. read \in Life
      BY <1>2, <1>5, <1>6 DEF Lives
    <2>. HIDE DEF read
    <2>. QED  BY <1>3, <1>6, <2>1 DEF Life
  <1>8. PICK k \in DOMAIN rows[i] : Inside(rows[i][k], Start, end) /\ rows[i][k].terminal
    BY <1>4, <1>7, AggregateTells
  <1>9. rows[i][k].src =< read.last
    BY <1>4, <1>8, AggregateTells
  <1>10. rows[i][k].src \in Nat /\ Start =< rows[i][k].src
    BY <1>4, <1>8 DEF Inside
  <1>. HIDE DEF read
  <1>11. released =< end - Reorder - 1
    BY <1>4, <1>7, <1>9, <1>10, Numbers DEF Behindhand
  <1>12. rows[i][k].src + Lag < end
    BY <1>7, <1>9, <1>10, <1>11, Numbers
  <1>13. Created(i) \in Nat
    <2>1. rows[i] \in Seq(Row) /\ rows[i] # <<>>
      BY <1>4, <1>8
    <2>2. 1 \in DOMAIN rows[i] /\ Head(rows[i]) = rows[i][1]
      BY <2>1
    <2>. QED  BY <1>4, <2>2 DEF Created
  <1>. QED  BY <1>6, <1>7, <1>8, <1>12, <1>13 DEF read

(* margin_finalized_watermark stays behind every pending order. *)
LEMMA FinalizedIsBehind ==
    ASSUME NEW table \in OrderTable, NEW life \in [Orders -> Lives],
           NEW released \in Int, Start - 1 =< released,
           NEW i \in Pending(table)
    PROVE  table[i].src > Finalized(table, life, released)
  <1>. DEFINE
     A == {table[j].src - 1 : j \in {k \in Margin : table[k] # NoOrder /\ table[k].rem > 0}}
     B == {life[j].first - 1 : j \in {k \in Orders : life[k].count > 0 /\ life[k].fill > 0}}
     S == {released} \cup A \cup B
  <1>1. \A j \in Margin : table[j] # NoOrder => table[j].src \in Nat
    <2>1. \A o \in Order : o.src \in Nat
      BY DEF Order
    <2>. QED  BY <2>1 DEF OrderTable
  <1>2. \A j \in Orders : life[j].count > 0 => life[j].first \in Nat
    <2>1. \A a \in Life : a.first \in Nat
      BY DEF Life
    <2>2. NoLife.count = 0
      BY LifeCounts
    <2>. QED  BY <2>1, <2>2 DEF Lives
  <1>3. \A n \in Nat : n - 1 \in Time
    BY DEF Time, Absent
  <1>4. released \in Time
    BY Numbers DEF Time, Absent
  <1>5. A \subseteq Time /\ B \subseteq Time
    BY <1>1, <1>2, <1>3
  <1>6. S \subseteq Time /\ S # {} /\ S \subseteq Int
    BY <1>4, <1>5 DEF Time, Absent
  <1>7. PICK m : IsMin(m, S)
    BY <1>6, MinExists
  <1>8. Min(S) = m
    BY <1>6, <1>7, MinIs
  <1>9. Finalized(table, life, released) = m
    BY <1>8 DEF Finalized
  <1>10. i \in Margin /\ table[i] # NoOrder /\ table[i].rem > 0
    BY DEF Pending
  <1>11. table[i].src - 1 \in S /\ table[i].src \in Nat
    BY <1>1, <1>10
  <1>12. m =< table[i].src - 1 /\ m \in Int
    BY <1>6, <1>7, <1>11 DEF IsMin
  <1>. QED  BY <1>9, <1>11, <1>12

(* The batch of a transaction whose cursor did not move. *)
Lived(p) ==
    [i \in Orders |-> Merged(lifecycle[i], Delta(i, proc[p].start, proc[p].end))]

LEMMA BatchIs ==
    ASSUME IntraInv, Lag =< Reorder, NEW p \in Procs, proc[p].pc = "commit",
           CursorUnmoved(p), NEW life, life = Lived(p),
           NEW ready, ready = Ready(life, proc[p].released)
    PROVE  LET end == proc[p].end
               released == proc[p].released
           IN  /\ end \in Int /\ released \in Int /\ mark.read =< end /\ end =< now
               /\ Start =< end /\ Behindhand(released, end) /\ mark.read \in Int
               /\ \A i \in Orders :
                    /\ life[i] = Merged(lifecycle[i], Delta(i, mark.read, end))
                    /\ life[i] \in Lives
               /\ \A i \in ready :
                    /\ Open(i) /\ Aggregate(rows[i], Start, end) \in Life
                    /\ \E k \in DOMAIN rows[i] :
                         rows[i][k].terminal /\ rows[i][k].src + Lag < end
                    /\ life[i] = Aggregate(rows[i], Start, end)
               /\ Batch(ready, life)
  <1>. DEFINE end == proc[p].end
              released == proc[p].released
  <1>1. /\ CenterInv /\ MarkInv /\ ProcInv /\ LifeInv
    BY DEF IntraInv
  <1>2. mark.read = proc[p].start
    BY DEF CursorUnmoved
  <1>3. /\ end \in Int /\ released \in Int /\ mark.read =< end /\ end =< now
        /\ Start =< end /\ Behindhand(released, end) /\ mark.read \in Int
    BY <1>1, <1>2, Numbers DEF ProcInv, MarkInv
  <1>4. \A i \in Orders : life[i] = Merged(lifecycle[i], Delta(i, mark.read, end))
    BY <1>2 DEF Lived
  <1>6. \A i \in Orders :
          i \in ready <=> life[i].count > 0 /\ life[i].terminal /\ life[i].last =< released
    BY DEF Ready
  <1>7. ready \subseteq Orders /\ life = [i \in Orders |-> life[i]]
    BY DEF Ready, Lived
  <1>9. \A i \in Orders : life[i] \in Lives
    BY <1>3, <1>4, LivesAre
  <1>10. ASSUME NEW i \in ready
         PROVE  /\ Open(i) /\ Aggregate(rows[i], Start, end) \in Life
                /\ Created(i) \in Nat
                /\ \E k \in DOMAIN rows[i] :
                     rows[i][k].terminal /\ rows[i][k].src + Lag < end
                /\ life[i] = Aggregate(rows[i], Start, end)
    <2>1. i \in Orders
      BY <1>7
    <2>2. life[i].count > 0 /\ life[i].terminal /\ life[i].last =< released
      BY <1>6, <2>1
    <2>3. LET x == Merged(lifecycle[i], Delta(i, mark.read, end))
          IN  x.count > 0 /\ x.terminal /\ x.last =< released
      BY <1>4, <2>1, <2>2
    <2>. HIDE DEF end, released
    <2>4. /\ Open(i) /\ Aggregate(rows[i], Start, end) \in Life
          /\ Created(i) \in Nat
          /\ \E k \in DOMAIN rows[i] :
               rows[i][k].terminal /\ rows[i][k].src + Lag < end
      BY <1>3, <2>1, <2>3, ReadyIsComplete
    <2>5. life[i] = Aggregate(rows[i], Start, end)
      BY <1>3, <1>4, <2>1, <2>4, LivesAre
    <2>. QED  BY <2>4, <2>5
  <1>. HIDE DEF end, released
  <1>11. Batch(ready, life)
    <2>1. life \in [Orders -> Lives]
      BY <1>7, <1>9
    <2>2. ASSUME NEW i \in ready
          PROVE  /\ life[i] \in Life
                 /\ i \in Margin => orders[i] = NoOrder
                 /\ i \in Futures => hedges[i] = NoHedge /\ Created(i) \in Nat
      BY <1>10 DEF Open
    <2>. QED  BY <1>7, <2>1, <2>2 DEF Batch
  <1>. QED  BY <1>3, <1>4, <1>9, <1>10, <1>11 DEF end, released

(* The synthesis transaction. *)
LEMMA CommitIntra ==
    ASSUME IntraInv, Lag =< Reorder, NEW p \in Procs, Commit(p)
    PROVE  IntraInv'
  <1>. DEFINE life == Lived(p)
              ready == Ready(life, proc[p].released)
              end == proc[p].end
              released == proc[p].released
  <1>1. /\ CenterInv /\ MarkInv /\ ProcInv /\ LifeInv /\ TablesGood(orders, hedges)
    BY DEF IntraInv
  <1>2. /\ proc[p].pc = "commit" /\ CursorUnmoved(p)
        /\ lifecycle' = Unreleased(life, ready)
        /\ orders' = Upserted(Matched(ready, life).held)
        /\ hedges' = Inserted(Matched(ready, life).done)
        /\ mark' = AdvancedMark(p, orders', lifecycle')
        /\ proc' = [proc EXCEPT ![p] = Idle]
        /\ now' = now /\ rows' = rows
    BY DEF Commit, Lived
  <1>3. /\ end \in Int /\ released \in Int /\ mark.read =< end /\ end =< now
        /\ Start =< end /\ Behindhand(released, end) /\ mark.read \in Int
    BY <1>2, BatchIs
  <1>4. \A i \in Orders : life[i] = Merged(lifecycle[i], Delta(i, mark.read, end))
    BY <1>2, BatchIs
  <1>5. mark'.read = end /\ mark'.released = released
        /\ mark'.finalized = Finalized(orders', lifecycle', released)
    BY <1>2 DEF AdvancedMark
  <1>9. \A i \in Orders : life[i] \in Lives
    BY <1>2, BatchIs
  <1>10. \A i \in ready :
           /\ Open(i) /\ Aggregate(rows[i], Start, end) \in Life
           /\ \E k \in DOMAIN rows[i] :
                rows[i][k].terminal /\ rows[i][k].src + Lag < end
           /\ life[i] = Aggregate(rows[i], Start, end)
    BY <1>2, BatchIs
  <1>11. Batch(ready, life)
    BY <1>2, BatchIs
  <1>8. /\ orders' = Upserted(Matched(ready, life).held)
        /\ hedges' = Inserted(Matched(ready, life).done)
        /\ lifecycle' = Unreleased(life, ready)
    BY <1>2
  <1>. HIDE DEF life, ready, end, released
  <1>12. /\ TablesGood(orders', hedges')
         /\ \A i \in Margin :
              /\ orders[i] # NoOrder =>
                   orders'[i] # NoOrder /\ orders'[i].fill = orders[i].fill
              /\ i \in Events(ready, life) =>
                   orders'[i] # NoOrder /\ orders'[i].fill = life[i].fill
              /\ orders[i] = NoOrder /\ i \notin Events(ready, life) =>
                   orders'[i] = NoOrder
         /\ \A i \in Futures :
              /\ hedges[i] # NoHedge => hedges'[i] = hedges[i]
              /\ i \in Events(ready, life) =>
                   hedges'[i] # NoHedge /\ hedges'[i].amount = life[i].fill
              /\ hedges[i] = NoHedge /\ i \notin Events(ready, life) =>
                   hedges'[i] = NoHedge
    BY <1>1, <1>8, <1>11, TablesAfter
  <1>13. CenterInv'
    BY <1>1, <1>2 DEF CenterInv
  <1>14. MarkInv'
    BY <1>2, <1>3, <1>5 DEF MarkInv, Behindhand
  <1>15. ProcInv'
    BY <1>1, <1>2 DEF ProcInv, Behindhand, Idle
  <1>16. \A i \in Orders : lifecycle'[i] = IF i \in ready THEN NoLife ELSE life[i]
    BY <1>8 DEF Unreleased
  <1>17. lifecycle' \in [Orders -> Lives]
    BY <1>8, <1>9, LifeCounts DEF Unreleased
  <1>18. \A i \in Orders : FillsRead(i)' = Aggregate(rows[i], Start, end)
    BY <1>2, <1>5 DEF FillsRead, Delta
  <1>19. ASSUME NEW i \in Orders
         PROVE  Open(i)' \/ Complete(i)'
    <2>. DEFINE read == Aggregate(rows[i], Start, end)
    <2>1. /\ read \in Lives /\ life[i] \in Lives
          /\ Open(i) => life[i] = read
          /\ Complete(i) => life[i] = NoLife /\ read = FillsRead(i)
      BY <1>3, <1>4, LivesAre
    <2>2. FillsRead(i)' = read
      BY <1>18
    <2>3. CASE i \in ready
      <3>1. /\ Open(i) /\ read \in Life /\ life[i] = read
            /\ \E k \in DOMAIN rows[i] :
                 rows[i][k].terminal /\ rows[i][k].src + Lag < end
        BY <1>10, <2>3
      <3>. HIDE DEF read
      <3>2. lifecycle'[i] = NoLife
        BY <1>16, <2>3
      <3>3. \E k \in DOMAIN rows'[i] :
              rows'[i][k].terminal /\ rows'[i][k].src + Lag < mark'.read
        BY <1>2, <1>5, <3>1
      <3>4. ASSUME i \in Margin  PROVE orders'[i].fill = read.fill
        <4>1. orders[i] = NoOrder /\ i \notin Futures
          BY <3>1, <3>4 DEF Open, Futures
        <4>2. CASE life[i].fill > 0
          <5>1. i \in Events(ready, life)
            BY <2>3, <4>2 DEF Events
          <5>. QED  BY <1>12, <3>1, <3>4, <5>1
        <4>3. CASE ~(life[i].fill > 0)
          <5>1. i \notin Events(ready, life)
            BY <4>1, <4>3 DEF Events
          <5>2. orders'[i] = NoOrder
            BY <1>12, <3>4, <4>1, <5>1
          <5>3. read.fill \in Nat
            BY <3>1 DEF Life
          <5>4. read.fill = 0
            BY <3>1, <4>3, <5>3
          <5>. QED  BY <5>2, <5>4, RowsAreReal
        <4>. QED  BY <4>2, <4>3
      <3>5. ASSUME i \in Futures
            PROVE  hedges'[i] # NoHedge /\ hedges'[i].amount = read.fill
        <4>1. i \in Events(ready, life)
          BY <2>3, <3>5 DEF Events
        <4>. QED  BY <1>12, <3>1, <3>5, <4>1
      <3>6. Complete(i)'
        BY <2>2, <3>1, <3>2, <3>3, <3>4, <3>5 DEF Complete
      <3>. QED  BY <3>6
    <2>4. CASE i \notin ready
      <3>1. i \notin Events(ready, life)
        BY <2>4 DEF Events
      <3>2. lifecycle'[i] = life[i]
        BY <1>16, <2>4
      <3>. HIDE DEF read
      <3>3. CASE Open(i)
        <4>1. /\ i \in Margin => orders'[i] = NoOrder
              /\ i \in Futures => hedges'[i] = NoHedge
          BY <1>12, <3>1, <3>3 DEF Open
        <4>2. Open(i)'
          BY <2>1, <2>2, <3>2, <3>3, <4>1 DEF Open
        <4>. QED  BY <4>2
      <3>4. CASE Complete(i)
        <4>1. PICK k \in DOMAIN rows[i] :
                rows[i][k].terminal /\ rows[i][k].src + Lag < mark.read
          BY <3>4 DEF Complete
        <4>2. rows[i][k].src \in Nat
          BY <1>1, <4>1, RowsAre
        <4>3. rows[i][k].src + Lag < end
          BY <1>3, <4>1, <4>2, Numbers
        <4>4. \E l \in DOMAIN rows'[i] :
                rows'[i][l].terminal /\ rows'[i][l].src + Lag < mark'.read
          BY <1>2, <1>5, <4>1, <4>3
        <4>5. ASSUME i \in Margin  PROVE orders'[i].fill = read.fill
          <5>1. orders[i].fill = read.fill
            BY <2>1, <3>4, <4>5 DEF Complete
          <5>2. CASE orders[i] = NoOrder
            BY <1>12, <3>1, <4>5, <5>1, <5>2
          <5>3. CASE orders[i] # NoOrder
            BY <1>12, <4>5, <5>1, <5>3
          <5>. QED  BY <5>2, <5>3
        <4>6. ASSUME i \in Futures
              PROVE  hedges'[i] # NoHedge /\ hedges'[i].amount = read.fill
          BY <1>12, <2>1, <3>4, <4>6 DEF Complete
        <4>7. read \in Life /\ lifecycle'[i] = NoLife
          BY <2>1, <3>2, <3>4 DEF Complete
        <4>8. Complete(i)'
          BY <2>2, <4>4, <4>5, <4>6, <4>7 DEF Complete
        <4>. QED  BY <4>8
      <3>. QED  BY <1>1, <3>3, <3>4 DEF LifeInv
    <2>. QED  BY <2>3, <2>4
  <1>20. LifeInv'
    BY <1>17, <1>19 DEF LifeInv
  <1>21. ASSUME NEW i \in Pending(orders')
         PROVE  orders'[i].src > mark'.finalized
    <2>1. orders' \in OrderTable
      BY <1>12 DEF TablesGood
    <2>2. Start - 1 =< released
      BY <1>3 DEF Behindhand
    <2>3. orders'[i].src > Finalized(orders', lifecycle', released)
      BY <1>3, <1>17, <2>1, <2>2, FinalizedIsBehind
    <2>. QED  BY <1>5, <2>3
  <1>22. PendingOrders' = Pending(orders')
    BY DEF PendingOrders, Pending
  <1>. QED  BY <1>12, <1>13, <1>14, <1>15, <1>20, <1>21, <1>22 DEF IntraInv

LEMMA NextIntra ==
    ASSUME IntraInv, Lag =< Reorder, [Next]_vars  PROVE  IntraInv'
  <1>1. CASE Tick
    BY <1>1, TickIntra
  <1>2. ASSUME NEW p \in Procs, ProcStep(p)  PROVE IntraInv'
    <2>1. CASE \E d \in Behind, rebuild \in BOOLEAN : Launch(p, now - 1 - d, rebuild)
      BY <2>1, LaunchIntra
    <2>2. CASE Reset(p)
      BY <2>2, ResetIntra
    <2>3. CASE Load(p)
      BY <2>3, LoadIntra
    <2>4. CASE Commit(p)
      BY <2>4, CommitIntra
    <2>5. CASE Abort(p)
      BY <2>5, AbortIntra
    <2>. QED  BY <1>2, <2>1, <2>2, <2>3, <2>4, <2>5 DEF ProcStep
  <1>3. CASE UNCHANGED vars
    <2>1. /\ now' = now /\ UNCHANGED <<now, rows, tables>> /\ proc' = proc
      BY <1>3 DEF vars, tables
    <2>2. ProcInv'
      BY <2>1 DEF IntraInv, ProcInv, Behindhand
    <2>. QED  BY <2>1, <2>2, OnlyProc
  <1>. QED  BY <1>1, <1>2, <1>3 DEF Next

LEMMA InvConserves ==
    ASSUME IntraInv  PROVE  FillsConserved
  <1>1. CenterInv /\ MarkInv /\ LifeInv /\ TablesGood(orders, hedges)
    BY DEF IntraInv
  <1>2. FillsCountedOnce
    <2>. SUFFICES ASSUME NEW i \in Orders
         PROVE
           LET read == FillsRead(i)
               release == IF i \in Margin THEN orders[i].fill
                          ELSE IF hedges[i] = NoHedge THEN 0
                          ELSE hedges[i].amount
               open == IF lifecycle[i].count = 0 THEN 0 ELSE lifecycle[i].fill
           IN  open + release = IF read.count = 0 THEN 0 ELSE read.fill
      BY DEF FillsCountedOnce
    <2>1. i \in Margin \/ i \in Futures
      BY DEF Futures
    <2>2. FillsRead(i) \in Lives
      <3>1. rows[i] \in Seq(Row)
        BY <1>1, RowsAre
      <3>. QED  BY <3>1, AggregateType DEF FillsRead, Delta
    <2>3. FillsRead(i) \in Life => FillsRead(i).fill \in Nat /\ FillsRead(i).count # 0
      BY DEF Life
    <2>4. NoLife.count = 0 /\ NoOrder.fill = 0
      BY LifeCounts, RowsAreReal
    <2>5. i \notin Margin <=> i \in Futures
      BY DEF Futures
    <2>6. CASE Open(i)
      <3>1. lifecycle[i] = FillsRead(i)
        BY <2>6 DEF Open
      <3>2. (IF i \in Margin THEN orders[i].fill
             ELSE IF hedges[i] = NoHedge THEN 0 ELSE hedges[i].amount) = 0
        BY <2>4, <2>5, <2>6 DEF Open
      <3>. QED  BY <2>2, <2>3, <2>4, <3>1, <3>2 DEF Lives
    <2>7. CASE Complete(i)
      <3>1. lifecycle[i].count = 0
        BY <2>4, <2>7 DEF Complete
      <3>2. (IF i \in Margin THEN orders[i].fill
             ELSE IF hedges[i] = NoHedge THEN 0 ELSE hedges[i].amount)
              = FillsRead(i).fill
        BY <2>5, <2>7 DEF Complete
      <3>3. FillsRead(i) \in Life
        BY <2>7 DEF Complete
      <3>. QED  BY <2>3, <3>1, <3>2, <3>3
    <2>. QED  BY <1>1, <2>6, <2>7 DEF LifeInv
  <1>3. AmountsConserved
    <2>1. ASSUME NEW i \in Margin, orders[i] # NoOrder
          PROVE  /\ orders[i].fill = orders[i].rem + orders[i].cam + orders[i].net
                 /\ orders[i].rem >= 0
      <3>1. orders[i] \in Order /\ Balanced(orders[i])
        BY <1>1, <2>1 DEF TablesGood, OrderTable, AllBalanced
      <3>2. orders[i].rem \in Nat
        BY <3>1 DEF Order
      <3>. QED  BY <3>1, <3>2 DEF Balanced
    <2>2. \A S : /\ Netted(S) = NetOf(orders, S) /\ Closed(S) = CamOf(orders, S)
                 /\ Allocated(S) = AllocOf(hedges, S)
      BY DEF Netted, NetOf, Closed, CamOf, Allocated, AllocOf
    <2>3. /\ NetOf(orders, Buys) = NetOf(orders, Orders \ Buys)
          /\ CamOf(orders, Buys) = AllocOf(hedges, Orders \ Buys)
          /\ CamOf(orders, Orders \ Buys) = AllocOf(hedges, Buys)
      BY <1>1 DEF TablesGood
    <2>. QED  BY <2>1, <2>2, <2>3 DEF AmountsConserved
  <1>4. \A i, j \in PendingOrders : ~Opposite(i, j)
    BY <1>1, PendingIs DEF TablesGood
  <1>. QED  BY <1>2, <1>3, <1>4 DEF FillsConserved

LEMMA InvPending ==
    ASSUME IntraInv  PROVE  PendingIsOpen
  <1>1. TablesGood(orders, hedges) /\ \A i \in PendingOrders : orders[i].src > mark.finalized
    BY DEF IntraInv
  <1>. SUFFICES ASSUME NEW i \in PendingOrders
       PROVE /\ orders[i].n = Cardinality(HedgesOf(i))
             /\ HedgesOf(i) # {} =>
                  orders[i].hts = Min({hedges[h].create : h \in HedgesOf(i)})
             /\ orders[i].fts = Max({hedges[h].fts : h \in HedgesOf(i)} \cup {Absent})
    BY <1>1 DEF PendingIsOpen
  <1>2. Knows(orders[i], i, hedges) /\ hedges \in HedgeTable
    BY <1>1, PendingIs DEF TablesGood
  <1>. DEFINE K == Known(hedges, i)
              C == {hedges[h].create : h \in K}
              F == {hedges[h].fts : h \in K} \cup {Absent}
  <1>3. HedgesOf(i) = K
    BY DEF HedgesOf, Known
  <1>4. \A h \in K : hedges[h].create \in Nat /\ hedges[h].fts \in Time
    BY <1>2, KnownIs
  <1>5. C \subseteq Int /\ F \subseteq Int
    BY <1>4 DEF Time, Absent
  <1>6. orders[i].n = Cardinality(K)
    BY <1>2 DEF Knows
  <1>7. ASSUME K # {}  PROVE orders[i].hts = Min(C)
    <2>1. IsMin(orders[i].hts, C)
      BY <1>2, <1>7 DEF Knows
    <2>. QED  BY <1>5, <2>1, MinIs
  <1>8. orders[i].fts = Max(F)
    <2>1. IsMax(orders[i].fts, F)
      BY <1>2 DEF Knows
    <2>. QED  BY <1>5, <2>1, MaxIs
  <1>. QED  BY <1>3, <1>6, <1>7, <1>8

(* The duplicate Margin event that apply_margin refuses never comes. *)
NothingRefused ==
    \A p \in Procs :
        LET life == Lived(p)
            ready == Ready(life, proc[p].released)
        IN  proc[p].pc = "commit" /\ CursorUnmoved(p) =>
              ~Matched(ready, life).failed

LEMMA InvAccepts ==
    ASSUME IntraInv, Lag =< Reorder  PROVE  NothingRefused
  <1>. SUFFICES ASSUME NEW p \in Procs, proc[p].pc = "commit", CursorUnmoved(p)
       PROVE  ~Matched(Ready(Lived(p), proc[p].released), Lived(p)).failed
    BY DEF NothingRefused
  <1>. DEFINE life == Lived(p)
              ready == Ready(life, proc[p].released)
  <1>1. Batch(ready, life)
    BY BatchIs
  <1>2. TablesGood(orders, hedges)
    BY DEF IntraInv
  <1>. HIDE DEF life, ready
  <1>3. EngineInv(Matched(ready, life), Events(ready, life), ready, life)
    BY <1>1, <1>2, MatchedIs
  <1>4. Matched(ready, life).failed = FALSE
    BY <1>3, EngineTypes
  <1>. QED  BY <1>4 DEF life, ready

(* The rows of an order that follow its terminal one are not later than    *)
(* the reorder window.                                                     *)
LagWithinReorder == Lag =< Reorder

(***************************************************************************)
(* The inductive invariant holds of every instance: an order is still      *)
(* collected, its lifecycle the aggregate of its rows behind the cursor,   *)
(* or released complete; and the tables balance (main, COMMIT).            *)
(***************************************************************************)
THEOREM TablesAgreeWithRows ==
    ASSUME LagWithinReorder  PROVE  Spec => []IntraInv
  <1>1. Init => IntraInv
    BY InitIntra
  <1>2. IntraInv /\ [Next]_vars => IntraInv'
    BY NextIntra DEF LagWithinReorder
  <1>. QED  BY <1>1, <1>2, PTL DEF Spec

(***************************************************************************)
(* Each fill behind the cursor is counted once, matching creates and loses *)
(* nothing, and buys and sells are never pending together, for any orders, *)
(* kinds of rows, processes, batches and rebuilds (apply_margin,           *)
(* apply_futures, upsert_lifecycles).                                      *)
(***************************************************************************)
THEOREM MatchingConservesFills ==
    ASSUME LagWithinReorder  PROVE  Spec => []FillsConserved
  <1>1. Spec => []IntraInv
    BY TablesAgreeWithRows
  <1>2. IntraInv => FillsConserved
    BY InvConserves
  <1>. QED  BY <1>1, <1>2, PTL

(***************************************************************************)
(* A pending order is ahead of the finalized watermark and knows the       *)
(* number, earliest creation and latest fill of all its hedges, whichever  *)
(* came first (record_hedge_order, load_hedge_history).                    *)
(***************************************************************************)
THEOREM PendingKnowsItsHedges ==
    ASSUME LagWithinReorder  PROVE  Spec => []PendingIsOpen
  <1>1. Spec => []IntraInv
    BY TablesAgreeWithRows
  <1>2. IntraInv => PendingIsOpen
    BY InvPending
  <1>. QED  BY <1>1, <1>2, PTL

(***************************************************************************)
(* The engine never refuses a batch whose cursor did not move: a released  *)
(* order does not become ready again ("duplicate Margin fkey").            *)
(***************************************************************************)
THEOREM NoBatchIsRefused ==
    ASSUME LagWithinReorder  PROVE  Spec => []NothingRefused
  <1>1. Spec => []IntraInv
    BY TablesAgreeWithRows
  <1>2. IntraInv => NothingRefused
    BY InvAccepts DEF LagWithinReorder
  <1>. QED  BY <1>1, <1>2, PTL
=============================================================================
