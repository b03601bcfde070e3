------------------------------ MODULE FiniteSums ------------------------------
(***************************************************************************)
(* Lemmas the other proofs share: least elements, from which what is       *)
(* defined by recursion is shown step by step, and sums over finite sets,  *)
(* as SumFunctionOnSet of the community modules computes them.             *)
(*                                                                         *)
(* That sum picks the elements of a set in some order and adds them up.    *)
(* The lemmas below show that the order does not matter, and from that     *)
(* what happens to a sum when some of its terms change.                    *)
(***************************************************************************)
EXTENDS Integers, Sequences, FiniteSets, SequencesExt,
        FiniteSetTheorems, SequenceTheorems, WellFoundedInduction, TLAPS

(* A set of natural numbers has a least element.                            *)
LEMMA LeastNumber ==
  ASSUME NEW S \in SUBSET Nat, S # {}
  PROVE  \E n \in S : \A m \in S : n <= m
<1>1. PICK n \in S : \A m \in S : ~ (<<m, n>> \in OpToRel(<, Nat))
  BY NatLessThanWellFounded, WFMin, Zenon
<1>2. \A m \in S : ~ (m < n)
  BY <1>1, Zenon DEF OpToRel
<1> QED BY <1>2

(* A set of subsets of a finite set has a minimal element.                  *)
LEMMA LeastSubset ==
  ASSUME NEW S, IsFiniteSet(S), NEW B \in SUBSET SUBSET S, B # {}
  PROVE  \E T \in B : \A U \in B : U \subseteq T => U = T
<1> DEFINE Sizes == {Cardinality(T) : T \in B}
<1>1. \A T \in B : IsFiniteSet(T) /\ Cardinality(T) \in Nat
  BY FS_Subset, FS_CardinalityType
<1>2. Sizes \in SUBSET Nat /\ Sizes # {}
  BY <1>1
<1>3. PICK n \in Sizes : \A m \in Sizes : n <= m
  <2> HIDE DEF Sizes
  <2> QED BY <1>2, LeastNumber
<1>4. PICK T \in B : Cardinality(T) = n
  BY <1>3
<1>5. ASSUME NEW U \in B, U \subseteq T PROVE U = T
  <2>1. Cardinality(T) <= Cardinality(U)
    BY <1>3, <1>4
  <2>2. Cardinality(U) <= Cardinality(T) /\ (Cardinality(T) = Cardinality(U) => T = U)
    BY <1>1, <1>5, FS_Subset
  <2> QED BY <1>1, <2>1, <2>2
<1> QED BY <1>5

-----------------------------------------------------------------------------
(* The sum as it is computed                                                *)

Sum(f, I) == SumFunctionOnSet(f, I)

First(s) == CHOOSE x \in s : TRUE

Summing(u, f, I) ==
  u = [s \in SUBSET I |-> IF s = {} THEN 0 ELSE f[First(s)] + u[s \ {First(s)}]]

LEMMA FirstIsIn == \A s : s # {} => First(s) \in s
BY DEF First

LEMMA SummingUnique ==
  ASSUME NEW f, NEW I, IsFiniteSet(I), NEW J \in SUBSET I, NEW u, NEW v,
         Summing(u, f, I), Summing(v, f, J)
  PROVE  \A s \in SUBSET J : u[s] = v[s]
<1> DEFINE Bad == {s \in SUBSET J : u[s] # v[s]}
<1> SUFFICES ASSUME Bad # {} PROVE FALSE
  OBVIOUS
<1>1. PICK s \in Bad : \A t \in Bad : t \subseteq s => t = s
  <2>1. IsFiniteSet(J) /\ Bad \in SUBSET SUBSET J
    BY FS_Subset
  <2> HIDE DEF Bad
  <2> QED BY <2>1, LeastSubset
<1>2. s \in SUBSET J /\ s \in SUBSET I /\ u[s] # v[s]
  BY <1>1
<1>3. s # {}
  BY <1>2 DEF Summing
<1>4. First(s) \in s
  BY <1>3, FirstIsIn
<1>5. s \ {First(s)} \notin Bad /\ s \ {First(s)} \in SUBSET J
  <2> HIDE DEF Bad
  <2> QED BY <1>1, <1>2, <1>4
<1>6. u[s \ {First(s)}] = v[s \ {First(s)}]
  BY <1>5
<1>7. u[s] = f[First(s)] + u[s \ {First(s)}] /\ v[s] = f[First(s)] + v[s \ {First(s)}]
  BY <1>2, <1>3 DEF Summing
<1> QED BY <1>2, <1>6, <1>7

LEMMA SumIsLast ==
  ASSUME NEW f, NEW I, \E u : Summing(u, f, I)
  PROVE  \E u : Summing(u, f, I) /\ Sum(f, I) = u[I]
<1>1. \E u : u = [s \in SUBSET I |-> IF s = {} THEN 0
                    ELSE f[CHOOSE x \in s : TRUE] + u[s \ {CHOOSE x \in s : TRUE}]]
  BY DEF Summing, First
<1> DEFINE u == CHOOSE u : u = [s \in SUBSET I |-> IF s = {} THEN 0
                    ELSE f[CHOOSE x \in s : TRUE] + u[s \ {CHOOSE x \in s : TRUE}]]
<1>2. u = [s \in SUBSET I |-> IF s = {} THEN 0
                    ELSE f[CHOOSE x \in s : TRUE] + u[s \ {CHOOSE x \in s : TRUE}]]
  BY <1>1
<1>3. Sum(f, I) = u[I]
  BY DEF Sum, SumFunctionOnSet, FoldFunctionOnSet, MapThenFoldSet
<1> HIDE DEF u
<1>4. Summing(u, f, I)
  BY <1>2 DEF Summing, First
<1> QED BY <1>3, <1>4

LEMMA SummingExists ==
  ASSUME NEW f, NEW I, IsFiniteSet(I)
  PROVE  \E u : Summing(u, f, I)
<1> DEFINE Bad == {J \in SUBSET I : ~ \E u : Summing(u, f, J)}
<1> SUFFICES ASSUME Bad # {} PROVE FALSE
  OBVIOUS
<1>1. PICK J \in Bad : \A T \in Bad : T \subseteq J => T = J
  <2>1. Bad \in SUBSET SUBSET I
    OBVIOUS
  <2> HIDE DEF Bad
  <2> QED BY <2>1, LeastSubset
<1>2. J \in SUBSET I /\ ~ \E u : Summing(u, f, J)
  BY <1>1
<1> DEFINE U(T) == CHOOSE u : Summing(u, f, T)
<1>3. ASSUME NEW T \in SUBSET J, T # J PROVE Summing(U(T), f, T)
  <2>1. T \notin Bad
    <3> HIDE DEF Bad
    <3> QED BY <1>1, <1>3
  <2>2. \E u : Summing(u, f, T)
    BY <1>2, <1>3, <2>1
  <2> QED BY <2>2
<1> HIDE DEF U, Bad
<1> DEFINE u == [s \in SUBSET J |-> IF s = {} THEN 0
                    ELSE f[First(s)] + U(s \ {First(s)})[s \ {First(s)}]]
<1>4. ASSUME NEW s \in SUBSET J, s # {}
      PROVE  u[s] = f[First(s)] + u[s \ {First(s)}]
  <2> DEFINE t == s \ {First(s)}
  <2>1. First(s) \in s
    BY <1>4, FirstIsIn
  <2>2. t \in SUBSET J /\ t # J
    BY <2>1
  <2>3. u[s] = f[First(s)] + U(t)[t]
    BY <1>4
  <2>4. Summing(U(t), f, t)
    <3> HIDE DEF t
    <3> QED BY <2>2, <1>3
  <2>5. CASE t = {}
    <3>1. U(t)[t] = 0
      <4> HIDE DEF t
      <4> QED BY <2>4, <2>5 DEF Summing
    <3>2. u[t] = 0
      BY <2>5
    <3> QED BY <2>3, <3>1, <3>2
  <2>6. CASE t # {}
    <3> DEFINE r == t \ {First(t)}
    <3>1. First(t) \in t
      BY <2>6, FirstIsIn
    <3>2. r \in SUBSET t /\ r \in SUBSET J /\ r # J
      BY <3>1, <2>2
    <3>3. Summing(U(r), f, r)
      <4> HIDE DEF r
      <4> QED BY <3>2, <1>3
    <3>4. u[t] = f[First(t)] + U(r)[r]
      BY <2>2, <2>6
    <3>5. U(t)[t] = f[First(t)] + U(t)[r]
      <4> HIDE DEF t
      <4> QED BY <2>4, <2>6 DEF Summing
    <3>6. U(t)[r] = U(r)[r]
      <4>1. IsFiniteSet(t)
        BY <2>2, <1>2, FS_Subset
      <4> HIDE DEF t, r
      <4> QED BY <2>4, <3>3, <3>2, <4>1, SummingUnique
    <3> QED BY <2>3, <3>4, <3>5, <3>6
  <2> QED BY <2>5, <2>6
<1>5. u[{}] = 0
  OBVIOUS
<1>6. DOMAIN u = SUBSET J /\ u = [s \in DOMAIN u |-> u[s]]
  OBVIOUS
<1> HIDE DEF u
<1>7. Summing(u, f, J)
  <2> DEFINE v == [s \in SUBSET J |-> IF s = {} THEN 0 ELSE f[First(s)] + u[s \ {First(s)}]]
  <2>1. \A s \in SUBSET J : v[s] = u[s]
    BY <1>4, <1>5
  <2>2. u = v
    BY <2>1, <1>6
  <2> QED BY <2>2 DEF Summing
<1> QED BY <1>7, <1>2

LEMMA SumEmpty == \A f : Sum(f, {}) = 0
<1> SUFFICES ASSUME NEW f PROVE Sum(f, {}) = 0
  OBVIOUS
<1>1. PICK u : Summing(u, f, {}) /\ Sum(f, {}) = u[{}]
  BY SummingExists, SumIsLast, FS_EmptySet
<1> QED BY <1>1 DEF Summing

LEMMA SumFirst ==
  ASSUME NEW f, NEW I, IsFiniteSet(I), I # {}
  PROVE  Sum(f, I) = f[First(I)] + Sum(f, I \ {First(I)})
<1> DEFINE J == I \ {First(I)}
<1>1. PICK u : Summing(u, f, I) /\ Sum(f, I) = u[I]
  BY SummingExists, SumIsLast
<1>2. IsFiniteSet(J) /\ J \in SUBSET I
  BY FS_Subset
<1> HIDE DEF J
<1>3. PICK v : Summing(v, f, J) /\ Sum(f, J) = v[J]
  BY <1>2, SummingExists, SumIsLast
<1>4. u[J] = v[J]
  BY <1>1, <1>2, <1>3, SummingUnique
<1>5. u[I] = f[First(I)] + u[J]
  BY <1>1 DEF Summing, J
<1> QED BY <1>1, <1>3, <1>4, <1>5 DEF J

-----------------------------------------------------------------------------
(* The order does not matter                                                *)

(* A sum of integers is an integer.                                         *)
LEMMA SumType ==
  ASSUME NEW I, IsFiniteSet(I), NEW f, \A x \in I : f[x] \in Int
  PROVE  Sum(f, I) \in Int
<1> DEFINE Bad == {J \in SUBSET I : Sum(f, J) \notin Int}
<1> SUFFICES ASSUME Bad # {} PROVE FALSE
  OBVIOUS
<1>1. PICK J \in Bad : \A T \in Bad : T \subseteq J => T = J
  <2>1. Bad \in SUBSET SUBSET I
    OBVIOUS
  <2> HIDE DEF Bad
  <2> QED BY <2>1, LeastSubset
<1>2. J \in SUBSET I /\ Sum(f, J) \notin Int
  BY <1>1
<1>3. J # {}
  BY <1>2, SumEmpty
<1>4. First(J) \in J
  BY <1>3, FirstIsIn
<1>5. Sum(f, J) = f[First(J)] + Sum(f, J \ {First(J)})
  BY <1>2, <1>3, FS_Subset, SumFirst
<1>6. J \ {First(J)} \notin Bad /\ J \ {First(J)} \in SUBSET I
  <2> HIDE DEF Bad
  <2> QED BY <1>1, <1>2, <1>4
<1>7. Sum(f, J \ {First(J)}) \in Int
  BY <1>6
<1>8. f[First(J)] \in Int
  BY <1>2, <1>4
<1> QED BY <1>2, <1>5, <1>7, <1>8

(* Any element may be the one that is added.                                *)
LEMMA SumRemove ==
  ASSUME NEW I, IsFiniteSet(I), NEW f, \A x \in I : f[x] \in Int, NEW a \in I
  PROVE  Sum(f, I) = f[a] + Sum(f, I \ {a})
<1> DEFINE Bad == {J \in SUBSET I : \E x \in J : Sum(f, J) # f[x] + Sum(f, J \ {x})}
<1> SUFFICES ASSUME Bad # {} PROVE FALSE
  OBVIOUS
<1>1. PICK J \in Bad : \A T \in Bad : T \subseteq J => T = J
  <2>1. Bad \in SUBSET SUBSET I
    OBVIOUS
  <2> HIDE DEF Bad
  <2> QED BY <2>1, LeastSubset
<1>2. J \in SUBSET I
  BY <1>1
<1>3. PICK x \in J : Sum(f, J) # f[x] + Sum(f, J \ {x})
  BY <1>1
<1>4. ASSUME NEW T \in SUBSET J, T # J, NEW z \in T
      PROVE  Sum(f, T) = f[z] + Sum(f, T \ {z})
  <2>1. T \notin Bad /\ T \in SUBSET I
    <3> HIDE DEF Bad
    <3> QED BY <1>1, <1>2, <1>4
  <2> QED BY <2>1
<1> HIDE DEF Bad
<1>5. PICK y \in J : y = First(J)
  BY FirstIsIn
<1>6. \A T \in SUBSET J : IsFiniteSet(T) /\ Sum(f, T) \in Int
  <2> SUFFICES ASSUME NEW T \in SUBSET J PROVE IsFiniteSet(T) /\ Sum(f, T) \in Int
    OBVIOUS
  <2>1. IsFiniteSet(T) /\ \A z \in T : f[z] \in Int
    BY <1>2, FS_Subset
  <2> QED BY <2>1, SumType
<1>7. Sum(f, J) = f[y] + Sum(f, J \ {y})
  <2>1. IsFiniteSet(J) /\ J # {}
    BY <1>6
  <2> QED BY <1>5, <2>1, SumFirst
<1>8. x # y
  BY <1>3, <1>7
<1> DEFINE R == J \ {x, y}
<1>9. Sum(f, J \ {y}) = f[x] + Sum(f, R)
  <2>1. (J \ {y}) \ {x} = R
    OBVIOUS
  <2>2. J \ {y} \in SUBSET J /\ J \ {y} # J /\ x \in J \ {y}
    BY <1>8
  <2> HIDE DEF R
  <2> QED BY <2>1, <2>2, <1>4
<1>10. Sum(f, J \ {x}) = f[y] + Sum(f, R)
  <2>1. (J \ {x}) \ {y} = R
    OBVIOUS
  <2>2. J \ {x} \in SUBSET J /\ J \ {x} # J /\ y \in J \ {x}
    BY <1>8
  <2> HIDE DEF R
  <2> QED BY <2>1, <2>2, <1>4
<1>11. f[x] \in Int /\ f[y] \in Int /\ Sum(f, R) \in Int
  BY <1>2, <1>6
<1>12. Sum(f, J) = f[x] + Sum(f, J \ {x})
  <2> HIDE DEF R
  <2> QED BY <1>7, <1>9, <1>10, <1>11
<1> QED BY <1>3, <1>12

(* An element that is not there yet is added.                               *)
LEMMA SumAdd ==
  ASSUME NEW I, IsFiniteSet(I), NEW a, a \notin I,
         NEW f, \A x \in I \cup {a} : f[x] \in Int
  PROVE  Sum(f, I \cup {a}) = f[a] + Sum(f, I)
<1> DEFINE J == I \cup {a}
<1>1. IsFiniteSet(J) /\ a \in J /\ \A x \in J : f[x] \in Int
  BY FS_AddElement
<1>2. J \ {a} = I
  OBVIOUS
<1> HIDE DEF J
<1>3. Sum(f, J) = f[a] + Sum(f, J \ {a})
  BY <1>1, SumRemove
<1> QED BY <1>2, <1>3 DEF J

(* Only the terms count.                                                    *)
LEMMA SumSame ==
  ASSUME NEW I, IsFiniteSet(I), NEW f, NEW h, \A x \in I : f[x] = h[x]
  PROVE  Sum(f, I) = Sum(h, I)
<1> DEFINE Bad == {J \in SUBSET I : Sum(f, J) # Sum(h, J)}
<1> SUFFICES ASSUME Bad # {} PROVE FALSE
  OBVIOUS
<1>1. PICK J \in Bad : \A T \in Bad : T \subseteq J => T = J
  <2>1. Bad \in SUBSET SUBSET I
    OBVIOUS
  <2> HIDE DEF Bad
  <2> QED BY <2>1, LeastSubset
<1>2. J \in SUBSET I /\ Sum(f, J) # Sum(h, J)
  BY <1>1
<1>3. J # {}
  BY <1>2, SumEmpty
<1>4. First(J) \in J
  BY <1>3, FirstIsIn
<1>5. /\ Sum(f, J) = f[First(J)] + Sum(f, J \ {First(J)})
      /\ Sum(h, J) = h[First(J)] + Sum(h, J \ {First(J)})
  BY <1>2, <1>3, FS_Subset, SumFirst
<1>6. J \ {First(J)} \notin Bad /\ J \ {First(J)} \in SUBSET I
  <2> HIDE DEF Bad
  <2> QED BY <1>1, <1>2, <1>4
<1>7. Sum(f, J \ {First(J)}) = Sum(h, J \ {First(J)})
  BY <1>6
<1>8. f[First(J)] = h[First(J)]
  BY <1>2, <1>4
<1> QED BY <1>2, <1>5, <1>7, <1>8

-----------------------------------------------------------------------------
(* Terms that change                                                        *)

(* One term changes.                                                        *)
LEMMA SumChange ==
  ASSUME NEW I, IsFiniteSet(I), NEW a \in I,
         NEW f, \A x \in I : f[x] \in Int, NEW h, h[a] \in Int,
         \A x \in I : x # a => h[x] = f[x]
  PROVE  Sum(h, I) = Sum(f, I) + h[a] - f[a]
<1>1. IsFiniteSet(I \ {a})
  BY FS_Subset
<1>2. \A x \in I : h[x] \in Int
  OBVIOUS
<1>3. Sum(h, I \ {a}) = Sum(f, I \ {a})
  BY <1>1, SumSame
<1>4. Sum(f, I) = f[a] + Sum(f, I \ {a}) /\ Sum(h, I) = h[a] + Sum(h, I \ {a})
  BY <1>2, SumRemove
<1>5. Sum(f, I \ {a}) \in Int
  BY <1>1, SumType
<1> QED BY <1>3, <1>4, <1>5

(* Two terms change.                                                        *)
LEMMA SumChangeTwo ==
  ASSUME NEW I, IsFiniteSet(I), NEW a \in I, NEW b \in I, a # b,
         NEW f, \A x \in I : f[x] \in Int, NEW h, h[a] \in Int, h[b] \in Int,
         \A x \in I : x \notin {a, b} => h[x] = f[x]
  PROVE  Sum(h, I) = Sum(f, I) + (h[a] - f[a]) + (h[b] - f[b])
<1>1. IsFiniteSet(I \ {a}) /\ b \in I \ {a}
  BY FS_Subset
<1>2. \A x \in I : h[x] \in Int
  OBVIOUS
<1>3. Sum(h, I \ {a}) = Sum(f, I \ {a}) + h[b] - f[b]
  BY <1>1, SumChange
<1>4. Sum(f, I) = f[a] + Sum(f, I \ {a}) /\ Sum(h, I) = h[a] + Sum(h, I \ {a})
  BY <1>2, SumRemove
<1>5. Sum(f, I \ {a}) \in Int
  BY <1>1, SumType
<1> QED BY <1>3, <1>4, <1>5

(* A sum is at most that of larger terms.                                   *)
LEMMA SumMonotone ==
  ASSUME NEW I, IsFiniteSet(I), NEW f, NEW h,
         \A x \in I : f[x] \in Int /\ h[x] \in Int /\ f[x] <= h[x]
  PROVE  Sum(f, I) <= Sum(h, I)
<1> DEFINE Bad == {J \in SUBSET I : ~ (Sum(f, J) <= Sum(h, J))}
<1> SUFFICES ASSUME Bad # {} PROVE FALSE
  OBVIOUS
<1>1. PICK J \in Bad : \A T \in Bad : T \subseteq J => T = J
  <2>1. Bad \in SUBSET SUBSET I
    OBVIOUS
  <2> HIDE DEF Bad
  <2> QED BY <2>1, LeastSubset
<1>2. J \in SUBSET I /\ ~ (Sum(f, J) <= Sum(h, J))
  BY <1>1
<1>3. J # {}
  BY <1>2, SumEmpty
<1>4. First(J) \in J
  BY <1>3, FirstIsIn
<1>5. /\ Sum(f, J) = f[First(J)] + Sum(f, J \ {First(J)})
      /\ Sum(h, J) = h[First(J)] + Sum(h, J \ {First(J)})
  BY <1>2, <1>3, FS_Subset, SumFirst
<1> DEFINE R == J \ {First(J)}
<1>6. R \notin Bad /\ R \in SUBSET I
  <2> HIDE DEF Bad
  <2> QED BY <1>1, <1>2, <1>4
<1>7. Sum(f, R) <= Sum(h, R)
  BY <1>6
<1>8. Sum(f, R) \in Int /\ Sum(h, R) \in Int
  <2>1. IsFiniteSet(R) /\ \A x \in R : f[x] \in Int /\ h[x] \in Int
    BY <1>6, FS_Subset
  <2> HIDE DEF R
  <2> QED BY <2>1, SumType
<1>9. f[First(J)] \in Int /\ h[First(J)] \in Int /\ f[First(J)] <= h[First(J)]
  BY <1>2, <1>4
<1> HIDE DEF R, Bad
<1>10. Sum(f, J) <= Sum(h, J)
  BY <1>5, <1>7, <1>8, <1>9 DEF R
<1> QED BY <1>2, <1>10

(* A sum of zeros is zero.                                                  *)
LEMMA SumZero ==
  ASSUME NEW I, IsFiniteSet(I), NEW f, \A x \in I : f[x] = 0
  PROVE  Sum(f, I) = 0
<1> DEFINE Bad == {J \in SUBSET I : Sum(f, J) # 0}
<1> SUFFICES ASSUME Bad # {} PROVE FALSE
  OBVIOUS
<1>1. PICK J \in Bad : \A T \in Bad : T \subseteq J => T = J
  <2>1. Bad \in SUBSET SUBSET I
    OBVIOUS
  <2> HIDE DEF Bad
  <2> QED BY <2>1, LeastSubset
<1>2. J \in SUBSET I /\ Sum(f, J) # 0
  BY <1>1
<1>3. J # {}
  BY <1>2, SumEmpty
<1>4. First(J) \in J
  BY <1>3, FirstIsIn
<1>5. Sum(f, J) = f[First(J)] + Sum(f, J \ {First(J)})
  BY <1>2, <1>3, FS_Subset, SumFirst
<1>6. J \ {First(J)} \notin Bad /\ J \ {First(J)} \in SUBSET I
  <2> HIDE DEF Bad
  <2> QED BY <1>1, <1>2, <1>4
<1>7. Sum(f, J \ {First(J)}) = 0
  BY <1>6
<1>8. f[First(J)] = 0
  BY <1>2, <1>4
<1> QED BY <1>2, <1>5, <1>7, <1>8

(* A sum of natural numbers is one, and at least each of its terms.         *)
LEMMA SumNat ==
  ASSUME NEW I, IsFiniteSet(I), NEW f, \A x \in I : f[x] \in Nat
  PROVE  Sum(f, I) \in Nat /\ \A a \in I : f[a] <= Sum(f, I)
<1>1. ASSUME NEW J \in SUBSET I PROVE Sum(f, J) \in Nat
  <2> DEFINE z == [x \in J |-> 0]
  <2>1. IsFiniteSet(J) /\ \A x \in J : f[x] \in Int /\ z[x] = 0 /\ z[x] \in Int /\ z[x] <= f[x]
    BY FS_Subset
  <2> HIDE DEF z
  <2>2. Sum(z, J) = 0 /\ Sum(z, J) <= Sum(f, J)
    BY <2>1, SumZero, SumMonotone
  <2>3. Sum(f, J) \in Int
    BY <2>1, SumType
  <2> QED BY <2>2, <2>3
<1>2. ASSUME NEW a \in I PROVE f[a] <= Sum(f, I)
  <2>1. Sum(f, I) = f[a] + Sum(f, I \ {a})
    BY SumRemove
  <2>2. Sum(f, I \ {a}) \in Nat
    BY <1>1
  <2> QED BY <2>1, <2>2
<1> QED BY <1>1, <1>2

(* Sums are added term by term.                                             *)
LEMMA SumPlus ==
  ASSUME NEW I, IsFiniteSet(I), NEW f, NEW h, NEW k,
         \A x \in I : f[x] \in Int /\ h[x] \in Int /\ k[x] = f[x] + h[x]
  PROVE  Sum(k, I) = Sum(f, I) + Sum(h, I)
<1> DEFINE Bad == {J \in SUBSET I : Sum(k, J) # Sum(f, J) + Sum(h, J)}
<1> SUFFICES ASSUME Bad # {} PROVE FALSE
  OBVIOUS
<1>1. PICK J \in Bad : \A T \in Bad : T \subseteq J => T = J
  <2>1. Bad \in SUBSET SUBSET I
    OBVIOUS
  <2> HIDE DEF Bad
  <2> QED BY <2>1, LeastSubset
<1>2. J \in SUBSET I /\ Sum(k, J) # Sum(f, J) + Sum(h, J)
  BY <1>1
<1>3. J # {}
  <2>1. Sum(k, {}) = 0 /\ Sum(f, {}) = 0 /\ Sum(h, {}) = 0
    BY SumEmpty
  <2>2. Sum(k, {}) = Sum(f, {}) + Sum(h, {})
    BY <2>1
  <2> QED BY <1>2, <2>2
<1>4. First(J) \in J
  BY <1>3, FirstIsIn
<1> DEFINE R == J \ {First(J)}
<1>5. /\ Sum(f, J) = f[First(J)] + Sum(f, R)
      /\ Sum(h, J) = h[First(J)] + Sum(h, R)
      /\ Sum(k, J) = k[First(J)] + Sum(k, R)
  BY <1>2, <1>3, FS_Subset, SumFirst
<1>6. R \notin Bad /\ R \in SUBSET I
  <2> HIDE DEF Bad
  <2> QED BY <1>1, <1>2, <1>4
<1>7. Sum(k, R) = Sum(f, R) + Sum(h, R)
  BY <1>6
<1>8. Sum(f, R) \in Int /\ Sum(h, R) \in Int
  <2>1. IsFiniteSet(R) /\ \A x \in R : f[x] \in Int /\ h[x] \in Int
    BY <1>6, FS_Subset
  <2> HIDE DEF R
  <2> QED BY <2>1, SumType
<1>9. /\ f[First(J)] \in Int /\ h[First(J)] \in Int
      /\ k[First(J)] = f[First(J)] + h[First(J)]
  BY <1>2, <1>4
<1> HIDE DEF R, Bad
<1>10. Sum(k, J) = Sum(f, J) + Sum(h, J)
  BY <1>5, <1>7, <1>8, <1>9
<1> QED BY <1>2, <1>10

-----------------------------------------------------------------------------
(* Sums over a sequence                                                     *)

(* The last term.                                                           *)
LEMMA SumUpTo ==
  ASSUME NEW n \in Nat, NEW f, \A i \in 1..(n+1) : f[i] \in Int
  PROVE  Sum(f, 1..(n+1)) = Sum(f, 1..n) + f[n+1]
<1> DEFINE I == 1..n
           J == 1..(n+1)
<1>1. IsFiniteSet(I) /\ n+1 \notin I /\ J = I \cup {n+1}
  BY FS_Interval
<1>2. \A x \in I \cup {n+1} : f[x] \in Int
  BY <1>1
<1> HIDE DEF I, J
<1>3. Sum(f, I \cup {n+1}) = f[n+1] + Sum(f, I)
  BY <1>1, <1>2, SumAdd
<1>4. Sum(f, I) \in Int /\ f[n+1] \in Int
  BY <1>1, <1>2, SumType
<1>5. Sum(f, J) = Sum(f, I) + f[n+1]
  BY <1>1, <1>3, <1>4
<1> QED BY <1>5 DEF I, J

(* One of the terms is taken out, and those behind it move up.              *)
LEMMA SumDrop ==
  ASSUME NEW n \in Nat, NEW k \in 1..(n+1),
         NEW f, \A i \in 1..(n+1) : f[i] \in Int,
         NEW h, \A i \in 1..n : h[i] = IF i < k THEN f[i] ELSE f[i+1]
  PROVE  Sum(h, 1..n) = Sum(f, 1..(n+1)) - f[k]
<1> DEFINE Bad == {m \in (k-1)..n : Sum(h, 1..m) # Sum(f, 1..(m+1)) - f[k]}
<1>0. SUFFICES ASSUME Bad # {} PROVE FALSE
  <2>1. n \in (k-1)..n
    OBVIOUS
  <2> QED BY <2>1
<1>1. PICK m \in Bad : \A i \in Bad : m <= i
  <2>1. Bad \in SUBSET Nat
    OBVIOUS
  <2> HIDE DEF Bad
  <2> QED BY <1>0, <2>1, LeastNumber
<1>2. m \in (k-1)..n /\ Sum(h, 1..m) # Sum(f, 1..(m+1)) - f[k]
  BY <1>1
<1>3. m \in Nat /\ k \in Nat /\ n \in Nat /\ k - 1 <= m /\ m <= n /\ 1 <= k
  BY <1>2
<1>4. \A i \in 1..n : h[i] \in Int
  <2> SUFFICES ASSUME NEW i \in 1..n PROVE h[i] \in Int
    OBVIOUS
  <2>1. i \in 1..(n+1) /\ i+1 \in 1..(n+1)
    OBVIOUS
  <2> QED BY <2>1
<1>5. CASE m = k - 1
  <2>1. Sum(f, 1..(m+1)) = Sum(f, 1..m) + f[m+1]
    <3>1. \A i \in 1..(m+1) : f[i] \in Int
      BY <1>3
    <3> QED BY <1>3, <3>1, SumUpTo
  <2>2. Sum(h, 1..m) = Sum(f, 1..m)
    <3>1. IsFiniteSet(1..m)
      BY <1>3, FS_Interval
    <3>2. \A i \in 1..m : h[i] = f[i]
      BY <1>3, <1>5
    <3> QED BY <3>1, <3>2, SumSame
  <2>3. Sum(f, 1..m) \in Int /\ f[k] \in Int /\ m + 1 = k
    <3>1. IsFiniteSet(1..m)
      BY <1>3, FS_Interval
    <3>2. \A i \in 1..m : f[i] \in Int
      BY <1>3
    <3> QED BY <1>3, <1>5, <3>1, <3>2, SumType
  <2> QED BY <1>2, <2>1, <2>2, <2>3
<1>6. CASE m # k - 1
  <2> DEFINE j == m - 1
  <2>1. j \in Nat /\ j \in (k-1)..n /\ m = j + 1 /\ j < m
    BY <1>3, <1>6
  <2>2. Sum(h, 1..j) = Sum(f, 1..(j+1)) - f[k]
    <3>1. j \notin Bad
      <4>1. \A i \in Bad : i \in Nat
        OBVIOUS
      <4> HIDE DEF Bad, j
      <4> QED BY <1>1, <2>1, <1>3, <4>1
    <3> HIDE DEF j
    <3> QED BY <2>1, <3>1
  <2> HIDE DEF j, Bad
  <2>3. Sum(h, 1..(j+1)) = Sum(h, 1..j) + h[j+1]
    <3>1. \A i \in 1..(j+1) : h[i] \in Int
      BY <1>3, <1>4, <2>1
    <3> QED BY <2>1, <3>1, SumUpTo
  <2>4. Sum(f, 1..((j+1)+1)) = Sum(f, 1..(j+1)) + f[(j+1)+1]
    <3>1. \A i \in 1..((j+1)+1) : f[i] \in Int
      BY <1>3, <2>1
    <3>2. j + 1 \in Nat
      BY <2>1
    <3> HIDE <1>1, <1>2
    <3> QED BY <3>1, <3>2, SumUpTo
  <2>5. h[j+1] = f[(j+1)+1]
    <3>1. j + 1 \in 1..n /\ ~ (j + 1 < k)
      BY <1>3, <2>1, <1>6
    <3> QED BY <3>1
  <2>6. Sum(f, 1..(j+1)) \in Int /\ f[k] \in Int /\ f[(j+1)+1] \in Int
    <3>1. IsFiniteSet(1..(j+1))
      BY <2>1, FS_Interval
    <3>2. \A i \in 1..(j+1) : f[i] \in Int
      BY <1>3, <2>1
    <3>3. (j+1)+1 \in 1..(n+1)
      BY <1>3, <2>1
    <3> QED BY <3>1, <3>2, <3>3, SumType
  <2>7. Sum(h, 1..m) = Sum(f, 1..(m+1)) - f[k]
    BY <2>1, <2>2, <2>3, <2>4, <2>5, <2>6
  <2> QED BY <1>2, <2>7
<1> QED BY <1>5, <1>6

LEMMA SumFunctionIs == \A f : SumFunction(f) = Sum(f, DOMAIN f)
BY DEF SumFunction, Sum

(* What there are is as many as the ones that count for one.                *)
LEMMA CountIsSum ==
  ASSUME NEW I, IsFiniteSet(I), NEW J \in SUBSET I, NEW f,
         \A x \in I : f[x] = IF x \in J THEN 1 ELSE 0
  PROVE  Cardinality(J) = Sum(f, I)
<1> DEFINE Bad == {T \in SUBSET I : Cardinality(T \cap J) # Sum(f, T)}
<1>0. SUFFICES ASSUME Bad # {} PROVE FALSE
  <2>1. I \in SUBSET I /\ I \cap J = J
    OBVIOUS
  <2> QED BY <2>1
<1>1. PICK T \in Bad : \A U \in Bad : U \subseteq T => U = T
  <2>1. Bad \in SUBSET SUBSET I
    OBVIOUS
  <2> HIDE DEF Bad
  <2> QED BY <1>0, <2>1, LeastSubset
<1>2. T \in SUBSET I /\ Cardinality(T \cap J) # Sum(f, T)
  BY <1>1
<1>3. T # {}
  <2>1. Cardinality({}) = 0 /\ Sum(f, {}) = 0
    BY FS_EmptySet, SumEmpty
  <2>2. {} \cap J = {}
    OBVIOUS
  <2> QED BY <1>2, <2>1, <2>2
<1>4. PICK x : x \in T
  BY <1>3
<1> DEFINE R == T \ {x}
<1>5. R \notin Bad /\ R \in SUBSET I
  <2> HIDE DEF Bad
  <2> QED BY <1>1, <1>2, <1>4
<1>6. Cardinality(R \cap J) = Sum(f, R)
  BY <1>5
<1>7. IsFiniteSet(T) /\ IsFiniteSet(R \cap J) /\ IsFiniteSet(T \cap J)
  BY <1>2, FS_Subset
<1>8. Sum(f, T) = f[x] + Sum(f, R)
  <2>1. \A y \in T : f[y] \in Int
    BY <1>2
  <2> QED BY <2>1, <1>4, <1>7, SumRemove
<1>9. Cardinality(R \cap J) \in Nat
  BY <1>7, FS_CardinalityType
<1>10. CASE x \in J
  <2>1. T \cap J = (R \cap J) \cup {x} /\ x \notin R \cap J
    BY <1>4, <1>10
  <2> DEFINE C == R \cap J
  <2>2. IsFiniteSet(C) /\ x \notin C
    BY <1>7, <2>1
  <2> HIDE DEF C, R
  <2>3. Cardinality(C \cup {x}) = Cardinality(C) + 1
    BY <2>2, FS_AddElement
  <2>4. f[x] = 1
    BY <1>2, <1>4, <1>10
  <2>5. Cardinality(C) \in Nat /\ Cardinality(C) = Sum(f, R) /\ T \cap J = C \cup {x}
    BY <1>6, <1>9, <2>1 DEF C
  <2>6. Cardinality(T \cap J) = Sum(f, T)
    BY <1>8, <2>3, <2>4, <2>5
  <2> QED BY <1>2, <2>6
<1>11. CASE x \notin J
  <2>1. T \cap J = R \cap J
    BY <1>11
  <2>2. f[x] = 0
    BY <1>2, <1>4, <1>11
  <2> HIDE DEF R
  <2> QED BY <1>2, <1>6, <1>8, <1>9, <2>1, <2>2
<1> QED BY <1>10, <1>11

-----------------------------------------------------------------------------
(* Sequences that get longer or shorter by one                              *)

LEMMA RemoveAtIs ==
  ASSUME NEW S, NEW q \in Seq(S), NEW k \in DOMAIN q
  PROVE  /\ RemoveAt(q, k) \in Seq(S)
         /\ Len(RemoveAt(q, k)) = Len(q) - 1
         /\ \A i \in 1..(Len(q) - 1) : RemoveAt(q, k)[i] = IF i < k THEN q[i] ELSE q[i+1]
<1> DEFINE n == Len(q)
           p == SubSeq(q, 1, k-1)
           r == SubSeq(q, k+1, n)
<1>1. n \in Nat /\ k \in 1..n /\ k \in Int /\ 1 <= k /\ k <= n /\ \A i \in 1..n : q[i] \in S
  BY LenProperties
<1>2. RemoveAt(q, k) = p \o r
  BY DEF RemoveAt
<1>3. p \in Seq(S) /\ Len(p) = k - 1 /\ \A i \in 1..(k-1) : p[i] = q[i]
  <2>1. \A i \in 1..(k-1) : q[i] \in S
    BY <1>1
  <2> HIDE DEF n
  <2>2. /\ p \in Seq(S) /\ Len(p) = IF 1 <= k-1 THEN k-1-1+1 ELSE 0
        /\ \A i \in 1..(k-1-1+1) : p[i] = q[1+i-1]
    BY <1>1, <2>1, SubSeqProperties
  <2> HIDE DEF p
  <2> QED BY <1>1, <2>2
<1>4. r \in Seq(S) /\ Len(r) = n - k /\ \A i \in 1..(n-k) : r[i] = q[k+i]
  <2>1. \A i \in (k+1)..n : q[i] \in S
    BY <1>1
  <2> HIDE DEF n
  <2>2. /\ r \in Seq(S) /\ Len(r) = IF k+1 <= n THEN n-(k+1)+1 ELSE 0
        /\ \A i \in 1..(n-(k+1)+1) : r[i] = q[k+1+i-1]
    BY <1>1, <2>1, SubSeqProperties
  <2> HIDE DEF r
  <2>3. Len(r) = n - k
    BY <1>1, <2>2
  <2>4. ASSUME NEW i \in 1..(n-k) PROVE r[i] = q[k+i]
    <3>1. i \in 1..(n-(k+1)+1) /\ k+1+i-1 = k+i
      BY <1>1
    <3> QED BY <2>2, <3>1
  <2> QED BY <2>2, <2>3, <2>4
<1>5. /\ p \o r \in Seq(S) /\ Len(p \o r) = Len(p) + Len(r)
      /\ \A i \in 1..(Len(p) + Len(r)) : (p \o r)[i] = IF i <= Len(p) THEN p[i] ELSE r[i - Len(p)]
  <2> HIDE DEF p, r
  <2> QED BY <1>3, <1>4, ConcatProperties
<1> HIDE DEF n, p, r
<1> DEFINE w == p \o r
<1>6. Len(w) = n - 1
  BY <1>1, <1>3, <1>4, <1>5
<1>7. ASSUME NEW i \in 1..(n - 1)
      PROVE  w[i] = IF i < k THEN q[i] ELSE q[i+1]
  <2>1. i \in 1..(Len(p) + Len(r))
    BY <1>1, <1>3, <1>4
  <2>2. w[i] = IF i <= Len(p) THEN p[i] ELSE r[i - Len(p)]
    BY <1>5, <2>1
  <2> HIDE DEF w
  <2>3. CASE i < k
    <3>1. i <= Len(p) /\ i \in 1..(k-1)
      BY <1>1, <1>3, <2>3
    <3> QED BY <1>3, <2>2, <2>3, <3>1
  <2>4. CASE ~ (i < k)
    <3>1. ~ (i <= Len(p)) /\ i - Len(p) \in 1..(n-k) /\ k + (i - Len(p)) = i + 1
      BY <1>1, <1>3, <2>4
    <3> QED BY <1>4, <2>2, <2>4, <3>1
  <2> QED BY <2>3, <2>4
<1>8. w \in Seq(S)
  BY <1>5
<1> HIDE DEF w
<1>9. RemoveAt(q, k) = w
  BY <1>2 DEF w
<1> QED BY <1>6, <1>7, <1>8, <1>9 DEF n

(* What the members of a sequence weigh.                                    *)
SeqSum(q, W) == Sum([i \in DOMAIN q |-> W[q[i]]], DOMAIN q)

LEMMA SeqSumType ==
  ASSUME NEW S, NEW q \in Seq(S), NEW W \in [S -> Nat]
  PROVE  SeqSum(q, W) \in Nat
<1> DEFINE f == [i \in DOMAIN q |-> W[q[i]]]
<1>1. IsFiniteSet(DOMAIN q) /\ \A i \in DOMAIN q : q[i] \in S
  BY LenProperties, FS_Interval
<1>2. \A i \in DOMAIN q : f[i] \in Nat
  BY <1>1
<1> HIDE DEF f
<1>3. Sum(f, DOMAIN q) \in Nat
  BY <1>1, <1>2, SumNat
<1> QED BY <1>3 DEF SeqSum, f

LEMMA SeqSumEmpty == \A W : SeqSum(<<>>, W) = 0
<1> SUFFICES ASSUME NEW W PROVE SeqSum(<<>>, W) = 0
  OBVIOUS
<1> DEFINE f == [i \in DOMAIN <<>> |-> W[<<>>[i]]]
<1>1. DOMAIN <<>> = {}
  OBVIOUS
<1>2. Sum(f, DOMAIN <<>>) = 0
  <2> HIDE DEF f
  <2> QED BY <1>1, SumEmpty
<1> QED BY <1>2 DEF SeqSum

LEMMA SeqSumAppend ==
  ASSUME NEW S, NEW q \in Seq(S), NEW m \in S, NEW W \in [S -> Nat]
  PROVE  SeqSum(Append(q, m), W) = SeqSum(q, W) + W[m]
<1> DEFINE n == Len(q)
           r == Append(q, m)
           f == [i \in DOMAIN q |-> W[q[i]]]
           h == [i \in DOMAIN r |-> W[r[i]]]
<1>1. n \in Nat /\ DOMAIN q = 1..n /\ \A i \in 1..n : q[i] \in S
  BY LenProperties
<1>2. r \in Seq(S) /\ Len(r) = n + 1 /\ r[n+1] = m /\ \A i \in 1..n : r[i] = q[i]
  BY AppendProperties
<1> HIDE DEF r
<1>3. DOMAIN r = 1..(n+1)
  BY <1>2, LenProperties
<1> HIDE DEF n
<1>4. /\ \A i \in 1..n : f[i] \in Int /\ h[i] = f[i]
      /\ h[n+1] = W[m] /\ W[m] \in Int
      /\ \A i \in 1..(n+1) : h[i] \in Int
  <2>1. \A i \in 1..(n+1) : i \in 1..n \/ i = n+1
    BY <1>1
  <2>2. \A i \in 1..n : i \in 1..(n+1)
    BY <1>1
  <2>3. n + 1 \in 1..(n+1)
    BY <1>1
  <2>4. \A i \in 1..n : W[q[i]] \in Int
    BY <1>1
  <2>5. \A i \in 1..n : f[i] \in Int /\ h[i] = f[i]
    BY <1>1, <1>2, <1>3, <2>2, <2>4
  <2>6. h[n+1] = W[m] /\ W[m] \in Int
    BY <1>2, <1>3, <2>3
  <2> HIDE DEF f, h
  <2> QED BY <2>1, <2>5, <2>6
<1>5. SeqSum(q, W) = Sum(f, 1..n) /\ SeqSum(r, W) = Sum(h, 1..(n+1))
  BY <1>1, <1>3 DEF SeqSum
<1> HIDE DEF f, h
<1>6. Sum(h, 1..(n+1)) = Sum(h, 1..n) + h[n+1]
  BY <1>1, <1>4, SumUpTo
<1>7. IsFiniteSet(1..n)
  BY <1>1, FS_Interval
<1>8. Sum(h, 1..n) = Sum(f, 1..n)
  BY <1>4, <1>7, SumSame
<1> QED BY <1>4, <1>5, <1>6, <1>8 DEF r

(* r is q without the member at k.                                          *)
Dropped(r, q, k) ==
  /\ Len(r) = Len(q) - 1
  /\ \A i \in 1..(Len(q) - 1) : r[i] = IF i < k THEN q[i] ELSE q[i+1]

LEMMA TailDrops ==
  ASSUME NEW S, NEW q \in Seq(S), q # <<>>
  PROVE  Tail(q) \in Seq(S) /\ Dropped(Tail(q), q, 1) /\ 1 \in DOMAIN q /\ Head(q) = q[1]
<1>1. Tail(q) \in Seq(S) /\ Len(Tail(q)) = Len(q) - 1 /\ \A i \in 1..Len(Tail(q)) : Tail(q)[i] = q[i+1]
  BY HeadTailProperties
<1>2. Len(q) \in Nat /\ Len(q) # 0 /\ DOMAIN q = 1..Len(q)
  BY LenProperties, EmptySeq
<1>3. Head(q) = q[1]
  OBVIOUS
<1>4. \A i \in 1..(Len(q) - 1) : Tail(q)[i] = IF i < 1 THEN q[i] ELSE q[i+1]
  BY <1>1
<1> QED BY <1>1, <1>2, <1>3, <1>4 DEF Dropped

LEMMA RemoveAtDrops ==
  ASSUME NEW S, NEW q \in Seq(S), NEW k \in DOMAIN q
  PROVE  RemoveAt(q, k) \in Seq(S) /\ Dropped(RemoveAt(q, k), q, k)
BY RemoveAtIs DEF Dropped

LEMMA SeqSumDropped ==
  ASSUME NEW S, NEW q \in Seq(S), NEW r \in Seq(S), NEW k \in DOMAIN q, Dropped(r, q, k),
         NEW W \in [S -> Nat]
  PROVE  SeqSum(r, W) = SeqSum(q, W) - W[q[k]]
<1> DEFINE n == Len(r)
           f == [i \in DOMAIN q |-> W[q[i]]]
           h == [i \in DOMAIN r |-> W[r[i]]]
<1>1. n \in Nat /\ DOMAIN r = 1..n /\ Len(q) = n + 1 /\ DOMAIN q = 1..(n+1) /\ k \in 1..(n+1)
  <2>1. Len(q) \in Nat /\ Len(r) \in Nat /\ DOMAIN q = 1..Len(q) /\ DOMAIN r = 1..Len(r)
    BY LenProperties
  <2>2. Len(r) = Len(q) - 1
    BY DEF Dropped
  <2> QED BY <2>1, <2>2
<1>2. \A i \in 1..n : r[i] = IF i < k THEN q[i] ELSE q[i+1]
  <2>1. Len(q) - 1 = n
    BY <1>1
  <2> QED BY <2>1 DEF Dropped
<1>3. \A i \in 1..(n+1) : q[i] \in S
  BY <1>1, LenProperties
<1> HIDE DEF n
<1>4. \A i \in 1..n : i \in 1..(n+1) /\ i+1 \in 1..(n+1)
  BY <1>1
<1>5. \A i \in 1..(n+1) : f[i] = W[q[i]] /\ f[i] \in Int
  <2>1. \A i \in 1..(n+1) : W[q[i]] \in Int
    BY <1>3
  <2> QED BY <1>1, <2>1
<1>6. \A i \in 1..n : h[i] = IF i < k THEN f[i] ELSE f[i+1]
  <2>1. \A i \in 1..n : h[i] = W[r[i]]
    BY <1>1
  <2> HIDE DEF f, h
  <2> SUFFICES ASSUME NEW i \in 1..n PROVE h[i] = IF i < k THEN f[i] ELSE f[i+1]
    OBVIOUS
  <2>2. f[i] = W[q[i]] /\ f[i+1] = W[q[i+1]]
    BY <1>4, <1>5
  <2>3. CASE i < k
    BY <1>2, <2>1, <2>2, <2>3
  <2>4. CASE ~ (i < k)
    BY <1>2, <2>1, <2>2, <2>4
  <2> QED BY <2>3, <2>4
<1>7. SeqSum(q, W) = Sum(f, 1..(n+1)) /\ SeqSum(r, W) = Sum(h, 1..n)
  BY <1>1 DEF SeqSum
<1> HIDE DEF f, h
<1>8. Sum(h, 1..n) = Sum(f, 1..(n+1)) - f[k]
  <2>1. \A i \in 1..(n+1) : f[i] \in Int
    BY <1>5
  <2> QED BY <1>1, <1>6, <2>1, SumDrop
<1> QED BY <1>1, <1>5, <1>7, <1>8

=============================================================================
