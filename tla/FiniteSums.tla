------------------------------ MODULE FiniteSums ------------------------------
(***************************************************************************)
(* Sums over finite sets.  The models' sums are folds, which take an       *)
(* element out of the set at a time; what a fold computes does not depend  *)
(* on which.                                                               *)
(*                                                                         *)
(* What a sum is equal to, or at most, is shown of the smallest set of     *)
(* which it would not be true.                                             *)
(***************************************************************************)
EXTENDS Integers, FunctionTheorems, FiniteSetTheorems, WellFoundedInduction, TLAPS

Item(s) == CHOOSE x \in s : TRUE

\* What the fold computes of each subset of S.
Folds(f, S, g) ==
  g = [s \in SUBSET S |-> IF s = {} THEN 0 ELSE f[Item(s)] + g[s \ {Item(s)}]]

\* g is the sum of f over the subsets of S.
Adds(f, S, g) ==
  /\ g \in [SUBSET S -> Int]
  /\ g[{}] = 0
  /\ \A s \in SUBSET S : \A x \in s : g[s] = f[x] + g[s \ {x}]

LEMMA ItemOf == ASSUME NEW s, s # {} PROVE Item(s) \in s
BY DEF Item

LEMMA LeastOf ==
  ASSUME NEW B \in SUBSET Nat, B # {}
  PROVE  \E x \in B : \A y \in B : x <= y
<1> DEFINE R == OpToRel(<, Nat)
<1>1. IsWellFoundedOn(R, Nat)
  BY NatLessThanWellFounded
<1>2. \A y, x \in Nat : <<y, x>> \in R <=> y < x
  BY DEF OpToRel
<1> HIDE DEF R
<1>3. PICK x \in B : \A y \in B : ~(<<y, x>> \in R)
  BY <1>1, WFMin
<1>4. ASSUME NEW y \in B PROVE x <= y
  <2>1. x \in Nat /\ y \in Nat
    OBVIOUS
  <2>2. ~(y < x)
    BY <1>2, <1>3, <2>1
  <2> QED
    BY <2>1, <2>2
<1> QED
  BY <1>4

\* Of sets of which some are finite, one is the smallest.
LEMMA SmallestOf ==
  ASSUME NEW S, IsFiniteSet(S), NEW B \in SUBSET (SUBSET S), B # {}
  PROVE  \E s \in B : \A t \in B : ~(Cardinality(t) < Cardinality(s))
<1>1. \A s \in B : IsFiniteSet(s) /\ Cardinality(s) \in Nat
  BY FS_Subset, FS_CardinalityType
<1>2. PICK n \in {Cardinality(s) : s \in B} : \A m \in {Cardinality(s) : s \in B} : n <= m
  <2>1. {Cardinality(s) : s \in B} \in SUBSET Nat /\ {Cardinality(s) : s \in B} # {}
    BY <1>1
  <2> QED
    BY <2>1, LeastOf
<1>3. PICK s \in B : Cardinality(s) = n
  BY <1>2
<1>4. ASSUME NEW t \in B PROVE ~(Cardinality(t) < Cardinality(s))
  <2>1. n <= Cardinality(t) /\ Cardinality(t) \in Nat /\ n \in Nat
    BY <1>1, <1>2, <1>3
  <2> QED
    BY <1>3, <2>1
<1> QED
  BY <1>4

\* A set with an element less is smaller.
LEMMA Smaller ==
  ASSUME NEW s, IsFiniteSet(s), NEW x \in s
  PROVE  /\ IsFiniteSet(s \ {x})
         /\ Cardinality(s) \in Nat /\ Cardinality(s \ {x}) \in Nat
         /\ Cardinality(s \ {x}) = Cardinality(s) - 1
         /\ Cardinality(s \ {x}) < Cardinality(s)
<1>1. IsFiniteSet(s \ {x}) /\ Cardinality(s \ {x}) = Cardinality(s) - 1
  BY FS_RemoveElement
<1>2. Cardinality(s) \in Nat /\ Cardinality(s \ {x}) \in Nat
  BY <1>1, FS_CardinalityType
<1> QED
  BY <1>1, <1>2

LEMMA FoldsExist ==
  ASSUME NEW S, IsFiniteSet(S), NEW f \in [S -> Int]
  PROVE  \E g : Folds(f, S, g)
<1> DEFINE Step(h) == [s \in SUBSET S |-> IF s = {} THEN 0 ELSE f[Item(s)] + h[s \ {Item(s)}]]
           UpTo(n, h) == \A s \in SUBSET S : Cardinality(s) <= n => h[s] = Step(h)[s]
           Good(n) == \E h \in [SUBSET S -> Int] : UpTo(n, h)
           Bad == {n \in Nat : ~Good(n)}
<1>1. \A s \in SUBSET S : IsFiniteSet(s) /\ Cardinality(s) \in Nat
  BY FS_Subset, FS_CardinalityType
<1>2. \A s \in SUBSET S : s # {} => /\ Item(s) \in S /\ s \ {Item(s)} \in SUBSET S
                                    /\ Cardinality(s \ {Item(s)}) = Cardinality(s) - 1
  BY <1>1, ItemOf, Smaller
<1>3. \A h \in [SUBSET S -> Int] : Step(h) \in [SUBSET S -> Int]
  <2> SUFFICES ASSUME NEW h \in [SUBSET S -> Int], NEW s \in SUBSET S, s # {}
               PROVE  f[Item(s)] + h[s \ {Item(s)}] \in Int
    OBVIOUS
  <2>1. f[Item(s)] \in Int /\ h[s \ {Item(s)}] \in Int
    BY <1>2
  <2> QED
    BY <2>1
<1>4. Bad = {}
  <2> SUFFICES ASSUME Bad # {} PROVE FALSE
    OBVIOUS
  <2>1. PICK n \in Bad : \A m \in Bad : n <= m
    BY LeastOf
  <2>2. CASE n = 0
    <3> DEFINE h == [s \in SUBSET S |-> 0]
    <3>1. h \in [SUBSET S -> Int]
      OBVIOUS
    <3>2. \A s \in SUBSET S : Cardinality(s) <= n => s = {}
      BY <1>1, <2>2, FS_EmptySet
    <3>3. UpTo(n, h)
      BY <3>2
    <3> QED
      BY <2>1, <3>1, <3>3
  <2>3. CASE n # 0
    <3>1. n \in Nat /\ n - 1 \in Nat /\ n - 1 \notin Bad
      <4>1. n \in Nat
        BY <2>1
      <4>2. n - 1 \in Nat /\ ~(n <= n - 1)
        BY <2>3, <4>1
      <4> HIDE DEF Bad
      <4> QED
        BY <2>1, <4>1, <4>2
    <3>2. PICK h \in [SUBSET S -> Int] : UpTo(n - 1, h)
      BY <3>1
    <3>3. Step(h) \in [SUBSET S -> Int]
      BY <1>3
    <3>4. UpTo(n, Step(h))
      <4> SUFFICES ASSUME NEW s \in SUBSET S, Cardinality(s) <= n
                   PROVE  Step(h)[s] = Step(Step(h))[s]
        OBVIOUS
      <4>1. CASE s = {}
        BY <4>1
      <4>2. CASE s # {}
        <5>1. s \ {Item(s)} \in SUBSET S /\ Cardinality(s \ {Item(s)}) <= n - 1
          BY <1>1, <1>2, <3>1, <4>2
        <5>2. h[s \ {Item(s)}] = Step(h)[s \ {Item(s)}]
          BY <3>2, <5>1
        <5> QED
          BY <4>2, <5>1, <5>2
      <4> QED
        BY <4>1, <4>2
    <3> HIDE DEF Step
    <3> QED
      BY <2>1, <3>3, <3>4
  <2> QED
    BY <2>2, <2>3
<1>5. Good(Cardinality(S))
  BY <1>1, <1>4
<1>6. PICK h \in [SUBSET S -> Int] : UpTo(Cardinality(S), h)
  BY <1>5
<1>7. \A s \in SUBSET S : h[s] = Step(h)[s]
  BY <1>6, FS_Subset
<1>8. h = Step(h)
  BY <1>3, <1>6, <1>7
<1> QED
  BY <1>8 DEF Folds

LEMMA FoldsAdd ==
  ASSUME NEW S, IsFiniteSet(S), NEW f \in [S -> Int], NEW g, Folds(f, S, g)
  PROVE  Adds(f, S, g)
<1>1. \A s \in SUBSET S : IsFiniteSet(s)
  BY FS_Subset
<1>2. /\ DOMAIN g = SUBSET S /\ g = [s \in SUBSET S |-> g[s]]
      /\ \A s \in SUBSET S : g[s] = IF s = {} THEN 0 ELSE f[Item(s)] + g[s \ {Item(s)}]
  BY DEF Folds
<1>3. ASSUME NEW s \in SUBSET S PROVE g[s] \in Int
  <2> DEFINE Bad == {t \in SUBSET S : g[t] \notin Int}
  <2> SUFFICES ASSUME Bad # {} PROVE FALSE
    OBVIOUS
  <2>1. PICK t \in Bad : \A u \in Bad : ~(Cardinality(u) < Cardinality(t))
    BY SmallestOf
  <2>2. t # {}
    <3>1. g[{}] = 0
      BY <1>2
    <3>2. g[t] # 0
      BY <2>1
    <3> QED
      BY <3>1, <3>2
  <2>3. Item(t) \in t
    BY <2>2, ItemOf
  <2>4. g[t \ {Item(t)}] \in Int
    BY <1>1, <2>1, <2>3, Smaller
  <2>5. g[t] = f[Item(t)] + g[t \ {Item(t)}] /\ f[Item(t)] \in Int
    BY <1>2, <2>1, <2>2, <2>3
  <2> QED
    BY <2>1, <2>4, <2>5
<1>4. ASSUME NEW s \in SUBSET S, NEW x \in s
      PROVE  g[s] = f[x] + g[s \ {x}]
  <2> DEFINE Bad == {t \in SUBSET S : \E y \in t : g[t] # f[y] + g[t \ {y}]}
  <2> SUFFICES ASSUME Bad # {} PROVE FALSE
    OBVIOUS
  <2>1. PICK t \in Bad : \A u \in Bad : ~(Cardinality(u) < Cardinality(t))
    BY SmallestOf
  <2>2. PICK y \in t : g[t] # f[y] + g[t \ {y}]
    BY <2>1
  <2> DEFINE z == Item(t)
  <2>3. z \in t
    BY <2>2, ItemOf
  <2>4. g[t] = f[z] + g[t \ {z}]
    BY <1>2, <2>1, <2>2
  <2>5. y # z
    BY <2>2, <2>4
  <2> HIDE DEF z
  <2>6. /\ t \ {z} \in SUBSET S /\ t \ {y} \in SUBSET S
        /\ t \ {z} \notin Bad /\ t \ {y} \notin Bad
    BY <1>1, <2>1, <2>2, <2>3, Smaller
  <2>7. g[t \ {z}] = f[y] + g[(t \ {z}) \ {y}]
    BY <2>2, <2>5, <2>6
  <2>8. g[t \ {y}] = f[z] + g[(t \ {y}) \ {z}]
    BY <2>3, <2>5, <2>6
  <2>9. (t \ {y}) \ {z} = (t \ {z}) \ {y} /\ (t \ {y}) \ {z} \in SUBSET S
    BY <2>6
  <2>10. /\ f[y] \in Int /\ f[z] \in Int /\ g[(t \ {z}) \ {y}] \in Int
    BY <1>3, <2>1, <2>3, <2>9
  <2>11. g[t] = f[z] + (f[y] + g[(t \ {z}) \ {y}])
    BY <2>4, <2>7
  <2>12. g[t \ {y}] = f[z] + g[(t \ {z}) \ {y}]
    BY <2>8, <2>9
  <2> HIDE DEF Bad
  <2>13. \A a, b, c \in Int : b + (a + c) = a + (b + c)
    OBVIOUS
  <2>14. g[t] = f[y] + g[t \ {y}]
    BY <2>10, <2>11, <2>12, <2>13
  <2> QED
    BY <2>2, <2>14
<1> QED
  BY <1>2, <1>3, <1>4 DEF Adds

\* There is a sum, and every fold computes it.
LEMMA SumExists ==
  ASSUME NEW S, IsFiniteSet(S), NEW f \in [S -> Int]
  PROVE  \E g : Adds(f, S, g)
BY FoldsExist, FoldsAdd

LEMMA SumMinus ==
  ASSUME NEW S, NEW f, NEW g, Adds(f, S, g), NEW s \in SUBSET S, NEW x \in s,
         f[x] \in Int
  PROVE  /\ s \ {x} \in SUBSET S /\ g[s] \in Int /\ g[s \ {x}] \in Int
         /\ g[s] = f[x] + g[s \ {x}]
BY DEF Adds

LEMMA SumIsInt ==
  ASSUME NEW S, NEW f, NEW g, Adds(f, S, g), NEW s \in SUBSET S
  PROVE  g[s] \in Int
BY DEF Adds

\* Larger values have the larger sum.
LEMMA SumLeq ==
  ASSUME NEW T, IsFiniteSet(T), NEW S1, NEW S2, T \subseteq S1, T \subseteq S2,
         NEW f1, NEW f2, \A c \in T : f1[c] \in Int /\ f2[c] \in Int /\ f1[c] <= f2[c],
         NEW g1, NEW g2, Adds(f1, S1, g1), Adds(f2, S2, g2)
  PROVE  g1[T] <= g2[T]
<1> DEFINE Bad == {t \in SUBSET T : ~(g1[t] <= g2[t])}
<1> SUFFICES ASSUME Bad # {} PROVE FALSE
  OBVIOUS
<1>1. PICK t \in Bad : \A u \in Bad : ~(Cardinality(u) < Cardinality(t))
  BY SmallestOf
<1>2. t \in SUBSET T /\ ~(g1[t] <= g2[t])
  BY <1>1
<1>3. t # {}
  <2>1. g1[{}] = 0 /\ g2[{}] = 0
    BY DEF Adds
  <2>2. 0 <= 0
    OBVIOUS
  <2> QED
    BY <1>2, <2>1, <2>2
<1>4. PICK x \in t : TRUE
  BY <1>3
<1>5. f1[x] \in Int /\ f2[x] \in Int /\ f1[x] <= f2[x]
  BY <1>2, <1>4
<1>6. /\ g1[t] = f1[x] + g1[t \ {x}] /\ g1[t \ {x}] \in Int
      /\ g2[t] = f2[x] + g2[t \ {x}] /\ g2[t \ {x}] \in Int
  BY <1>2, <1>4, <1>5, SumMinus
<1>7. IsFiniteSet(t) /\ t \ {x} \in SUBSET T
  BY <1>2, FS_Subset
<1>8. Cardinality(t \ {x}) < Cardinality(t)
  BY <1>4, <1>7, Smaller
<1>9. g1[t \ {x}] <= g2[t \ {x}]
  BY <1>1, <1>7, <1>8
<1> HIDE DEF Bad
<1> QED
  BY <1>2, <1>5, <1>6, <1>9

\* Equal values have one sum, whatever larger set it was made in.
LEMMA SumSame ==
  ASSUME NEW T, IsFiniteSet(T), NEW S1, NEW S2, T \subseteq S1, T \subseteq S2,
         NEW f1, NEW f2, \A c \in T : f1[c] \in Int /\ f1[c] = f2[c],
         NEW g1, NEW g2, Adds(f1, S1, g1), Adds(f2, S2, g2)
  PROVE  g1[T] = g2[T]
<1>1. \A c \in T : f2[c] \in Int /\ f1[c] <= f2[c] /\ f2[c] <= f1[c]
  OBVIOUS
<1>2. g1[T] <= g2[T]
  BY <1>1, SumLeq
<1>3. g2[T] <= g1[T]
  BY <1>1, SumLeq
<1>4. g1[T] \in Int /\ g2[T] \in Int
  BY SumIsInt
<1> QED
  BY <1>2, <1>3, <1>4

\* The sum of sums.
LEMMA SumOfSums ==
  ASSUME NEW T, IsFiniteSet(T), NEW f1, NEW f2, NEW f3,
         \A c \in T : f1[c] \in Int /\ f2[c] \in Int /\ f3[c] = f1[c] + f2[c],
         NEW g1, NEW g2, NEW g3, Adds(f1, T, g1), Adds(f2, T, g2), Adds(f3, T, g3)
  PROVE  g3[T] = g1[T] + g2[T]
<1> DEFINE Bad == {t \in SUBSET T : g3[t] # g1[t] + g2[t]}
<1> SUFFICES ASSUME Bad # {} PROVE FALSE
  OBVIOUS
<1>1. PICK t \in Bad : \A u \in Bad : ~(Cardinality(u) < Cardinality(t))
  BY SmallestOf
<1>2. t \in SUBSET T /\ g3[t] # g1[t] + g2[t]
  BY <1>1
<1>3. t # {}
  <2>1. g1[{}] = 0 /\ g2[{}] = 0 /\ g3[{}] = 0
    BY DEF Adds
  <2>2. 0 = 0 + 0
    OBVIOUS
  <2> QED
    BY <1>2, <2>1, <2>2
<1>4. PICK x \in t : TRUE
  BY <1>3
<1>5. f1[x] \in Int /\ f2[x] \in Int /\ f3[x] \in Int /\ f3[x] = f1[x] + f2[x]
  BY <1>2, <1>4
<1>6. /\ g1[t] = f1[x] + g1[t \ {x}] /\ g1[t \ {x}] \in Int
      /\ g2[t] = f2[x] + g2[t \ {x}] /\ g2[t \ {x}] \in Int
      /\ g3[t] = f3[x] + g3[t \ {x}] /\ g3[t \ {x}] \in Int
  BY <1>2, <1>4, <1>5, SumMinus
<1>7. IsFiniteSet(t) /\ t \ {x} \in SUBSET T
  BY <1>2, FS_Subset
<1>8. Cardinality(t \ {x}) < Cardinality(t)
  BY <1>4, <1>7, Smaller
<1>9. g3[t \ {x}] = g1[t \ {x}] + g2[t \ {x}]
  BY <1>1, <1>7, <1>8
<1> HIDE DEF Bad
<1> QED
  BY <1>2, <1>5, <1>6, <1>9

\* What adds nothing may be left out.
LEMMA SumWhere ==
  ASSUME NEW S, IsFiniteSet(S), NEW f, NEW g, Adds(f, S, g),
         NEW T \in SUBSET S, NEW U \in SUBSET T, \A c \in T \ U : f[c] = 0
  PROVE  g[T] = g[U]
<1> DEFINE Bad == {t \in SUBSET T : U \subseteq t /\ g[t] # g[U]}
<1> SUFFICES ASSUME Bad # {} PROVE FALSE
  OBVIOUS
<1>1. IsFiniteSet(T) /\ Bad \in SUBSET (SUBSET T)
  BY FS_Subset
<1>2. PICK t \in Bad : \A u \in Bad : ~(Cardinality(u) < Cardinality(t))
  <2> HIDE DEF Bad
  <2> QED
    BY <1>1, SmallestOf
<1>3. t \in SUBSET T /\ U \subseteq t /\ g[t] # g[U]
  BY <1>2
<1>4. PICK x \in t : x \notin U
  BY <1>3
<1>5. IsFiniteSet(t) /\ t \ {x} \in SUBSET T /\ U \subseteq t \ {x}
  BY <1>1, <1>3, <1>4, FS_Subset
<1>6. Cardinality(t \ {x}) < Cardinality(t)
  BY <1>4, <1>5, Smaller
<1>7. g[t \ {x}] = g[U]
  BY <1>2, <1>5, <1>6
<1>8. f[x] = 0 /\ f[x] \in Int /\ t \in SUBSET S
  BY <1>3, <1>4
<1> HIDE DEF Bad
<1>9. g[t] = f[x] + g[t \ {x}] /\ g[t \ {x}] \in Int
  <2>1. t \in SUBSET S /\ t \ {x} \in SUBSET S
    BY <1>8
  <2> QED
    BY <2>1 DEF Adds
<1> QED
  BY <1>3, <1>7, <1>8, <1>9

LEMMA SumOfNothing ==
  ASSUME NEW S, IsFiniteSet(S), NEW f, NEW g, Adds(f, S, g), NEW T \in SUBSET S,
         \A c \in T : f[c] = 0
  PROVE  g[T] = 0
<1>1. g[T] = g[{}]
  BY SumWhere
<1> QED
  BY <1>1 DEF Adds

\* Sums of disjoint sets.
LEMMA SumUnion ==
  ASSUME NEW S, IsFiniteSet(S), NEW f, NEW g, Adds(f, S, g), \A c \in S : f[c] \in Int,
         NEW T \in SUBSET S, NEW U \in SUBSET S, T \cap U = {}
  PROVE  g[T \cup U] = g[T] + g[U]
<1> DEFINE Bad == {t \in SUBSET T : g[t \cup U] # g[t] + g[U]}
<1> SUFFICES ASSUME Bad # {} PROVE FALSE
  OBVIOUS
<1>1. IsFiniteSet(T)
  BY FS_Subset
<1>2. PICK t \in Bad : \A u \in Bad : ~(Cardinality(u) < Cardinality(t))
  <2> HIDE DEF Bad
  <2>1. Bad \in SUBSET (SUBSET T)
    BY DEF Bad
  <2> QED
    BY <1>1, <2>1, SmallestOf
<1>3. t \in SUBSET T /\ g[t \cup U] # g[t] + g[U]
  BY <1>2
<1>4. t # {}
  <2>1. g[{}] = 0 /\ g[U] \in Int /\ {} \cup U = U
    BY DEF Adds
  <2>2. g[U] = 0 + g[U]
    BY <2>1
  <2> HIDE DEF Bad
  <2> QED
    BY <1>3, <2>1, <2>2
<1>5. PICK x \in t : TRUE
  BY <1>4
<1>6. /\ f[x] \in Int /\ x \notin U /\ t \in SUBSET S /\ t \cup U \in SUBSET S
      /\ x \in t \cup U /\ (t \cup U) \ {x} = (t \ {x}) \cup U
      /\ IsFiniteSet(t) /\ t \ {x} \in SUBSET T
  BY <1>1, <1>3, <1>5, FS_Subset
<1> HIDE DEF Bad
<1>7. /\ g[t] = f[x] + g[t \ {x}] /\ g[t \ {x}] \in Int
      /\ g[t \cup U] = f[x] + g[(t \ {x}) \cup U] /\ g[(t \ {x}) \cup U] \in Int
  <2>1. g[t] = f[x] + g[t \ {x}] /\ g[t \ {x}] \in Int
    BY <1>5, <1>6, SumMinus
  <2> DEFINE v == t \cup U
  <2>2. v \in SUBSET S /\ x \in v /\ v \ {x} = (t \ {x}) \cup U
    BY <1>6
  <2> HIDE DEF v
  <2>3. g[v] = f[x] + g[v \ {x}] /\ g[v \ {x}] \in Int
    BY <1>6, <2>2, SumMinus
  <2> QED
    BY <2>1, <2>2, <2>3 DEF v
<1>8. Cardinality(t \ {x}) < Cardinality(t)
  BY <1>5, <1>6, Smaller
<1>9. g[(t \ {x}) \cup U] = g[t \ {x}] + g[U]
  BY <1>2, <1>6, <1>8 DEF Bad
<1>10. g[U] \in Int
  BY SumIsInt
<1> QED
  BY <1>3, <1>6, <1>7, <1>9, <1>10

\* A set that has more has the larger sum, if nothing counts below zero.
LEMMA SumGrows ==
  ASSUME NEW S, IsFiniteSet(S), NEW f, NEW g, Adds(f, S, g), \A c \in S : f[c] \in Int,
         NEW U \in SUBSET S, NEW T \in SUBSET U, \A c \in U : f[c] >= 0
  PROVE  g[T] <= g[U]
<1> DEFINE h == [c \in S |-> 0]
<1>1. h \in [S -> Int]
  OBVIOUS
<1>2. PICK z : Adds(h, S, z)
  BY <1>1, SumExists
<1>3. IsFiniteSet(U \ T) /\ U \ T \in SUBSET S
  BY FS_Subset
<1>4. \A c \in U \ T : h[c] = 0 /\ h[c] \in Int /\ f[c] \in Int /\ h[c] <= f[c]
  <2> TAKE c \in U \ T
  <2>1. f[c] \in Int /\ f[c] >= 0
    OBVIOUS
  <2> QED
    BY <2>1
<1> HIDE DEF h
<1>5. z[U \ T] = 0
  BY <1>2, <1>3, <1>4, SumOfNothing
<1>6. z[U \ T] <= g[U \ T]
  BY <1>2, <1>3, <1>4, SumLeq
<1>7. g[(U \ T) \cup T] = g[U \ T] + g[T]
  <2>1. (U \ T) \cap T = {} /\ T \in SUBSET S
    OBVIOUS
  <2> QED
    BY <1>3, <2>1, SumUnion
<1>8. (U \ T) \cup T = U
  OBVIOUS
<1>9. g[T] \in Int /\ g[U \ T] \in Int
  <2>1. T \in SUBSET S
    OBVIOUS
  <2> QED
    BY <1>3, <2>1, SumIsInt
<1>10. g[U] = g[U \ T] + g[T] /\ 0 <= g[U \ T]
  BY <1>5, <1>6, <1>7, <1>8
<1> QED
  BY <1>9, <1>10

\* So much of each.
LEMMA SumOfEqual ==
  ASSUME NEW S, IsFiniteSet(S), NEW f, NEW g, Adds(f, S, g), NEW T \in SUBSET S,
         NEW a \in Int, \A c \in T : f[c] = a
  PROVE  g[T] = a * Cardinality(T)
<1> DEFINE Bad == {t \in SUBSET T : g[t] # a * Cardinality(t)}
<1> SUFFICES ASSUME Bad # {} PROVE FALSE
  OBVIOUS
<1>1. IsFiniteSet(T)
  BY FS_Subset
<1>2. PICK t \in Bad : \A u \in Bad : ~(Cardinality(u) < Cardinality(t))
  <2> HIDE DEF Bad
  <2>1. Bad \in SUBSET (SUBSET T)
    BY DEF Bad
  <2> QED
    BY <1>1, <2>1, SmallestOf
<1>3. t \in SUBSET T /\ g[t] # a * Cardinality(t)
  BY <1>2
<1>4. t # {}
  <2>1. g[{}] = 0 /\ Cardinality({}) = 0 /\ a * 0 = 0
    BY FS_EmptySet DEF Adds
  <2> QED
    BY <1>3, <2>1
<1>5. PICK x \in t : TRUE
  BY <1>4
<1>6. f[x] = a /\ t \in SUBSET S /\ IsFiniteSet(t) /\ t \ {x} \in SUBSET T
  BY <1>1, <1>3, <1>5, FS_Subset
<1>7. g[t] = a + g[t \ {x}]
  <2> HIDE DEF Bad
  <2>1. f[x] \in Int
    BY <1>6
  <2>2. t \in SUBSET S /\ t \ {x} \in SUBSET S /\ x \in t
    BY <1>5, <1>6
  <2>3. g[t] = f[x] + g[t \ {x}]
    BY <2>2 DEF Adds
  <2> QED
    BY <1>6, <2>3
<1>8. /\ Cardinality(t) \in Nat /\ Cardinality(t \ {x}) = Cardinality(t) - 1
      /\ Cardinality(t \ {x}) < Cardinality(t)
  BY <1>5, <1>6, Smaller
<1>9. g[t \ {x}] = a * Cardinality(t \ {x})
  BY <1>2, <1>6, <1>8
<1> DEFINE n == Cardinality(t)
<1>10. g[t] = a + a * (n - 1) /\ n \in Nat /\ g[t] # a * n
  BY <1>3, <1>7, <1>8, <1>9
<1> HIDE DEF n, Bad
<1>11. a + a * (n - 1) = a * n
  BY <1>10
<1> QED
  BY <1>10, <1>11

\* The sum of what is added up by itself: the fibers B[c] are disjoint.
LEMMA SumOfFibers ==
  ASSUME NEW T, IsFiniteSet(T), NEW h, NEW k, Adds(h, T, k),
         NEW R, IsFiniteSet(R), NEW f, NEW g, Adds(f, R, g), \A c \in R : f[c] \in Int,
         NEW B, \A c \in T : B[c] \in SUBSET R /\ h[c] = g[B[c]],
         \A c, d \in T : c # d => B[c] \cap B[d] = {}
  PROVE  k[T] = g[UNION {B[c] : c \in T}]
<1> DEFINE Whole(t) == UNION {B[c] : c \in t}
           Bad == {t \in SUBSET T : k[t] # g[Whole(t)]}
<1> SUFFICES ASSUME Bad # {} PROVE FALSE
  OBVIOUS
<1>1. PICK t \in Bad : \A u \in Bad : ~(Cardinality(u) < Cardinality(t))
  <2> HIDE DEF Bad
  <2>1. Bad \in SUBSET (SUBSET T)
    BY DEF Bad
  <2> QED
    BY <2>1, SmallestOf
<1>2. t \in SUBSET T /\ k[t] # g[Whole(t)]
  BY <1>1
<1>3. t # {}
  <2>1. k[{}] = 0 /\ g[{}] = 0 /\ Whole({}) = {}
    BY DEF Adds
  <2> HIDE DEF Whole
  <2> QED
    BY <1>2, <2>1
<1>4. PICK x \in t : TRUE
  BY <1>3
<1>5. /\ x \in T /\ IsFiniteSet(t) /\ t \ {x} \in SUBSET T /\ B[x] \in SUBSET R
      /\ h[x] = g[B[x]]
  BY <1>2, <1>4, FS_Subset
<1>6. Whole(t) = B[x] \cup Whole(t \ {x})
  BY <1>4
<1>7. B[x] \cap Whole(t \ {x}) = {}
  BY <1>2, <1>4
<1>8. Whole(t \ {x}) \in SUBSET R
  BY <1>2
<1> HIDE DEF Whole
<1>9. g[Whole(t)] = g[B[x]] + g[Whole(t \ {x})]
  <2> DEFINE v == Whole(t \ {x})
             u == B[x]
  <2>1. v \in SUBSET R /\ u \in SUBSET R /\ u \cap v = {} /\ Whole(t) = u \cup v
    BY <1>5, <1>6, <1>7, <1>8
  <2> HIDE DEF u, v, Bad
  <2>2. IsFiniteSet(R) /\ Adds(f, R, g) /\ \A c \in R : f[c] \in Int
    OBVIOUS
  <2>3. g[u] \in Int /\ g[v] \in Int
    BY <2>1, SumIsInt
  <2>4. \A U \in SUBSET R : \A V \in SUBSET R : U \cap V = {} => g[U \cup V] = g[U] + g[V]
    BY <2>2, SumUnion
  <2>5. g[u \cup v] = g[u] + g[v]
    BY <2>1, <2>4
  <2> QED
    BY <2>1, <2>5 DEF u, v
<1>10. h[x] \in Int
  BY <1>5, SumIsInt
<1>11. k[t] = h[x] + k[t \ {x}]
  BY <1>2, <1>4, <1>10, SumMinus
<1>12. Cardinality(t \ {x}) < Cardinality(t)
  BY <1>4, <1>5, Smaller
<1>13. k[t \ {x}] = g[Whole(t \ {x})]
  BY <1>1, <1>5, <1>12
<1> HIDE DEF Bad
<1> QED
  BY <1>2, <1>5, <1>9, <1>11, <1>13

\* Sets of which the elements are paired off are of one size.
LEMMA Paired ==
  ASSUME NEW S, NEW K, IsFiniteSet(K), NEW a,
         \A s \in S : a[s] \in K,
         \A s, t \in S : a[s] = a[t] => s = t,
         \A k \in K : \E s \in S : a[s] = k
  PROVE  IsFiniteSet(S) /\ Cardinality(S) = Cardinality(K)
<1> DEFINE b == [s \in S |-> a[s]]
           back == [k \in K |-> CHOOSE s \in S : a[s] = k]
<1>1. \A k \in K : back[k] \in S /\ a[back[k]] = k
  OBVIOUS
<1>2. back \in [K -> S]
  BY <1>1
<1>3. \A k, l \in K : back[k] = back[l] => k = l
  BY <1>1
<1>4. \A s \in S : \E k \in K : back[k] = s
  <2> TAKE s \in S
  <2>1. a[s] \in K /\ back[a[s]] \in S /\ a[back[a[s]]] = a[s]
    BY <1>1
  <2> HIDE DEF back
  <2>2. back[a[s]] = s
    BY <2>1
  <2> QED
    BY <2>1, <2>2
<1> HIDE DEF back
<1>5. back \in Bijection(K, S)
  BY <1>2, <1>3, <1>4, Fun_IsBij
<1>6. ExistsBijection(K, S)
  BY <1>5 DEF ExistsBijection
<1> QED
  BY <1>6, FS_Bijection
===============================================================================
