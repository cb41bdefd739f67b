------------------------------- MODULE Totals -------------------------------
(***************************************************************************)
(* Facts about the sum of a function over a finite set, MapThenSumSet of   *)
(* the community modules: that it is a number, what it becomes when one    *)
(* entry of the function changes, and how sums compare.                    *)
(*                                                                         *)
(* The induction theorems of the library take the induction hypothesis as  *)
(* an operator, which the provers cannot instantiate. Induction is done    *)
(* here over sets instead: the set of the numbers, or of the subsets, for  *)
(* which the claim holds.                                                  *)
(***************************************************************************)
EXTENDS Integers, FiniteSets, FiniteSetsExt, FiniteSetTheorems, WellFoundedInduction, TLAPS

\* The sum of f over S.
Total(f, S) == MapThenSumSet(LAMBDA x : f[x], S)

-----------------------------------------------------------------------------
(* Induction. *)

\* A set of natural numbers that is not empty has a least element.
LEMMA LeastNumber ==
  ASSUME NEW T \in SUBSET Nat, T # {}
  PROVE  \E n \in T : \A m \in T : ~ (m < n)
<1> DEFINE R == OpToRel(<, Nat)
<1>1. IsWellFoundedOn(R, Nat)
  BY NatLessThanWellFounded
<1>2. \E n \in T : \A m \in T : << m, n >> \notin R
  <2> HIDE DEF R
  <2> QED
    BY <1>1, WFMin
<1>3. \A m, n \in Nat : m < n => << m, n >> \in R
  BY DEF OpToRel
<1> QED
  BY <1>2, <1>3

\* A set of natural numbers with 0 and with every successor is all of Nat.
LEMMA NumberInduction ==
  ASSUME NEW Good \in SUBSET Nat, 0 \in Good, \A n \in Good : n + 1 \in Good
  PROVE  Good = Nat
<1> SUFFICES ASSUME Good # Nat
             PROVE  FALSE
  OBVIOUS
<1>1. PICK n \in Nat \ Good : \A m \in Nat \ Good : ~ (m < n)
  BY LeastNumber
<1>2. n # 0 /\ n - 1 \in Nat /\ n - 1 < n
  BY <1>1
<1>3. n - 1 \in Good
  BY <1>1, <1>2
<1>4. n \in Good
  BY <1>1, <1>2, <1>3
<1> QED
  BY <1>1, <1>4

\* The element that the sum takes from a set first.
Pick(s) == CHOOSE x \in s : TRUE
Others(s) == s \ { Pick(s) }

\* What is left of a finite set without the element taken is smaller by one.
LEMMA OthersAreFewer ==
  ASSUME NEW S, IsFiniteSet(S), NEW s \in SUBSET S, s # {}
  PROVE  /\ Pick(s) \in s /\ Others(s) \in SUBSET S
         /\ Cardinality(s) \in Nat /\ Cardinality(Others(s)) \in Nat
         /\ Cardinality(s) = Cardinality(Others(s)) + 1
<1>1. Pick(s) \in s
  BY DEF Pick
<1>2. IsFiniteSet(s) /\ IsFiniteSet(Others(s))
  BY FS_Subset DEF Others
<1>3. Cardinality(Others(s)) = Cardinality(s) - 1
  BY <1>1, <1>2, FS_RemoveElement DEF Others
<1> QED
  BY <1>1, <1>2, <1>3, FS_CardinalityType DEF Others

\* A set of subsets with the empty one, and with every one whose rest is in
\* it, has all subsets.
LEMMA SubsetInduction ==
  ASSUME NEW S, IsFiniteSet(S), NEW Good \in SUBSET (SUBSET S), {} \in Good,
         \A s \in SUBSET S : s # {} /\ Others(s) \in Good => s \in Good
  PROVE  Good = SUBSET S
<1> DEFINE N == { n \in Nat : \A s \in SUBSET S : Cardinality(s) = n => s \in Good }
<1>1. 0 \in N
  <2>1. ASSUME NEW s \in SUBSET S, Cardinality(s) = 0
        PROVE  s \in Good
    BY <2>1, FS_Subset, FS_EmptySet
  <2> QED
    BY <2>1
<1>2. ASSUME NEW n \in N
      PROVE  n + 1 \in N
  <2>1. ASSUME NEW s \in SUBSET S, Cardinality(s) = n + 1
        PROVE  s \in Good
    <3>1. s # {}
      BY <2>1, FS_EmptySet
    <3>2. Others(s) \in SUBSET S /\ Cardinality(Others(s)) = n
      BY <2>1, <3>1, OthersAreFewer
    <3> QED
      BY <3>1, <3>2
  <2> QED
    BY <2>1
<1>3. N = Nat
  <2> HIDE DEF N
  <2>1. N \in SUBSET Nat
    BY DEF N
  <2> QED
    BY <1>1, <1>2, <2>1, NumberInduction
<1>4. ASSUME NEW s \in SUBSET S
      PROVE  s \in Good
  <2>1. Cardinality(s) \in Nat
    BY FS_Subset, FS_CardinalityType
  <2> QED
    BY <1>3, <2>1
<1> QED
  BY <1>4

\* Of the numbers that a function has on a finite set one is the greatest.
LEMMA GreatestOf ==
  ASSUME NEW S, IsFiniteSet(S), S # {}, NEW f \in [S -> Int]
  PROVE  \E i \in S : \A j \in S : f[j] <= f[i]
<1> DEFINE HasOne(s) == \E i \in s : \A j \in s : f[j] <= f[i]
           Good == { s \in SUBSET S : s = {} \/ HasOne(s) }
<1>1. ASSUME NEW s \in SUBSET S, s # {}, Others(s) \in Good
      PROVE  s \in Good
  <2>1. Pick(s) \in s /\ \A i \in s : i = Pick(s) \/ i \in Others(s)
    BY <1>1, OthersAreFewer DEF Others
  <2>2. \A i \in s : f[i] \in Int
    OBVIOUS
  <2>3. Others(s) \subseteq s
    BY DEF Others
  <2>4. CASE Others(s) = {}
    BY <2>1, <2>2, <2>4
  <2>5. CASE Others(s) # {}
    <3>1. PICK i \in Others(s) : \A j \in Others(s) : f[j] <= f[i]
      BY <1>1, <2>5
    <3>2. CASE f[Pick(s)] <= f[i]
      BY <2>1, <2>3, <3>1, <3>2
    <3>3. CASE ~ (f[Pick(s)] <= f[i])
      <4>1. \A j \in s : f[j] <= f[Pick(s)]
        BY <2>1, <2>2, <2>3, <3>1, <3>3
      <4> QED
        BY <2>1, <4>1
    <3> QED
      BY <3>2, <3>3
  <2> QED
    BY <2>4, <2>5
<1>2. Good = SUBSET S
  <2>1. Good \in SUBSET (SUBSET S) /\ {} \in Good
    OBVIOUS
  <2> HIDE DEF Good
  <2> QED
    BY <1>1, <2>1, SubsetInduction
<1>3. S \in Good
  BY <1>2
<1> QED
  BY <1>3

-----------------------------------------------------------------------------
(* The recursion that defines the sum has a solution. *)

\* One step of the recursion, over the function g of the sums found so far.
Step(f, g, s) == IF s = {} THEN 0 ELSE f[Pick(s)] + g[Others(s)]
Sums(f, S) == CHOOSE g : g = [s \in SUBSET S |-> Step(f, g, s)]

\* The definitions of the community modules come to that recursion.
LEMMA TotalIsSums ==
  ASSUME NEW f, NEW S
  PROVE  Total(f, S) = Sums(f, S)[S]
  BY DEF Total, MapThenSumSet, MapThenFoldSet, Sums, Step, Pick, Others

\* A function of the sums exists for the subsets of each size, one size after
\* the other.
LEMMA SumsExist ==
  ASSUME NEW S, IsFiniteSet(S), NEW f \in [S -> Int]
  PROVE  /\ Sums(f, S) = [s \in SUBSET S |-> Step(f, Sums(f, S), s)]
         /\ Sums(f, S) \in [SUBSET S -> Int]
<1> DEFINE Upto(n) == { s \in SUBSET S : Cardinality(s) <= n }
           Solves(g, n) == \A s \in Upto(n) : g[s] = Step(f, g, s)
           N == { n \in Nat : \E g \in [Upto(n) -> Int] : Solves(g, n) }
<1>1. 0 \in N
  <2> DEFINE g == [s \in Upto(0) |-> 0]
  <2>1. ASSUME NEW s \in Upto(0)
        PROVE  s = {}
    BY FS_Subset, FS_EmptySet, FS_CardinalityType
  <2>2. g \in [Upto(0) -> Int] /\ Solves(g, 0)
    BY <2>1 DEF Step
  <2> QED
    BY <2>2
<1>2. ASSUME NEW n \in N
      PROVE  n + 1 \in N
  <2>1. PICK g \in [Upto(n) -> Int] : Solves(g, n)
    OBVIOUS
  <2> DEFINE h == [s \in Upto(n + 1) |-> Step(f, g, s)]
  <2>2. ASSUME NEW s \in Upto(n + 1), s # {}
        PROVE  Pick(s) \in S /\ Others(s) \in Upto(n) /\ Others(s) \in Upto(n + 1)
    BY <2>2, OthersAreFewer
  <2>3. h \in [Upto(n + 1) -> Int]
    <3>1. ASSUME NEW s \in Upto(n + 1)
          PROVE  Step(f, g, s) \in Int
      BY <2>2 DEF Step
    <3> QED
      BY <3>1
  <2>4. ASSUME NEW s \in Upto(n + 1)
        PROVE  h[s] = Step(f, h, s)
    <3>1. CASE s = {}
      BY <3>1 DEF Step
    <3>2. CASE s # {}
      <4>1. h[Others(s)] = Step(f, g, Others(s)) /\ g[Others(s)] = Step(f, g, Others(s))
        BY <2>1, <2>2, <3>2
      <4>2. h[s] = f[Pick(s)] + g[Others(s)]
        BY <3>2 DEF Step
      <4>3. Step(f, h, s) = f[Pick(s)] + h[Others(s)]
        BY <3>2 DEF Step
      <4> QED
        BY <4>1, <4>2, <4>3
    <3> QED
      BY <3>1, <3>2
  <2> HIDE DEF h
  <2>5. Solves(h, n + 1)
    BY <2>4
  <2> HIDE DEF Solves, Upto
  <2> QED
    BY <2>3, <2>5
<1>3. N = Nat
  <2> HIDE DEF N
  <2>1. N \in SUBSET Nat
    BY DEF N
  <2> QED
    BY <1>1, <1>2, <2>1, NumberInduction
<1>4. Cardinality(S) \in Nat /\ Upto(Cardinality(S)) = SUBSET S
  BY FS_CardinalityType, FS_Subset
<1>5. PICK g \in [SUBSET S -> Int] : \A s \in SUBSET S : g[s] = Step(f, g, s)
  BY <1>3, <1>4
<1>6. g = [s \in SUBSET S |-> Step(f, g, s)]
  BY <1>5
<1>7. Sums(f, S) = [s \in SUBSET S |-> Step(f, Sums(f, S), s)]
  BY <1>6 DEF Sums
<1> DEFINE Good == { s \in SUBSET S : Sums(f, S)[s] \in Int }
<1>8. Good = SUBSET S
  <2>1. {} \in Good
    BY <1>7 DEF Step
  <2>2. ASSUME NEW s \in SUBSET S, s # {}, Others(s) \in Good
        PROVE  s \in Good
    <3>1. Pick(s) \in S
      BY <2>2, OthersAreFewer
    <3>2. Sums(f, S)[s] = f[Pick(s)] + Sums(f, S)[Others(s)]
      BY <1>7, <2>2 DEF Step
    <3> QED
      BY <2>2, <3>1, <3>2
  <2> HIDE DEF Good
  <2>3. Good \in SUBSET (SUBSET S)
    BY DEF Good
  <2> QED
    BY <2>1, <2>2, <2>3, SubsetInduction
<1> QED
  BY <1>7, <1>8

\* The recursion, unfolded once.
LEMMA SumsUnfold ==
  ASSUME NEW S, IsFiniteSet(S), NEW f \in [S -> Int], NEW s \in SUBSET S
  PROVE  /\ Sums(f, S)[s] \in Int
         /\ Sums(f, S)[{}] = 0
         /\ s # {} => /\ Pick(s) \in s /\ Others(s) \in SUBSET S
                      /\ Sums(f, S)[s] = f[Pick(s)] + Sums(f, S)[Others(s)]
<1>1. /\ Sums(f, S) = [t \in SUBSET S |-> Step(f, Sums(f, S), t)]
      /\ Sums(f, S) \in [SUBSET S -> Int]
  BY SumsExist
<1>2. s # {} => Pick(s) \in s /\ Others(s) \in SUBSET S
  BY OthersAreFewer
<1> QED
  BY <1>1, <1>2 DEF Step

-----------------------------------------------------------------------------
(* What the sum is. *)

\* A sum of integers is one.
LEMMA TotalType ==
  ASSUME NEW S, IsFiniteSet(S), NEW f \in [S -> Int]
  PROVE  Total(f, S) \in Int
  BY SumsUnfold, TotalIsSums

\* One entry changed changes the sum by as much.
LEMMA TotalUpdate ==
  ASSUME NEW S, IsFiniteSet(S), NEW f \in [S -> Int], NEW h \in [S -> Int], NEW b \in S,
         \A x \in S \ {b} : h[x] = f[x]
  PROVE  Total(h, S) = Total(f, S) - f[b] + h[b]
<1> DEFINE F == Sums(f, S)
           H == Sums(h, S)
           Good == { s \in SUBSET S : H[s] = F[s] + (IF b \in s THEN h[b] - f[b] ELSE 0) }
<1>1. \A x \in S : h[x] = IF x = b THEN h[b] ELSE f[x]
  OBVIOUS
<1>2. {} \in Good
  BY <1>1, SumsUnfold
<1>3. ASSUME NEW s \in SUBSET S, s # {}, Others(s) \in Good
      PROVE  s \in Good
  <2>1. /\ Pick(s) \in s /\ Others(s) \in SUBSET S /\ F[Others(s)] \in Int
        /\ F[s] = f[Pick(s)] + F[Others(s)] /\ H[s] = h[Pick(s)] + H[Others(s)]
    BY <1>1, <1>3, SumsUnfold
  <2>2. H[Others(s)] = F[Others(s)] + (IF b \in Others(s) THEN h[b] - f[b] ELSE 0)
    BY <1>3
  <2>3. b \in Others(s) <=> b \in s /\ b # Pick(s)
    BY DEF Others
  <2>4. Pick(s) \in S /\ f[b] \in Int /\ h[b] \in Int /\ f[Pick(s)] \in Int
    BY <2>1
  <2> HIDE DEF F, H
  <2>5. CASE Pick(s) = b
    BY <1>1, <2>1, <2>2, <2>3, <2>4, <2>5
  <2>6. CASE Pick(s) # b
    BY <1>1, <2>1, <2>2, <2>3, <2>4, <2>6
  <2> QED
    BY <2>5, <2>6
<1>4. Good = SUBSET S
  <2> HIDE DEF Good
  <2>1. Good \in SUBSET (SUBSET S)
    BY DEF Good
  <2> QED
    BY <1>2, <1>3, <2>1, SubsetInduction
<1>5. H[S] = F[S] + (h[b] - f[b])
  BY <1>4
<1>6. F[S] \in Int /\ f[b] \in Int /\ h[b] \in Int
  BY SumsUnfold
<1> QED
  BY <1>5, <1>6, TotalIsSums

\* A sum of terms of two functions is the sum of their sums.
LEMMA TotalOfSum ==
  ASSUME NEW S, IsFiniteSet(S), NEW f \in [S -> Int], NEW g \in [S -> Int]
  PROVE  Total([x \in S |-> f[x] + g[x]], S) = Total(f, S) + Total(g, S)
<1> DEFINE h == [x \in S |-> f[x] + g[x]]
           F == Sums(f, S)
           G == Sums(g, S)
           H == Sums(h, S)
           Good == { s \in SUBSET S : H[s] = F[s] + G[s] }
<1>1. h \in [S -> Int] /\ \A x \in S : h[x] = f[x] + g[x]
  OBVIOUS
<1> HIDE DEF h
<1>2. {} \in Good
  BY <1>1, SumsUnfold
<1>3. ASSUME NEW s \in SUBSET S, s # {}, Others(s) \in Good
      PROVE  s \in Good
  <2>1. /\ Pick(s) \in S /\ Others(s) \in SUBSET S /\ F[Others(s)] \in Int /\ G[Others(s)] \in Int
        /\ F[s] = f[Pick(s)] + F[Others(s)] /\ G[s] = g[Pick(s)] + G[Others(s)]
        /\ H[s] = h[Pick(s)] + H[Others(s)]
    BY <1>1, <1>3, SumsUnfold
  <2>2. H[Others(s)] = F[Others(s)] + G[Others(s)]
    BY <1>3
  <2> HIDE DEF F, G, H
  <2> QED
    BY <1>1, <2>1, <2>2
<1>4. Good = SUBSET S
  <2> HIDE DEF Good
  <2>1. Good \in SUBSET (SUBSET S)
    BY DEF Good
  <2> QED
    BY <1>2, <1>3, <2>1, SubsetInduction
<1>5. H[S] = F[S] + G[S]
  BY <1>4
<1> QED
  BY <1>5, TotalIsSums DEF h

\* Greater terms do not make a smaller sum.
LEMMA TotalMonotone ==
  ASSUME NEW S, IsFiniteSet(S), NEW f \in [S -> Int], NEW g \in [S -> Int],
         \A x \in S : f[x] <= g[x]
  PROVE  Total(f, S) <= Total(g, S)
<1> DEFINE F == Sums(f, S)
           G == Sums(g, S)
           Good == { s \in SUBSET S : F[s] <= G[s] }
<1>1. {} \in Good
  BY SumsUnfold
<1>2. ASSUME NEW s \in SUBSET S, s # {}, Others(s) \in Good
      PROVE  s \in Good
  <2>1. /\ Pick(s) \in S /\ Others(s) \in SUBSET S /\ F[Others(s)] \in Int /\ G[Others(s)] \in Int
        /\ F[s] = f[Pick(s)] + F[Others(s)] /\ G[s] = g[Pick(s)] + G[Others(s)]
    BY <1>2, SumsUnfold
  <2>2. F[Others(s)] <= G[Others(s)] /\ f[Pick(s)] <= g[Pick(s)]
        /\ f[Pick(s)] \in Int /\ g[Pick(s)] \in Int
    BY <1>2, <2>1
  <2> HIDE DEF F, G
  <2> QED
    BY <2>1, <2>2
<1>3. Good = SUBSET S
  <2> HIDE DEF Good
  <2>1. Good \in SUBSET (SUBSET S)
    BY DEF Good
  <2> QED
    BY <1>1, <1>2, <2>1, SubsetInduction
<1>4. F[S] <= G[S]
  BY <1>3
<1> QED
  BY <1>4, TotalIsSums

\* The sum of zeros is zero.
LEMMA TotalZero ==
  ASSUME NEW S, IsFiniteSet(S)
  PROVE  Total([x \in S |-> 0], S) = 0
<1> DEFINE z == [x \in S |-> 0]
<1>1. z \in [S -> Int] /\ [x \in S |-> z[x] + z[x]] = z
  OBVIOUS
<1> HIDE DEF z
<1>2. Total(z, S) \in Int /\ Total(z, S) = Total(z, S) + Total(z, S)
  BY <1>1, TotalType, TotalOfSum
<1>3. \A t \in Int : t = t + t => t = 0
  OBVIOUS
<1>4. Total(z, S) = 0
  BY <1>2, <1>3, Zenon
<1> QED
  BY <1>4 DEF z

\* The sum of ones is the number of elements.
LEMMA TotalOnes ==
  ASSUME NEW S, IsFiniteSet(S)
  PROVE  Total([x \in S |-> 1], S) = Cardinality(S)
<1> DEFINE one == [x \in S |-> 1]
           F == Sums(one, S)
           Good == { s \in SUBSET S : F[s] = Cardinality(s) }
<1>1. one \in [S -> Int] /\ \A x \in S : one[x] = 1
  OBVIOUS
<1> HIDE DEF one
<1>2. {} \in Good
  BY <1>1, SumsUnfold, FS_EmptySet
<1>3. ASSUME NEW s \in SUBSET S, s # {}, Others(s) \in Good
      PROVE  s \in Good
  <2>1. /\ Pick(s) \in S /\ F[s] = one[Pick(s)] + F[Others(s)]
        /\ Cardinality(Others(s)) \in Nat /\ Cardinality(s) = Cardinality(Others(s)) + 1
    BY <1>1, <1>3, SumsUnfold, OthersAreFewer
  <2>2. F[Others(s)] = Cardinality(Others(s)) /\ one[Pick(s)] = 1
    BY <1>1, <1>3, <2>1
  <2> HIDE DEF F
  <2>3. F[s] = Cardinality(s)
    BY <2>1, <2>2
  <2> QED
    BY <2>3 DEF F
<1>4. Good = SUBSET S
  <2> HIDE DEF Good
  <2>1. Good \in SUBSET (SUBSET S)
    BY DEF Good
  <2> QED
    BY <1>2, <1>3, <2>1, SubsetInduction
<1>5. F[S] = Cardinality(S)
  BY <1>4
<1> QED
  BY <1>5, TotalIsSums DEF one

\* Zeros may be left out of a sum.
LEMMA TotalOfPart ==
  ASSUME NEW T, IsFiniteSet(T), NEW S \in SUBSET T, NEW f \in [T -> Int], NEW h \in [S -> Int],
         \A x \in S : h[x] = f[x], \A x \in T \ S : f[x] = 0
  PROVE  Total(f, T) = Total(h, S)
<1> DEFINE part(s) == [x \in T |-> IF x \in s THEN f[x] ELSE 0]
           H == Sums(h, S)
           Good == { s \in SUBSET S : Total(part(s), T) = H[s] }
<1>1. IsFiniteSet(S)
  BY FS_Subset
<1>2. {} \in Good
  <2>1. part({}) = [x \in T |-> 0]
    OBVIOUS
  <2>2. Total([x \in T |-> 0], T) = 0
    BY TotalZero
  <2>3. H[{}] = 0
    BY <1>1, SumsUnfold
  <2> QED
    BY <2>1, <2>2, <2>3
<1>3. ASSUME NEW s \in SUBSET S, s # {}, Others(s) \in Good
      PROVE  s \in Good
  <2> DEFINE p == part(s)
             o == part(Others(s))
  <2>1. /\ Pick(s) \in s /\ Others(s) \in SUBSET S /\ H[Others(s)] \in Int
        /\ H[s] = h[Pick(s)] + H[Others(s)]
    BY <1>1, <1>3, SumsUnfold
  <2>2. /\ p \in [T -> Int] /\ o \in [T -> Int] /\ Pick(s) \in T
        /\ \A x \in T \ { Pick(s) } : p[x] = o[x]
        /\ p[Pick(s)] = h[Pick(s)] /\ o[Pick(s)] = 0
    BY <2>1 DEF Others
  <2>3. Total(o, T) = H[Others(s)] /\ h[Pick(s)] \in Int
    BY <1>3, <2>1
  <2> HIDE DEF p, o, H
  <2>4. Total(p, T) = Total(o, T) - o[Pick(s)] + p[Pick(s)]
    BY <2>2, TotalUpdate
  <2>5. Total(p, T) = H[s]
    BY <2>1, <2>2, <2>3, <2>4
  <2> QED
    BY <2>5 DEF p
<1>4. Good = SUBSET S
  <2> HIDE DEF Good
  <2>1. Good \in SUBSET (SUBSET S)
    BY DEF Good
  <2> QED
    BY <1>1, <1>2, <1>3, <2>1, SubsetInduction
<1>5. Total(part(S), T) = H[S]
  BY <1>4
<1>6. part(S) = f
  OBVIOUS
<1> QED
  BY <1>5, <1>6, TotalIsSums

\* An element more adds its entry.
LEMMA TotalOneMore ==
  ASSUME NEW S, IsFiniteSet(S), NEW b, b \notin S, NEW f \in [S \cup {b} -> Int]
  PROVE  Total(f, S \cup {b}) = Total([x \in S |-> f[x]], S) + f[b]
<1> DEFINE T == S \cup {b}
           h == [x \in S |-> f[x]]
           g == [x \in T |-> IF x = b THEN 0 ELSE f[x]]
<1>1. /\ IsFiniteSet(T) /\ S \in SUBSET T /\ b \in T /\ f \in [T -> Int]
      /\ h \in [S -> Int] /\ g \in [T -> Int] /\ g[b] = 0
      /\ \A x \in S : h[x] = g[x]
      /\ \A x \in T \ S : g[x] = 0
      /\ \A x \in T \ {b} : f[x] = g[x]
  BY FS_AddElement
<1> HIDE DEF T, h, g
<1>2. Total(f, T) = Total(g, T) - g[b] + f[b]
  BY <1>1, TotalUpdate
<1>3. Total(g, T) = Total(h, S)
  BY <1>1, TotalOfPart
<1>4. Total(g, T) \in Int /\ f[b] \in Int
  BY <1>1, TotalType
<1> QED
  BY <1>1, <1>2, <1>3, <1>4 DEF T, h

\* A sum of natural numbers is one, and no term is greater than the sum.
LEMMA TotalBounds ==
  ASSUME NEW S, IsFiniteSet(S), NEW f \in [S -> Nat]
  PROVE  Total(f, S) \in Nat /\ \A b \in S : f[b] <= Total(f, S)
<1> DEFINE z == [x \in S |-> 0]
<1>1. z \in [S -> Int] /\ \A x \in S : z[x] = 0
  OBVIOUS
<1>2. Total(z, S) = 0
  BY TotalZero
<1> HIDE DEF z
<1>3. ASSUME NEW g \in [S -> Nat]
      PROVE  Total(g, S) \in Nat
  <2>1. g \in [S -> Int] /\ \A x \in S : z[x] <= g[x]
    BY <1>1
  <2>2. Total(z, S) <= Total(g, S) /\ Total(g, S) \in Int
    BY <1>1, <2>1, TotalMonotone, TotalType
  <2> QED
    BY <1>2, <2>2
<1>4. ASSUME NEW b \in S
      PROVE  f[b] <= Total(f, S)
  <2> DEFINE h == [f EXCEPT ![b] = 0]
  <2>1. /\ f \in [S -> Int] /\ h \in [S -> Int] /\ h \in [S -> Nat] /\ f[b] \in Nat /\ h[b] = 0
        /\ \A x \in S \ {b} : h[x] = f[x]
    OBVIOUS
  <2> HIDE DEF h
  <2>2. Total(h, S) = Total(f, S) - f[b] + h[b]
    BY <2>1, TotalUpdate
  <2>3. Total(h, S) \in Nat /\ Total(f, S) \in Nat
    BY <1>3, <2>1
  <2> QED
    BY <2>1, <2>2, <2>3
<1> QED
  BY <1>3, <1>4

-----------------------------------------------------------------------------
(* Folds. *)

\* A recursion over the subsets of D: the value of a set is that of the set
\* without the element that choice takes from it, and of that element.
Recurs(g, F, base, D, choice) ==
  \A s \in SUBSET D :
    g[s] = IF s = {} THEN base ELSE F[<< g[s \ { choice[s] }], choice[s] >>]

\* Over the subsets of a finite set it has a solution.
LEMMA RecursionExists ==
  ASSUME NEW V, NEW D, NEW F \in [V \X D -> V], NEW base \in V, IsFiniteSet(D),
         NEW choice, \A s \in SUBSET D : s # {} => choice[s] \in s
  PROVE  \E g \in [SUBSET D -> V] : Recurs(g, F, base, D, choice)
<1> DEFINE Upto(n) == { s \in SUBSET D : Cardinality(s) <= n }
           From(g, s) == IF s = {} THEN base ELSE F[<< g[s \ { choice[s] }], choice[s] >>]
           Solves(g, n) == \A s \in Upto(n) : g[s] = From(g, s)
           N == { n \in Nat : \E g \in [Upto(n) -> V] : Solves(g, n) }
<1>1. ASSUME NEW s \in SUBSET D, s # {}
      PROVE  /\ choice[s] \in D /\ s \ { choice[s] } \in SUBSET D
             /\ Cardinality(s) \in Nat /\ Cardinality(s \ { choice[s] }) = Cardinality(s) - 1
  <2>1. IsFiniteSet(s) /\ choice[s] \in s
    BY <1>1, FS_Subset
  <2> QED
    BY <2>1, FS_RemoveElement, FS_CardinalityType
<1>2. 0 \in N
  <2> DEFINE g == [s \in Upto(0) |-> base]
  <2>1. ASSUME NEW s \in Upto(0)
        PROVE  s = {}
    BY FS_Subset, FS_EmptySet, FS_CardinalityType
  <2>2. g \in [Upto(0) -> V] /\ Solves(g, 0)
    BY <2>1
  <2> QED
    BY <2>2
<1>3. ASSUME NEW n \in N
      PROVE  n + 1 \in N
  <2>1. PICK g \in [Upto(n) -> V] : Solves(g, n)
    OBVIOUS
  <2> DEFINE h == [s \in Upto(n + 1) |-> From(g, s)]
  <2>2. ASSUME NEW s \in Upto(n + 1), s # {}
        PROVE  /\ choice[s] \in D /\ s \ { choice[s] } \in Upto(n)
               /\ s \ { choice[s] } \in Upto(n + 1)
    BY <1>1, <2>2
  <2>3. h \in [Upto(n + 1) -> V]
    <3>1. ASSUME NEW s \in Upto(n + 1)
          PROVE  From(g, s) \in V
      <4>1. CASE s = {}
        BY <4>1
      <4>2. CASE s # {}
        <5>1. choice[s] \in D /\ s \ { choice[s] } \in Upto(n)
          BY <2>2, <4>2
        <5> HIDE DEF Upto
        <5>2. << g[s \ { choice[s] }], choice[s] >> \in V \X D
          BY <5>1
        <5> QED
          BY <4>2, <5>2
      <4> QED
        BY <4>1, <4>2
    <3> QED
      BY <3>1
  <2>4. ASSUME NEW s \in Upto(n + 1)
        PROVE  h[s] = From(h, s)
    <3>1. CASE s = {}
      BY <3>1
    <3>2. CASE s # {}
      <4>1. s \ { choice[s] } \in Upto(n) /\ s \ { choice[s] } \in Upto(n + 1)
        BY <2>2, <3>2
      <4> HIDE DEF Upto
      <4>2. h[s \ { choice[s] }] = g[s \ { choice[s] }]
        <5>1. h[s \ { choice[s] }] = From(g, s \ { choice[s] })
          BY <4>1
        <5> HIDE DEF From, h
        <5> QED
          BY <2>1, <4>1, <5>1
      <4>3. h[s] = F[<< g[s \ { choice[s] }], choice[s] >>]
        BY <3>2
      <4> HIDE DEF h
      <4> QED
        BY <3>2, <4>2, <4>3
    <3> QED
      BY <3>1, <3>2
  <2> HIDE DEF h
  <2>5. Solves(h, n + 1)
    BY <2>4
  <2> HIDE DEF Solves, Upto
  <2> QED
    BY <2>3, <2>5
<1>4. N = Nat
  <2> HIDE DEF N
  <2>1. N \in SUBSET Nat
    BY DEF N
  <2> QED
    BY <1>2, <1>3, <2>1, NumberInduction
<1>5. Cardinality(D) \in Nat /\ Upto(Cardinality(D)) = SUBSET D
  BY FS_CardinalityType, FS_Subset
<1>6. PICK g \in [SUBSET D -> V] : Solves(g, Cardinality(D))
  <2>1. Cardinality(D) \in N
    BY <1>4, <1>5
  <2> HIDE DEF Solves, Upto
  <2> QED
    BY <1>5, <2>1
<1>7. \A s \in SUBSET D : g[s] = From(g, s)
  <2> HIDE DEF From
  <2> QED
    BY <1>5, <1>6
<1> QED
  BY <1>7 DEF Recurs

\* A property of the start that every step keeps, along a sequence.
LEMMA Along ==
  ASSUME NEW n \in Nat, NEW Good \in SUBSET (0 .. n), 0 \in Good,
         \A i \in 1 .. n : i - 1 \in Good => i \in Good
  PROVE  Good = 0 .. n
<1> DEFINE N == { i \in Nat : i <= n => i \in Good }
<1>1. 0 \in N /\ \A i \in N : i + 1 \in N
  <2>1. ASSUME NEW i \in N, i + 1 <= n
        PROVE  i + 1 \in Good
    <3>1. i + 1 \in 1 .. n /\ (i + 1) - 1 = i /\ i \in Good
      BY <2>1
    <3> QED
      BY <3>1
  <2> QED
    BY <2>1
<1>2. N = Nat
  <2> HIDE DEF N
  <2>1. N \in SUBSET Nat
    BY DEF N
  <2> QED
    BY <1>1, <2>1, NumberInduction
<1>3. ASSUME NEW i \in 0 .. n
      PROVE  i \in Good
  <2>1. i \in N /\ i <= n
    BY <1>2
  <2> QED
    BY <2>1
<1> QED
  BY <1>3

\* A finite set of numbers has a greatest one.
LEMMA GreatestNumber ==
  ASSUME NEW n \in Nat, NEW s \in SUBSET (1 .. n), s # {}
  PROVE  Max(s) \in s /\ \A y \in s : Max(s) >= y
<1> DEFINE Good == { i \in 0 .. n : \A t \in SUBSET (1 .. i) : t # {} => \E x \in t : \A y \in t : x >= y }
<1>1. 0 \in Good
  <2>1. ASSUME NEW t \in SUBSET (1 .. 0), t # {}
        PROVE  FALSE
    <3>1. PICK x \in t : x \in 1 .. 0
      BY <2>1
    <3> QED
      BY <3>1
  <2>2. \A t \in SUBSET (1 .. 0) : t # {} => \E x \in t : \A y \in t : x >= y
    BY <2>1
  <2>3. 0 \in 0 .. n
    OBVIOUS
  <2> QED
    BY <2>2, <2>3
<1>2. ASSUME NEW i \in 1 .. n, i - 1 \in Good
      PROVE  i \in Good
  <2>1. ASSUME NEW t \in SUBSET (1 .. i), t # {}
        PROVE  \E x \in t : \A y \in t : x >= y
    <3>1. CASE i \in t
      BY <3>1
    <3>2. CASE i \notin t
      <4>1. t \in SUBSET (1 .. (i - 1))
        BY <3>2
      <4> QED
        BY <1>2, <2>1, <4>1
    <3> QED
      BY <3>1, <3>2
  <2> QED
    BY <2>1
<1>3. Good = 0 .. n
  <2> HIDE DEF Good
  <2>1. Good \in SUBSET (0 .. n)
    BY DEF Good
  <2> QED
    BY <1>1, <1>2, <2>1, Along
<1>4. \E x \in s : \A y \in s : x >= y
  BY <1>3
<1> QED
  BY <1>4 DEF Max

\* The recursion by which FoldLeft of the community modules goes through n
\* elements.
Unrolls(g, F, base, n) ==
  \A s \in SUBSET (1 .. n) :
    g[s] = IF s = {} THEN base ELSE F[<< g[s \ { Max(s) }], Max(s) >>]

\* It has a solution.
LEMMA FoldExists ==
  ASSUME NEW n \in Nat, NEW V, NEW F \in [V \X (1 .. n) -> V], NEW base \in V
  PROVE  \E g \in [SUBSET (1 .. n) -> V] : Unrolls(g, F, base, n)
<1> DEFINE D == 1 .. n
           choice == [s \in SUBSET D |-> Max(s)]
<1>1. IsFiniteSet(D)
  BY FS_Interval
<1>2. \A s \in SUBSET D : s # {} => choice[s] \in s
  BY GreatestNumber
<1>3. \A s \in SUBSET D : choice[s] = Max(s)
  OBVIOUS
<1>4. F \in [V \X D -> V]
  OBVIOUS
<1> HIDE DEF D, choice
<1>5. \E g \in [SUBSET D -> V] : Recurs(g, F, base, D, choice)
  BY <1>1, <1>2, <1>4, RecursionExists
<1>6. \A g \in [SUBSET D -> V] : Recurs(g, F, base, D, choice) => Unrolls(g, F, base, n)
  BY <1>3 DEF Recurs, Unrolls, D
<1>7. \E g \in [SUBSET D -> V] : Unrolls(g, F, base, n)
  BY <1>5, <1>6
<1> QED
  BY <1>7 DEF D

\* The recursion takes the last element of a prefix first.
LEMMA LastOfPrefix ==
  ASSUME NEW k \in Nat, k >= 1
  PROVE  Max(1 .. k) = k /\ (1 .. k) # {} /\ (1 .. k) \ {k} = 1 .. (k - 1)
<1>1. Max(1 .. k) \in 1 .. k /\ \A y \in 1 .. k : Max(1 .. k) >= y
  BY DEF Max
<1> QED
  BY <1>1

\* A recursion along a sequence, from the first place on.
Ascends(a, F, base, n) ==
  a[0] = base /\ \A i \in 1 .. n : a[i] = F[<< a[i - 1], i >>]

\* It has a solution.
LEMMA AscentExists ==
  ASSUME NEW n \in Nat, NEW V, NEW F \in [V \X (1 .. n) -> V], NEW base \in V
  PROVE  \E a \in [0 .. n -> V] : Ascends(a, F, base, n)
<1>1. PICK g \in [SUBSET (1 .. n) -> V] : Unrolls(g, F, base, n)
  BY FoldExists
<1> DEFINE a == [i \in 0 .. n |-> g[1 .. i]]
<1>2. a \in [0 .. n -> V]
  <2>1. \A i \in 0 .. n : (1 .. i) \in SUBSET (1 .. n)
    OBVIOUS
  <2> QED
    BY <2>1
<1>3. a[0] = base
  <2>1. g[{}] = base
    BY <1>1 DEF Unrolls
  <2>2. 1 .. 0 = {}
    OBVIOUS
  <2> QED
    BY <2>1, <2>2
<1>4. ASSUME NEW i \in 1 .. n
      PROVE  a[i] = F[<< a[i - 1], i >>]
  <2>1. (1 .. i) \in SUBSET (1 .. n) /\ i - 1 \in 0 .. n /\ i \in 0 .. n
    OBVIOUS
  <2>2. Max(1 .. i) = i /\ (1 .. i) # {} /\ (1 .. i) \ {i} = 1 .. (i - 1)
    BY LastOfPrefix
  <2>3. g[1 .. i] = F[<< g[(1 .. i) \ { Max(1 .. i) }], Max(1 .. i) >>]
    BY <1>1, <2>1, <2>2 DEF Unrolls
  <2>4. g[1 .. i] = F[<< g[1 .. (i - 1)], i >>]
    BY <2>2, <2>3
  <2> QED
    BY <2>1, <2>4
<1> HIDE DEF a
<1> QED
  BY <1>2, <1>3, <1>4 DEF Ascends

\* A recursion from the places of a sequence to later ones.
Descends(g, F, base, jump, n) ==
  g = [i \in 1 .. n + 1 |-> IF i > n THEN base ELSE F[<< i, g[jump[i]] >>]]

\* It has a solution.
LEMMA DescentExists ==
  ASSUME NEW n \in Nat, NEW V, NEW F \in [(1 .. n) \X V -> V], NEW base \in V,
         NEW jump \in [1 .. n -> 1 .. n + 1], \A i \in 1 .. n : jump[i] > i
  PROVE  \E g \in [1 .. n + 1 -> V] : Descends(g, F, base, jump, n)
<1> DEFINE From(g, i) == IF i > n THEN base ELSE F[<< i, g[jump[i]] >>]
           Solves(g, m) == \A i \in 1 .. n + 1 : i + m > n => g[i] = From(g, i)
           N == { m \in Nat : \E g \in [1 .. n + 1 -> V] : Solves(g, m) }
<1>1. \A g \in [1 .. n + 1 -> V], i \in 1 .. n + 1 : From(g, i) \in V
  <2>1. ASSUME NEW g \in [1 .. n + 1 -> V], NEW i \in 1 .. n + 1
        PROVE  From(g, i) \in V
    <3>1. CASE i > n
      BY <3>1
    <3>2. CASE ~ (i > n)
      <4>1. i \in 1 .. n /\ jump[i] \in 1 .. n + 1
        BY <3>2
      <4>2. g[jump[i]] \in V
        BY <4>1
      <4>3. << i, g[jump[i]] >> \in (1 .. n) \X V
        BY <4>1, <4>2
      <4> QED
        BY <3>2, <4>3
    <3> QED
      BY <3>1, <3>2
  <2> QED
    BY <2>1
<1>2. 0 \in N
  <2> DEFINE g == [i \in 1 .. n + 1 |-> base]
  <2>1. g \in [1 .. n + 1 -> V] /\ Solves(g, 0)
    OBVIOUS
  <2> HIDE DEF g, Solves
  <2> QED
    BY <2>1
<1>3. ASSUME NEW m \in N
      PROVE  m + 1 \in N
  <2>1. PICK g \in [1 .. n + 1 -> V] : Solves(g, m)
    OBVIOUS
  <2> DEFINE h == [i \in 1 .. n + 1 |-> IF i + m = n THEN From(g, i) ELSE g[i]]
  <2>2. m \in Nat
    OBVIOUS
  <2>3. h \in [1 .. n + 1 -> V]
    <3> HIDE DEF From
    <3> QED
      BY <1>1
  <2>4. ASSUME NEW i \in 1 .. n + 1, i + (m + 1) > n
        PROVE  h[i] = From(h, i)
    <3>1. h[i] = From(g, i)
      <4>1. i + m = n \/ i + m > n
        BY <2>2, <2>4
      <4>2. i + m > n => i + m # n
        BY <2>2
      <4> HIDE DEF From
      <4> QED
        BY <2>1, <4>1, <4>2
    <3>2. i \in 1 .. n => h[jump[i]] = g[jump[i]]
      <4>1. ASSUME i \in 1 .. n
            PROVE  jump[i] \in 1 .. n + 1 /\ jump[i] + m # n
        BY <2>2, <2>4, <4>1
      <4> HIDE DEF From
      <4> QED
        BY <4>1
    <3>3. i > n \/ i \in 1 .. n
      OBVIOUS
    <3> HIDE DEF h
    <3> QED
      BY <3>1, <3>2, <3>3
  <2> HIDE DEF h, From
  <2>5. Solves(h, m + 1)
    BY <2>4
  <2> HIDE DEF Solves
  <2> QED
    BY <2>2, <2>3, <2>5
<1>4. N = Nat
  <2> HIDE DEF N
  <2>1. N \in SUBSET Nat
    BY DEF N
  <2> QED
    BY <1>2, <1>3, <2>1, NumberInduction
<1>5. PICK g \in [1 .. n + 1 -> V] : Solves(g, n)
  BY <1>4
<1>6. ASSUME NEW i \in 1 .. n + 1
      PROVE  g[i] = From(g, i)
  <2>1. i + n > n
    OBVIOUS
  <2> HIDE DEF From
  <2> QED
    BY <1>5, <2>1
<1>7. g = [i \in 1 .. n + 1 |-> From(g, i)]
  <2> HIDE DEF From
  <2> QED
    BY <1>6
<1> QED
  BY <1>7 DEF Descends
=============================================================================
