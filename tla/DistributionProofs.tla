-------------------------- MODULE DistributionProofs ------------------------
(***************************************************************************)
(* What the proofs about Export rest on, for all finite sets of validators *)
(* and delegators and every unit of a coin: sums over finite sets, the     *)
(* invariant of the state, what each operation of the modules changes, and *)
(* when the distribution module stays able to pay what it owes.            *)
(***************************************************************************)
EXTENDS Export, FiniteSetTheorems, WellFoundedInduction, TLAPS

-----------------------------------------------------------------------------
(* Sums over finite sets.                                                  *)

\* A set of numbers that has zero and with every number the next one has them all.
LEMMA NumberInduction ==
    ASSUME NEW P \in SUBSET Nat, 0 \in P, \A n \in P : n + 1 \in P
    PROVE  P = Nat
<1> DEFINE R == {p \in Nat \X Nat : p[1] < p[2]}
           B == Nat \ P
<1>1. SUFFICES ASSUME B # {} PROVE FALSE
  OBVIOUS
<1>2. IsWellFoundedOn(R, Nat)
  BY NatLessThanWellFounded DEF OpToRel
<1>3. PICK n \in B : \A m \in B : ~ (<<m, n>> \in R)
  <2>1. B \in SUBSET Nat
    OBVIOUS
  <2> HIDE DEF R, B
  <2> QED BY <1>1, <1>2, <2>1, WFMin
<1>4. n \in Nat /\ n # 0 /\ n - 1 \in Nat /\ n - 1 < n /\ n = (n - 1) + 1
  OBVIOUS
<1>5. n - 1 \in P
  <2>1. <<n - 1, n>> \in Nat \X Nat /\ <<n - 1, n>>[1] = n - 1 /\ <<n - 1, n>>[2] = n
    BY <1>4
  <2>2. <<n - 1, n>> \in R
    BY <1>4, <2>1
  <2> HIDE DEF R
  <2> QED BY <1>3, <1>4, <2>2
<1> QED BY <1>4, <1>5

\* The element a sum takes first.
Pick(S) == CHOOSE x \in S : TRUE

\* What CHOOSE takes from a set is one of its elements, and leaves a set smaller by one.
LEMMA PickLemma ==
    ASSUME NEW S, IsFiniteSet(S), S # {}
    PROVE  /\ Pick(S) \in S /\ S \ {Pick(S)} \in SUBSET S
           /\ Cardinality(S) \in Nat \ {0}
           /\ Cardinality(S \ {Pick(S)}) = Cardinality(S) - 1
<1>1. Pick(S) \in S
  BY DEF Pick
<1>2. Cardinality(S) \in Nat /\ Cardinality(S) # 0
  BY FS_CardinalityType, FS_EmptySet
<1>3. Cardinality(S \ {Pick(S)}) = Cardinality(S) - 1
  BY <1>1, FS_RemoveElement
<1> QED BY <1>1, <1>2, <1>3

\* Induction over the subsets of a finite set, by taking elements out with CHOOSE.
LEMMA SetInduction ==
    ASSUME NEW S, IsFiniteSet(S), NEW P \in SUBSET SUBSET S, {} \in P,
           \A T \in SUBSET S : T # {} /\ T \ {Pick(T)} \in P => T \in P
    PROVE  P = SUBSET S
<1> DEFINE N == {n \in Nat : \A T \in SUBSET S : Cardinality(T) = n => T \in P}
<1>1. \A T \in SUBSET S : IsFiniteSet(T) /\ Cardinality(T) \in Nat
  BY FS_Subset, FS_CardinalityType
<1>2. 0 \in N
  BY <1>1, FS_EmptySet
<1>3. ASSUME NEW n \in N PROVE n + 1 \in N
  <2>1. n \in Nat /\ \A T \in SUBSET S : Cardinality(T) = n => T \in P
    OBVIOUS
  <2>2. ASSUME NEW T \in SUBSET S, Cardinality(T) = n + 1 PROVE T \in P
    <3> HIDE DEF N
    <3>1. CASE T = {}
      BY <3>1
    <3>2. CASE T # {}
      <4>1. T \ {Pick(T)} \in SUBSET S /\ Cardinality(T \ {Pick(T)}) = n
        BY <1>1, <2>1, <2>2, <3>2, PickLemma
      <4> QED BY <2>1, <3>2, <4>1
    <3> QED BY <3>1, <3>2
  <2>3. n + 1 \in Nat
    BY <2>1
  <2> QED BY <2>2, <2>3
<1>4. N = Nat
  <2>1. N \in SUBSET Nat
    OBVIOUS
  <2> HIDE DEF N
  <2> QED BY <1>2, <1>3, <2>1, NumberInduction
<1>5. \A T \in SUBSET S : T \in P
  BY <1>1, <1>4
<1> QED BY <1>5

\* The same, by adding any one element.
LEMMA SetInductionAdd ==
    ASSUME NEW S, IsFiniteSet(S), NEW P \in SUBSET SUBSET S, {} \in P,
           \A T \in P : \A x \in S \ T : T \cup {x} \in P
    PROVE  P = SUBSET S
<1>1. ASSUME NEW T \in SUBSET S, T # {}, T \ {Pick(T)} \in P PROVE T \in P
  <2>1. Pick(T) \in T
    BY <1>1 DEF Pick
  <2> DEFINE x == Pick(T)
             U == T \ {x}
  <2>2. U \cup {x} = T /\ x \in S \ U /\ U \in P
    BY <1>1, <2>1
  <2> HIDE DEF x, U
  <2> QED BY <2>2
<1> QED BY <1>1, SetInduction

\* g is the sum of f over each subset of S, by the equation the fold is defined with.
Rec(g, f, s) == IF s = {} THEN 0 ELSE f[Pick(s)] + g[s \ {Pick(s)}]
IsTotal(g, f, S) == g = [s \in SUBSET S |-> Rec(g, f, s)]

\* The sums that the invariants asserted by the export compare are such a fold.
LEMMA TotalChoice ==
    ASSUME NEW f, NEW S
    PROVE  Total(f, S) = (CHOOSE g : IsTotal(g, f, S))[S]
BY DEF Total, SumFunctionOnSet, FoldFunctionOnSet, MapThenFoldSet, Pick, Rec, IsTotal

\* The equation that defines the sum has a solution: on the subsets with at most n
\* elements, for one n after the other.
LEMMA TotalExists ==
    ASSUME NEW f, NEW S, IsFiniteSet(S)
    PROVE  \E g : IsTotal(g, f, S)
<1> DEFINE Up(n) == {T \in SUBSET S : Cardinality(T) <= n}
           Sol(g, n) == g = [s \in Up(n) |-> Rec(g, f, s)]
           N == {n \in Nat : \E g : Sol(g, n)}
<1>1. \A T \in SUBSET S : IsFiniteSet(T) /\ Cardinality(T) \in Nat
  BY FS_Subset, FS_CardinalityType
<1>2. \A T \in SUBSET S : T # {} =>
        /\ Pick(T) \in T /\ T \ {Pick(T)} \in SUBSET S
        /\ Cardinality(T \ {Pick(T)}) = Cardinality(T) - 1
  BY <1>1, PickLemma
<1>3. 0 \in N
  <2> DEFINE g == [s \in Up(0) |-> 0]
  <2>1. \A s \in Up(0) : s = {}
    BY <1>1, FS_EmptySet
  <2>2. Sol(g, 0)
    BY <2>1 DEF Rec
  <2> QED BY <2>2
<1>4. ASSUME NEW n \in N PROVE n + 1 \in N
  <2>1. PICK g : Sol(g, n)
    OBVIOUS
  <2> DEFINE k == [s \in Up(n + 1) |-> IF s \in Up(n) THEN g[s] ELSE Rec(g, f, s)]
  <2>2. \A s \in Up(n) : g[s] = Rec(g, f, s)
    BY <2>1
  <2>3. \A s \in Up(n + 1) : s # {} => s \ {Pick(s)} \in Up(n)
    BY <1>1, <1>2
  <2>4. \A s \in Up(n) : s \in Up(n + 1) /\ k[s] = g[s]
    BY <1>1
  <2> HIDE DEF Up
  <2>5. \A s \in Up(n + 1) : k[s] = Rec(k, f, s)
    <3> TAKE s \in Up(n + 1)
    <3>1. k[s] = Rec(g, f, s)
      BY <2>2
    <3> HIDE DEF k
    <3> QED BY <2>3, <2>4, <3>1 DEF Rec
  <2>6. Sol(k, n + 1)
    BY <2>5
  <2>7. n + 1 \in Nat
    OBVIOUS
  <2> HIDE DEF k, Sol
  <2> QED BY <2>6, <2>7
<1>5. N = Nat
  <2>1. N \in SUBSET Nat
    OBVIOUS
  <2> HIDE DEF N
  <2> QED BY <1>3, <1>4, <2>1, NumberInduction
<1>6. PICK g : Sol(g, Cardinality(S))
  BY <1>1, <1>5
<1>7. Up(Cardinality(S)) = SUBSET S
  BY <1>1, FS_Subset
<1> QED BY <1>6, <1>7 DEF IsTotal

\* The sum is the sum of one element, the one that CHOOSE takes, and of the rest.
LEMMA TotalRec ==
    ASSUME NEW f, NEW S, IsFiniteSet(S)
    PROVE  /\ Total(f, {}) = 0
           /\ S # {} => Total(f, S) = f[Pick(S)] + Total(f, S \ {Pick(S)})
<1> DEFINE G(T) == CHOOSE g : IsTotal(g, f, T)
<1>1. \A T \in SUBSET S : IsFiniteSet(T)
  BY FS_Subset
<1>2. ASSUME NEW T \in SUBSET S, NEW s \in SUBSET T PROVE G(T)[s] = Rec(G(T), f, s)
  <2>1. \E g : IsTotal(g, f, T)
    BY <1>1, TotalExists
  <2>2. IsTotal(G(T), f, T)
    BY <2>1
  <2> HIDE DEF G
  <2> QED BY <2>2 DEF IsTotal
<1>3. \A T \in SUBSET S : Total(f, T) = G(T)[T]
  BY TotalChoice
<1> HIDE DEF G
<1>4. \A T \in SUBSET S : G(T)[{}] = 0
  <2>1. \A T \in SUBSET S : {} \in SUBSET T
    OBVIOUS
  <2> QED BY <1>2, <2>1 DEF Rec
<1>5. Total(f, {}) = 0
  <2>1. {} \in SUBSET S
    OBVIOUS
  <2> QED BY <1>3, <1>4, <2>1
<1>6. ASSUME S # {} PROVE Total(f, S) = f[Pick(S)] + Total(f, S \ {Pick(S)})
  <2> DEFINE U == S \ {Pick(S)}
             P == {T \in SUBSET U : G(U)[T] = G(S)[T]}
  <2>1. U \in SUBSET S /\ S \in SUBSET S /\ U \in SUBSET U /\ {} \in SUBSET U
    OBVIOUS
  <2>2. {} \in P
    BY <1>4, <2>1
  <2>3. ASSUME NEW T \in SUBSET U, T # {}, T \ {Pick(T)} \in P PROVE T \in P
    <3>1. G(U)[T \ {Pick(T)}] = G(S)[T \ {Pick(T)}]
      BY <2>3
    <3>2. T \in SUBSET S
      BY <2>1
    <3>3. G(U)[T] = Rec(G(U), f, T) /\ G(S)[T] = Rec(G(S), f, T)
      BY <1>2, <2>1, <3>2
    <3> HIDE DEF U
    <3> QED BY <2>3, <3>1, <3>3 DEF Rec
  <2>4. P = SUBSET U
    <3>1. P \in SUBSET SUBSET U /\ IsFiniteSet(U)
      BY <1>1, <2>1
    <3> HIDE DEF P, U
    <3> QED BY <2>2, <2>3, <3>1, SetInduction
  <2>5. G(U)[U] = G(S)[U]
    BY <2>1, <2>4
  <2>6. G(S)[S] = f[Pick(S)] + G(S)[U]
    BY <1>2, <1>6, <2>1 DEF Rec
  <2> HIDE DEF U
  <2>7. Total(f, S) = f[Pick(S)] + Total(f, U)
    BY <1>3, <2>1, <2>5, <2>6
  <2> QED BY <2>7 DEF U
<1> QED BY <1>5, <1>6

\* Nothing sums up to zero.
LEMMA TotalEmpty ==
    ASSUME NEW f
    PROVE  Total(f, {}) = 0
BY TotalRec, FS_EmptySet

\* A sum of integers is one, and so is a sum of natural numbers.
LEMMA TotalType ==
    ASSUME NEW f, NEW S, IsFiniteSet(S), NEW K, K \in {Int, Nat}, \A x \in S : f[x] \in K
    PROVE  Total(f, S) \in K
<1> DEFINE P == {T \in SUBSET S : Total(f, T) \in K}
<1>1. \A T \in SUBSET S : IsFiniteSet(T)
  BY FS_Subset
<1>2. 0 \in K /\ \A a, b \in K : a + b \in K
  <2>1. CASE K = Int BY <2>1
  <2>2. CASE K = Nat BY <2>2
  <2> QED BY <2>1, <2>2
<1>3. {} \in P
  BY <1>2, TotalRec
<1>4. ASSUME NEW T \in SUBSET S, T # {}, T \ {Pick(T)} \in P PROVE T \in P
  <2>1. Total(f, T) = f[Pick(T)] + Total(f, T \ {Pick(T)})
    BY <1>1, <1>4, TotalRec
  <2>2. Pick(T) \in S
    BY <1>4 DEF Pick
  <2> QED BY <1>2, <1>4, <2>1, <2>2
<1>5. P = SUBSET S
  <2>1. P \in SUBSET SUBSET S
    OBVIOUS
  <2> HIDE DEF P
  <2> QED BY <1>3, <1>4, <2>1, SetInduction
<1> QED BY <1>5

\* The order does not matter: any element may be taken out first.
LEMMA TotalRemove ==
    ASSUME NEW f, NEW S, IsFiniteSet(S), \A x \in S : f[x] \in Int, NEW x \in S
    PROVE  Total(f, S) = f[x] + Total(f, S \ {x})
<1> DEFINE Good(T) == \A y \in T : Total(f, T) = f[y] + Total(f, T \ {y})
           N == {n \in Nat : \A T \in SUBSET S : Cardinality(T) = n => Good(T)}
<1>1. \A T \in SUBSET S : /\ IsFiniteSet(T) /\ Cardinality(T) \in Nat
                          /\ Total(f, T) \in Int
  BY FS_Subset, FS_CardinalityType, TotalType
<1>2. 0 \in N
  <2>1. \A T \in SUBSET S : Cardinality(T) = 0 => T = {}
    BY <1>1, FS_EmptySet
  <2> QED BY <2>1
<1>3. ASSUME NEW n \in N PROVE n + 1 \in N
  <2>1. n \in Nat /\ \A T \in SUBSET S : Cardinality(T) = n => Good(T)
    OBVIOUS
  <2>2. ASSUME NEW T \in SUBSET S, Cardinality(T) = n + 1, NEW y \in T
        PROVE  Total(f, T) = f[y] + Total(f, T \ {y})
    <3> HIDE DEF N, Good
    <3> DEFINE p == Pick(T)
    <3>1. p \in T /\ Total(f, T) = f[p] + Total(f, T \ {p})
      BY <1>1, PickLemma, TotalRec
    <3> HIDE DEF p
    <3>2. CASE y = p
      BY <3>1, <3>2
    <3>3. CASE y # p
      <4>1. /\ T \ {p} \in SUBSET S /\ T \ {y} \in SUBSET S
            /\ Cardinality(T \ {p}) = n /\ Cardinality(T \ {y}) = n
        <5>1. \A q \in T : Cardinality(T \ {q}) = Cardinality(T) - 1
          BY <1>1, FS_RemoveElement
        <5> QED BY <2>1, <2>2, <3>1, <5>1
      <4>2. Good(T \ {p}) /\ Good(T \ {y})
        BY <2>1, <4>1
      <4>3. y \in T \ {p} /\ p \in T \ {y} /\ (T \ {p}) \ {y} = (T \ {y}) \ {p}
        BY <3>1, <3>3
      <4>4. Total(f, T \ {p}) = f[y] + Total(f, (T \ {y}) \ {p})
        BY <4>2, <4>3 DEF Good
      <4>5. Total(f, T \ {y}) = f[p] + Total(f, (T \ {y}) \ {p})
        BY <4>2, <4>3 DEF Good
      <4>6. (T \ {y}) \ {p} \in SUBSET S
        OBVIOUS
      <4>7. Total(f, (T \ {y}) \ {p}) \in Int /\ f[p] \in Int /\ f[y] \in Int
        BY <1>1, <3>1, <4>6
      <4> QED BY <3>1, <4>4, <4>5, <4>7
    <3> QED BY <3>2, <3>3
  <2> QED BY <2>1, <2>2
<1>4. N = Nat
  <2>1. N \in SUBSET Nat
    OBVIOUS
  <2> HIDE DEF N
  <2> QED BY <1>2, <1>3, <2>1, NumberInduction
<1>5. Good(S)
  BY <1>1, <1>4
<1> QED BY <1>5

\* What adding one element to the set adds to the sum.
LEMMA TotalAdd ==
    ASSUME NEW f, NEW S, IsFiniteSet(S), NEW x, x \notin S,
           \A y \in S \cup {x} : f[y] \in Int
    PROVE  Total(f, S \cup {x}) = f[x] + Total(f, S)
<1> DEFINE T == S \cup {x}
<1>1. IsFiniteSet(T) /\ x \in T /\ T \ {x} = S
  BY FS_AddElement
<1> HIDE DEF T
<1>2. Total(f, T) = f[x] + Total(f, T \ {x})
  BY <1>1, TotalRemove DEF T
<1> QED BY <1>1, <1>2 DEF T

\* Sums are linear.
LEMMA TotalLinear ==
    ASSUME NEW S, IsFiniteSet(S), NEW f, NEW g, NEW k, NEW c \in Int,
           \A x \in S : f[x] \in Int /\ g[x] \in Int /\ k[x] = f[x] + c * g[x]
    PROVE  Total(k, S) = Total(f, S) + c * Total(g, S)
<1> DEFINE P == {T \in SUBSET S : Total(k, T) = Total(f, T) + c * Total(g, T)}
<1>1. \A x \in S : k[x] \in Int
  OBVIOUS
<1>2. \A T \in SUBSET S : IsFiniteSet(T) /\ Total(f, T) \in Int /\ Total(g, T) \in Int
  BY FS_Subset, TotalType
<1>3. {} \in P
  <2>1. Total(k, {}) = 0 /\ Total(f, {}) = 0 /\ Total(g, {}) = 0
    BY TotalEmpty
  <2>2. c * 0 = 0
    OBVIOUS
  <2> QED BY <2>1, <2>2
<1>4. ASSUME NEW T \in SUBSET S, T # {}, T \ {Pick(T)} \in P PROVE T \in P
  <2> DEFINE x == Pick(T)
             U == T \ {x}
  <2>1. x \in S /\ U \in SUBSET S
    BY <1>4 DEF Pick
  <2>2. Total(k, U) = Total(f, U) + c * Total(g, U)
    BY <1>4
  <2>3. /\ Total(f, T) = f[x] + Total(f, U)
        /\ Total(g, T) = g[x] + Total(g, U)
        /\ Total(k, T) = k[x] + Total(k, U)
    BY <1>2, <1>4, TotalRec
  <2> HIDE DEF x, U
  <2>4. Total(f, U) \in Int /\ Total(g, U) \in Int /\ f[x] \in Int /\ g[x] \in Int
    BY <1>2, <2>1
  <2>5. k[x] = f[x] + c * g[x]
    BY <2>1
  <2>6. \A a, b, i, j \in Int : (i + c * j) + (a + c * b) = (i + a) + c * (j + b)
    OBVIOUS
  <2> QED BY <2>2, <2>3, <2>4, <2>5, <2>6
<1>5. P = SUBSET S
  <2>1. P \in SUBSET SUBSET S
    OBVIOUS
  <2> HIDE DEF P
  <2> QED BY <1>3, <1>4, <2>1, SetInduction
<1> QED BY <1>5

\* The sum of a constant.
LEMMA TotalConstant ==
    ASSUME NEW S, IsFiniteSet(S), NEW c \in Int, NEW f, \A x \in S : f[x] = c
    PROVE  Total(f, S) = c * Cardinality(S)
<1> DEFINE P == {T \in SUBSET S : Total(f, T) = c * Cardinality(T)}
<1>1. \A T \in SUBSET S : IsFiniteSet(T) /\ Cardinality(T) \in Nat
  BY FS_Subset, FS_CardinalityType
<1>2. {} \in P
  BY TotalRec, FS_EmptySet
<1>3. ASSUME NEW T \in SUBSET S, T # {}, T \ {Pick(T)} \in P PROVE T \in P
  <2> DEFINE x == Pick(T)
             U == T \ {x}
  <2>1. f[x] = c /\ Total(f, T) = f[x] + Total(f, U) /\ U \in SUBSET S
    BY <1>1, <1>3, TotalRec DEF Pick
  <2>2. Cardinality(U) = Cardinality(T) - 1
    BY <1>1, <1>3, PickLemma
  <2>3. Total(f, U) = c * Cardinality(U)
    BY <1>3
  <2> HIDE DEF x, U
  <2>4. \A n \in Int : c + c * (n - 1) = c * n
    OBVIOUS
  <2> QED BY <1>1, <2>1, <2>2, <2>3, <2>4
<1>4. P = SUBSET S
  <2>1. P \in SUBSET SUBSET S
    OBVIOUS
  <2> HIDE DEF P
  <2> QED BY <1>2, <1>3, <2>1, SetInduction
<1> QED BY <1>4

\* The sum of nothing.
LEMMA TotalZero ==
    ASSUME NEW S, IsFiniteSet(S), NEW f, \A x \in S : f[x] = 0
    PROVE  Total(f, S) = 0
<1> DEFINE c == 0
<1>1. c \in Int /\ \A n \in Nat : c * n = 0
  OBVIOUS
<1>2. \A x \in S : f[x] = c
  OBVIOUS
<1> HIDE DEF c
<1>3. Total(f, S) = c * Cardinality(S) /\ Cardinality(S) \in Nat
  BY <1>1, <1>2, TotalConstant, FS_CardinalityType
<1>4. Total(f, S) = c
  BY <1>1, <1>3 DEF c
<1> QED BY <1>4 DEF c

\* Sums of the same amounts are the same.
LEMMA TotalSame ==
    ASSUME NEW S, IsFiniteSet(S), NEW f, NEW k, \A x \in S : f[x] \in Int /\ k[x] = f[x]
    PROVE  Total(k, S) = Total(f, S)
<1>1. \A x \in S : f[x] \in Int /\ k[x] = f[x] + 0 * f[x]
  OBVIOUS
<1>2. Total(k, S) = Total(f, S) + 0 * Total(f, S)
  BY <1>1, TotalLinear
<1>3. Total(f, S) \in Int
  BY TotalType
<1> QED BY <1>2, <1>3

\* The sum of sums.
LEMMA TotalPlus ==
    ASSUME NEW S, IsFiniteSet(S), NEW f, NEW g, NEW k,
           \A x \in S : f[x] \in Int /\ g[x] \in Int /\ k[x] = f[x] + g[x]
    PROVE  Total(k, S) = Total(f, S) + Total(g, S)
<1> DEFINE one == 1
<1>0. one \in Int
  OBVIOUS
<1>1. \A a \in Int : one * a = a
  OBVIOUS
<1> HIDE DEF one
<1>2. \A x \in S : f[x] \in Int /\ g[x] \in Int /\ k[x] = f[x] + one * g[x]
  BY <1>1
<1>3. Total(k, S) = Total(f, S) + one * Total(g, S)
  BY <1>0, <1>2, TotalLinear
<1>4. Total(g, S) \in Int
  BY TotalType
<1> QED BY <1>1, <1>3, <1>4

\* A sum over delegations can be taken validator by validator.
LEMMA TotalByValidator ==
    ASSUME NEW D, IsFiniteSet(D), NEW r,
           \A d \in D : d[2] \in Validators /\ r[d] \in Int
    PROVE  Total([v \in Validators |-> Total(r, Of(D, v))], Validators) = Total(r, D)
<1> DEFINE F(T) == [v \in Validators |-> Total(r, Of(T, v))]
           P == {T \in SUBSET D : Total(F(T), Validators) = Total(r, T)}
<1>1. IsFiniteSet(Validators)
  BY ExportAssumption
<1>2. ASSUME NEW T \in SUBSET D
      PROVE  IsFiniteSet(T) /\ \A v \in Validators : IsFiniteSet(Of(T, v)) /\ F(T)[v] \in Int
  <2>1. IsFiniteSet(T)
    BY FS_Subset
  <2>2. ASSUME NEW v \in Validators PROVE IsFiniteSet(Of(T, v)) /\ F(T)[v] \in Int
    <3>1. Of(T, v) \in SUBSET D
      BY DEF Of
    <3>2. IsFiniteSet(Of(T, v)) /\ \A d \in Of(T, v) : r[d] \in Int
      BY <3>1, FS_Subset
    <3>3. Total(r, Of(T, v)) \in Int
      BY <3>2, TotalType
    <3> QED BY <3>2, <3>3
  <2> QED BY <2>1, <2>2
<1>3. {} \in P
  <2>1. \A v \in Validators : F({})[v] = 0
    <3>1. \A v \in Validators : Of({}, v) = {}
      BY DEF Of
    <3> QED BY <3>1, TotalEmpty
  <2> HIDE DEF F
  <2>2. Total(F({}), Validators) = 0 * Cardinality(Validators)
    BY <1>1, <2>1, TotalConstant
  <2>3. Cardinality(Validators) \in Nat
    BY <1>1, FS_CardinalityType
  <2> QED BY <2>2, <2>3, TotalEmpty
<1>4. ASSUME NEW T \in P, NEW x \in D \ T PROVE T \cup {x} \in P
  <2> DEFINE U == T \cup {x}
             w == x[2]
             V == Validators \ {w}
  <2>1. /\ T \in SUBSET D /\ U \in SUBSET D /\ w \in Validators
        /\ Total(F(T), Validators) = Total(r, T)
    OBVIOUS
  <2>2. F(U)[w] = r[x] + F(T)[w]
    <3>1. Of(U, w) = Of(T, w) \cup {x} /\ x \notin Of(T, w)
      BY DEF Of
    <3>2. \A d \in Of(T, w) \cup {x} : r[d] \in Int
      BY DEF Of
    <3>3. Total(r, Of(T, w) \cup {x}) = r[x] + Total(r, Of(T, w))
      BY <1>2, <2>1, <3>1, <3>2, TotalAdd
    <3> HIDE DEF U, w
    <3> QED BY <2>1, <3>1, <3>3
  <2>3. \A v \in V : F(U)[v] = F(T)[v]
    <3>1. \A v \in V : Of(U, v) = Of(T, v)
      BY DEF Of
    <3> HIDE DEF U, w
    <3> QED BY <3>1
  <2>4. Total(r, U) = r[x] + Total(r, T)
    BY <1>2, <2>1, TotalAdd
  <2>5. r[x] \in Int
    OBVIOUS
  <2>6. \A v \in Validators : F(T)[v] \in Int /\ F(U)[v] \in Int
    BY <1>2, <2>1
  <2> HIDE DEF F, U, w
  <2>7. /\ Total(F(U), Validators) = F(U)[w] + Total(F(U), V)
        /\ Total(F(T), Validators) = F(T)[w] + Total(F(T), V)
    BY <1>1, <2>1, <2>6, TotalRemove
  <2>8. Total(F(U), V) = Total(F(T), V)
    <3>1. IsFiniteSet(V)
      BY <1>1, FS_Subset
    <3> QED BY <2>3, <2>6, <3>1, TotalSame
  <2>9. Total(F(T), V) \in Int
    <3>1. IsFiniteSet(V)
      BY <1>1, FS_Subset
    <3> QED BY <2>6, <3>1, TotalType
  <2>10. Total(F(U), Validators) = Total(r, U)
    BY <2>1, <2>2, <2>4, <2>5, <2>6, <2>7, <2>8, <2>9
  <2>11. U \in P
    BY <2>1, <2>10
  <2> QED BY <2>11 DEF U
<1>5. P = SUBSET D
  <2>1. P \in SUBSET SUBSET D
    OBVIOUS
  <2> HIDE DEF P
  <2> QED BY <1>3, <1>4, <2>1, SetInductionAdd
<1>6. D \in P
  BY <1>5
<1> QED BY <1>6

-----------------------------------------------------------------------------
(* The inductive invariant.                                                *)

\* The fields of a state.
Fields == {"jailed", "powerIndex", "lastVals", "UnbondingHeight", "StartHeight", "ubds",
           "reds", "delegations", "startingInfo", "rewards", "commission", "outstanding",
           "references", "slashes", "slashEvents", "communityPool", "moduleBalance"}

\* A record with these fields.
IsState(s) == DOMAIN s = Fields /\ s = [f \in Fields |-> s[f]]

\* Staking: the power index and the set are the validators that are not jailed.
InSet(jailed, powerIndex, lastVals) ==
    /\ jailed \subseteq Validators
    /\ powerIndex = Validators \ jailed /\ lastVals = Validators \ jailed

\* An unbonding delegation or redelegation entry.
Entry == [of : Delegators \X Validators, CreationHeight : Nat]

\* Every validator has a delegation.
Delegated(dels) ==
    /\ dels \subseteq Delegators \X Validators
    /\ \A v \in Validators : Of(dels, v) # {}

\* Distribution: the account holds what is owed.
Solvent(dels, rewards, commission, outstanding, pool, balance) ==
    /\ rewards \in [dels -> Nat] /\ commission \in [Validators -> Nat]
    /\ outstanding \in [Validators -> Int] /\ pool \in Int /\ balance \in Int
    /\ Unit * balance = pool + Total(outstanding, Validators)
    /\ \A v \in Validators : outstanding[v] >= commission[v] + Total(rewards, Of(dels, v))

\* One validator: its slashes are numbered, and each record of one is referenced once.
Counted(n, refs, events, slashed) ==
    /\ events \subseteq [n : Nat, height : Nat] /\ IsFiniteSet(events)
    /\ \A e \in events : e.n <= slashed
    /\ slashed \in Nat /\ refs = 1 + n + Cardinality(events)

\* One delegation: it started in the past, and every slash since is on record.
Explained(info, events, slashed, h) ==
    /\ info \in [height : 0..h, slashes : 0..slashed]
    /\ \A n \in info.slashes + 1..slashed :
         \E e \in events : e.n = n /\ e.height >= info.height

\* A state of the application at height h.
Sound(s, h) ==
    /\ IsState(s) /\ h \in Nat
    /\ InSet(s.jailed, s.powerIndex, s.lastVals)
    /\ s.ubds \subseteq Entry /\ s.reds \subseteq Entry
    /\ Delegated(s.delegations)
    /\ Solvent(s.delegations, s.rewards, s.commission, s.outstanding, s.communityPool,
               s.moduleBalance)
    /\ DOMAIN s.references = Validators /\ DOMAIN s.slashes = Validators
    /\ DOMAIN s.slashEvents = Validators
    /\ \A v \in Validators : Counted(Cardinality(Of(s.delegations, v)), s.references[v],
                                     s.slashEvents[v], s.slashes[v])
    /\ \A d \in s.delegations : Explained(s.startingInfo[d], s.slashEvents[d[2]],
                                          s.slashes[d[2]], h)

\* The height a chain started from the export continues from.
GenesisHeight == IF exported.Height = 0 THEN 0 ELSE exported.Height - 1

\* The inductive invariant: the state, the one before it and the one written are
\* sound, each at the height it is read at.
IInv ==
    /\ Sound(app, height)
    /\ previous = NoPrevious \/ Sound(previous.app, previous.height)
    /\ Ok => Sound(exported.app, GenesisHeight)
    /\ NoHeightSurvives /\ JailedAsListed

-----------------------------------------------------------------------------
(* What the operations change: w is the state that one leaves of s.         *)

\* The fields outside F are left alone.
Same(s, w, F) == \A f \in Fields \ F : w[f] = s[f]
\* Amounts, added to, truncated to whole coins and their remainders.
Plus(amounts, x, c) == [amounts EXCEPT ![x] = @ + c]
Coins(amounts, S) == [x \in S |-> amounts[x] \div Unit]
Fractions(amounts, S) == [x \in S |-> amounts[x] % Unit]
Without(amounts, S, x) == [k \in S \ {x} |-> amounts[k]]
\* What each delegation of v gets of a block, and the rewards after it.
Share(dels, v) == (2 * Unit - 1) \div Cardinality(Of(dels, v))
Rewarded(dels, rewards, v) ==
    [d \in dels |-> IF d[2] = v THEN rewards[d] + Share(dels, v) ELSE rewards[d]]
\* The rewards, and what is outstanding, after the delegations D withdrew.
Withdrawn(dels, rewards, D) == [d \in dels |-> IF d \in D THEN 0 ELSE rewards[d]]
NotOutstanding(outstanding, rewards, D) ==
    [v \in Validators |-> outstanding[v] - Total(rewards, Of(D, v))]
\* What is outstanding after every validator withdrew its commission.
CommissionPaid(outstanding, commission) ==
    [v \in Validators |-> outstanding[v] - Unit * Coins(commission, Validators)[v]]
\* The records of a slash and of the start of a delegation at height h.
Event(s, v, h) == [n |-> s.slashes[v] + 1, height |-> h]
Info(s, v, h) == [height |-> h, slashes |-> s.slashes[v]]

\* AllocateTokens: v proposed the block.
Allocated(s, w, v) ==
    /\ IsState(w) /\ Same(s, w, {"moduleBalance", "commission", "outstanding", "rewards"})
    /\ w.moduleBalance = s.moduleBalance + 2
    /\ w.commission = Plus(s.commission, v, 1)
    /\ w.outstanding = Plus(s.outstanding, v, 2 * Unit)
    /\ w.rewards = Rewarded(s.delegations, s.rewards, v)

\* Slash and jail: v, at height h.
Slashed(s, w, v, h) ==
    /\ IsState(w) /\ Same(s, w, {"slashes", "slashEvents", "references", "jailed", "powerIndex",
                                 "lastVals", "UnbondingHeight"})
    /\ w.slashes = Plus(s.slashes, v, 1)
    /\ w.slashEvents = [s.slashEvents EXCEPT ![v] = @ \cup {Event(s, v, h)}]
    /\ w.references = Plus(s.references, v, 1)
    /\ w.jailed = s.jailed \cup {v}
    /\ w.powerIndex = s.powerIndex \ {v} /\ w.lastVals = s.lastVals \ {v}

\* Unjail: v.
Unjailed(s, w, v) ==
    /\ IsState(w) /\ Same(s, w, {"jailed", "powerIndex", "lastVals", "StartHeight"})
    /\ w.jailed = s.jailed \ {v}
    /\ w.powerIndex = s.powerIndex \cup {v} /\ w.lastVals = s.lastVals \cup {v}

\* WithdrawDelegationRewards, of each delegation of D, at height h.
RewardsWithdrawn(s, w, D, h) ==
    /\ IsState(w)
    /\ Same(s, w, {"rewards", "outstanding", "communityPool", "moduleBalance", "startingInfo"})
    /\ w.rewards = Withdrawn(s.delegations, s.rewards, D)
    /\ w.outstanding = NotOutstanding(s.outstanding, s.rewards, D)
    /\ w.communityPool = s.communityPool + Total(Fractions(s.rewards, D), D)
    /\ w.moduleBalance = s.moduleBalance - Total(Coins(s.rewards, D), D)
    /\ w.startingInfo = [d \in s.delegations |-> IF d \in D THEN Info(s, d[2], h)
                                                            ELSE s.startingInfo[d]]

\* A delegation is taken out after its rewards were withdrawn.
Removed(w, r, d) ==
    /\ IsState(r) /\ Same(w, r, {"delegations", "rewards", "startingInfo", "references"})
    /\ r.delegations = w.delegations \ {d}
    /\ r.rewards = Without(w.rewards, w.delegations, d)
    /\ r.startingInfo = Without(w.startingInfo, w.delegations, d)
    /\ r.references = [w.references EXCEPT ![d[2]] = @ - 1]

\* A redelegation's destination is put in.
Added(r, w, dst, info, entry) ==
    /\ IsState(w) /\ Same(r, w, {"delegations", "rewards", "startingInfo", "references", "reds"})
    /\ w.delegations = r.delegations \cup {dst}
    /\ w.rewards = [k \in r.delegations \cup {dst} |-> IF k = dst THEN 0 ELSE r.rewards[k]]
    /\ w.startingInfo = [k \in r.delegations \cup {dst} |->
                           IF k = dst THEN info ELSE r.startingInfo[k]]
    /\ w.references = Plus(r.references, dst[2], 1)
    /\ w.reds = r.reds \cup {entry}

\* An unbonding entry is added.
Undelegated(r, w, entry) ==
    IsState(w) /\ Same(r, w, {"ubds"}) /\ w.ubds = r.ubds \cup {entry}

\* AllocateTokens.
LEMMA AllocateTokensFields ==
    ASSUME NEW s, IsState(s), NEW v
    PROVE  Allocated(s, AllocateTokens(s, v), v)
BY Zenon DEF AllocateTokens, IsState, Fields, Same, Share, Rewarded, Plus, Allocated

\* Slash.
LEMMA SlashFields ==
    ASSUME NEW s, IsState(s), NEW v, NEW h
    PROVE  Slashed(s, Slash(s, v, h), v, h)
<1> DEFINE w == Slash(s, v, h)
           Old == {"slashes", "slashEvents", "references", "jailed", "powerIndex", "lastVals",
                   "UnbondingHeight"}
<1>1. IsState(w)
  BY ZenonT(40) DEF Slash, IsState
<1>2. Same(s, w, Old)
  BY Zenon DEF Slash, IsState, Same
<1>3. w.slashes = Plus(s.slashes, v, 1)
  BY Zenon DEF Slash, IsState, Fields, Plus
<1>4. w.slashEvents = [s.slashEvents EXCEPT ![v] = @ \cup {Event(s, v, h)}]
  BY Zenon DEF Slash, IsState, Fields, Event
<1>5. w.references = Plus(s.references, v, 1)
  BY Zenon DEF Slash, IsState, Fields, Plus
<1>6. w.jailed = s.jailed \cup {v}
  BY Zenon DEF Slash, IsState, Fields
<1>7. w.powerIndex = s.powerIndex \ {v} /\ w.lastVals = s.lastVals \ {v}
  BY Zenon DEF Slash, IsState, Fields
<1> QED BY Zenon, <1>1, <1>2, <1>3, <1>4, <1>5, <1>6, <1>7 DEF Slashed

\* Unjail.
LEMMA UnjailFields ==
    ASSUME NEW s, IsState(s), NEW v, NEW h
    PROVE  Unjailed(s, Unjail(s, v, h), v)
BY Zenon DEF Unjail, IsState, Fields, Same, Unjailed

\* WithdrawDelegationRewards.
LEMMA WithdrawDelegationRewardsFields ==
    ASSUME NEW s, IsState(s), NEW D, NEW h
    PROVE  RewardsWithdrawn(s, WithdrawDelegationRewards(s, D, h), D, h)
BY Zenon DEF WithdrawDelegationRewards, IsState, Fields, Same, Withdrawn, NotOutstanding,
             Fractions, Coins, Info, RewardsWithdrawn

\* RemoveDelegation, after it has withdrawn.
LEMMA RemoveDelegationFields ==
    ASSUME NEW s, NEW d, NEW h, IsState(WithdrawDelegationRewards(s, {d}, h)),
           WithdrawDelegationRewards(s, {d}, h).delegations = s.delegations
    PROVE  Removed(WithdrawDelegationRewards(s, {d}, h), RemoveDelegation(s, d, h), d)
<1> DEFINE w == WithdrawDelegationRewards(s, {d}, h)
           rest == w.delegations \ {d}
<1>1. RemoveDelegation(s, d, h) = [w EXCEPT !.delegations = rest,
                                            !.rewards = [k \in rest |-> w.rewards[k]],
                                            !.startingInfo = [k \in rest |-> w.startingInfo[k]],
                                            !.references[d[2]] = @ - 1]
  BY DEF RemoveDelegation
<1>2. IsState(w)
  OBVIOUS
<1> HIDE DEF w
<1>3. Removed(w, RemoveDelegation(s, d, h), d)
  BY Zenon, <1>1, <1>2 DEF IsState, Fields, Same, Without, Removed
<1> QED BY <1>3 DEF w

\* Undelegate, after it has removed the delegation.
LEMMA UndelegateFields ==
    ASSUME NEW s, NEW d, NEW h, IsState(RemoveDelegation(s, d, h))
    PROVE  Undelegated(RemoveDelegation(s, d, h), Undelegate(s, d, h),
                       [of |-> d, CreationHeight |-> h])
BY Zenon DEF Undelegate, IsState, Fields, Same, Undelegated

\* BeginRedelegate, after it has removed the delegation.
LEMMA BeginRedelegateFields ==
    ASSUME NEW s, NEW d, NEW v, NEW h, IsState(RemoveDelegation(s, d, h))
    PROVE  Added(RemoveDelegation(s, d, h), BeginRedelegate(s, d, v, h), <<d[1], v>>,
                 Info(s, v, h), [of |-> d, CreationHeight |-> h])
<1> DEFINE r == RemoveDelegation(s, d, h)
           dst == <<d[1], v>>
           all == r.delegations \cup {dst}
<1>1. BeginRedelegate(s, d, v, h) =
        [r EXCEPT !.delegations = all,
                  !.rewards = [k \in all |-> IF k = dst THEN 0 ELSE r.rewards[k]],
                  !.startingInfo = [k \in all |-> IF k = dst THEN Info(s, v, h)
                                                  ELSE r.startingInfo[k]],
                  !.references[v] = @ + 1,
                  !.reds = @ \cup {[of |-> d, CreationHeight |-> h]}]
  BY Zenon DEF BeginRedelegate, Info
<1>2. IsState(r) /\ dst[2] = v
  OBVIOUS
<1> HIDE DEF r, dst
<1>3. Added(r, BeginRedelegate(s, d, v, h), dst, Info(s, v, h),
            [of |-> d, CreationHeight |-> h])
  BY ZenonT(40), <1>1, <1>2 DEF IsState, Fields, Same, Plus, Added
<1> QED BY <1>3 DEF r, dst
-----------------------------------------------------------------------------
(* What keeps the distribution module solvent.                             *)

\* Whole coins and a fraction.
LEMMA Division ==
    ASSUME NEW a \in Nat, NEW b \in Nat \ {0}
    PROVE  a \div b \in Nat /\ a % b \in Nat /\ a = b * (a \div b) + (a % b)
OBVIOUS

\* What a change of one amount changes of the sum.
LEMMA TotalExcept ==
    ASSUME NEW S, IsFiniteSet(S), NEW f, \A y \in S : f[y] \in Int, NEW x \in S, NEW c \in Int,
           NEW g, g[x] = f[x] + c, \A y \in S \ {x} : g[y] = f[y]
    PROVE  Total(g, S) = Total(f, S) + c
<1> DEFINE T == S \ {x}
<1>1. \A y \in S : g[y] \in Int
  OBVIOUS
<1>2. IsFiniteSet(T)
  BY FS_Subset
<1>3. Total(g, S) = g[x] + Total(g, T) /\ Total(f, S) = f[x] + Total(f, T)
  BY <1>1, TotalRemove
<1>4. Total(g, T) = Total(f, T)
  BY <1>2, TotalSame
<1>5. Total(f, T) \in Int
  BY <1>2, TotalType
<1> QED BY <1>3, <1>4, <1>5

\* There are finitely many delegations, and as many of every validator.
LEMMA FiniteDelegations ==
    ASSUME NEW dels \in SUBSET (Delegators \X Validators)
    PROVE  /\ IsFiniteSet(dels) /\ IsFiniteSet(Validators)
           /\ \A v \in Validators : IsFiniteSet(Of(dels, v)) /\ Cardinality(Of(dels, v)) \in Nat
<1>1. IsFiniteSet(dels) /\ IsFiniteSet(Validators)
  BY ExportAssumption, FS_Product, FS_Subset
<1>2. ASSUME NEW v \in Validators
      PROVE  IsFiniteSet(Of(dels, v)) /\ Cardinality(Of(dels, v)) \in Nat
  <2>1. Of(dels, v) \in SUBSET dels
    BY DEF Of
  <2> QED BY <1>1, <2>1, FS_Subset, FS_CardinalityType
<1> QED BY <1>1, <1>2

\* Fees keep the account solvent: what is paid out of two coins is less than them.
LEMMA AllocateTokensSolvent ==
    ASSUME NEW dels, Delegated(dels), NEW r, NEW c, NEW o, NEW p, NEW b,
           Solvent(dels, r, c, o, p, b), NEW v \in Validators
    PROVE  Solvent(dels, Rewarded(dels, r, v), Plus(c, v, 1), Plus(o, v, 2 * Unit), p, b + 2)
<1>0. Unit \in Nat \ {0}
  BY ExportAssumption
<1> DEFINE c2 == [c EXCEPT ![v] = @ + 1]
           o2 == [o EXCEPT ![v] = @ + 2 * Unit]
           n == Cardinality(Of(dels, v))
           share == (2 * Unit - 1) \div n
           r2 == [d \in dels |-> IF d[2] = v THEN r[d] + share ELSE r[d]]
<1>1. dels \in SUBSET (Delegators \X Validators)
  BY DEF Delegated
<1>2. /\ IsFiniteSet(Validators)
      /\ \A u \in Validators : IsFiniteSet(Of(dels, u)) /\ Of(dels, u) \in SUBSET dels
  BY <1>1, FiniteDelegations DEF Of
<1>3. n \in Nat \ {0}
  BY <1>1, <1>2, FiniteDelegations, FS_EmptySet DEF Delegated
<1>4. share \in Nat /\ n * share <= 2 * Unit - 1
  <2>1. 2 * Unit - 1 \in Nat
    BY <1>0
  <2> HIDE DEF n
  <2>2. share \in Nat /\ (2 * Unit - 1) % n \in Nat
        /\ 2 * Unit - 1 = n * share + ((2 * Unit - 1) % n)
    BY <1>3, <2>1, Division
  <2> HIDE DEF share
  <2>3. n * share \in Nat
    BY <1>3, <2>2
  <2> QED BY <2>1, <2>2, <2>3
<1> HIDE DEF share
<1>5. /\ r \in [dels -> Nat] /\ c \in [Validators -> Nat] /\ o \in [Validators -> Int]
      /\ p \in Int /\ b \in Int /\ Unit * b = p + Total(o, Validators)
      /\ \A u \in Validators : o[u] >= c[u] + Total(r, Of(dels, u))
  BY DEF Solvent
<1>6. /\ r2 \in [dels -> Nat] /\ c2 \in [Validators -> Nat] /\ o2 \in [Validators -> Int]
  BY <1>0, <1>4, <1>5
<1>7. Unit * (b + 2) = p + Total(o2, Validators)
  <2>1. Total(o2, Validators) = Total(o, Validators) + 2 * Unit
    <3>1. /\ o2[v] = o[v] + 2 * Unit /\ 2 * Unit \in Int
          /\ \A u \in Validators : o[u] \in Int
          /\ \A u \in Validators \ {v} : o2[u] = o[u]
      BY <1>0, <1>5
    <3> HIDE DEF o2
    <3> QED BY <1>2, <3>1, TotalExcept
  <2>2. Total(o, Validators) \in Int
    BY <1>2, <1>5, TotalType
  <2>3. Unit * (b + 2) = Unit * b + 2 * Unit
    BY <1>0, <1>5
  <2> HIDE DEF o2
  <2> QED BY <1>0, <1>5, <2>1, <2>2, <2>3
<1>8. \A u \in Validators : Total(r, Of(dels, u)) \in Int
  BY <1>2, <1>5, TotalType
<1>9. ASSUME NEW u \in Validators PROVE o2[u] >= c2[u] + Total(r2, Of(dels, u))
  <2>1. CASE u = v
    <3> DEFINE one == [d \in dels |-> 1]
    <3>1. \A d \in Of(dels, v) : /\ r[d] \in Int /\ one[d] \in Int /\ one[d] = 1
                                 /\ r2[d] = r[d] + share * one[d]
      BY <1>4, <1>5 DEF Of
    <3> HIDE DEF one, r2
    <3>2. Total(one, Of(dels, v)) = 1 * n
      BY <1>2, <3>1, TotalConstant
    <3>3. Total(r2, Of(dels, v)) = Total(r, Of(dels, v)) + share * Total(one, Of(dels, v))
      BY <1>2, <1>4, <3>1, TotalLinear
    <3> HIDE DEF n
    <3>4. Total(r2, Of(dels, v)) = Total(r, Of(dels, v)) + n * share
      BY <1>3, <1>4, <3>2, <3>3
    <3>5. o2[v] = o[v] + 2 * Unit /\ c2[v] = c[v] + 1
      BY <1>5
    <3>6. o[v] \in Int /\ c[v] \in Int /\ n * share \in Int
      BY <1>3, <1>4, <1>5
    <3> HIDE DEF o2, c2
    <3> QED BY <1>0, <1>4, <1>5, <1>8, <2>1, <3>4, <3>5, <3>6
  <2>2. CASE u # v
    <3>1. \A d \in Of(dels, u) : r[d] \in Int /\ r2[d] = r[d]
      BY <1>5, <2>2 DEF Of
    <3>2. Total(r2, Of(dels, u)) = Total(r, Of(dels, u))
      BY <1>2, <3>1, TotalSame
    <3>3. o2[u] = o[u] /\ c2[u] = c[u]
      BY <1>5, <2>2
    <3> QED BY <1>5, <3>2, <3>3
  <2> QED BY <2>1, <2>2
<1>10. p \in Int /\ b + 2 \in Int
  BY <1>5
<1> HIDE DEF r2, c2, o2
<1>11. Solvent(dels, r2, c2, o2, p, b + 2)
  BY <1>6, <1>7, <1>9, <1>10 DEF Solvent
<1> QED BY Zenon, <1>11 DEF r2, c2, o2, share, n, Rewarded, Share, Plus

\* Amounts that are zero outside a subset sum up to the sum over the subset.
LEMMA TotalOnSubset ==
    ASSUME NEW S, IsFiniteSet(S), NEW T \in SUBSET S, NEW f, NEW q,
           \A x \in T : f[x] \in Int /\ q[x] = f[x], \A x \in S \ T : q[x] = 0
    PROVE  Total(q, S) = Total(f, T)
<1> DEFINE P == {U \in SUBSET S : Total(q, U) = Total(f, U \cap T)}
<1>1. \A U \in SUBSET S : IsFiniteSet(U) /\ IsFiniteSet(U \cap T)
  BY FS_Subset
<1>2. \A x \in S : q[x] \in Int
  OBVIOUS
<1>3. {} \in P
  <2>1. {} \cap T = {}
    OBVIOUS
  <2> QED BY <2>1, TotalEmpty
<1>4. ASSUME NEW U \in P, NEW x \in S \ U PROVE U \cup {x} \in P
  <2> DEFINE W == U \cup {x}
  <2>1. U \in SUBSET S /\ Total(q, U) = Total(f, U \cap T)
    OBVIOUS
  <2>2. Total(q, W) = q[x] + Total(q, U)
    BY <1>1, <1>2, <2>1, TotalAdd
  <2>3. CASE x \in T
    <3>1. W \cap T = (U \cap T) \cup {x} /\ x \notin U \cap T
      BY <2>3
    <3>2. Total(f, (U \cap T) \cup {x}) = f[x] + Total(f, U \cap T)
      BY <1>1, <2>1, <2>3, <3>1, TotalAdd
    <3> QED BY <2>1, <2>2, <2>3, <3>1, <3>2
  <2>4. CASE x \notin T
    <3>1. W \cap T = U \cap T
      BY <2>4
    <3>2. Total(q, U) \in Int /\ q[x] = 0
      BY <1>1, <1>2, <2>1, <2>4, TotalType
    <3>3. Total(q, W) = Total(q, U)
      BY <2>2, <3>2
    <3>4. Total(q, W) = Total(f, W \cap T)
      BY Zenon, <2>1, <3>1, <3>3
    <3> QED BY <2>1, <3>4
  <2> QED BY <2>3, <2>4
<1>5. P = SUBSET S
  <2>1. P \in SUBSET SUBSET S
    OBVIOUS
  <2> HIDE DEF P
  <2> QED BY <1>3, <1>4, <2>1, SetInductionAdd
<1>6. S \in P /\ S \cap T = T
  BY <1>5
<1> QED BY <1>6

\* Withdrawing keeps the account solvent: whole coins leave it, fractions stay in the
\* community pool, and what was outstanding for them no longer is.
LEMMA WithdrawSolvent ==
    ASSUME NEW dels \in SUBSET (Delegators \X Validators), NEW D \in SUBSET dels,
           NEW r, NEW c, NEW o, NEW p, NEW b, Solvent(dels, r, c, o, p, b)
    PROVE  Solvent(dels, Withdrawn(dels, r, D), c, NotOutstanding(o, r, D),
                   p + Total(Fractions(r, D), D), b - Total(Coins(r, D), D))
<1> DEFINE r2 == Withdrawn(dels, r, D)
           o2 == NotOutstanding(o, r, D)
           rest == Fractions(r, D)
           coins == Coins(r, D)
<1>a. /\ r2 = [d \in dels |-> IF d \in D THEN 0 ELSE r[d]]
      /\ o2 = [v \in Validators |-> o[v] - Total(r, Of(D, v))]
      /\ rest = [d \in D |-> r[d] % Unit] /\ coins = [d \in D |-> r[d] \div Unit]
  BY DEF Withdrawn, NotOutstanding, Fractions, Coins
<1> SUFFICES Solvent(dels, r2, c, o2, p + Total(rest, D), b - Total(coins, D))
  OBVIOUS
<1> HIDE DEF r2, o2, rest, coins
<1> USE <1>a
<1>0. Unit \in Nat \ {0}
  BY ExportAssumption
<1>1. /\ r \in [dels -> Nat] /\ c \in [Validators -> Nat] /\ o \in [Validators -> Int]
      /\ p \in Int /\ b \in Int /\ Unit * b = p + Total(o, Validators)
      /\ \A v \in Validators : o[v] >= c[v] + Total(r, Of(dels, v))
  BY DEF Solvent
<1>2. /\ IsFiniteSet(Validators) /\ IsFiniteSet(D)
      /\ \A v \in Validators : /\ IsFiniteSet(Of(dels, v)) /\ Of(dels, v) \in SUBSET dels
                               /\ IsFiniteSet(Of(D, v)) /\ Of(D, v) \in SUBSET Of(dels, v)
  <2>1. D \in SUBSET (Delegators \X Validators)
    OBVIOUS
  <2>2. \A v \in Validators : Of(dels, v) \in SUBSET dels /\ Of(D, v) \in SUBSET Of(dels, v)
    BY DEF Of
  <2> QED BY <2>1, <2>2, FiniteDelegations
<1>3. \A d \in D : d[2] \in Validators /\ r[d] \in Int
  BY <1>1
<1>4. \A d \in D : rest[d] \in Nat /\ coins[d] \in Nat /\ r[d] = rest[d] + Unit * coins[d]
  <2> TAKE d \in D
  <2>1. r[d] \in Nat
    BY <1>1
  <2>2. r[d] \div Unit \in Nat /\ r[d] % Unit \in Nat
        /\ r[d] = Unit * (r[d] \div Unit) + (r[d] % Unit)
    BY <1>0, <2>1, Division
  <2>3. rest[d] = r[d] % Unit /\ coins[d] = r[d] \div Unit
    OBVIOUS
  <2> QED BY <1>0, <2>2, <2>3
<1>5. /\ Total(r, D) = Total(rest, D) + Unit * Total(coins, D)
      /\ Total(rest, D) \in Int /\ Total(coins, D) \in Int
  <2>1. Unit \in Int /\ \A d \in D : rest[d] \in Int /\ coins[d] \in Int
    BY <1>0, <1>4
  <2>2. Total(r, D) = Total(rest, D) + Unit * Total(coins, D)
    BY <1>2, <1>4, <2>1, TotalLinear
  <2> QED BY <1>2, <2>1, <2>2, TotalType
<1> DEFINE F == [v \in Validators |-> Total(r, Of(D, v))]
<1>6. \A v \in Validators : F[v] \in Int /\ Total(r, Of(dels, v)) \in Int
  <2>1. \A v \in Validators : Total(r, Of(D, v)) \in Int /\ Total(r, Of(dels, v)) \in Int
    BY <1>1, <1>2, TotalType
  <2> QED BY <2>1
<1>7. Total(o2, Validators) = Total(o, Validators) + (-1) * Total(r, D)
  <2>1. Total(F, Validators) = Total(r, D)
    BY <1>2, <1>3, TotalByValidator
  <2>2. \A v \in Validators : o[v] \in Int /\ o2[v] = o[v] + (-1) * F[v]
    BY <1>1, <1>6
  <2> HIDE DEF F
  <2>3. Total(o2, Validators) = Total(o, Validators) + (-1) * Total(F, Validators)
    BY <1>2, <1>6, <2>2, TotalLinear
  <2> QED BY <2>1, <2>3
<1>8. Unit * (b - Total(coins, D)) = (p + Total(rest, D)) + Total(o2, Validators)
  <2>1. Total(o, Validators) \in Int
    BY <1>1, <1>2, TotalType
  <2>2. Unit * (b - Total(coins, D)) = Unit * b - Unit * Total(coins, D)
    BY <1>0, <1>1, <1>5
  <2>3. Unit * Total(coins, D) \in Int
    BY <1>0, <1>5
  <2> QED BY <1>1, <1>5, <1>7, <2>1, <2>2, <2>3
<1>9. ASSUME NEW v \in Validators PROVE o2[v] >= c[v] + Total(r2, Of(dels, v))
  <2> DEFINE S == Of(dels, v)
             q == [d \in dels |-> IF d \in D THEN r[d] ELSE 0]
  <2>1. \A d \in S : r2[d] \in Int /\ q[d] \in Int /\ r[d] = r2[d] + q[d]
    BY <1>1, <1>2
  <2>2. /\ \A d \in Of(D, v) : r[d] \in Int /\ q[d] = r[d]
        /\ \A d \in S \ Of(D, v) : q[d] = 0
    BY <1>1, <1>2 DEF Of
  <2>0. IsFiniteSet(S) /\ Of(D, v) \in SUBSET S
    BY <1>2
  <2> HIDE <1>a DEF q, S
  <2>3. Total(r, S) = Total(r2, S) + Total(q, S)
    BY <2>0, <2>1, TotalPlus
  <2>4. Total(q, S) = Total(r, Of(D, v))
    BY <2>0, <2>2, TotalOnSubset
  <2>5. Total(r2, S) \in Int
    BY <2>0, <2>1, TotalType
  <2>6. o2[v] = o[v] - F[v] /\ F[v] = Total(r, Of(D, v)) /\ o[v] \in Int /\ c[v] \in Int
    BY <1>a, <1>1
  <2> HIDE DEF F
  <2>7. o[v] >= c[v] + Total(r, S)
    BY <1>1 DEF S
  <2> QED BY <1>6, <2>3, <2>4, <2>5, <2>6, <2>7 DEF S
<1>10. r2 \in [dels -> Nat] /\ o2 \in [Validators -> Int]
  <2>1. \A v \in Validators : o[v] - F[v] \in Int
    BY <1>1, <1>6
  <2> QED BY <1>1, <2>1
<1>11. p + Total(rest, D) \in Int /\ b - Total(coins, D) \in Int
  BY <1>1, <1>5
<1> QED BY <1>1, <1>8, <1>9, <1>10, <1>11 DEF Solvent

\* A delegation without rewards can go.
LEMMA DropSolvent ==
    ASSUME NEW dels \in SUBSET (Delegators \X Validators), NEW x \in dels,
           NEW r, NEW c, NEW o, NEW p, NEW b, Solvent(dels, r, c, o, p, b), r[x] = 0
    PROVE  Solvent(dels \ {x}, Without(r, dels, x), c, o, p, b)
<1> DEFINE rest == dels \ {x}
           r2 == [d \in rest |-> r[d]]
<1>1. /\ r \in [dels -> Nat] /\ c \in [Validators -> Nat] /\ o \in [Validators -> Int]
      /\ p \in Int /\ b \in Int /\ Unit * b = p + Total(o, Validators)
      /\ \A v \in Validators : o[v] >= c[v] + Total(r, Of(dels, v))
  BY DEF Solvent
<1>2. r2 \in [rest -> Nat]
  BY <1>1
<1>3. ASSUME NEW v \in Validators PROVE Total(r2, Of(rest, v)) = Total(r, Of(dels, v))
  <2>1. IsFiniteSet(Of(dels, v)) /\ IsFiniteSet(Of(rest, v))
    <3>1. rest \in SUBSET (Delegators \X Validators)
      OBVIOUS
    <3> QED BY <3>1, FiniteDelegations
  <2>2. /\ \A d \in Of(rest, v) : r[d] \in Int /\ r2[d] = r[d]
        /\ \A d \in Of(dels, v) : r[d] \in Int
    BY <1>1 DEF Of
  <2>3. Total(r2, Of(rest, v)) = Total(r, Of(rest, v))
    BY <2>1, <2>2, TotalSame
  <2>4. /\ Of(rest, v) \in SUBSET Of(dels, v)
        /\ \A d \in Of(dels, v) \ Of(rest, v) : r[d] = 0
    BY DEF Of
  <2> HIDE DEF rest, r2
  <2>5. Total(r, Of(dels, v)) = Total(r, Of(rest, v))
    BY <2>1, <2>2, <2>4, TotalOnSubset
  <2> QED BY <2>3, <2>5
<1> HIDE DEF r2, rest
<1>4. Solvent(rest, r2, c, o, p, b)
  BY <1>1, <1>2, <1>3 DEF Solvent
<1> QED BY <1>4 DEF r2, rest, Without

\* A delegation without rewards can come.
LEMMA AddSolvent ==
    ASSUME NEW dels \in SUBSET (Delegators \X Validators),
           NEW x \in (Delegators \X Validators) \ dels,
           NEW r, NEW c, NEW o, NEW p, NEW b, Solvent(dels, r, c, o, p, b)
    PROVE  Solvent(dels \cup {x}, [d \in dels \cup {x} |-> IF d = x THEN 0 ELSE r[d]],
                   c, o, p, b)
<1> DEFINE all == dels \cup {x}
           r2 == [d \in all |-> IF d = x THEN 0 ELSE r[d]]
<1>1. /\ r \in [dels -> Nat] /\ c \in [Validators -> Nat] /\ o \in [Validators -> Int]
      /\ p \in Int /\ b \in Int /\ Unit * b = p + Total(o, Validators)
      /\ \A v \in Validators : o[v] >= c[v] + Total(r, Of(dels, v))
  BY DEF Solvent
<1>2. r2 \in [all -> Nat]
  BY <1>1
<1>3. ASSUME NEW v \in Validators PROVE Total(r2, Of(all, v)) = Total(r, Of(dels, v))
  <2>1. IsFiniteSet(Of(all, v))
    <3>1. all \in SUBSET (Delegators \X Validators)
      OBVIOUS
    <3> QED BY <3>1, FiniteDelegations
  <2>2. /\ Of(dels, v) \in SUBSET Of(all, v)
        /\ \A d \in Of(dels, v) : r[d] \in Int /\ r2[d] = r[d]
        /\ \A d \in Of(all, v) \ Of(dels, v) : r2[d] = 0
    BY <1>1 DEF Of
  <2> HIDE DEF all, r2
  <2> QED BY <2>1, <2>2, TotalOnSubset
<1> HIDE DEF r2, all
<1>4. Solvent(all, r2, c, o, p, b)
  BY <1>1, <1>2, <1>3 DEF Solvent
<1> QED BY <1>4 DEF r2, all

\* Paying commissions: whole coins leave the account, fractions stay as commission.
LEMMA CommissionSolvent ==
    ASSUME NEW dels \in SUBSET (Delegators \X Validators),
           NEW r, NEW c, NEW o, NEW p, NEW b, Solvent(dels, r, c, o, p, b)
    PROVE  Solvent(dels, r, Fractions(c, Validators), CommissionPaid(o, c), p,
                   b - Total(Coins(c, Validators), Validators))
<1> DEFINE coins == Coins(c, Validators)
           c2 == Fractions(c, Validators)
           o2 == CommissionPaid(o, c)
<1>a. /\ coins = [v \in Validators |-> c[v] \div Unit] /\ c2 = [v \in Validators |-> c[v] % Unit]
      /\ o2 = [v \in Validators |-> o[v] - Unit * coins[v]]
  BY DEF Coins, Fractions, CommissionPaid
<1> SUFFICES Solvent(dels, r, c2, o2, p, b - Total(coins, Validators))
  OBVIOUS
<1> HIDE DEF coins, c2, o2
<1> USE <1>a
<1>0. Unit \in Nat \ {0} /\ -Unit \in Int
  BY ExportAssumption
<1>1. /\ r \in [dels -> Nat] /\ c \in [Validators -> Nat] /\ o \in [Validators -> Int]
      /\ p \in Int /\ b \in Int /\ Unit * b = p + Total(o, Validators)
      /\ \A v \in Validators : o[v] >= c[v] + Total(r, Of(dels, v))
  BY DEF Solvent
<1>2. IsFiniteSet(Validators)
  BY ExportAssumption
<1>3. \A v \in Validators : coins[v] \in Nat /\ c2[v] \in Nat /\ c[v] = Unit * coins[v] + c2[v]
  <2> TAKE v \in Validators
  <2>1. c[v] \in Nat
    BY <1>1
  <2>2. c[v] \div Unit \in Nat /\ c[v] % Unit \in Nat
        /\ c[v] = Unit * (c[v] \div Unit) + (c[v] % Unit)
    BY <1>0, <2>1, Division
  <2> QED BY <2>2
<1>4. \A v \in Validators : o[v] \in Int /\ coins[v] \in Int /\ Unit * coins[v] \in Int
                            /\ o2[v] = o[v] - Unit * coins[v]
  BY <1>0, <1>1, <1>3
<1>5. Unit * (b - Total(coins, Validators)) = p + Total(o2, Validators)
  <2> DEFINE k == -Unit
  <2>1. k \in Int /\ \A a \in Int : k * a = -(Unit * a)
    BY <1>0
  <2> HIDE DEF k
  <2>2. \A v \in Validators : o[v] \in Int /\ coins[v] \in Int /\ o2[v] = o[v] + k * coins[v]
    BY <1>4, <2>1
  <2>3. k \in Int
    BY <2>1
  <2>4. Total(o2, Validators) = Total(o, Validators) + k * Total(coins, Validators)
    BY <1>2, <2>2, <2>3, TotalLinear
  <2>5. Total(o, Validators) \in Int /\ Total(coins, Validators) \in Int
    BY <1>2, <2>2, TotalType
  <2>6. /\ Unit * (b - Total(coins, Validators)) = Unit * b - Unit * Total(coins, Validators)
        /\ Unit * Total(coins, Validators) \in Int
    BY <1>0, <1>1, <2>5
  <2> QED BY <1>1, <2>1, <2>4, <2>5, <2>6
<1>6. \A v \in Validators : o2[v] >= c2[v] + Total(r, Of(dels, v))
  <2> TAKE v \in Validators
  <2>1. Total(r, Of(dels, v)) \in Int
    <3>1. IsFiniteSet(Of(dels, v)) /\ \A d \in Of(dels, v) : r[d] \in Int
      BY <1>1, FiniteDelegations DEF Of
    <3> QED BY <3>1, TotalType
  <2>2. /\ o[v] >= c[v] + Total(r, Of(dels, v)) /\ c[v] = Unit * coins[v] + c2[v]
        /\ c2[v] \in Int
    BY <1>1, <1>3
  <2> QED BY <1>4, <2>1, <2>2
<1>7. c2 \in [Validators -> Nat] /\ o2 \in [Validators -> Int]
  <2>1. \A v \in Validators : o[v] - Unit * coins[v] \in Int
    BY <1>4
  <2> QED BY <1>3, <2>1
<1>8. b - Total(coins, Validators) \in Int
  <2>1. Total(coins, Validators) \in Int
    BY <1>2, <1>4, TotalType
  <2> QED BY <1>1, <2>1
<1> QED BY <1>1, <1>5, <1>6, <1>7, <1>8 DEF Solvent

\* What is sound at a height is sound later.
LEMMA SoundLater ==
    ASSUME NEW s, NEW h, NEW k \in Nat, h <= k, Sound(s, h)
    PROVE  Sound(s, k)
<1>1. h \in Nat
  BY DEF Sound
<1>2. \A info, events, slashed : Explained(info, events, slashed, h)
                                   => Explained(info, events, slashed, k)
  BY <1>1 DEF Explained
<1> QED BY <1>2 DEF Sound
=============================================================================
