---------------------------- MODULE FiniteTotals ---------------------------
(***************************************************************************)
(* Lemmas about finite sets of any size: induction, the largest number,    *)
(* and the total of a function, which the community modules compute by a   *)
(* recursion that takes the elements of its domain one by one.             *)
(***************************************************************************)
EXTENDS Integers, FiniteSets, FiniteSetsExt, Folds, Functions, TLAPS,
        FiniteSetTheorems, WellFoundedInduction

\* A set of subsets of a finite set has a smallest one.
LEMMA SmallestSubset ==
    ASSUME NEW S, IsFiniteSet(S), NEW B \in SUBSET SUBSET S, B # {}
    PROVE  \E T \in B : \A U \in B : U \subseteq T => U = T
<1>1. IsWellFoundedOn(StrictSubsetOrdering(S), SUBSET S)
  BY FS_StrictSubsetOrderingWellFounded, FS_FiniteSubsetsOfFinite
<1>2. PICK T \in B : \A U \in B : ~(<<U, T>> \in StrictSubsetOrdering(S))
  BY <1>1, WFMin
<1>3. ASSUME NEW U \in B, U \subseteq T, U # T
      PROVE  FALSE
  <2>1. <<U, T>> \in (SUBSET S) \X (SUBSET S)
    OBVIOUS
  <2> QED BY <1>2, <1>3, <2>1 DEF StrictSubsetOrdering
<1> QED BY <1>3

\* Induction on the subsets of a finite set.
LEMMA SubsetInduction ==
    ASSUME NEW S, IsFiniteSet(S), NEW G, {} \in G,
           \A T \in SUBSET S : \A x \in S \ T : T \in G => T \cup {x} \in G
    PROVE  S \in G
<1> SUFFICES ASSUME S \notin G PROVE FALSE
  OBVIOUS
<1> DEFINE B == (SUBSET S) \ G
<1>1. B \in SUBSET SUBSET S /\ B # {}
  OBVIOUS
<1>2. PICK T \in B : \A U \in B : U \subseteq T => U = T
  <2> HIDE DEF B
  <2> QED BY <1>1, SmallestSubset
<1>3. T \subseteq S /\ T \notin G
  OBVIOUS
<1>4. PICK x \in T : TRUE
  BY <1>3
<1>5. T \ {x} \in G
  BY <1>2, <1>3, <1>4
<1>6. (T \ {x}) \cup {x} = T
  BY <1>4
<1>7. (T \ {x}) \cup {x} \in G
  BY <1>3, <1>4, <1>5
<1> QED BY <1>3, <1>6, <1>7

\* A finite set of numbers has a largest one.
LEMMA LargestNumber ==
    ASSUME NEW S, IsFiniteSet(S)
    PROVE  S \subseteq Nat /\ S # {} => Max(S) \in S /\ \A n \in S : n <= Max(S)
<1> DEFINE Large(T) == T \subseteq Nat /\ T # {} => \E m \in T : \A n \in T : m >= n
           G == {T \in SUBSET S : Large(T)}
<1>1. {} \in G
  OBVIOUS
<1>2. ASSUME NEW T \in SUBSET S, NEW x \in S \ T, T \in G
      PROVE  T \cup {x} \in G
  <2> SUFFICES ASSUME T \cup {x} \subseteq Nat
               PROVE  \E m \in T \cup {x} : \A n \in T \cup {x} : m >= n
    OBVIOUS
  <2>1. CASE T = {}
    BY <2>1
  <2>2. CASE T # {}
    <3>1. PICK m \in T : \A n \in T : m >= n
      BY <1>2, <2>2
    <3>2. m \in Nat /\ x \in Nat
      BY <3>1
    <3>3. CASE m >= x
      BY <3>1, <3>2, <3>3
    <3>4. CASE x >= m
      BY <3>1, <3>2, <3>4
    <3> QED BY <3>2, <3>3, <3>4
  <2> QED BY <2>1, <2>2
<1>3. S \in G
  <2> HIDE DEF G
  <2> QED BY <1>1, <1>2, SubsetInduction
<1>4. Large(S)
  BY <1>3
<1>5. ASSUME NEW m \in S, \A n \in S : m >= n
      PROVE  Max(S) \in S /\ \A n \in S : Max(S) >= n
  BY <1>5 DEF Max
<1> QED BY <1>4, <1>5

\* A set of natural numbers has a smallest one.
LEMMA SmallestNumber ==
    ASSUME NEW S \in SUBSET Nat, S # {}
    PROVE  Min(S) \in S /\ \A n \in S : Min(S) <= n
<1>1. PICK k \in S : TRUE
  OBVIOUS
<1> DEFINE B == {i \in 0..k : k - i \in S}
<1>2. B \subseteq Nat /\ IsFiniteSet(B)
  <2>1. B \in SUBSET (0..k) /\ 0 \in Int /\ k \in Int
    BY <1>1
  <2>2. IsFiniteSet(0..k)
    BY <2>1, FS_Interval
  <2>3. B \subseteq Nat
    BY <2>1
  <2>4. IsFiniteSet(B)
    <3> HIDE DEF B
    <3> QED BY <2>1, <2>2, FS_Subset
  <2> QED BY <2>3, <2>4
<1>3. 0 \in B
  BY <1>1
<1>4. ASSUME NEW i \in B, \A n \in B : n <= i
      PROVE  \A n \in S : k - i <= n
  <2>1. ASSUME NEW n \in S, n <= k PROVE k - i <= n
    <3>1. n \in Nat /\ k \in Nat /\ i \in Nat
      BY <1>1
    <3>2. k - (k - n) = n /\ k - n \in 0..k
      BY <2>1, <3>1
    <3>3. k - n \in B
      BY <2>1, <3>2
    <3>4. k - n <= i
      BY <1>4, <3>3
    <3> QED BY <3>1, <3>4
  <2> QED BY <1>1, <2>1
<1>5. PICK i \in B : \A n \in B : n <= i
  <2> HIDE DEF B
  <2> QED BY <1>2, <1>3, LargestNumber
<1>6. k - i \in S /\ \A n \in S : k - i <= n
  BY <1>4, <1>5
<1> QED BY <1>6 DEF Min

----------------------------------------------------------------------------
(* The recursion of the fold.                                              *)

TotalOf(f) == FoldFunction(LAMBDA x, y : x + y, 0, f)

Chosen(s) == CHOOSE x \in s : TRUE

\* r is the recursion on the subsets of S.
IsFold(r, f, S) ==
    r = [s \in SUBSET S |-> IF s = {} THEN 0 ELSE f[Chosen(s)] + r[s \ {Chosen(s)}]]

\* What the recursion makes of a subset does not depend on the set.
LEMMA FoldIsUnique ==
    ASSUME NEW f, NEW S, IsFiniteSet(S), NEW q, NEW r, NEW T \in SUBSET S,
           IsFold(q, f, S), IsFold(r, f, T)
    PROVE  \A s \in SUBSET T : q[s] = r[s]
<1> SUFFICES ASSUME \E s \in SUBSET T : q[s] # r[s] PROVE FALSE
  OBVIOUS
<1> DEFINE B == {s \in SUBSET T : q[s] # r[s]}
<1>1. B \in SUBSET SUBSET S /\ B # {}
  OBVIOUS
<1>2. PICK s \in B : \A u \in B : u \subseteq s => u = s
  <2> HIDE DEF B
  <2> QED BY <1>1, SmallestSubset
<1>3. s \in SUBSET T /\ s \in SUBSET S /\ q[s] # r[s]
  OBVIOUS
<1>4. CASE s = {}
  BY <1>3, <1>4 DEF IsFold
<1>5. CASE s # {}
  <2> DEFINE x == Chosen(s)
  <2>1. x \in s
    BY <1>5 DEF Chosen
  <2>2. s \ {x} \notin B
    BY <1>2, <2>1
  <2>3. q[s \ {x}] = r[s \ {x}]
    BY <1>3, <2>2
  <2>4. q[s] = f[x] + q[s \ {x}] /\ r[s] = f[x] + r[s \ {x}]
    BY <1>3, <1>5 DEF IsFold
  <2> QED BY <1>3, <2>3, <2>4
<1> QED BY <1>4, <1>5

\* The recursion has a solution.
LEMMA FoldExists ==
    ASSUME NEW f, NEW S, IsFiniteSet(S)
    PROVE  \E r : IsFold(r, f, S)
<1> SUFFICES ASSUME ~\E r : IsFold(r, f, S) PROVE FALSE
  OBVIOUS
<1> DEFINE B == {T \in SUBSET S : ~\E r : IsFold(r, f, T)}
<1>1. B \in SUBSET SUBSET S /\ B # {}
  OBVIOUS
<1>2. PICK T \in B : \A U \in B : U \subseteq T => U = T
  <2> HIDE DEF B
  <2> QED BY <1>1, SmallestSubset
<1>3. T \in SUBSET S /\ ~\E r : IsFold(r, f, T)
  OBVIOUS
<1> DEFINE fold(u) == CHOOSE r : IsFold(r, f, u)
<1>4. ASSUME NEW u \in SUBSET T, u # T
      PROVE  IsFold(fold(u), f, u)
  <2>1. \E r : IsFold(r, f, u)
    BY <1>2, <1>3, <1>4
  <2> QED BY <2>1
<1> DEFINE V == [u \in SUBSET T |-> fold(u)[u]]
           r == [u \in SUBSET T |-> IF u = {} THEN 0 ELSE f[Chosen(u)] + V[u \ {Chosen(u)}]]
<1> HIDE DEF B, fold
<1>5. ASSUME NEW w \in SUBSET T, w # T
      PROVE  V[w] = r[w]
  <2>1. IsFold(fold(w), f, w)
    BY <1>4, <1>5
  <2>2. V[w] = fold(w)[w]
    OBVIOUS
  <2>3. fold(w)[w] = IF w = {} THEN 0 ELSE f[Chosen(w)] + fold(w)[w \ {Chosen(w)}]
    BY <2>1 DEF IsFold
  <2>4. CASE w = {}
    BY <2>2, <2>3, <2>4
  <2>5. CASE w # {}
    <3> DEFINE x == w \ {Chosen(w)}
    <3>1. x \in SUBSET w /\ x \in SUBSET T /\ x # T
      BY <1>5, <2>5 DEF Chosen
    <3>2. IsFold(fold(x), f, x)
      BY <1>4, <3>1
    <3>3. IsFiniteSet(w)
      BY <1>3, FS_Subset
    <3>4. x \in SUBSET x
      OBVIOUS
    <3>5. fold(w)[x] = fold(x)[x]
      <4> HIDE DEF x
      <4> QED BY <2>1, <3>1, <3>2, <3>3, <3>4, FoldIsUnique
    <3>6. V[x] = fold(x)[x]
      BY <3>1
    <3>7. r[w] = f[Chosen(w)] + V[x]
      BY <2>5
    <3> QED BY <2>2, <2>3, <2>5, <3>5, <3>6, <3>7
  <2> QED BY <2>4, <2>5
<1>6. ASSUME NEW u \in SUBSET T
      PROVE  r[u] = IF u = {} THEN 0 ELSE f[Chosen(u)] + r[u \ {Chosen(u)}]
  <2>1. CASE u = {}
    BY <2>1
  <2>2. CASE u # {}
    <3>1. u \ {Chosen(u)} \in SUBSET T /\ u \ {Chosen(u)} # T
      BY <2>2 DEF Chosen
    <3>2. V[u \ {Chosen(u)}] = r[u \ {Chosen(u)}]
      BY <1>5, <3>1
    <3>3. r[u] = f[Chosen(u)] + V[u \ {Chosen(u)}]
      BY <2>2
    <3> QED BY <2>2, <3>2, <3>3
  <2> QED BY <2>1, <2>2
<1>7. DOMAIN r = SUBSET T /\ r = [u \in SUBSET T |-> r[u]]
  OBVIOUS
<1> HIDE DEF r
<1>8. IsFold(r, f, T)
  BY <1>6, <1>7 DEF IsFold
<1> QED BY <1>3, <1>8

----------------------------------------------------------------------------
(* Totals.                                                                 *)

LEMMA TotalIsFold ==
    ASSUME NEW f, IsFiniteSet(DOMAIN f)
    PROVE  \E r : IsFold(r, f, DOMAIN f) /\ TotalOf(f) = r[DOMAIN f]
<1>1. \E r : IsFold(r, f, DOMAIN f)
  BY FoldExists
<1> DEFINE r == CHOOSE r : IsFold(r, f, DOMAIN f)
<1>2. IsFold(r, f, DOMAIN f)
  BY <1>1
<1>3. TotalOf(f) = r[DOMAIN f]
  BY Zenon DEF TotalOf, IsFold, Chosen, FoldFunction, FoldFunctionOnSet, MapThenFoldSet
<1> QED BY <1>2, <1>3

\* The total of a part.
Part(f, T) == [x \in T |-> f[x]]

LEMMA PartIsFold ==
    ASSUME NEW f, NEW S, IsFiniteSet(S), NEW r, IsFold(r, f, S), NEW T \in SUBSET S
    PROVE  TotalOf(Part(f, T)) = r[T]
<1>1. IsFiniteSet(T) /\ DOMAIN Part(f, T) = T
  BY FS_Subset DEF Part
<1>2. PICK q : IsFold(q, Part(f, T), T) /\ TotalOf(Part(f, T)) = q[T]
  BY <1>1, TotalIsFold
<1>3. ASSUME NEW s \in SUBSET T
      PROVE  q[s] = IF s = {} THEN 0 ELSE f[Chosen(s)] + q[s \ {Chosen(s)}]
  <2>1. s # {} => Chosen(s) \in T
    BY DEF Chosen
  <2> QED BY <1>2, <2>1 DEF IsFold, Part
<1>4. IsFold(q, f, T)
  <2>1. q = [s \in SUBSET T |-> q[s]]
    BY <1>2 DEF IsFold
  <2> QED BY <1>3, <2>1 DEF IsFold
<1>5. T \in SUBSET T
  OBVIOUS
<1>6. r[T] = q[T]
  BY <1>4, <1>5, FoldIsUnique
<1> QED BY <1>2, <1>6

\* Any element may be taken first.
LEMMA FoldRemove ==
    ASSUME NEW f, NEW S, IsFiniteSet(S), NEW r, IsFold(r, f, S), \A x \in S : f[x] \in Int
    PROVE  \A T \in SUBSET S : r[T] \in Int /\ \A x \in T : r[T] = f[x] + r[T \ {x}]
<1> DEFINE Ok(T) == r[T] \in Int /\ \A x \in T : r[T] = f[x] + r[T \ {x}]
           B == {T \in SUBSET S : ~Ok(T)}
<1> SUFFICES ASSUME B # {} PROVE FALSE
  OBVIOUS
<1>1. B \in SUBSET SUBSET S
  OBVIOUS
<1>2. PICK T \in B : \A U \in B : U \subseteq T => U = T
  <2> HIDE DEF B
  <2> QED BY <1>1, SmallestSubset
<1>3. T \in SUBSET S /\ ~Ok(T)
  OBVIOUS
<1>4. \A U \in SUBSET T : U # T => Ok(U)
  BY <1>2, <1>3
<1>5. T # {}
  BY <1>3 DEF IsFold
<1> DEFINE c == Chosen(T)
<1>6. c \in T /\ r[T] = f[c] + r[T \ {c}] /\ f[c] \in Int
  BY <1>3, <1>5 DEF IsFold, Chosen
<1> HIDE DEF c, B
<1>7. Ok(T \ {c})
  BY <1>4, <1>6
<1>8. r[T] \in Int
  BY <1>6, <1>7
<1>9. ASSUME NEW x \in T
      PROVE  r[T] = f[x] + r[T \ {x}]
  <2>1. CASE x = c
    BY <1>6, <2>1
  <2>2. CASE x # c
    <3>1. r[T \ {c}] = f[x] + r[(T \ {c}) \ {x}]
      BY <1>7, <2>2
    <3>2. Ok(T \ {x})
      BY <1>4
    <3>3. r[T \ {x}] = f[c] + r[(T \ {x}) \ {c}]
      BY <1>6, <2>2, <3>2
    <3>4. (T \ {x}) \ {c} = (T \ {c}) \ {x}
      OBVIOUS
    <3> DEFINE rest == r[(T \ {x}) \ {c}]
    <3>5. rest \in Int
      BY <1>4, <1>6
    <3>6. f[x] \in Int
      BY <1>3
    <3>7. r[T \ {c}] = f[x] + rest /\ r[T \ {x}] = f[c] + rest
      BY <3>1, <3>3, <3>4
    <3> HIDE DEF rest
    <3> QED BY <1>6, <3>5, <3>6, <3>7
  <2> QED BY <2>1, <2>2
<1> QED BY <1>3, <1>8, <1>9

\* What one element adds, and that natural numbers add up to one.
LEMMA FoldOfPart ==
    ASSUME NEW S, IsFiniteSet(S), NEW f, NEW r, IsFold(r, f, S), \A x \in S : f[x] \in Int
    PROVE  /\ r[S] \in Int
           /\ \A x \in S : r[S \ {x}] \in Int /\ r[S] = f[x] + r[S \ {x}]
           /\ (\A x \in S : f[x] >= 0) => \A T \in SUBSET S : r[T] \in Nat
<1>1. \A T \in SUBSET S : r[T] \in Int /\ \A x \in T : r[T] = f[x] + r[T \ {x}]
  BY FoldRemove
<1>2. ASSUME \A x \in S : f[x] >= 0, NEW T \in SUBSET S
      PROVE  r[T] \in Nat
  <2> DEFINE G == {U \in SUBSET T : r[U] \in Nat}
  <2>1. {} \in G
    BY DEF IsFold
  <2>2. ASSUME NEW U \in SUBSET T, NEW x \in T \ U, U \in G
        PROVE  U \cup {x} \in G
    <3>1. U \cup {x} \in SUBSET S /\ x \in U \cup {x} /\ (U \cup {x}) \ {x} = U
      OBVIOUS
    <3>2. r[U \cup {x}] = f[x] + r[U]
      BY <1>1, <3>1
    <3>3. f[x] \in Nat /\ r[U] \in Nat
      BY <1>2, <2>2
    <3> QED BY <3>1, <3>2, <3>3
  <2>3. IsFiniteSet(T)
    BY FS_Subset
  <2>4. T \in G
    <3> HIDE DEF G
    <3> QED BY <2>1, <2>2, <2>3, SubsetInduction
  <2> QED BY <2>4
<1> QED BY <1>1, <1>2

\* A function of the elements of S to integers.
Summable(f, S) == f \in [S -> Int]

LEMMA TotalRemove ==
    ASSUME NEW S, IsFiniteSet(S), NEW f, Summable(f, S), NEW x \in S
    PROVE  /\ TotalOf(f) \in Int /\ TotalOf(Part(f, S \ {x})) \in Int
           /\ TotalOf(f) = f[x] + TotalOf(Part(f, S \ {x}))
<1>0. DOMAIN f = S
  BY DEF Summable
<1>1. \A y \in S : f[y] \in Int
  BY DEF Summable
<1>2. PICK r : IsFold(r, f, S) /\ TotalOf(f) = r[S]
  BY <1>0, TotalIsFold
<1>3. r[S] \in Int /\ r[S \ {x}] \in Int /\ r[S] = f[x] + r[S \ {x}]
  BY <1>1, <1>2, FoldOfPart
<1>4. TotalOf(Part(f, S \ {x})) = r[S \ {x}]
  BY <1>2, PartIsFold
<1> QED BY <1>2, <1>3, <1>4

LEMMA TotalOfNone ==
    ASSUME NEW f, DOMAIN f = {}
    PROVE  TotalOf(f) = 0
<1>1. IsFiniteSet(DOMAIN f)
  BY FS_EmptySet
<1>2. PICK r : IsFold(r, f, DOMAIN f) /\ TotalOf(f) = r[DOMAIN f]
  BY <1>1, TotalIsFold
<1> QED BY <1>2 DEF IsFold

LEMMA TotalOfZeros ==
    ASSUME NEW S, IsFiniteSet(S), NEW f, Summable(f, S), \A x \in S : f[x] = 0
    PROVE  TotalOf(f) = 0
<1>0. DOMAIN f = S
  BY DEF Summable
<1>1. PICK r : IsFold(r, f, S) /\ TotalOf(f) = r[S]
  BY <1>0, TotalIsFold
<1> DEFINE G == {T \in SUBSET S : r[T] = 0}
<1>2. {} \in G
  BY <1>1 DEF IsFold
<1>3. ASSUME NEW T \in SUBSET S, NEW x \in S \ T, T \in G
      PROVE  T \cup {x} \in G
  <2>1. T \cup {x} \in SUBSET S /\ x \in T \cup {x} /\ (T \cup {x}) \ {x} = T
    OBVIOUS
  <2>2. \A y \in S : f[y] \in Int
    OBVIOUS
  <2>3. r[T \cup {x}] = f[x] + r[T]
    BY <1>1, <2>1, <2>2, FoldRemove
  <2> QED BY <1>3, <2>1, <2>3
<1>4. S \in G
  <2> HIDE DEF G
  <2> QED BY <1>2, <1>3, SubsetInduction
<1> QED BY <1>1, <1>4

\* A function that differs in one value.
LEMMA TotalChange ==
    ASSUME NEW S, IsFiniteSet(S), NEW f, Summable(f, S), NEW g, Summable(g, S), NEW x \in S,
           \A y \in S \ {x} : g[y] = f[y]
    PROVE  TotalOf(f) \in Int /\ TotalOf(g) = TotalOf(f) - f[x] + g[x]
<1>1. Part(f, S \ {x}) = Part(g, S \ {x})
  BY DEF Part
<1> DEFINE rest == TotalOf(Part(f, S \ {x}))
<1>2. /\ rest \in Int /\ TotalOf(f) = f[x] + rest /\ TotalOf(g) = g[x] + rest
      /\ TotalOf(f) \in Int
  <2>1. /\ TotalOf(f) \in Int /\ TotalOf(Part(f, S \ {x})) \in Int
        /\ TotalOf(f) = f[x] + TotalOf(Part(f, S \ {x}))
    BY TotalRemove
  <2>2. TotalOf(g) = g[x] + TotalOf(Part(g, S \ {x}))
    BY TotalRemove
  <2> QED BY <1>1, <2>1, <2>2
<1>3. f[x] \in Int /\ g[x] \in Int
  BY DEF Summable
<1> HIDE DEF rest
<1> QED BY <1>2, <1>3

\* The total of natural numbers is one, and as large as each of them.
LEMMA TotalOfNats ==
    ASSUME NEW S, IsFiniteSet(S), NEW f, Summable(f, S), \A x \in S : f[x] >= 0
    PROVE  TotalOf(f) \in Nat /\ \A x \in S : f[x] <= TotalOf(f)
<1>0. DOMAIN f = S
  BY DEF Summable
<1>1. \A x \in S : f[x] \in Int
  BY DEF Summable
<1>2. PICK r : IsFold(r, f, S) /\ TotalOf(f) = r[S]
  BY <1>0, TotalIsFold
<1>3. /\ \A x \in S : r[S] = f[x] + r[S \ {x}]
      /\ \A T \in SUBSET S : r[T] \in Nat
  BY <1>1, <1>2, FoldOfPart
<1>4. ASSUME NEW x \in S
      PROVE  f[x] <= TotalOf(f)
  <2>1. S \ {x} \in SUBSET S
    OBVIOUS
  <2>2. r[S] = f[x] + r[S \ {x}] /\ r[S \ {x}] \in Nat
    BY <1>3, <2>1
  <2> QED BY <1>1, <1>2, <2>2
<1>5. S \in SUBSET S
  OBVIOUS
<1> QED BY <1>2, <1>3, <1>4, <1>5

=============================================================================
