------------------------------- MODULE SumProofs -------------------------------
(* Facts about SumOver, proved from the definition of the fold it stands for.  *)
EXTENDS Sums, FiniteSetTheorems, TLAPS

Pick(s) == CHOOSE x \in s : TRUE

\* g is the fold over the subsets of S.
IsFold(g, f, S) ==
    g = [s \in SUBSET S |-> IF s = {} THEN 0 ELSE f[Pick(s)] + g[s \ {Pick(s)}]]

\* A sum is the value of some fold that takes one element at a time.
LEMMA SumIsFold ==
  ASSUME NEW f, NEW S
  PROVE  SumOver(f, S) = (CHOOSE g : IsFold(g, f, S))[S]
BY DEF SumOver, MapThenSumSet, MapThenFoldSet, IsFold, Pick

\* A set of subsets that holds whatever all of whose proper subsets it holds.
LEMMA SubsetInduction ==
  ASSUME NEW S, IsFiniteSet(S), NEW G,
         \A X \in SUBSET S : (\A Y \in SUBSET X : Y # X => Y \in G) => X \in G
  PROVE  S \in G
<1> SUFFICES ASSUME S \notin G PROVE FALSE
  OBVIOUS
<1> DEFINE T == {X \in SUBSET S : X \notin G}
           R == StrictSubsetOrdering(S)
<1>1. IsWellFoundedOn(R, SUBSET S)
  <2>1. IsWellFoundedOn(R, FiniteSubsetsOf(S))
    BY FS_StrictSubsetOrderingWellFounded
  <2>2. FiniteSubsetsOf(S) = SUBSET S
    BY FS_FiniteSubsetsOfFinite
  <2> QED BY <2>1, <2>2
<1>2. T \subseteq SUBSET S /\ T # {}
  OBVIOUS
<1>3. PICK X \in T : \A Y \in T : ~ (<<Y, X>> \in R)
  <2> HIDE DEF T, R
  <2> QED BY <1>1, <1>2, WFMin
<1>4. \A Y \in SUBSET X : Y # X => Y \in G
  BY <1>3 DEF StrictSubsetOrdering
<1> QED BY <1>3, <1>4

\* What a fold takes from a set is in it.
LEMMA PickIn ==
  ASSUME NEW s, s # {}
  PROVE  Pick(s) \in s
BY DEF Pick

\* Two such folds of one set have the same value.
LEMMA FoldUnique ==
  ASSUME NEW f, NEW S, IsFiniteSet(S), NEW T \in SUBSET S, NEW g, NEW h,
         IsFold(g, f, S), IsFold(h, f, T)
  PROVE  g[T] = h[T]
<1> DEFINE G == {s \in SUBSET T : g[s] = h[s]}
<1>1. IsFiniteSet(T)
  BY FS_Subset
<1>2. ASSUME NEW X \in SUBSET T, \A Y \in SUBSET X : Y # X => Y \in G
      PROVE  X \in G
  <2>1. CASE X = {}
    BY <2>1 DEF IsFold
  <2>2. CASE X # {}
    <3>1. Pick(X) \in X
      BY <2>2, PickIn
    <3>2. g[X \ {Pick(X)}] = h[X \ {Pick(X)}]
      BY <1>2, <3>1
    <3>3. g[X] = f[Pick(X)] + g[X \ {Pick(X)}]
      BY <2>2 DEF IsFold
    <3>4. h[X] = f[Pick(X)] + h[X \ {Pick(X)}]
      BY <2>2 DEF IsFold
    <3> QED BY <3>2, <3>3, <3>4
  <2> QED BY <2>1, <2>2
<1>3. T \in G
  <2> HIDE DEF G
  <2> QED BY <1>1, <1>2, SubsetInduction
<1> QED BY <1>3

\* Over a finite set there is such a fold.
LEMMA FoldExists ==
  ASSUME NEW f, NEW S, IsFiniteSet(S)
  PROVE  \E g : IsFold(g, f, S)
<1> DEFINE G == {X \in SUBSET S : \E g : IsFold(g, f, X)}
<1>1. ASSUME NEW X \in SUBSET S, \A Y \in SUBSET X : Y # X => Y \in G
      PROVE  X \in G
  <2> DEFINE Val(Y) == (CHOOSE g : IsFold(g, f, Y))[Y]
             g == [s \in SUBSET X |-> IF s = {} THEN 0 ELSE f[Pick(s)] + Val(s \ {Pick(s)})]
  <2>1. ASSUME NEW s \in SUBSET X, s # X, s # {}
        PROVE  Val(s) = f[Pick(s)] + Val(s \ {Pick(s)})
    <3> DEFINE t == s \ {Pick(s)}
    <3>1. Pick(s) \in s /\ t \in SUBSET s /\ t # s /\ t \in SUBSET X /\ t # X
      BY <2>1, PickIn
    <3>2. PICK h : h = CHOOSE e : IsFold(e, f, s)
      OBVIOUS
    <3>3. PICK k : k = CHOOSE e : IsFold(e, f, t)
      OBVIOUS
    <3>4. IsFold(h, f, s) /\ IsFold(k, f, t)
      BY <1>1, <2>1, <3>1, <3>2, <3>3
    <3>5. IsFiniteSet(s)
      BY FS_Subset, <2>1
    <3>6. h[t] = k[t]
      BY <3>1, <3>4, <3>5, FoldUnique
    <3>7. h[s] = f[Pick(s)] + h[t]
      BY <2>1, <3>4 DEF IsFold
    <3> QED BY <3>2, <3>3, <3>6, <3>7
  <2>2. \A s \in SUBSET X : s # {} => s \ {Pick(s)} \in SUBSET X /\ s \ {Pick(s)} # X
    BY PickIn
  <2>3. Val({}) = 0 \/ X = {}
    <3>1. CASE X # {}
      <4>1. \E h : IsFold(h, f, {})
        BY <1>1, <3>1
      <4> QED BY <4>1 DEF IsFold
    <3> QED BY <3>1
  <2>4. \A s \in SUBSET X : s # X => g[s] = Val(s)
    BY <2>1, <2>3
  <2>5. IsFold(g, f, X)
    <3>1. \A s \in SUBSET X : s # {} => g[s \ {Pick(s)}] = Val(s \ {Pick(s)})
      BY <2>2, <2>4
    <3>2. DOMAIN g = SUBSET X /\ \A s \in SUBSET X :
            g[s] = IF s = {} THEN 0 ELSE f[Pick(s)] + Val(s \ {Pick(s)})
      OBVIOUS
    <3>3. g = [s \in SUBSET X |-> g[s]]
      OBVIOUS
    <3> HIDE DEF g, Val
    <3>4. \A s \in SUBSET X : g[s] = IF s = {} THEN 0 ELSE f[Pick(s)] + g[s \ {Pick(s)}]
      BY <3>1, <3>2
    <3> QED BY <3>3, <3>4 DEF IsFold
  <2> QED BY <2>5
<1>2. S \in G
  <2> HIDE DEF G
  <2> QED BY <1>1, SubsetInduction
<1> QED BY <1>2

\* Nothing adds up to zero.
THEOREM SumEmpty == ASSUME NEW f PROVE SumOver(f, {}) = 0
<1>1. IsFold(CHOOSE g : IsFold(g, f, {}), f, {})
  BY FoldExists, FS_EmptySet
<1> QED BY <1>1, SumIsFold DEF IsFold

\* A sum is the element taken and the sum of the others.
LEMMA SumPick ==
  ASSUME NEW f, NEW S, IsFiniteSet(S), S # {}
  PROVE  SumOver(f, S) = f[Pick(S)] + SumOver(f, S \ {Pick(S)})
<1> DEFINE T == S \ {Pick(S)}
<1>1. IsFiniteSet(T)
  BY FS_Subset
<1>2. PICK g : g = CHOOSE e : IsFold(e, f, S)
  OBVIOUS
<1>3. PICK h : h = CHOOSE e : IsFold(e, f, T)
  OBVIOUS
<1>4. IsFold(g, f, S) /\ IsFold(h, f, T)
  BY <1>1, <1>2, <1>3, FoldExists
<1>5. g[T] = h[T]
  BY <1>4, FoldUnique
<1>6. g[S] = f[Pick(S)] + g[T]
  BY <1>4 DEF IsFold
<1> QED BY <1>2, <1>3, <1>5, <1>6, SumIsFold

-----------------------------------------------------------------------------
(* Induction over finite sets, one element at a time.                          *)

\* A set of subsets of a finite set that holds the empty one, and with every
\* set the set with one more element, holds the whole.
LEMMA AddInduction ==
  ASSUME NEW S, IsFiniteSet(S), NEW G, {} \in G,
         \A X \in SUBSET S : \A x \in S \ X : X \in G => X \cup {x} \in G
  PROVE  S \in G
<1>1. ASSUME NEW X \in SUBSET S, \A Y \in SUBSET X : Y # X => Y \in G
      PROVE  X \in G
  <2>1. CASE X # {}
    <3>1. PICK x \in X : TRUE
      BY <2>1
    <3>2. X \ {x} \in G /\ X \ {x} \in SUBSET S /\ x \in S \ (X \ {x})
      BY <1>1, <3>1
    <3>3. (X \ {x}) \cup {x} = X
      BY <3>1
    <3> QED BY <3>2, <3>3
  <2> QED BY <2>1
<1> QED BY <1>1, SubsetInduction

Ints(f, S) == \A x \in S : f[x] \in Int
Nats(f, S) == \A x \in S : f[x] \in Nat

\* Integers add up to an integer: the sums the models are written with (what
\* allocations hold of a layer or a lot, what is in the lanes) have a value.
THEOREM SumInt ==
  ASSUME NEW f, NEW S, IsFiniteSet(S), Ints(f, S)
  PROVE  SumOver(f, S) \in Int
<1> DEFINE G == {X \in SUBSET S : SumOver(f, X) \in Int}
<1>1. ASSUME NEW X \in SUBSET S, \A Y \in SUBSET X : Y # X => Y \in G
      PROVE  X \in G
  <2>1. CASE X = {}
    BY <2>1, SumEmpty
  <2>2. CASE X # {}
    <3>1. Pick(X) \in X /\ IsFiniteSet(X)
      BY <2>2, PickIn, FS_Subset
    <3>2. SumOver(f, X \ {Pick(X)}) \in Int /\ f[Pick(X)] \in Int
      BY <1>1, <3>1 DEF Ints
    <3> QED BY <2>2, <3>1, <3>2, SumPick
  <2> QED BY <2>1, <2>2
<1>2. S \in G
  <2> HIDE DEF G
  <2> QED BY <1>1, SubsetInduction
<1> QED BY <1>2

\* Any element can be taken out of a sum: its value does not depend on the order
\* in which the rows of a query are added.
THEOREM SumRemove ==
  ASSUME NEW f, NEW S, IsFiniteSet(S), Ints(f, S), NEW x \in S
  PROVE  SumOver(f, S) = f[x] + SumOver(f, S \ {x})
<1> DEFINE G == {X \in SUBSET S : \A y \in X : SumOver(f, X) = f[y] + SumOver(f, X \ {y})}
<1>1. ASSUME NEW X \in SUBSET S, \A Y \in SUBSET X : Y # X => Y \in G
      PROVE  X \in G
  <2> SUFFICES ASSUME NEW y \in X PROVE SumOver(f, X) = f[y] + SumOver(f, X \ {y})
    OBVIOUS
  <2> DEFINE c == Pick(X)
             Z == (X \ {y}) \ {c}
  <2>1. c \in X /\ IsFiniteSet(X) /\ IsFiniteSet(X \ {y}) /\ IsFiniteSet(Z)
    BY PickIn, FS_Subset
  <2>2. SumOver(f, X) = f[c] + SumOver(f, X \ {c})
    BY <2>1, SumPick
  <2>3. CASE y # c
    <3>1. X \ {c} \in G /\ X \ {y} \in G
      BY <1>1, <2>1
    <3>2. SumOver(f, X \ {c}) = f[y] + SumOver(f, (X \ {c}) \ {y})
      BY <2>3, <3>1
    <3>3. SumOver(f, X \ {y}) = f[c] + SumOver(f, Z)
      BY <2>1, <2>3, <3>1
    <3>4. (X \ {c}) \ {y} = Z
      OBVIOUS
    <3>5. SumOver(f, Z) \in Int /\ f[c] \in Int /\ f[y] \in Int
      BY <2>1, SumInt DEF Ints
    <3>6. SumOver(f, X \ {c}) = f[y] + SumOver(f, Z)
      BY <3>2, <3>4
    <3> HIDE DEF c, Z
    <3>7. f[c] + (f[y] + SumOver(f, Z)) = f[y] + (f[c] + SumOver(f, Z))
      BY <3>5
    <3> QED BY <2>2, <3>3, <3>6, <3>7
  <2> QED BY <2>2, <2>3
<1>2. S \in G
  <2> HIDE DEF G
  <2> QED BY <1>1, SubsetInduction
<1> QED BY <1>2

\* One more element adds its value.
THEOREM SumAdd ==
  ASSUME NEW f, NEW S, IsFiniteSet(S), NEW x, x \notin S, Ints(f, S \cup {x})
  PROVE  SumOver(f, S \cup {x}) = f[x] + SumOver(f, S)
<1>1. IsFiniteSet(S \cup {x}) /\ (S \cup {x}) \ {x} = S
  BY FS_AddElement
<1> QED BY <1>1, SumRemove

\* A sum depends on the values of its own elements only.
THEOREM SumAgree ==
  ASSUME NEW f, NEW g, NEW S, IsFiniteSet(S), \A x \in S : f[x] = g[x]
  PROVE  SumOver(f, S) = SumOver(g, S)
<1> DEFINE G == {X \in SUBSET S : SumOver(f, X) = SumOver(g, X)}
<1>1. ASSUME NEW X \in SUBSET S, \A Y \in SUBSET X : Y # X => Y \in G
      PROVE  X \in G
  <2>1. CASE X = {}
    BY <2>1, SumEmpty
  <2>2. CASE X # {}
    <3>1. Pick(X) \in X /\ IsFiniteSet(X)
      BY <2>2, PickIn, FS_Subset
    <3>2. SumOver(f, X \ {Pick(X)}) = SumOver(g, X \ {Pick(X)}) /\ f[Pick(X)] = g[Pick(X)]
      BY <1>1, <3>1
    <3>3. SumOver(f, X) = f[Pick(X)] + SumOver(f, X \ {Pick(X)})
      BY <2>2, <3>1, SumPick
    <3>4. SumOver(g, X) = g[Pick(X)] + SumOver(g, X \ {Pick(X)})
      BY <2>2, <3>1, SumPick
    <3> QED BY <3>2, <3>3, <3>4
  <2> QED BY <2>1, <2>2
<1>2. S \in G
  <2> HIDE DEF G
  <2> QED BY <1>1, SubsetInduction
<1> QED BY <1>2

\* When the value of one element changes, the sum changes by as much.
THEOREM SumMove ==
  ASSUME NEW f, NEW g, NEW S, IsFiniteSet(S), Ints(f, S), Ints(g, S), NEW x \in S,
         \A y \in S : y # x => f[y] = g[y]
  PROVE  SumOver(g, S) = SumOver(f, S) - f[x] + g[x]
<1>1. IsFiniteSet(S \ {x})
  BY FS_Subset
<1>2. SumOver(f, S \ {x}) = SumOver(g, S \ {x})
  BY <1>1, SumAgree
<1>3. SumOver(f, S) = f[x] + SumOver(f, S \ {x})
  BY SumRemove
<1>4. SumOver(g, S) = g[x] + SumOver(g, S \ {x})
  BY SumRemove
<1>5. SumOver(g, S \ {x}) \in Int /\ f[x] \in Int /\ g[x] \in Int
  BY <1>1, SumInt DEF Ints
<1> QED BY <1>2, <1>3, <1>4, <1>5

\* When one element changes, in what it counts or in whether it does, the sum
\* changes by as much.
THEOREM SumShift ==
  ASSUME NEW S, IsFiniteSet(S), NEW f, NEW g, Ints(f, S), Ints(g, S), NEW x,
         NEW T \in SUBSET S, NEW U \in SUBSET S, T \ {x} = U \ {x},
         \A y \in T \ {x} : f[y] = g[y]
  PROVE  SumOver(g, U) = SumOver(f, T) - (IF x \in T THEN f[x] ELSE 0)
                                       + (IF x \in U THEN g[x] ELSE 0)
<1> DEFINE R == T \ {x}
<1>1. /\ R \in SUBSET S /\ IsFiniteSet(R) /\ IsFiniteSet(T) /\ IsFiniteSet(U)
      /\ Ints(f, T) /\ Ints(g, U) /\ Ints(f, R) /\ R = U \ {x}
  BY FS_Subset DEF Ints
<1>2. (\A y \in R : f[y] = g[y]) /\ (x \notin T => T = R) /\ (x \notin U => U = R)
  OBVIOUS
<1>r. T \ {x} = R /\ U \ {x} = R
  OBVIOUS
<1> HIDE DEF R
<1>0. SumOver(g, R) = SumOver(f, R) /\ SumOver(f, R) \in Int
  BY <1>1, <1>2, SumAgree, SumInt
<1>3. SumOver(f, T) = SumOver(f, R) + (IF x \in T THEN f[x] ELSE 0)
  <2>1. CASE x \in T
    <3>1. SumOver(f, T) = f[x] + SumOver(f, R)
      BY <1>1, <1>r, <2>1, SumRemove
    <3>2. f[x] \in Int
      BY <1>1, <2>1 DEF Ints
    <3> QED BY <2>1, <3>1, <3>2, <1>0
  <2>2. CASE x \notin T
    BY <2>2, <1>2, <1>0
  <2> QED BY <2>1, <2>2
<1>4. SumOver(g, U) = SumOver(g, R) + (IF x \in U THEN g[x] ELSE 0)
  <2>1. CASE x \in U
    <3>1. SumOver(g, U) = g[x] + SumOver(g, R)
      BY <1>1, <1>r, <2>1, SumRemove
    <3>2. g[x] \in Int
      BY <1>1, <2>1 DEF Ints
    <3> QED BY <2>1, <3>1, <3>2, <1>0
  <2>2. CASE x \notin U
    BY <2>2, <1>2, <1>0
  <2> QED BY <2>1, <2>2
<1>5. (IF x \in T THEN f[x] ELSE 0) \in Int
  BY DEF Ints
<1> QED BY <1>0, <1>3, <1>4, <1>5

\* The sum of sums, element by element, is the sum of both.
THEOREM SumPlus ==
  ASSUME NEW f, NEW g, NEW h, NEW S, IsFiniteSet(S), Ints(f, S), Ints(g, S),
         \A x \in S : h[x] = f[x] + g[x]
  PROVE  SumOver(h, S) = SumOver(f, S) + SumOver(g, S)
<1> DEFINE G == {X \in SUBSET S : SumOver(h, X) = SumOver(f, X) + SumOver(g, X)}
<1>1. {} \in G
  BY SumEmpty
<1>2. ASSUME NEW X \in SUBSET S, NEW x \in S \ X, X \in G
      PROVE  X \cup {x} \in G
  <2>1. IsFiniteSet(X)
    BY FS_Subset
  <2>2. Ints(f, X \cup {x}) /\ Ints(g, X \cup {x}) /\ Ints(h, X \cup {x}) /\ Ints(f, X) /\ Ints(g, X)
    BY DEF Ints
  <2>3. /\ SumOver(f, X \cup {x}) = f[x] + SumOver(f, X)
        /\ SumOver(g, X \cup {x}) = g[x] + SumOver(g, X)
        /\ SumOver(h, X \cup {x}) = h[x] + SumOver(h, X)
    BY <2>1, <2>2, SumAdd
  <2>4. /\ SumOver(f, X) \in Int /\ SumOver(g, X) \in Int
        /\ f[x] \in Int /\ g[x] \in Int /\ h[x] = f[x] + g[x]
    BY <2>1, <2>2, SumInt DEF Ints
  <2> QED BY <1>2, <2>3, <2>4
<1>3. S \in G
  <2> HIDE DEF G
  <2> QED BY <1>1, <1>2, AddInduction
<1> QED BY <1>3

\* Equal values add up to a product.
THEOREM SumConst ==
  ASSUME NEW f, NEW S, IsFiniteSet(S), NEW k \in Int, \A x \in S : f[x] = k
  PROVE  SumOver(f, S) = k * Cardinality(S)
<1> DEFINE G == {X \in SUBSET S : SumOver(f, X) = k * Cardinality(X)}
<1>1. {} \in G
  BY SumEmpty, FS_EmptySet
<1>2. ASSUME NEW X \in SUBSET S, NEW x \in S \ X, X \in G
      PROVE  X \cup {x} \in G
  <2>1. IsFiniteSet(X)
    BY FS_Subset
  <2>2. SumOver(f, X \cup {x}) = k + SumOver(f, X)
    BY <2>1, SumAdd DEF Ints
  <2>3. Cardinality(X \cup {x}) = Cardinality(X) + 1 /\ Cardinality(X) \in Nat
    BY <2>1, FS_AddElement, FS_CardinalityType
  <2>4. k * (Cardinality(X) + 1) = k * Cardinality(X) + k
    BY <2>3
  <2>5. k * Cardinality(X) \in Int
    BY <2>3
  <2> QED BY <1>2, <2>2, <2>3, <2>4, <2>5
<1>3. S \in G
  <2> HIDE DEF G
  <2> QED BY <1>1, <1>2, AddInduction
<1> QED BY <1>3

\* Zeros add up to zero.
THEOREM SumZero ==
  ASSUME NEW f, NEW S, IsFiniteSet(S), \A x \in S : f[x] = 0
  PROVE  SumOver(f, S) = 0
<1>1. SumOver(f, S) = 0 * Cardinality(S) /\ Cardinality(S) \in Nat
  BY SumConst, FS_CardinalityType
<1> QED BY <1>1

\* Two parts that have nothing in common add up to the whole.
THEOREM SumUnion ==
  ASSUME NEW f, NEW S, NEW T, IsFiniteSet(S), IsFiniteSet(T), S \cap T = {}, Ints(f, S \cup T)
  PROVE  SumOver(f, S \cup T) = SumOver(f, S) + SumOver(f, T)
<1> DEFINE G == {X \in SUBSET T : SumOver(f, S \cup X) = SumOver(f, S) + SumOver(f, X)}
<1>0. SumOver(f, S) \in Int
  BY SumInt DEF Ints
<1>1. {} \in G
  <2>1. S \cup {} = S
    OBVIOUS
  <2> QED BY <1>0, <2>1, SumEmpty
<1>2. ASSUME NEW X \in SUBSET T, NEW x \in T \ X, X \in G
      PROVE  X \cup {x} \in G
  <2>1. IsFiniteSet(X) /\ IsFiniteSet(S \cup X)
    BY FS_Subset, FS_Union
  <2>2. Ints(f, X \cup {x}) /\ Ints(f, (S \cup X) \cup {x}) /\ x \notin S \cup X /\ Ints(f, X)
    BY DEF Ints
  <2>3. SumOver(f, X \cup {x}) = f[x] + SumOver(f, X)
    BY <2>1, <2>2, SumAdd
  <2>4. SumOver(f, (S \cup X) \cup {x}) = f[x] + SumOver(f, S \cup X)
    BY <2>1, <2>2, SumAdd
  <2>5. (S \cup X) \cup {x} = S \cup (X \cup {x})
    OBVIOUS
  <2>6. SumOver(f, X) \in Int /\ f[x] \in Int
    BY <2>1, <2>2, SumInt DEF Ints
  <2>7. SumOver(f, S \cup (X \cup {x})) = f[x] + (SumOver(f, S) + SumOver(f, X))
    BY <1>2, <2>4, <2>5
  <2>8. f[x] + (SumOver(f, S) + SumOver(f, X)) = SumOver(f, S) + (f[x] + SumOver(f, X))
    BY <1>0, <2>6
  <2> QED BY <2>3, <2>7, <2>8
<1>3. T \in G
  <2> HIDE DEF G
  <2> QED BY <1>1, <1>2, AddInduction
<1> QED BY <1>3

\* Naturals add up to a natural.
THEOREM SumNat ==
  ASSUME NEW f, NEW S, IsFiniteSet(S), Nats(f, S)
  PROVE  SumOver(f, S) \in Nat
<1> DEFINE G == {X \in SUBSET S : SumOver(f, X) \in Nat}
<1>1. {} \in G
  BY SumEmpty
<1>2. ASSUME NEW X \in SUBSET S, NEW x \in S \ X, X \in G
      PROVE  X \cup {x} \in G
  <2>1. IsFiniteSet(X) /\ Ints(f, X \cup {x}) /\ f[x] \in Nat
    BY FS_Subset DEF Nats, Ints
  <2>2. SumOver(f, X \cup {x}) = f[x] + SumOver(f, X)
    BY <2>1, SumAdd
  <2> QED BY <1>2, <2>1, <2>2
<1>3. S \in G
  <2> HIDE DEF G
  <2> QED BY <1>1, <1>2, AddInduction
<1> QED BY <1>3

\* A part of a sum of naturals is no more than the sum.
THEOREM SumPart ==
  ASSUME NEW f, NEW S, IsFiniteSet(S), Nats(f, S), NEW T \in SUBSET S
  PROVE  SumOver(f, T) =< SumOver(f, S)
<1>1. IsFiniteSet(T) /\ IsFiniteSet(S \ T) /\ T \cap (S \ T) = {} /\ T \cup (S \ T) = S
  BY FS_Subset
<1>2. Nats(f, T) /\ Nats(f, S \ T) /\ Ints(f, S)
  BY DEF Nats, Ints
<1>3. SumOver(f, S) = SumOver(f, T) + SumOver(f, S \ T)
  BY <1>1, <1>2, SumUnion
<1>4. SumOver(f, T) \in Nat /\ SumOver(f, S \ T) \in Nat
  BY <1>1, <1>2, SumNat
<1> QED BY <1>3, <1>4

\* One of the naturals is no more than their sum.
THEOREM SumMember ==
  ASSUME NEW f, NEW S, IsFiniteSet(S), Nats(f, S), NEW x \in S
  PROVE  f[x] =< SumOver(f, S)
<1>1. SumOver(f, S) = f[x] + SumOver(f, S \ {x})
  BY SumRemove DEF Ints, Nats
<1>2. IsFiniteSet(S \ {x}) /\ Nats(f, S \ {x}) /\ f[x] \in Nat
  BY FS_Subset DEF Nats
<1> QED BY <1>1, <1>2, SumNat

\* A sum of smaller values is no greater.
THEOREM SumLess ==
  ASSUME NEW f, NEW g, NEW S, IsFiniteSet(S), Ints(f, S), Ints(g, S), \A x \in S : f[x] =< g[x]
  PROVE  SumOver(f, S) =< SumOver(g, S)
<1> DEFINE h == [x \in S |-> g[x] - f[x]]
<1>1. Nats(h, S) /\ Ints(h, S) /\ \A x \in S : g[x] = f[x] + h[x]
  BY DEF Ints, Nats
<1>2. SumOver(g, S) = SumOver(f, S) + SumOver(h, S)
  <2> HIDE DEF h
  <2> QED BY <1>1, SumPlus
<1>3. SumOver(h, S) \in Nat /\ SumOver(f, S) \in Int
  <2> HIDE DEF h
  <2> QED BY <1>1, SumNat, SumInt
<1> HIDE DEF h
<1> QED BY <1>2, <1>3

\* Induction over the naturals, for a set of them.
LEMMA NatSetInduction ==
  ASSUME NEW G, 0 \in G, \A n \in Nat : n \in G => n + 1 \in G
  PROVE  \A n \in Nat : n \in G
<1> DEFINE T == {n \in Nat : n \notin G}
           R == OpToRel(<, Nat)
<1> SUFFICES ASSUME T # {} PROVE FALSE
  OBVIOUS
<1>1. IsWellFoundedOn(R, Nat)
  BY NatLessThanWellFounded
<1>2. \A m, n \in Nat : m < n => <<m, n>> \in R
  BY DEF OpToRel
<1>3. PICK n \in T : \A m \in T : ~ (<<m, n>> \in R)
  <2>1. T \subseteq Nat
    OBVIOUS
  <2> HIDE DEF T, R
  <2> QED BY <1>1, <2>1, WFMin
<1>4. n \in Nat /\ n \notin G
  <2> HIDE DEF R
  <2> QED BY <1>3
<1> HIDE DEF R, T
<1>5. n # 0
  BY <1>4
<1>6. n - 1 \in Nat /\ n - 1 < n /\ (n - 1) + 1 = n
  BY <1>4, <1>5
<1>7. n - 1 \in G
  BY <1>2, <1>3, <1>4, <1>6 DEF T
<1> QED BY <1>4, <1>6, <1>7
=============================================================================
