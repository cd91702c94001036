--------------------------- MODULE MaskingProofs ----------------------------
(***************************************************************************)
(* The masks of a round cancel and the sums are read from the table, for   *)
(* every number of clients, every grouping, key, prime and hash.           *)
(***************************************************************************)
EXTENDS Masking, ArithmeticProofs

\* The element a fold takes first.
Pick(S) == CHOOSE x \in S : TRUE

\* f[s] is base for the empty set, and else it comes of the rest by the step of
\* the element taken.
FoldsBy(f, S, base, step) ==
  f = [s \in SUBSET S |-> IF s = {} THEN base ELSE step[Pick(s)][f[s \ {Pick(s)}]]]

(* A set that is not empty has one element fewer without the one picked.     *)
LEMMA Picked ==
  ASSUME NEW S, IsFiniteSet(S), S # {}
  PROVE  /\ Pick(S) \in S /\ IsFiniteSet(S \ {Pick(S)})
         /\ Cardinality(S) \in Nat \ {0}
         /\ Cardinality(S \ {Pick(S)}) = Cardinality(S) - 1
<1>1. Pick(S) \in S  BY DEF Pick
<1>2. Cardinality(S) \in Nat /\ Cardinality(S) # 0  BY FS_CardinalityType, FS_EmptySet
<1> QED  BY <1>1, <1>2, FS_RemoveElement

(* Induction on the subsets of a finite set, in the order of a fold.         *)
LEMMA SetInduction ==
  ASSUME NEW X, IsFiniteSet(X), NEW A, {} \in A,
         \A T \in SUBSET X : T # {} /\ T \ {Pick(T)} \in A => T \in A
  PROVE  SUBSET X \subseteq A
<1> DEFINE S == {k \in Nat : \A T \in SUBSET X : Cardinality(T) = k => T \in A}
<1>1. 0 \in S  BY FS_Subset, FS_EmptySet
<1>2. ASSUME NEW k \in Nat, k \in S PROVE k + 1 \in S
  <2> SUFFICES ASSUME NEW T \in SUBSET X, Cardinality(T) = k + 1 PROVE T \in A
    OBVIOUS
  <2>1. IsFiniteSet(T) /\ T # {}  BY FS_Subset, FS_EmptySet
  <2>2. Cardinality(T \ {Pick(T)}) = k  BY <2>1, Picked
  <2>3. T \ {Pick(T)} \in SUBSET X  OBVIOUS
  <2>4. T \ {Pick(T)} \in A  BY <1>2, <2>2, <2>3
  <2> QED  BY <2>1, <2>4
<1>3. Nat \subseteq S
  <2> HIDE DEF S
  <2> QED  BY <1>1, <1>2, Induction
<1> QED
  <2> SUFFICES ASSUME NEW T \in SUBSET X PROVE T \in A
    OBVIOUS
  <2>1. Cardinality(T) \in Nat  BY FS_Subset, FS_CardinalityType
  <2> QED  BY <1>3, <2>1

(* There is a fold for every finite set and every step.                      *)
LEMMA FoldByExists ==
  ASSUME NEW S, IsFiniteSet(S), NEW V, NEW base \in V, NEW step \in [S -> [V -> V]]
  PROVE  \E f : f \in [SUBSET S -> V] /\ FoldsBy(f, S, base, step)
<1>1. PICK pick : pick = [s \in SUBSET S |-> Pick(s)]  OBVIOUS
<1>2. Picks(pick, S)  BY <1>1 DEF Pick, Picks
<1>3. PICK f : f \in [SUBSET S -> V] /\ Folds(f, S, base, step, pick)
  <2>1. IsFiniteSet(S) /\ base \in V /\ step \in [S -> [V -> V]]  OBVIOUS
  <2> QED  BY <1>2, <2>1, FoldExists
<1>4. FoldsBy(f, S, base, step)  BY <1>1, <1>3 DEF Folds, FoldsBy
<1> QED  BY <1>3, <1>4

-----------------------------------------------------------------------------
(* The three folds of the model.                                             *)

Modulus(m) == m \in Nat \ {0}

Product(f, S, m) ==
  FoldFunctionOnSet(LAMBDA x, product : MulMod(product, x, m), 1, f, S)

RawProduct(f, S) == FoldFunctionOnSet(LAMBDA x, product : product * x, 1, f, S)

Sum(f, S) == SumFunctionOnSet(f, S)

\* Their steps.
ReducedStep(f, S, m) == [x \in S |-> [y \in Int |-> (y * f[x]) % m]]
RawStep(f, S)        == [x \in S |-> [y \in Int |-> y * f[x]]]
SumStep(f, S)        == [x \in S |-> [y \in Int |-> f[x] + y]]

(* What the running product is, factor by factor.                            *)
LEMMA ProductFolds ==
  ASSUME NEW S, IsFiniteSet(S), NEW f, \A x \in S : f[x] \in Int, NEW m, Modulus(m),
         NEW g, g \in [SUBSET S -> Int],
         FoldsBy(g, S, 1, ReducedStep(f, S, m)),
         NEW T \in SUBSET S
  PROVE  Product(f, T, m) = g[T]
<1> DEFINE Loop(h, U) ==
             h = [s \in SUBSET U |-> IF s = {} THEN 1
                                     ELSE MulMod(h[s \ {Pick(s)}], f[Pick(s)], m)]
<1>1. ASSUME NEW s \in SUBSET S
      PROVE  g[s] = IF s = {} THEN 1 ELSE MulMod(g[s \ {Pick(s)}], f[Pick(s)], m)
  <2>1. CASE s = {}  BY <2>1 DEF FoldsBy
  <2>2. CASE s # {}
    <3>1. Pick(s) \in S /\ s \ {Pick(s)} \in SUBSET S  BY <2>2 DEF Pick
    <3>2. g[s \ {Pick(s)}] \in Int  BY <3>1
    <3> QED  BY <2>2, <3>1, <3>2 DEF FoldsBy, ReducedStep, MulMod
  <2> QED  BY <2>1, <2>2
<1>2. Loop([s \in SUBSET T |-> g[s]], T)
  <2>1. ASSUME NEW s \in SUBSET T PROVE s \in SUBSET S /\ s \ {Pick(s)} \in SUBSET T
    OBVIOUS
  <2> QED  BY <1>1, <2>1
<1> DEFINE h == CHOOSE h : Loop(h, T)
<1>3. Loop(h, T)  BY <1>2
<1>4. Product(f, T, m) = h[T]
  BY DEF Product, FoldFunctionOnSet, MapThenFoldSet, Pick
<1> DEFINE A == {s \in SUBSET T : h[s] = g[s]}
<1>5. {} \in A
  <2> HIDE DEF h
  <2> QED  BY <1>1, <1>3
<1>6. ASSUME NEW s \in SUBSET T, s # {}, s \ {Pick(s)} \in A PROVE s \in A
  <2> HIDE DEF h
  <2> QED  BY <1>1, <1>3, <1>6
<1>7. SUBSET T \subseteq A
  <2>1. IsFiniteSet(T)  BY FS_Subset
  <2> HIDE DEF A
  <2> QED  BY <1>5, <1>6, <2>1, SetInduction
<1> QED  BY <1>4, <1>7

(* The same without a modulus.                                               *)
LEMMA RawProductFolds ==
  ASSUME NEW S, IsFiniteSet(S), NEW f, \A x \in S : f[x] \in Int,
         NEW g, g \in [SUBSET S -> Int],
         FoldsBy(g, S, 1, RawStep(f, S))
  PROVE  \A T \in SUBSET S : RawProduct(f, T) = g[T]
<1> DEFINE Loop(h, T) ==
             h = [s \in SUBSET T |-> IF s = {} THEN 1
                                     ELSE h[s \ {Pick(s)}] * f[Pick(s)]]
<1> SUFFICES ASSUME NEW T \in SUBSET S PROVE RawProduct(f, T) = g[T]
  OBVIOUS
<1>1. ASSUME NEW s \in SUBSET S
      PROVE  g[s] = IF s = {} THEN 1 ELSE g[s \ {Pick(s)}] * f[Pick(s)]
  <2>1. CASE s = {}  BY <2>1 DEF FoldsBy
  <2>2. CASE s # {}
    <3>1. Pick(s) \in S /\ s \ {Pick(s)} \in SUBSET S  BY <2>2 DEF Pick
    <3>2. g[s \ {Pick(s)}] \in Int  BY <3>1
    <3> QED  BY <2>2, <3>1, <3>2 DEF FoldsBy, RawStep
  <2> QED  BY <2>1, <2>2
<1>2. Loop([s \in SUBSET T |-> g[s]], T)
  <2>1. ASSUME NEW s \in SUBSET T PROVE s \in SUBSET S /\ s \ {Pick(s)} \in SUBSET T
    OBVIOUS
  <2> QED  BY <1>1, <2>1
<1> DEFINE h == CHOOSE h : Loop(h, T)
<1>3. Loop(h, T)  BY <1>2
<1>4. RawProduct(f, T) = h[T]
  BY DEF RawProduct, FoldFunctionOnSet, MapThenFoldSet, Pick
<1> DEFINE A == {s \in SUBSET T : h[s] = g[s]}
<1>5. {} \in A
  <2> HIDE DEF h
  <2> QED  BY <1>1, <1>3
<1>6. ASSUME NEW s \in SUBSET T, s # {}, s \ {Pick(s)} \in A PROVE s \in A
  <2> HIDE DEF h
  <2> QED  BY <1>1, <1>3, <1>6
<1>7. SUBSET T \subseteq A
  <2>1. IsFiniteSet(T)  BY FS_Subset
  <2> HIDE DEF A
  <2> QED  BY <1>5, <1>6, <2>1, SetInduction
<1> QED  BY <1>4, <1>7

(* And the sum, summand by summand.                                          *)
LEMMA SumFolds ==
  ASSUME NEW S, IsFiniteSet(S), NEW f, \A x \in S : f[x] \in Int,
         NEW g, g \in [SUBSET S -> Int],
         FoldsBy(g, S, 0, SumStep(f, S))
  PROVE  \A T \in SUBSET S : Sum(f, T) = g[T]
<1> DEFINE Loop(h, T) ==
             h = [s \in SUBSET T |-> IF s = {} THEN 0
                                     ELSE f[Pick(s)] + h[s \ {Pick(s)}]]
<1> SUFFICES ASSUME NEW T \in SUBSET S PROVE Sum(f, T) = g[T]
  OBVIOUS
<1>1. ASSUME NEW s \in SUBSET S
      PROVE  g[s] = IF s = {} THEN 0 ELSE f[Pick(s)] + g[s \ {Pick(s)}]
  <2>1. CASE s = {}  BY <2>1 DEF FoldsBy
  <2>2. CASE s # {}
    <3>1. Pick(s) \in S /\ s \ {Pick(s)} \in SUBSET S  BY <2>2 DEF Pick
    <3>2. g[s \ {Pick(s)}] \in Int  BY <3>1
    <3> QED  BY <2>2, <3>1, <3>2 DEF FoldsBy, SumStep
  <2> QED  BY <2>1, <2>2
<1>2. Loop([s \in SUBSET T |-> g[s]], T)
  <2>1. ASSUME NEW s \in SUBSET T PROVE s \in SUBSET S /\ s \ {Pick(s)} \in SUBSET T
    OBVIOUS
  <2> QED  BY <1>1, <2>1
<1> DEFINE h == CHOOSE h : Loop(h, T)
<1>3. Loop(h, T)  BY <1>2
<1>4. Sum(f, T) = h[T]
  BY DEF Sum, SumFunctionOnSet, FoldFunctionOnSet, MapThenFoldSet, Pick
<1> DEFINE A == {s \in SUBSET T : h[s] = g[s]}
<1>5. {} \in A
  <2> HIDE DEF h
  <2> QED  BY <1>1, <1>3
<1>6. ASSUME NEW s \in SUBSET T, s # {}, s \ {Pick(s)} \in A PROVE s \in A
  <2> HIDE DEF h
  <2> QED  BY <1>1, <1>3, <1>6
<1>7. SUBSET T \subseteq A
  <2>1. IsFiniteSet(T)  BY FS_Subset
  <2> HIDE DEF A
  <2> QED  BY <1>5, <1>6, <2>1, SetInduction
<1> QED  BY <1>4, <1>7

(* So the fold of a set comes of the fold without the element picked.        *)
LEMMA ReducedSteps ==
  ASSUME NEW S, IsFiniteSet(S), NEW f, \A x \in S : f[x] \in Int, NEW m, Modulus(m)
  PROVE  /\ Product(f, {}, m) = 1
         /\ \A T \in SUBSET S :
              /\ Product(f, T, m) \in Int
              /\ T # {} =>
                   Product(f, T, m) = (Product(f, T \ {Pick(T)}, m) * f[Pick(T)]) % m
<1>1. ReducedStep(f, S, m) \in [S -> [Int -> Int]]
  <2>1. \A x \in S, y \in Int : (y * f[x]) % m \in Int
    <3>1. \A z \in Int : z % m \in Int  BY DivMod DEF Modulus
    <3> QED  BY <3>1
  <2> QED  BY <2>1 DEF ReducedStep
<1>2. PICK g : g \in [SUBSET S -> Int] /\ FoldsBy(g, S, 1, ReducedStep(f, S, m))
  <2>1. 1 \in Int  OBVIOUS
  <2> QED  BY <1>1, <2>1, FoldByExists
<1>3. \A T \in SUBSET S : Product(f, T, m) = g[T]
  <2>1. g \in [SUBSET S -> Int]  BY <1>2
  <2>2. FoldsBy(g, S, 1, ReducedStep(f, S, m))  BY <1>2
  <2>3. Modulus(m)  OBVIOUS
  <2>4. \A x \in S : f[x] \in Int  OBVIOUS
  <2> TAKE T \in SUBSET S
  <2> QED  BY <2>1, <2>2, <2>3, <2>4, ProductFolds
<1>4. {} \in SUBSET S  OBVIOUS
<1>5. g[{}] = 1  BY <1>2, <1>4 DEF FoldsBy
<1>6. ASSUME NEW T \in SUBSET S, T # {}
      PROVE  g[T] = (g[T \ {Pick(T)}] * f[Pick(T)]) % m
  <2>1. Pick(T) \in S /\ T \ {Pick(T)} \in SUBSET S  BY <1>6 DEF Pick
  <2>2. g[T] = ReducedStep(f, S, m)[Pick(T)][g[T \ {Pick(T)}]]
    BY <1>2, <1>6 DEF FoldsBy
  <2>3. g[T \ {Pick(T)}] \in Int  BY <1>2, <2>1
  <2> QED  BY <2>1, <2>2, <2>3 DEF ReducedStep
<1>7. \A T \in SUBSET S : g[T] \in Int /\ T \ {Pick(T)} \in SUBSET S  BY <1>2
<1> QED  BY <1>3, <1>4, <1>5, <1>6, <1>7

(* Without a modulus.                                                        *)
LEMMA RawProductSteps ==
  ASSUME NEW S, IsFiniteSet(S), NEW f, \A x \in S : f[x] \in Int
  PROVE  /\ RawProduct(f, {}) = 1
         /\ \A T \in SUBSET S :
              /\ RawProduct(f, T) \in Int
              /\ T # {} =>
                   RawProduct(f, T) = RawProduct(f, T \ {Pick(T)}) * f[Pick(T)]
<1>1. RawStep(f, S) \in [S -> [Int -> Int]]
  <2>1. \A x \in S, y \in Int : y * f[x] \in Int
    OBVIOUS
  <2> QED  BY <2>1 DEF RawStep
<1>2. PICK g : g \in [SUBSET S -> Int] /\ FoldsBy(g, S, 1, RawStep(f, S))
  <2>1. 1 \in Int  OBVIOUS
  <2> QED  BY <1>1, <2>1, FoldByExists
<1>3. \A T \in SUBSET S : RawProduct(f, T) = g[T]  BY <1>2, RawProductFolds
<1>4. {} \in SUBSET S  OBVIOUS
<1>5. g[{}] = 1  BY <1>2, <1>4 DEF FoldsBy
<1>6. ASSUME NEW T \in SUBSET S, T # {}
      PROVE  g[T] = g[T \ {Pick(T)}] * f[Pick(T)]
  <2>1. Pick(T) \in S /\ T \ {Pick(T)} \in SUBSET S  BY <1>6 DEF Pick
  <2>2. g[T] = RawStep(f, S)[Pick(T)][g[T \ {Pick(T)}]]
    BY <1>2, <1>6 DEF FoldsBy
  <2>3. g[T \ {Pick(T)}] \in Int  BY <1>2, <2>1
  <2> QED  BY <2>1, <2>2, <2>3 DEF RawStep
<1>7. \A T \in SUBSET S : g[T] \in Int /\ T \ {Pick(T)} \in SUBSET S  BY <1>2
<1> QED  BY <1>3, <1>4, <1>5, <1>6, <1>7

(* And the sum.                                                              *)
LEMMA SumSteps ==
  ASSUME NEW S, IsFiniteSet(S), NEW f, \A x \in S : f[x] \in Int
  PROVE  /\ Sum(f, {}) = 0
         /\ \A T \in SUBSET S :
              /\ Sum(f, T) \in Int
              /\ T # {} =>
                   Sum(f, T) = f[Pick(T)] + Sum(f, T \ {Pick(T)})
<1>1. SumStep(f, S) \in [S -> [Int -> Int]]
  <2>1. \A x \in S, y \in Int : f[x] + y \in Int
    OBVIOUS
  <2> QED  BY <2>1 DEF SumStep
<1>2. PICK g : g \in [SUBSET S -> Int] /\ FoldsBy(g, S, 0, SumStep(f, S))
  <2>1. 0 \in Int  OBVIOUS
  <2> QED  BY <1>1, <2>1, FoldByExists
<1>3. \A T \in SUBSET S : Sum(f, T) = g[T]  BY <1>2, SumFolds
<1>4. {} \in SUBSET S  OBVIOUS
<1>5. g[{}] = 0  BY <1>2, <1>4 DEF FoldsBy
<1>6. ASSUME NEW T \in SUBSET S, T # {}
      PROVE  g[T] = f[Pick(T)] + g[T \ {Pick(T)}]
  <2>1. Pick(T) \in S /\ T \ {Pick(T)} \in SUBSET S  BY <1>6 DEF Pick
  <2>2. g[T] = SumStep(f, S)[Pick(T)][g[T \ {Pick(T)}]]
    BY <1>2, <1>6 DEF FoldsBy
  <2>3. g[T \ {Pick(T)}] \in Int  BY <1>2, <2>1
  <2> QED  BY <2>1, <2>2, <2>3 DEF SumStep
<1>7. \A T \in SUBSET S : g[T] \in Int /\ T \ {Pick(T)} \in SUBSET S  BY <1>2
<1> QED  BY <1>3, <1>4, <1>5, <1>6, <1>7
-----------------------------------------------------------------------------
(* Sums, in any order.                                                       *)

(* A sum is an integer, and 0 over nothing.                                  *)
LEMMA SumIs ==
  ASSUME NEW S, IsFiniteSet(S), NEW f, \A x \in S : f[x] \in Int
  PROVE  /\ Sum(f, {}) = 0 /\ Sum(f, S) \in Int
         /\ S # {} => Sum(f, S) = f[Pick(S)] + Sum(f, S \ {Pick(S)})
<1>1. S \in SUBSET S  OBVIOUS
<1> QED  BY <1>1, SumSteps

(* Any summand may be taken first.                                           *)
LEMMA SumRemove ==
  ASSUME NEW S, IsFiniteSet(S), NEW f, \A x \in S : f[x] \in Int, NEW z \in S
  PROVE  Sum(f, S) = f[z] + Sum(f, S \ {z})
<1> DEFINE A == {k \in Nat : \A T \in SUBSET S : Cardinality(T) = k =>
                               \A x \in T : Sum(f, T) = f[x] + Sum(f, T \ {x})}
<1>1. 0 \in A  BY FS_Subset, FS_EmptySet
<1>2. ASSUME NEW k \in Nat, k \in A PROVE k + 1 \in A
  <2> SUFFICES ASSUME NEW T \in SUBSET S, Cardinality(T) = k + 1, NEW x \in T
               PROVE  Sum(f, T) = f[x] + Sum(f, T \ {x})
    OBVIOUS
  <2> DEFINE p == Pick(T)
             U == T \ {x}
             V == T \ {p}
  <2>1. IsFiniteSet(T) /\ p \in T  BY FS_Subset DEF Pick
  <2>2. Sum(f, T) = f[p] + Sum(f, V)
    <3>1. \A y \in T : f[y] \in Int  OBVIOUS
    <3>2. T # {}  OBVIOUS
    <3> QED  BY <2>1, <3>1, <3>2, SumIs
  <2>3. CASE x = p  BY <2>2, <2>3
  <2>4. CASE x # p
    <3>1. Cardinality(U) = k /\ Cardinality(V) = k
      <4>1. \A y \in T : Cardinality(T \ {y}) = Cardinality(T) - 1
        BY <2>1, FS_RemoveElement
      <4>2. (k + 1) - 1 = k  OBVIOUS
      <4> QED  BY <2>1, <4>1, <4>2
    <3>2. U \in SUBSET S /\ V \in SUBSET S /\ p \in U /\ x \in V  BY <2>1, <2>4
    <3>3. U \ {p} = V \ {x} /\ U \ {p} \in SUBSET S  OBVIOUS
    <3>4. Sum(f, U) = f[p] + Sum(f, U \ {p})  BY <1>2, <3>1, <3>2
    <3>5. Sum(f, V) = f[x] + Sum(f, V \ {x})  BY <1>2, <3>1, <3>2
    <3>6. Sum(f, U \ {p}) \in Int
      <4>1. IsFiniteSet(U \ {p})  BY <3>3, FS_Subset
      <4>2. \A y \in U \ {p} : f[y] \in Int  BY <3>3
      <4> QED  BY <4>1, <4>2, SumIs
    <3>7. f[p] \in Int /\ f[x] \in Int  BY <2>1
    <3>8. Sum(f, T) = f[p] + (f[x] + Sum(f, U \ {p}))  BY <2>2, <3>3, <3>5
    <3>9. f[p] + (f[x] + Sum(f, U \ {p})) = f[x] + (f[p] + Sum(f, U \ {p}))
      <4> HIDE DEF p, U
      <4> QED  BY <3>6, <3>7
    <3> QED  BY <3>4, <3>8, <3>9
  <2> QED  BY <2>3, <2>4
<1>3. Nat \subseteq A
  <2> HIDE DEF A
  <2> QED  BY <1>1, <1>2, Induction
<1>4. Cardinality(S) \in A /\ S \in SUBSET S  BY <1>3, FS_CardinalityType
<1> QED  BY <1>4

(* Only the summands matter.                                                 *)
LEMMA SumSame ==
  ASSUME NEW S, IsFiniteSet(S), NEW f, \A x \in S : f[x] \in Int,
         NEW h, \A x \in S : h[x] = f[x]
  PROVE  Sum(h, S) = Sum(f, S)
<1> DEFINE A == {T \in SUBSET S : Sum(h, T) = Sum(f, T)}
<1>1. {} \in A  BY SumSteps
<1>2. ASSUME NEW T \in SUBSET S, T # {}, T \ {Pick(T)} \in A PROVE T \in A
  <2>1. Pick(T) \in S  BY <1>2 DEF Pick
  <2>2. Sum(f, T) = f[Pick(T)] + Sum(f, T \ {Pick(T)})  BY <1>2, SumSteps
  <2>3. Sum(h, T) = h[Pick(T)] + Sum(h, T \ {Pick(T)})
    <3>1. \A x \in S : h[x] \in Int  OBVIOUS
    <3> QED  BY <1>2, <3>1, SumSteps
  <2> QED  BY <1>2, <2>1, <2>2, <2>3
<1>3. SUBSET S \subseteq A
  <2> HIDE DEF A
  <2> QED  BY <1>1, <1>2, SetInduction
<1> QED  BY <1>3

(* The sum over two disjoint sets.                                           *)
LEMMA SumDisjoint ==
  ASSUME NEW S, IsFiniteSet(S), NEW U, IsFiniteSet(U), S \cap U = {},
         NEW f, \A x \in S \cup U : f[x] \in Int
  PROVE  Sum(f, S \cup U) = Sum(f, S) + Sum(f, U)
<1> DEFINE A == {T \in SUBSET U : Sum(f, S \cup T) = Sum(f, S) + Sum(f, T)}
<1>0. \A T \in SUBSET U : IsFiniteSet(T) /\ IsFiniteSet(S \cup T)  BY FS_Subset, FS_Union
<1>1. Sum(f, S) \in Int  BY SumIs
<1>2. {} \in A
  <2>1. S \cup {} = S /\ Sum(f, {}) = 0  BY SumIs
  <2> QED  BY <1>1, <2>1
<1>3. ASSUME NEW T \in SUBSET U, T # {}, T \ {Pick(T)} \in A PROVE T \in A
  <2>1. PICK z \in T : z = Pick(T)  BY <1>3 DEF Pick
  <2>2. Sum(f, T) = f[z] + Sum(f, T \ {z})
    <3>1. \A x \in T : f[x] \in Int  OBVIOUS
    <3> QED  BY <1>0, <3>1, SumRemove
  <2>3. Sum(f, S \cup T) = f[z] + Sum(f, (S \cup T) \ {z})
    <3>1. \A x \in S \cup T : f[x] \in Int  OBVIOUS
    <3>2. z \in S \cup T  OBVIOUS
    <3> QED  BY <1>0, <3>1, <3>2, SumRemove
  <2>4. (S \cup T) \ {z} = S \cup (T \ {z})  OBVIOUS
  <2>5. Sum(f, T \ {z}) \in Int
    <3>1. T \ {z} \in SUBSET U /\ \A x \in T \ {z} : f[x] \in Int  OBVIOUS
    <3> QED  BY <1>0, <3>1, SumIs
  <2>6. f[z] \in Int  OBVIOUS
  <2>7. Sum(f, S \cup (T \ {z})) = Sum(f, S) + Sum(f, T \ {z})  BY <1>3, <2>1
  <2>8. Sum(f, S \cup T) = f[z] + (Sum(f, S) + Sum(f, T \ {z}))  BY <2>3, <2>4, <2>7
  <2>9. Sum(f, S \cup T) = Sum(f, S) + Sum(f, T)  BY <1>1, <2>2, <2>5, <2>6, <2>8
  <2> QED  BY <2>9
<1>4. SUBSET U \subseteq A
  <2> HIDE DEF A
  <2> QED  BY <1>2, <1>3, SetInduction
<1> QED  BY <1>4
(* The bounds of the summands bound the sum.                                 *)
LEMMA SumBound ==
  ASSUME NEW S, IsFiniteSet(S), NEW a \in Int, NEW b \in Int, NEW f, \A x \in S : f[x] \in a .. b
  PROVE  Sum(f, S) \in Int /\ Cardinality(S) * a <= Sum(f, S) /\ Sum(f, S) <= Cardinality(S) * b
<1> DEFINE A == {T \in SUBSET S : /\ Cardinality(T) * a <= Sum(f, T)
                                  /\ Sum(f, T) <= Cardinality(T) * b}
<1>0. \A x \in S : f[x] \in Int  OBVIOUS
<1>1. {} \in A
  <2>1. Sum(f, {}) = 0 /\ Cardinality({}) = 0  BY <1>0, SumIs, FS_EmptySet
  <2>2. 0 * a = 0 /\ 0 * b = 0  OBVIOUS
  <2> QED  BY <2>1, <2>2
<1>2. ASSUME NEW T \in SUBSET S, T # {}, T \ {Pick(T)} \in A PROVE T \in A
  <2>1. IsFiniteSet(T)  BY FS_Subset
  <2>2. PICK k \in Nat \ {0} : k = Cardinality(T) /\ Cardinality(T \ {Pick(T)}) = k - 1
    BY <1>2, <2>1, Picked
  <2>3. PICK x \in a .. b : x = f[Pick(T)]  BY <1>2 DEF Pick
  <2>4. Sum(f, T) = x + Sum(f, T \ {Pick(T)})
    <3>1. \A y \in T : f[y] \in Int  OBVIOUS
    <3> QED  BY <1>2, <2>1, <2>3, <3>1, SumIs
  <2>5. PICK r \in Int : r = Sum(f, T \ {Pick(T)})  BY <1>0, SumSteps
  <2>6. (k - 1) * a <= r /\ r <= (k - 1) * b  BY <1>2, <2>2, <2>5
  <2>7. (k - 1) * a = k * a - a /\ (k - 1) * b = k * b - b  OBVIOUS
  <2>8. k * a \in Int /\ k * b \in Int  OBVIOUS
  <2>9. k * a <= x + r /\ x + r <= k * b  BY <2>6, <2>7, <2>8
  <2> QED  BY <2>2, <2>4, <2>5, <2>9
<1>3. SUBSET S \subseteq A
  <2> HIDE DEF A
  <2> QED  BY <1>1, <1>2, SetInduction
<1>4. S \in A  BY <1>3
<1> QED  BY <1>0, <1>4, SumIs

-----------------------------------------------------------------------------
(* The exponents of a running product add up, in whatever order.             *)
LEMMA ExpsProduct ==
  ASSUME NEW m, NEW b, NEW c, Inverses(m, b, c), NEW S, IsFiniteSet(S),
         NEW w, \A x \in S : w[x] \in Int,
         NEW f, \A x \in S : Exps(m, b, c, f[x], w[x])
  PROVE  Exps(m, b, c, Product(f, S, m), Sum(w, S))
<1> DEFINE A == {T \in SUBSET S : Exps(m, b, c, Product(f, T, m), Sum(w, T))}
<1>1. Modulus(m) /\ m \in Nat \ {0} /\ \A x \in S : f[x] \in Int
  BY DEF Inverses, Modulus, Exps
<1>2. \A T \in SUBSET S :
        /\ Sum(w, T) \in Int
        /\ T # {} => Sum(w, T) = w[Pick(T)] + Sum(w, T \ {Pick(T)})
  BY SumSteps
<1>3. {} \in A
  <2>1. Product(f, {}, m) = 1  BY <1>1, ReducedSteps
  <2>2. Sum(w, {}) = 0  BY SumIs
  <2> QED  BY <2>1, <2>2, ExpsOne
<1>4. ASSUME NEW T \in SUBSET S, T # {}, T \ {Pick(T)} \in A PROVE T \in A
  <2>1. PICK z \in S : z = Pick(T)  BY <1>4 DEF Pick
  <2>2. PICK y, t, v : y = Product(f, T \ {z}, m) /\ t = Sum(w, T \ {z}) /\ v = f[z]
    OBVIOUS
  <2>3. Product(f, T, m) = (y * v) % m  BY <1>1, <1>4, <2>1, <2>2, ReducedSteps
  <2>4. t \in Int /\ Sum(w, T) = w[z] + t
    <3>1. T \ {z} \in SUBSET S  OBVIOUS
    <3> QED  BY <1>2, <1>4, <2>1, <2>2, <3>1
  <2>5. Exps(m, b, c, y, t) /\ Exps(m, b, c, v, w[z])  BY <1>4, <2>1, <2>2
  <2>6. Exps(m, b, c, y * v, t + w[z])  BY <2>4, <2>5, ExpsTimes
  <2>7. y * v \in Int  BY <2>6 DEF Exps
  <2>8. (y * v) % m \in Int /\ Cong(m, (y * v) % m, y * v)
    <3>1. PICK a \in Int : a = y * v  BY <2>7
    <3>2. a % m \in Int /\ Cong(m, a % m, a)  BY <1>1, CongMod
    <3> QED  BY <3>1, <3>2
  <2>9. Exps(m, b, c, (y * v) % m, t + w[z])  BY <2>6, <2>8, ExpsCong
  <2>10. t + w[z] = w[z] + t  BY <2>1, <2>4
  <2> QED  BY <2>3, <2>4, <2>9, <2>10
<1>5. SUBSET S \subseteq A
  <2> HIDE DEF A
  <2> QED  BY <1>3, <1>4, SetInduction
<1> QED  BY <1>5

\* What the products of the subsets of S are made of.
Reduces(f, S, m) ==
  \A T \in SUBSET S :
    /\ Product(f, T, m) \in Int
    /\ T # {} => Product(f, T, m) = (Product(f, T \ {Pick(T)}, m) * f[Pick(T)]) % m

(* ReducedSteps, as a fact about one function.                               *)
LEMMA ReducedIs ==
  ASSUME NEW S, IsFiniteSet(S), NEW m, Modulus(m), NEW f, \A x \in S : f[x] \in Int
  PROVE  Reduces(f, S, m)
BY ReducedSteps DEF Reduces

(* A product of products is the product of both.                             *)
LEMMA ProductOfProducts ==
  ASSUME NEW m, Modulus(m), NEW S, IsFiniteSet(S), NEW f, NEW g, NEW h,
         \A x \in S : /\ f[x] \in Int /\ g[x] \in Int /\ h[x] \in Int
                      /\ Cong(m, f[x], g[x] * h[x])
  PROVE  Cong(m, Product(f, S, m), Product(g, S, m) * Product(h, S, m))
<1> DEFINE A == {T \in SUBSET S :
                   Cong(m, Product(f, T, m), Product(g, T, m) * Product(h, T, m))}
<1>1. Modulus(m)  OBVIOUS
<1>2. /\ \A x \in S : f[x] \in Int
      /\ \A x \in S : g[x] \in Int
      /\ \A x \in S : h[x] \in Int
  OBVIOUS
<1>3. Reduces(f, S, m)  BY <1>1, <1>2, ReducedIs
<1>4. Reduces(g, S, m)  BY <1>1, <1>2, ReducedIs
<1>5. Reduces(h, S, m)  BY <1>1, <1>2, ReducedIs
<1>6. m \in Nat \ {0}  BY DEF Modulus
<1>7. {} \in A
  <2>1. Product(f, {}, m) = 1  BY <1>1, <1>2, ReducedSteps
  <2>2. Product(g, {}, m) = 1  BY <1>1, <1>2, ReducedSteps
  <2>3. Product(h, {}, m) = 1  BY <1>1, <1>2, ReducedSteps
  <2>4. 1 * 1 = 1  OBVIOUS
  <2> QED  BY <2>1, <2>2, <2>3, <2>4 DEF Cong
<1>8. ASSUME NEW T \in SUBSET S, T # {}, T \ {Pick(T)} \in A PROVE T \in A
  <2>1. PICK z \in S : z = Pick(T)  BY <1>8 DEF Pick
  <2>2. T \ {z} \in SUBSET S  OBVIOUS
  <2>3. PICK x \in Int, u \in Int : x = Product(f, T \ {z}, m) /\ u = f[z]
    BY <1>3, <2>2 DEF Reduces
  <2>4. PICK y \in Int, v \in Int : y = Product(g, T \ {z}, m) /\ v = g[z]
    BY <1>4, <2>2 DEF Reduces
  <2>5. PICK t \in Int, w \in Int : t = Product(h, T \ {z}, m) /\ w = h[z]
    BY <1>5, <2>2 DEF Reduces
  <2>6. Cong(m, x, y * t)  BY <1>8, <2>1, <2>3, <2>4, <2>5
  <2>7. Cong(m, u, v * w)  BY <2>3, <2>4, <2>5
  <2>8. Cong(m, x * u, (y * t) * (v * w))
    <3>1. y * t \in Int /\ v * w \in Int  OBVIOUS
    <3> QED  BY <1>6, <2>6, <2>7, <3>1, CongTimes
  <2>9. (y * t) * (v * w) = (y * v) * (t * w)  OBVIOUS
  <2>10. PICK xu \in Int, yv \in Int, tw \in Int : xu = x * u /\ yv = y * v /\ tw = t * w
    OBVIOUS
  <2>11. /\ Product(f, T, m) = xu % m /\ Product(g, T, m) = yv % m
         /\ Product(h, T, m) = tw % m
    <3>1. Product(f, T, m) = (x * u) % m  BY <1>8, <1>3, <2>1, <2>3 DEF Reduces
    <3>2. Product(g, T, m) = (y * v) % m  BY <1>8, <1>4, <2>1, <2>4 DEF Reduces
    <3>3. Product(h, T, m) = (t * w) % m  BY <1>8, <1>5, <2>1, <2>5 DEF Reduces
    <3> QED  BY <2>10, <3>1, <3>2, <3>3
  <2>12. Cong(m, xu, yv * tw)  BY <2>8, <2>9, <2>10
  <2>13. /\ xu % m \in Int /\ Cong(m, xu % m, xu) /\ yv % m \in Int /\ Cong(m, yv % m, yv)
         /\ tw % m \in Int /\ Cong(m, tw % m, tw)
    <3>1. ASSUME NEW a \in Int PROVE a % m \in Int /\ Cong(m, a % m, a)
      <4>1. m \in Nat \ {0}  BY <1>6
      <4> QED  BY <4>1, CongMod
    <3> QED  BY <3>1
  <2>14. Cong(m, (yv % m) * (tw % m), yv * tw)  BY <1>6, <2>13, CongTimes
  <2> QED  BY <2>11, <2>12, <2>13, <2>14 DEF Cong
<1>9. SUBSET S \subseteq A
  <2> HIDE DEF A
  <2> QED  BY <1>7, <1>8, SetInduction
<1> QED  BY <1>9

-----------------------------------------------------------------------------
(* The sums under encryption.                                                *)

(* 1 holds 0.                                                                *)
LEMMA HoldsOne ==
  ASSUME NEW k, IsKey(k)
  PROVE  Holds(k, 1, 0)
<1>1. Unit(k, 1)
  <2>1. \A p \in Nat : Prime(p) => 1 % p # 0
    <3>1. \A p \in Nat : p > 1 => 1 % p = 1  BY SmallMod
    <3> QED  BY <3>1 DEF Prime
  <2> QED  BY <2>1 DEF Unit, IsKey
<1>2. k.n \in Nat /\ k.n * 0 = 0  BY KeyFacts
<1>3. Pow(1, k.n) = 1
  <2>1. 1 \in Nat \ {0}  OBVIOUS
  <2> QED  BY <1>2, <2>1, PowPositive
<1>4. Sealed(k, 0, 1) = 1  BY <1>2, <1>3 DEF Sealed
<1>5. Cong(Square(k), 1, Sealed(k, 0, 1)) /\ 1 \in Int  BY <1>4 DEF Cong
<1> QED  BY <1>1, <1>5 DEF Holds

(* The leaders' product holds the sum of what the factors hold.              *)
LEMMA RawProductHolds ==
  ASSUME NEW k, IsKey(k), NEW S, IsFiniteSet(S), NEW w, \A x \in S : w[x] \in Int,
         NEW f, \A x \in S : f[x] \in Nat /\ Holds(k, f[x], w[x])
  PROVE  RawProduct(f, S) \in Nat /\ Holds(k, RawProduct(f, S), Sum(w, S))
<1> DEFINE A == {T \in SUBSET S :
                   RawProduct(f, T) \in Nat /\ Holds(k, RawProduct(f, T), Sum(w, T))}
<1>1. \A x \in S : f[x] \in Int  OBVIOUS
<1>2. \A T \in SUBSET S :
        /\ Sum(w, T) \in Int
        /\ T # {} => Sum(w, T) = w[Pick(T)] + Sum(w, T \ {Pick(T)})
  BY SumSteps
<1>3. {} \in A
  <2>1. RawProduct(f, {}) = 1  BY <1>1, RawProductSteps
  <2>2. Sum(w, {}) = 0  BY SumIs
  <2> QED  BY <2>1, <2>2, HoldsOne
<1>4. ASSUME NEW T \in SUBSET S, T # {}, T \ {Pick(T)} \in A PROVE T \in A
  <2>1. PICK z \in S : z = Pick(T)  BY <1>4 DEF Pick
  <2>2. PICK y \in Nat, v \in Nat : y = RawProduct(f, T \ {z}) /\ v = f[z]  BY <1>4, <2>1
  <2>3. RawProduct(f, T) = y * v  BY <1>1, <1>4, <2>1, <2>2, RawProductSteps
  <2>4. PICK t \in Int, u \in Int : t = Sum(w, T \ {z}) /\ u = w[z] /\ Sum(w, T) = u + t
    <3>1. T \ {z} \in SUBSET S  OBVIOUS
    <3>2. Sum(w, T \ {z}) \in Int /\ w[z] \in Int  BY <1>2, <3>1
    <3>3. Sum(w, T) = w[z] + Sum(w, T \ {z})  BY <1>2, <1>4, <2>1
    <3> QED  BY <3>2, <3>3
  <2>5. Holds(k, y, t) /\ Holds(k, v, u)  BY <1>4, <2>1, <2>2, <2>4
  <2>6. Holds(k, y * v, t + u)  BY <2>5, ProductHolds
  <2>7. t + u = u + t /\ y * v \in Nat  OBVIOUS
  <2> QED  BY <2>3, <2>4, <2>6, <2>7
<1>5. SUBSET S \subseteq A
  <2> HIDE DEF A
  <2> QED  BY <1>3, <1>4, SetInduction
<1> QED  BY <1>5

(* And so does the holder's, which is reduced.                               *)
LEMMA ProductHoldsSum ==
  ASSUME NEW k, IsKey(k), NEW S, IsFiniteSet(S), NEW w, \A x \in S : w[x] \in Int,
         NEW f, \A x \in S : Holds(k, f[x], w[x])
  PROVE  Holds(k, Product(f, S, Square(k)), Sum(w, S))
<1> DEFINE m == Square(k)
           A == {T \in SUBSET S : Holds(k, Product(f, T, m), Sum(w, T))}
<1>1. Modulus(m) /\ \A x \in S : f[x] \in Int  BY KeyFacts DEF Holds, Modulus
<1> HIDE DEF m
<1>2. \A T \in SUBSET S :
        /\ Sum(w, T) \in Int
        /\ T # {} => Sum(w, T) = w[Pick(T)] + Sum(w, T \ {Pick(T)})
  BY SumSteps
<1>3. {} \in A
  <2>1. Product(f, {}, m) = 1  BY <1>1, ReducedSteps
  <2>2. Sum(w, {}) = 0  BY SumIs
  <2> QED  BY <2>1, <2>2, HoldsOne
<1>4. ASSUME NEW T \in SUBSET S, T # {}, T \ {Pick(T)} \in A PROVE T \in A
  <2>1. PICK z \in S : z = Pick(T)  BY <1>4 DEF Pick
  <2>2. PICK y, v : y = Product(f, T \ {z}, m) /\ v = f[z]  OBVIOUS
  <2>3. Product(f, T, m) = (y * v) % m  BY <1>1, <1>4, <2>1, <2>2, ReducedSteps
  <2>4. PICK t \in Int, u \in Int : t = Sum(w, T \ {z}) /\ u = w[z] /\ Sum(w, T) = u + t
    <3>1. T \ {z} \in SUBSET S  OBVIOUS
    <3>2. Sum(w, T \ {z}) \in Int /\ w[z] \in Int  BY <1>2, <3>1
    <3>3. Sum(w, T) = w[z] + Sum(w, T \ {z})  BY <1>2, <1>4, <2>1
    <3> QED  BY <3>2, <3>3
  <2>5. Holds(k, y, t) /\ Holds(k, v, u)  BY <1>4, <2>1, <2>2, <2>4
  <2>6. Holds(k, y * v, t + u)  BY <2>5, ProductHolds
  <2>7. t + u \in Int /\ t + u = u + t  OBVIOUS
  <2>8. Holds(k, (y * v) % m, t + u)  BY <2>6, <2>7, HoldsMod DEF m
  <2> QED  BY <2>3, <2>4, <2>7, <2>8
<1>5. SUBSET S \subseteq A
  <2> HIDE DEF A
  <2> QED  BY <1>3, <1>4, SetInduction
<1> QED  BY <1>5 DEF m

-----------------------------------------------------------------------------
(* The clients and their groups.                                             *)

(* A sequence has finitely many elements.                                    *)
LEMMA ToSetFinite ==
  ASSUME NEW V, NEW s \in Seq(V)
  PROVE  IsFiniteSet(ToSet(s)) /\ ToSet(s) \subseteq V /\ (Len(s) > 0 => ToSet(s) # {})
<1>1. /\ Len(s) \in Nat /\ DOMAIN s = 1 .. Len(s) /\ \A i \in 1 .. Len(s) : s[i] \in V
      /\ s = [i \in 1 .. Len(s) |-> s[i]]
  OBVIOUS
<1>2. IsFiniteSet(1 .. Len(s))
  <2>1. 1 \in Int /\ Len(s) \in Int  BY <1>1
  <2> QED  BY <2>1, FS_Interval
<1>3. s \in Surjection(1 .. Len(s), ToSet(s))
  BY <1>1 DEF Surjection, ToSet
<1>4. Len(s) > 0 => s[1] \in ToSet(s)  BY <1>1 DEF ToSet
<1> QED  BY <1>1, <1>2, <1>3, <1>4, FS_Surjection DEF ToSet

(* There are finitely many clients, one of them the holder, and the groups   *)
(* are parts of the others.                                                  *)
LEMMA ClientsFinite ==
  /\ IsFiniteSet(Clients) /\ IsFiniteSet(Members) /\ IsFiniteSet(Groups)
  /\ Num \in Nat \ {0} /\ Cardinality(Members) = Num - 1
  /\ Holder \in Clients /\ Holder \notin Members
  /\ Members = UNION {ToSet(g) : g \in Groups}
  /\ \A g \in Groups : IsFiniteSet(ToSet(g)) /\ ToSet(g) # {} /\ ToSet(g) \subseteq Members
<1>1. ASSUME NEW g \in Groups PROVE IsFiniteSet(ToSet(g)) /\ ToSet(g) # {}
  <2>1. g \in Seq(ToSet(g)) /\ Len(g) > 1  BY GroupAssumption
  <2>2. Len(g) > 0  BY <2>1
  <2> QED  BY <2>1, <2>2, ToSetFinite
<1> DEFINE parts == {ToSet(g) : g \in Groups}
<1>2. IsFiniteSet(parts)
  <2> DEFINE f == [g \in Groups |-> ToSet(g)]
  <2>1. f \in Surjection(Groups, parts)  BY DEF Surjection
  <2>2. IsFiniteSet(Groups)  BY GroupAssumption
  <2> HIDE DEF f, parts
  <2> QED  BY <2>1, <2>2, FS_Surjection
<1>3. IsFiniteSet(UNION parts)
  <2>1. \A T \in parts : IsFiniteSet(T)  BY <1>1
  <2> HIDE DEF parts
  <2> QED  BY <1>2, <2>1, FS_UNION
<1>4. Holder \notin UNION parts  BY GroupAssumption
<1>5. Clients = (UNION parts) \cup {Holder}  BY DEF Clients
<1>6. /\ UNION parts = UNION {ToSet(g) : g \in Groups}
      /\ \A g \in Groups : ToSet(g) \subseteq UNION parts
  OBVIOUS
<1> HIDE DEF parts
<1>7. Members = UNION parts /\ Holder \in Clients  BY <1>4, <1>5 DEF Members
<1>8. IsFiniteSet(Clients) /\ Num = Cardinality(UNION parts) + 1
  BY <1>3, <1>4, <1>5, FS_AddElement DEF Num
<1>9. Cardinality(UNION parts) \in Nat  BY <1>3, FS_CardinalityType
<1>10. Num \in Nat \ {0} /\ Cardinality(Members) = Num - 1  BY <1>7, <1>8, <1>9
<1>11. IsFiniteSet(Members) /\ Holder \notin Members  BY <1>3, <1>4, <1>7
<1>12. \A g \in Groups : ToSet(g) \subseteq Members  BY <1>6, <1>7
<1> QED  BY <1>1, <1>6, <1>7, <1>8, <1>10, <1>11, <1>12, GroupAssumption

(* The sums of the groups add up to the sum of the members.                  *)
LEMMA GroupSums ==
  ASSUME NEW f, \A c \in Members : f[c] \in Int,
         NEW w, \A g \in Groups : w[g] = Sum(f, ToSet(g))
  PROVE  Sum(w, Groups) = Sum(f, Members)
<1> DEFINE part(T) == UNION {ToSet(g) : g \in T}
           A == {T \in SUBSET Groups : Sum(w, T) = Sum(f, part(T))}
<1>1. \A T \in SUBSET Groups : part(T) \subseteq Members /\ IsFiniteSet(part(T))
  <2>1. \A T \in SUBSET Groups : part(T) \subseteq Members  BY ClientsFinite
  <2> QED  BY <2>1, ClientsFinite, FS_Subset
<1>2. \A g \in Groups : w[g] \in Int
  <2> SUFFICES ASSUME NEW g \in Groups PROVE w[g] \in Int
    OBVIOUS
  <2>1. IsFiniteSet(ToSet(g)) /\ \A c \in ToSet(g) : f[c] \in Int  BY ClientsFinite
  <2> QED  BY <2>1, SumIs
<1>3. {} \in A
  <2>1. part({}) = {}  OBVIOUS
  <2>2. Sum(w, {}) = 0  BY <1>2, ClientsFinite, SumIs
  <2>3. Sum(f, {}) = 0  BY ClientsFinite, SumIs
  <2> QED  BY <2>1, <2>2, <2>3
<1>4. ASSUME NEW T \in SUBSET Groups, T # {}, T \ {Pick(T)} \in A PROVE T \in A
  <2>1. PICK z \in T : z = Pick(T)  BY <1>4 DEF Pick
  <2> DEFINE U == T \ {z}
  <2>2. z \in Groups /\ U \in SUBSET Groups  OBVIOUS
  <2>3. Sum(w, T) = w[z] + Sum(w, U)  BY <1>2, <1>4, <2>1, ClientsFinite, SumSteps
  <2>4. part(T) = ToSet(z) \cup part(U)  OBVIOUS
  <2>5. ToSet(z) \cap part(U) = {}  BY GroupAssumption
  <2>6. Sum(f, part(T)) = Sum(f, ToSet(z)) + Sum(f, part(U))
    <3>1. IsFiniteSet(ToSet(z)) /\ IsFiniteSet(part(U))  BY <1>1, <2>2, ClientsFinite
    <3>2. \A c \in ToSet(z) \cup part(U) : f[c] \in Int  BY <1>1, <2>2, ClientsFinite
    <3> HIDE DEF part, U
    <3> QED  BY <2>4, <2>5, <3>1, <3>2, SumDisjoint
  <2>7. w[z] = Sum(f, ToSet(z)) /\ Sum(w, U) = Sum(f, part(U))  BY <1>4, <2>1, <2>2
  <2> QED  BY <2>3, <2>6, <2>7
<1>5. SUBSET Groups \subseteq A
  <2> HIDE DEF A
  <2> QED  BY <1>3, <1>4, ClientsFinite, SetInduction
<1>6. part(Groups) = Members  BY ClientsFinite
<1>7. Groups \in A  BY <1>5
<1> QED  BY <1>6, <1>7

-----------------------------------------------------------------------------
(* Sequences of sequences.                                                   *)

\* What FlattenSeq makes of s, up to each of its elements.
Flattens(f, s) ==
  f = [i \in 1 .. Len(s) |-> IF i = 1 THEN s[i] ELSE f[i - 1] \o s[i]]

(* There is such a function, and its last value is the result.               *)
LEMMA FlattenIs ==
  ASSUME NEW V, NEW s \in Seq(Seq(V)), Len(s) > 0
  PROVE  \E f : Flattens(f, s) /\ FlattenSeq(s) = f[Len(s)]
<1> DEFINE n == Len(s)
           step == [k \in Nat |-> [x \in Seq(V) |->
                     IF k + 2 \in 1 .. n THEN x \o s[k + 2] ELSE x]]
<1>1. n \in Nat \ {0} /\ \A i \in 1 .. n : s[i] \in Seq(V)  OBVIOUS
<1>2. step \in [Nat -> [Seq(V) -> Seq(V)]]
  <2>1. ASSUME NEW k \in Nat, NEW x \in Seq(V)
        PROVE  (IF k + 2 \in 1 .. n THEN x \o s[k + 2] ELSE x) \in Seq(V)
    <3>1. CASE k + 2 \in 1 .. n
      <4>1. s[k + 2] \in Seq(V)  BY <1>1, <3>1
      <4> QED  BY <3>1, <4>1
    <3>2. CASE k + 2 \notin 1 .. n  BY <3>2
    <3> QED  BY <3>1, <3>2
  <2> QED  BY <2>1
<1>3. PICK h : Iterates(h, Seq(V), s[1], step)
  <2>1. s[1] \in Seq(V)  BY <1>1
  <2> HIDE DEF step
  <2> QED  BY <1>2, <2>1, Iterate
<1> DEFINE f == [i \in 1 .. n |-> h[i - 1]]
<1>4. ASSUME NEW i \in 1 .. n PROVE f[i] = IF i = 1 THEN s[i] ELSE f[i - 1] \o s[i]
  <2>1. CASE i = 1  BY <1>3, <2>1 DEF Iterates
  <2>2. CASE i # 1
    <3>1. PICK k \in Nat : k = i - 2  BY <1>1, <2>2
    <3>2. k + 1 \in Nat /\ k + 1 # 0 /\ (k + 1) - 1 = k /\ k + 2 = i /\ i - 1 = k + 1
      BY <1>1, <3>1
    <3>3. h[k + 1] = step[k][h[k]] /\ h[k] \in Seq(V)
      <4> HIDE DEF step
      <4> QED  BY <1>3, <3>2 DEF Iterates
    <3>4. h[k + 1] = h[k] \o s[i]  BY <3>2, <3>3
    <3>5. i - 1 \in 1 .. n /\ (i - 1) - 1 = k  BY <1>1, <3>2
    <3>6. f[i] = h[k + 1] /\ f[i - 1] = h[k]  BY <3>2, <3>5
    <3> QED  BY <2>2, <3>4, <3>6
  <2> QED  BY <2>1, <2>2
<1>5. Flattens(f, s)  BY <1>4 DEF Flattens
<1> HIDE DEF f
<1> DEFINE g == CHOOSE g : Flattens(g, s)
<1>6. Flattens(g, s)  BY <1>5
<1>7. FlattenSeq(s) = g[Len(s)]  BY <1>1 DEF FlattenSeq, Flattens
<1> HIDE DEF g
<1> QED  BY <1>6, <1>7

(* Nothing comes into a sequence by flattening it.                           *)
LEMMA FlattenRange ==
  ASSUME NEW V, NEW s \in Seq(Seq(V))
  PROVE  FlattenSeq(s) \in Seq(V)
<1>1. CASE Len(s) = 0
  <2>1. FlattenSeq(s) = s  BY <1>1 DEF FlattenSeq
  <2>2. s = << >>  BY <1>1
  <2> QED  BY <2>1, <2>2
<1>2. CASE Len(s) > 0
  <2>1. PICK f : Flattens(f, s) /\ FlattenSeq(s) = f[Len(s)]  BY <1>2, FlattenIs
  <2> DEFINE S == {k \in Nat : k \in 1 .. Len(s) => f[k] \in Seq(V)}
  <2>2. 0 \in S  OBVIOUS
  <2>3. ASSUME NEW k \in Nat, k \in S PROVE k + 1 \in S
    <3> SUFFICES ASSUME k + 1 \in 1 .. Len(s) PROVE f[k + 1] \in Seq(V)
      OBVIOUS
    <3>1. s[k + 1] \in Seq(V)  OBVIOUS
    <3>2. CASE k = 0
      <4>1. f[k + 1] = s[k + 1]  BY <2>1, <3>2 DEF Flattens
      <4> QED  BY <3>1, <4>1
    <3>3. CASE k # 0
      <4>1. k \in 1 .. Len(s) /\ (k + 1) - 1 = k /\ k + 1 # 1  BY <3>3
      <4>2. f[k + 1] = f[k] \o s[k + 1]  BY <2>1, <4>1 DEF Flattens
      <4>3. f[k] \in Seq(V)  BY <2>3, <4>1
      <4> QED  BY <3>1, <4>2, <4>3
    <3> QED  BY <3>2, <3>3
  <2>4. Nat \subseteq S
    <3> HIDE DEF S
    <3> QED  BY <2>2, <2>3, Induction
  <2>5. Len(s) \in Nat /\ Len(s) \in 1 .. Len(s)  BY <1>2
  <2> QED  BY <2>1, <2>4, <2>5
<1> QED  BY <1>1, <1>2

(* A sequence of sequences of one element each is flattened to the sequence  *)
(* of these elements.                                                        *)
LEMMA FlattenOnes ==
  ASSUME NEW V, NEW n \in Nat, NEW t \in [1 .. n -> V]
  PROVE  FlattenSeq([i \in 1 .. n |-> <<t[i]>>]) = t
<1> DEFINE s == [i \in 1 .. n |-> <<t[i]>>]
<1>1. s \in Seq(Seq(V)) /\ Len(s) = n
  <2>1. \A i \in 1 .. n : s[i] \in Seq(V)  OBVIOUS
  <2> QED  BY <2>1
<1>2. CASE n = 0
  <2>1. FlattenSeq(s) = s  BY <1>1, <1>2 DEF FlattenSeq
  <2>2. s = t  BY <1>2
  <2> QED  BY <2>1, <2>2
<1>3. CASE n > 0
  <2>1. PICK f : Flattens(f, s) /\ FlattenSeq(s) = f[n]  BY <1>1, <1>3, FlattenIs
  <2> DEFINE S == {k \in Nat : k \in 1 .. n => f[k] = [j \in 1 .. k |-> t[j]]}
  <2>2. 0 \in S  OBVIOUS
  <2>3. ASSUME NEW k \in Nat, k \in S PROVE k + 1 \in S
    <3> SUFFICES ASSUME k + 1 \in 1 .. n PROVE f[k + 1] = [j \in 1 .. k + 1 |-> t[j]]
      OBVIOUS
    <3>1. s[k + 1] = <<t[k + 1]>>  OBVIOUS
    <3>2. CASE k = 0
      <4>1. f[1] = s[1]  BY <1>1, <1>3, <2>1, <3>2 DEF Flattens
      <4>2. s[1] = [j \in 1 .. 1 |-> t[j]]  BY <3>1, <3>2
      <4> QED  BY <3>2, <4>1, <4>2
    <3>3. CASE k # 0
      <4>1. k \in 1 .. n /\ (k + 1) - 1 = k /\ k + 1 # 1  BY <3>3
      <4>2. f[k + 1] = f[k] \o s[k + 1]  BY <1>1, <2>1, <4>1 DEF Flattens
      <4>3. f[k] = [j \in 1 .. k |-> t[j]]  BY <2>3, <4>1
      <4>4. [j \in 1 .. k |-> t[j]] \o <<t[k + 1]>> = [j \in 1 .. k + 1 |-> t[j]]
        OBVIOUS
      <4> QED  BY <3>1, <4>2, <4>3, <4>4
    <3> QED  BY <3>2, <3>3
  <2>4. Nat \subseteq S
    <3> HIDE DEF S
    <3> QED  BY <2>2, <2>3, Induction
  <2>5. n \in 1 .. n  BY <1>3
  <2>6. f[n] = [j \in 1 .. n |-> t[j]]  BY <2>4, <2>5
  <2> QED  BY <2>1, <2>6
<1> QED  BY <1>2, <1>3

(* SetToSeq lists the elements of a finite set.                              *)
LEMMA SetToSeqIs ==
  ASSUME NEW V, NEW S \in SUBSET V, IsFiniteSet(S)
  PROVE  SetToSeq(S) \in Seq(V)
<1>1. PICK n \in Nat : n = Cardinality(S)  BY FS_CardinalityType
<1>2. \E f \in [1 .. n -> S] : IsInjective(f)
  <2>1. PICK k \in Nat : ExistsBijection(1 .. k, S)  BY FS_NatBijection
  <2>2. k = n  BY <1>1, <2>1, FS_CountingElements
  <2>3. PICK f : f \in Bijection(1 .. n, S)  BY <2>1, <2>2 DEF ExistsBijection
  <2>4. f \in [1 .. n -> S] /\ IsInjective(f)
    BY <2>3 DEF Bijection, Injection, IsInjective
  <2> QED  BY <2>4
<1>3. SetToSeq(S) \in [1 .. n -> S]  BY <1>1, <1>2 DEF SetToSeq
<1>4. SetToSeq(S) \in [1 .. n -> V]  BY <1>3
<1> QED  BY <1>4

(* Of one element there is only one sequence.                                *)
LEMMA SetToSeqOne ==
  ASSUME NEW t
  PROVE  SetToSeq({t}) = <<t>>
<1>1. Cardinality({t}) = 1 /\ IsFiniteSet({t})  BY FS_Singleton
<1>2. \E f \in [1 .. 1 -> {t}] : IsInjective(f)
  <2>1. [i \in 1 .. 1 |-> t] \in [1 .. 1 -> {t}] /\ IsInjective([i \in 1 .. 1 |-> t])
    BY DEF IsInjective
  <2> QED  BY <2>1
<1>3. SetToSeq({t}) \in [1 .. 1 -> {t}]  BY <1>1, <1>2 DEF SetToSeq
<1> QED  BY <1>3

-----------------------------------------------------------------------------
(* The table of the powers of 2.                                             *)

(* 2 and the hashes are invertible modulo PRIME.                             *)
LEMMA PrimeFacts ==
  ASSUME NEW p \in Primes
  PROVE  /\ p \in Nat \ {0, 1} /\ Modulus(p)
         /\ \E c : Inverses(p, 2, c)
         /\ \A i \in Entries : \E c : Inverses(p, HX[i], c)
<1>1. p \in Nat /\ p > 2 /\ Prime(p)  BY PrimeAssumption
<1>2. \E c : Inverses(p, 2, c)
  <2>1. 2 % p # 0
    <3>1. 2 \in 0 .. p - 1 /\ p \in Nat \ {0}  BY <1>1
    <3>2. 2 % p = 2  BY <3>1, SmallMod
    <3> QED  BY <3>2
  <2>2. 2 \in Nat  OBVIOUS
  <2> QED  BY <1>1, <2>1, <2>2, HasInverse
<1>3. ASSUME NEW i \in Entries PROVE \E c : Inverses(p, HX[i], c)
  <2>1. HX[i] \in Nat
    <3>1. HX \in Seq(Nat)  BY PrimeAssumption
    <3> QED  BY <3>1 DEF Entries
  <2>2. HX[i] % p # 0  BY PrimeAssumption
  <2> QED  BY <1>1, <2>1, <2>2, HasInverse
<1> QED  BY <1>1, <1>2, <1>3 DEF Modulus

(* The range of the table is not empty.                                      *)
LEMMA ScaleIs == Scale \in Nat \ {0} /\ Num * MaxGrad = Scale /\ MaxGrad \in Nat \ {0}
<1>1. Num \in Nat \ {0} /\ MaxGrad \in Nat \ {0}  BY ClientsFinite, GradientAssumption
<1>2. \A x, y \in Nat \ {0} : x * y \in Nat \ {0}  OBVIOUS
<1> QED  BY <1>1, <1>2 DEF Scale

(* A power with exponent 0 is congruent to 1.                                *)
LEMMA ExpsZero ==
  ASSUME NEW m, NEW b, NEW c, Inverses(m, b, c), NEW x, Exps(m, b, c, x, 0)
  PROVE  Cong(m, x, 1)
BY ExpsOne, ExpsUnique

(* Residues that are congruent are the same.                                 *)
LEMMA ResidueUnique ==
  ASSUME NEW m, Modulus(m), NEW x \in 0 .. m - 1, NEW y \in 0 .. m - 1, Cong(m, x, y)
  PROVE  x = y
<1>1. m \in Nat \ {0}  BY DEF Modulus
<1>2. x % m = x /\ y % m = y  BY <1>1, SmallMod
<1> QED  BY <1>2 DEF Cong

(* A smaller exponent of the table has another power.                        *)
LEMMA SmallerDiffers ==
  ASSUME NEW p \in Primes, NEW i \in -Scale .. Scale, NEW j \in -Scale .. Scale, i < j
  PROVE  PowMod(2, i, p) # PowMod(2, j, p)
<1> SUFFICES ASSUME PowMod(2, i, p) = PowMod(2, j, p) PROVE FALSE
  OBVIOUS
<1>1. PICK c : Inverses(p, 2, c)  BY PrimeFacts
<1>2. i \in Int /\ j \in Int /\ -i \in Int /\ j - i \in Int  BY ScaleIs
<1>3. PICK x, y : x = PowMod(2, i, p) /\ y = PowMod(2, -i, p)  OBVIOUS
<1>4. Exps(p, 2, c, x, i) /\ Exps(p, 2, c, x, j)  BY <1>1, <1>2, <1>3, PowModExps
<1>5. Exps(p, 2, c, y, -i)  BY <1>1, <1>2, <1>3, PowModExps
<1>6. Cong(p, x * y, 1)
  <2>1. Exps(p, 2, c, x * y, i + (-i)) /\ i + (-i) = 0  BY <1>1, <1>2, <1>4, <1>5, ExpsTimes
  <2> QED  BY <1>1, <2>1, ExpsZero
<1>7. Exps(p, 2, c, x * y, j - i)
  <2>1. Exps(p, 2, c, x * y, j + (-i)) /\ j + (-i) = j - i
    BY <1>1, <1>2, <1>4, <1>5, ExpsTimes
  <2> QED  BY <2>1
<1>8. PICK d : d = PowMod(2, j - i, p) /\ Exps(p, 2, c, d, j - i) /\ d \in 0 .. p - 1
  BY <1>1, <1>2, PowModExps
<1>9. Cong(p, d, x * y)  BY <1>1, <1>7, <1>8, ExpsUnique
<1>10. Cong(p, d, 1)  BY <1>6, <1>9 DEF Cong
<1>11. d = 1
  <2>1. p \in Nat \ {0, 1} /\ Modulus(p)  BY PrimeFacts
  <2>2. 1 \in 0 .. p - 1  BY <2>1
  <2> QED  BY <1>8, <1>10, <2>1, <2>2, ResidueUnique
<1>12. j - i \in 1 .. 2 * Num * MaxGrad
  <2>1. 2 * Num * MaxGrad = 2 * Scale
    <3>1. Num \in Nat /\ MaxGrad \in Nat /\ Num * MaxGrad = Scale  BY ClientsFinite, ScaleIs
    <3>2. \A a, b \in Nat : 2 * a * b = 2 * (a * b)  OBVIOUS
    <3> QED  BY <3>1, <3>2
  <2> QED  BY <2>1, ScaleIs
<1>13. PowMod(2, j - i, p) # 1  BY <1>12, PrimeAssumption
<1> QED  BY <1>8, <1>11, <1>13

(* Two exponents of the table have different powers.                         *)
LEMMA PowersDiffer ==
  ASSUME NEW p \in Primes, NEW i \in -Scale .. Scale, NEW j \in -Scale .. Scale, i # j
  PROVE  PowMod(2, i, p) # PowMod(2, j, p)
<1>1. CASE i < j  BY <1>1, SmallerDiffers
<1>2. CASE j < i
  <2>1. PowMod(2, j, p) # PowMod(2, i, p)  BY <1>2, SmallerDiffers
  <2> QED  BY <2>1
<1>3. i < j \/ j < i  BY ScaleIs
<1> QED  BY <1>1, <1>2, <1>3

\* Where a number is looked up.
Bucket(z) == Table[z % (10 * Scale)]

(* What is found is in the range of the table.                               *)
LEMMA FoundIn ==
  ASSUME NEW z \in Int
  PROVE  /\ Bucket(z) = {i \in -Scale .. Scale - 1 :
                            PowMod(2, i, PRIME) % (10 * Scale) = z % (10 * Scale)}
         /\ Found(z, Bucket(z)) \subseteq -Scale .. Scale - 1
         /\ IsFiniteSet(Found(z, Bucket(z)))
<1>1. z % (10 * Scale) \in 0 .. 10 * Scale - 1
  <2>1. 10 * Scale \in Nat \ {0}  BY ScaleIs
  <2> QED  BY <2>1, DivMod
<1>2. Bucket(z) = {i \in -Scale .. Scale - 1 :
                     PowMod(2, i, PRIME) % (10 * Scale) = z % (10 * Scale)}
  BY <1>1 DEF Bucket, Table
<1>3. Bucket(z) \subseteq -Scale .. Scale - 1  BY <1>2
<1>4. Found(z, Bucket(z)) \subseteq -Scale .. Scale - 1  BY <1>3 DEF Found
<1>5. IsFiniteSet(-Scale .. Scale - 1)
  <2>1. -Scale \in Int /\ Scale - 1 \in Int  BY ScaleIs
  <2> QED  BY <2>1, FS_Interval
<1>6. IsFiniteSet(Found(z, Bucket(z)))  BY <1>4, <1>5, FS_Subset
<1> QED  BY <1>2, <1>4, <1>6

(* The power of an exponent of the table leads to this exponent.             *)
LEMMA FoundIs ==
  ASSUME PRIME \in Primes, NEW t \in -Scale .. Scale - 1, NEW z \in Int,
         z = PowMod(2, t, PRIME)
  PROVE  Bucket(z) # {} /\ Found(z, Bucket(z)) = {t}
<1>1. t \in Bucket(z)  BY FoundIn
<1>2. \A i \in Bucket(z) : PowMod(2, i, PRIME) = z => i = t
  <2>1. \A i \in -Scale .. Scale - 1 : i \in -Scale .. Scale  BY ScaleIs
  <2> QED  BY <2>1, FoundIn, PowersDiffer
<1>3. CASE \E i \in Bucket(z) : Bucket(z) = {i}  BY <1>1, <1>3 DEF Found
<1>4. CASE ~(\E i \in Bucket(z) : Bucket(z) = {i})
  <2>1. Found(z, Bucket(z)) = {i \in Bucket(z) : PowMod(2, i, PRIME) = z}
    BY <1>4 DEF Found
  <2> QED  BY <1>1, <1>2, <2>1
<1> QED  BY <1>1, <1>3, <1>4

(* What aggregate_gard returns is in the range of the table.                 *)
LEMMA SumsIn ==
  ASSUME NEW z, \A i \in Entries : z[i] \in Int
  PROVE  \/ Sums(z) = <<"KeyError">>
         \/ \E v \in Seq(-Scale .. Scale - 1) : Sums(z) = <<"sum", v>>
<1> DEFINE V == -Scale .. Scale - 1
           s == [i \in Entries |-> SetToSeq(Found(z[i], Bucket(z[i])))]
<1>1. ASSUME NEW i \in Entries PROVE s[i] \in Seq(V)
  <2>1. PICK S : S = Found(z[i], Bucket(z[i])) /\ IsFiniteSet(S) /\ S \subseteq V  BY FoundIn
  <2>2. SetToSeq(S) \in Seq(V)
    <3> HIDE DEF V
    <3> QED  BY <2>1, SetToSeqIs
  <2> QED  BY <2>1, <2>2
<1>2. s \in Seq(Seq(V))
  <2>1. Len(HX) \in Nat  BY PrimeAssumption
  <2> HIDE DEF V
  <2> QED  BY <1>1, <2>1 DEF Entries
<1>3. FlattenSeq(s) \in Seq(V)
  <2> HIDE DEF s, V
  <2> QED  BY <1>2, FlattenRange
<1>4. Sums(z) = <<"KeyError">> \/ Sums(z) = <<"sum", FlattenSeq(s)>>
  BY DEF Sums, Bucket
<1> QED  BY <1>3, <1>4

(* And for powers of exponents of the table it is these exponents.           *)
LEMMA SumsAre ==
  ASSUME PRIME \in Primes, NEW t \in [Entries -> -Scale .. Scale - 1],
         NEW z, \A i \in Entries : z[i] \in Int /\ z[i] = PowMod(2, t[i], PRIME)
  PROVE  Sums(z) = <<"sum", t>>
<1> DEFINE V == -Scale .. Scale - 1
           s == [i \in Entries |-> SetToSeq(Found(z[i], Bucket(z[i])))]
<1>1. ASSUME NEW i \in Entries
      PROVE  Bucket(z[i]) # {} /\ SetToSeq(Found(z[i], Bucket(z[i]))) = <<t[i]>>
  <2>1. t[i] \in V /\ z[i] \in Int /\ z[i] = PowMod(2, t[i], PRIME)  OBVIOUS
  <2>2. Bucket(z[i]) # {} /\ Found(z[i], Bucket(z[i])) = {t[i]}  BY <2>1, FoundIs
  <2> QED  BY <2>2, SetToSeqOne
<1>2. s = [i \in Entries |-> <<t[i]>>]  BY <1>1
<1>3. Len(HX) \in Nat  BY PrimeAssumption
<1>4. FlattenSeq(s) = t
  <2> HIDE DEF V
  <2> QED  BY <1>2, <1>3, FlattenOnes DEF Entries
<1>5. Sums(z) = <<"sum", FlattenSeq(s)>>  BY <1>1 DEF Sums, Bucket
<1> QED  BY <1>4, <1>5

-----------------------------------------------------------------------------
(* The seeds.                                                                *)

\* What every ciphertext and every product of them holds, and what the holder's
\* seed becomes.
SeedInv ==
  /\ PRIME \in Primes /\ grad \in [Clients -> Gradients] /\ summed \in BOOLEAN
  /\ seed \in [Clients -> Int] /\ Q > 0
  /\ \A c \in Members : seed[c] \in 0 .. Q - 1
  /\ ~summed => seed[Holder] \in 0 .. Q - 1
  /\ summed => seed[Holder] = -Sum(seed, Members)
  /\ cipher \in [Members -> 0 .. Square(PaillierKey) - 1]
  /\ \A c \in Members : cipher[c] # 0 => Holds(PaillierKey, cipher[c], seed[c])
  /\ sums \in [Groups -> Nat]
  /\ \A g \in Groups : sums[g] # 0 => Holds(PaillierKey, sums[g], Sum(seed, ToSet(g)))

\* The holder masks its gradient last of all: with the seed it took.
MaskInv ==
  /\ DOMAIN masked = Clients
  /\ \A c \in Clients : masked[c] # << >> =>
       /\ c = Holder => summed
       /\ masked[c] = [i \in Entries |-> Masked(grad[c][i], seed[c], i)]

\* What the aggregator broadcasts is what is found at the powers of the sums.
ResultInv ==
  result # << >> => \E z : /\ result = Sums(z)
                           /\ \A i \in Entries : /\ z[i] \in Int
                                                 /\ z[i] = PowMod(2, Total(i), PRIME)

\* The invariant of the module: the seeds, what is masked with them, the sums.
MaskingInv == SeedInv /\ MaskInv /\ ResultInv

(* The key is one that decrypts.                                             *)
LEMMA KeyIs ==
  /\ IsKey(PaillierKey) /\ \A r \in Obfuscators : Unit(PaillierKey, r)
  /\ PaillierKey.n \in Nat \ {0} /\ Q \in Nat
BY KeyAssumption, KeyFacts DEF IsKey, Unit

(* The sum of the members' seeds is a residue of n.                          *)
LEMMA SeedSumIs ==
  ASSUME NEW f, \A c \in Members : f[c] \in 0 .. Q - 1
  PROVE  Sum(f, Members) \in 0 .. PaillierKey.n - 1
<1>1. Q - 1 \in Int /\ 0 \in Int  BY KeyIs
<1>2. IsFiniteSet(Members) /\ Num - 1 \in Nat  BY ClientsFinite
<1>3. Cardinality(Members) = Num - 1  BY ClientsFinite
<1>4. PICK N \in Nat : N = Num - 1  BY <1>2
<1>5. /\ Sum(f, Members) \in Int
      /\ N * 0 <= Sum(f, Members) /\ Sum(f, Members) <= N * (Q - 1)
  BY <1>1, <1>2, <1>3, <1>4, SumBound
<1>6. N * 0 = 0 /\ N * (Q - 1) < PaillierKey.n /\ N * (Q - 1) \in Int
  BY <1>1, <1>4, SeedAssumption
<1> QED  BY <1>5, <1>6, KeyIs

(* So is the seed of a member.                                               *)
LEMMA SeedIs ==
  ASSUME NEW c \in Members, NEW s \in 0 .. Q - 1
  PROVE  s \in 0 .. PaillierKey.n - 1
<1>1. Num - 1 \in Nat \ {0}
  <2>1. Cardinality(Members) # 0  BY ClientsFinite, FS_EmptySet
  <2> QED  BY <2>1, ClientsFinite
<1>2. Q - 1 \in Nat
  <2>1. Q \in Nat  BY KeyIs
  <2> QED  BY <2>1
<1>3. PICK N \in Nat \ {0}, B \in Nat : N = Num - 1 /\ B = Q - 1  BY <1>1, <1>2
<1>4. B <= N * B /\ N * B \in Nat
  <2>1. PICK M \in Nat : N = M + 1  OBVIOUS
  <2>2. N * B = M * B + B /\ M * B \in Nat  BY <2>1
  <2> QED  BY <2>2
<1>5. N * B < PaillierKey.n  BY <1>3, SeedAssumption
<1> QED  BY <1>3, <1>4, <1>5, KeyIs

(* When a round starts nothing is encrypted, masked or summed.               *)
LEMMA InitMasking == Init => MaskingInv
<1> SUFFICES ASSUME Init PROVE MaskingInv
  OBVIOUS
<1>1. \A s \in 0 .. Q - 1 : s \in Int  OBVIOUS
<1>2. seed \in [Clients -> Int]  BY <1>1 DEF Init
<1>3. Members \subseteq Clients /\ Holder \in Clients  BY ClientsFinite DEF Members
<1>4. 0 \in 0 .. Square(PaillierKey) - 1
  <2>1. Square(PaillierKey) \in Nat \ {0}  BY KeyIs, KeyFacts
  <2> QED  BY <2>1
<1>5. Q > 0
  <2>1. seed[Holder] \in 0 .. Q - 1 /\ Q \in Nat  BY <1>3, KeyIs DEF Init
  <2> QED  BY <2>1
<1>6. SeedInv  BY <1>2, <1>3, <1>4, <1>5 DEF Init, SeedInv
<1>7. MaskInv /\ ResultInv  BY DEF Init, MaskInv, ResultInv
<1> QED  BY <1>6, <1>7 DEF MaskingInv

(* A member encrypts its seed.                                               *)
LEMMA EncryptSeedKeeps ==
  ASSUME SeedInv, NEW c \in Members, NEW r \in Obfuscators, EncryptSeed(c, r)
  PROVE  SeedInv'
<1>1. seed[c] \in 0 .. PaillierKey.n - 1  BY SeedIs DEF SeedInv
<1>2. PICK x : /\ x = RawEncrypt(PaillierKey, seed[c], r)
               /\ Holds(PaillierKey, x, seed[c]) /\ x \in 0 .. Square(PaillierKey) - 1
  <2>1. Unit(PaillierKey, r) /\ IsKey(PaillierKey)  BY KeyIs
  <2> QED  BY <1>1, <2>1, RawEncryptHolds
<1>3. cipher' = [cipher EXCEPT ![c] = x]  BY <1>2 DEF EncryptSeed
<1>4. cipher' \in [Members -> 0 .. Square(PaillierKey) - 1]  BY <1>2, <1>3 DEF SeedInv
<1>5. \A d \in Members : cipher'[d] # 0 => Holds(PaillierKey, cipher'[d], seed[d])
  BY <1>2, <1>3 DEF SeedInv
<1>6. UNCHANGED <<PRIME, grad, seed, summed, sums>>  BY DEF EncryptSeed
<1> QED  BY <1>4, <1>5, <1>6 DEF SeedInv

(* The leader of a group multiplies the ciphertexts.                         *)
LEMMA CombineGroupKeeps ==
  ASSUME SeedInv, NEW g \in Groups, CombineGroup(g)
  PROVE  SeedInv'
<1>1. IsFiniteSet(ToSet(g)) /\ ToSet(g) \subseteq Members  BY ClientsFinite
<1>2. \A c \in ToSet(g) : seed[c] \in Int  BY <1>1 DEF SeedInv
<1>3. \A c \in ToSet(g) : cipher[c] \in Nat /\ Holds(PaillierKey, cipher[c], seed[c])
  <2>1. \A c \in Members : cipher[c] \in 0 .. Square(PaillierKey) - 1  BY DEF SeedInv
  <2>2. \A c \in Members : cipher[c] \in Nat  BY <2>1
  <2> QED  BY <1>1, <2>2 DEF SeedInv, CombineGroup
<1>4. PICK x : /\ x = RawProduct(cipher, ToSet(g))
               /\ x \in Nat /\ Holds(PaillierKey, x, Sum(seed, ToSet(g)))
  BY <1>1, <1>2, <1>3, KeyIs, RawProductHolds
<1>5. sums' = [sums EXCEPT ![g] = x]  BY <1>4 DEF CombineGroup, RawProduct
<1>6. sums' \in [Groups -> Nat]  BY <1>4, <1>5 DEF SeedInv
<1>7. \A h \in Groups : sums'[h] # 0 => Holds(PaillierKey, sums'[h], Sum(seed, ToSet(h)))
  BY <1>4, <1>5 DEF SeedInv
<1>8. UNCHANGED <<PRIME, grad, seed, summed, cipher>>  BY DEF CombineGroup
<1> QED  BY <1>6, <1>7, <1>8 DEF SeedInv

(* The sum of a group does not depend on the holder's seed.                  *)
LEMMA GroupSumSame ==
  ASSUME NEW S \in SUBSET Members, NEW f, \A c \in Members : f[c] \in Int,
         NEW h, \A c \in Members : h[c] = f[c]
  PROVE  Sum(h, S) = Sum(f, S)
<1>1. IsFiniteSet(S)  BY ClientsFinite, FS_Subset
<1> QED  BY <1>1, SumSame

(* The holder decrypts the product of the leaders' and takes its negative.   *)
LEMMA SumSeedsKeeps ==
  ASSUME SeedInv, SumSeeds
  PROVE  SeedInv' /\ \A c \in Members : seed'[c] = seed[c]
<1> DEFINE w == [g \in Groups |-> Sum(seed, ToSet(g))]
           x == Product(sums, Groups, Square(PaillierKey))
<1>1. \A c \in Members : seed[c] \in Int  BY DEF SeedInv
<1>2. \A g \in Groups : w[g] \in Int
  <2> SUFFICES ASSUME NEW g \in Groups PROVE w[g] \in Int
    OBVIOUS
  <2>1. IsFiniteSet(ToSet(g)) /\ \A c \in ToSet(g) : seed[c] \in Int  BY <1>1, ClientsFinite
  <2> QED  BY <2>1, SumIs
<1>3. Holds(PaillierKey, x, Sum(seed, Members))
  <2>1. \A g \in Groups : Holds(PaillierKey, sums[g], w[g])  BY DEF SumSeeds, SeedInv
  <2>2. Sum(w, Groups) = Sum(seed, Members)  BY <1>1, GroupSums
  <2>3. IsKey(PaillierKey) /\ IsFiniteSet(Groups)  BY KeyIs, ClientsFinite
  <2>4. Holds(PaillierKey, x, Sum(w, Groups))
    <3> HIDE DEF w
    <3> QED  BY <1>2, <2>1, <2>3, ProductHoldsSum
  <2> QED  BY <2>2, <2>4
<1>4. PICK s : s = Sum(seed, Members) /\ s \in 0 .. PaillierKey.n - 1
  BY SeedSumIs DEF SeedInv
<1>5. RawDecrypt(PaillierKey, x) = s
  <2>1. s \in Int  BY <1>4
  <2>2. RawDecrypt(PaillierKey, x) = s % PaillierKey.n  BY <1>3, <1>4, <2>1, KeyIs, Decrypts
  <2>3. s % PaillierKey.n = s  BY <1>4, KeyIs, SmallMod
  <2> QED  BY <2>2, <2>3
<1>6. ProductMod(sums, Square(PaillierKey)) = x
  BY DEF ProductMod, Product, FoldFunction, SeedInv
<1>7. seed' = [seed EXCEPT ![Holder] = -s] /\ summed' = TRUE
  BY <1>5, <1>6 DEF SumSeeds, HolderSeed
<1>8. -s \in Int  BY <1>4
<1>9. Holder \in Clients /\ Holder \notin Members /\ Members \subseteq Clients
  BY ClientsFinite DEF Members
<1>10. /\ seed' \in [Clients -> Int] /\ seed'[Holder] = -s
       /\ \A c \in Members : seed'[c] = seed[c]
  BY <1>7, <1>8, <1>9 DEF SeedInv
<1>11. \A S \in SUBSET Members : Sum(seed', S) = Sum(seed, S)
  BY <1>1, <1>10, GroupSumSame
<1>12. Sum(seed', Members) = s
  <2>1. Members \in SUBSET Members  OBVIOUS
  <2> QED  BY <1>4, <1>11, <2>1
<1>13. \A g \in Groups : Sum(seed', ToSet(g)) = Sum(seed, ToSet(g))  BY <1>11, ClientsFinite
<1>14. UNCHANGED <<PRIME, grad, cipher, sums>>  BY DEF SumSeeds
<1>15. /\ PRIME' \in Primes /\ grad' \in [Clients -> Gradients] /\ summed' \in BOOLEAN
       /\ cipher' \in [Members -> 0 .. Square(PaillierKey) - 1] /\ sums' \in [Groups -> Nat]
  BY <1>7, <1>14 DEF SeedInv
<1>16. \A c \in Members : cipher'[c] # 0 => Holds(PaillierKey, cipher'[c], seed'[c])
  BY <1>10, <1>14 DEF SeedInv
<1>17. \A g \in Groups : sums'[g] # 0 => Holds(PaillierKey, sums'[g], Sum(seed', ToSet(g)))
  BY <1>13, <1>14 DEF SeedInv
<1>18. \A c \in Members : seed'[c] \in 0 .. Q - 1  BY <1>10 DEF SeedInv
<1>19. SeedInv'
  BY <1>7, <1>10, <1>12, <1>15, <1>16, <1>17, <1>18 DEF SeedInv
<1> QED  BY <1>10, <1>19

-----------------------------------------------------------------------------
(* The masks.                                                                *)

(* c_mod is congruent to its argument and not positive.                      *)
LEMMA CModIs ==
  ASSUME NEW m \in Nat \ {0}, NEW a \in Int
  PROVE  CMod(a, m) \in 1 - m .. 0 /\ Cong(m, CMod(a, m), a)
<1>1. -a \in Int  OBVIOUS
<1>2. PICK d \in Int, r \in 0 .. m - 1 : d = (-a) \div m /\ r = (-a) % m /\ -a = m * d + r
  BY <1>1, DivMod
<1>3. CMod(a, m) = -r  BY <1>2 DEF CMod
<1>4. -r = a + m * d /\ -r \in Int /\ -r \in 1 - m .. 0  BY <1>2
<1>5. Cong(m, -r, a)
  <2>1. PICK x \in Int : x = -r  BY <1>4
  <2>2. x = a + m * d  BY <1>4, <2>1
  <2>3. Cong(m, x, a)  BY <2>2, CongMultiple
  <2> QED  BY <2>1, <2>3
<1> QED  BY <1>3, <1>4, <1>5

(* A running product of something is reduced.                                *)
LEMMA ProductReduced ==
  ASSUME NEW S, IsFiniteSet(S), S # {}, NEW m, Modulus(m), NEW f, \A x \in S : f[x] \in Int
  PROVE  Product(f, S, m) \in 0 .. m - 1
<1>1. Reduces(f, S, m)  BY ReducedIs
<1>2. PICK z \in S : z = Pick(S)  BY DEF Pick
<1>3. S \in SUBSET S /\ S \ {z} \in SUBSET S  OBVIOUS
<1>4. PICK x \in Int : x = Product(f, S \ {z}, m)  BY <1>1, <1>3 DEF Reduces
<1>5. PICK y \in Int : y = x * f[z]  OBVIOUS
<1>6. Product(f, S, m) = y % m  BY <1>1, <1>2, <1>3, <1>4, <1>5 DEF Reduces
<1>7. y % m \in 0 .. m - 1
  <2>1. m \in Nat \ {0}  BY DEF Modulus
  <2> QED  BY <2>1, DivMod
<1> QED  BY <1>6, <1>7

(* The factors of a masked number are integers.                              *)
LEMMA MaskNumbers ==
  ASSUME PRIME \in Primes, NEW x \in Int, NEW s \in Int, NEW i \in Entries
  PROVE  PowMod(2, x, PRIME) \in Int /\ Mask(s, i) \in Int
<1>1. PICK P, d : P = PRIME /\ Inverses(P, 2, d)  BY PrimeFacts
<1>2. PICK e : Inverses(P, HX[i], e)  BY <1>1, PrimeFacts
<1>3. Exps(P, 2, d, PowMod(2, x, P), x)  BY <1>1, PowModExps
<1>4. Exps(P, HX[i], e, PowMod(HX[i], s, P), s)  BY <1>2, PowModExps
<1> QED  BY <1>1, <1>3, <1>4 DEF Exps, Mask

(* Once the holder has its seed the sum of all is 0.                         *)
LEMMA SeedsCancel ==
  ASSUME SeedInv, summed
  PROVE  Sum(seed, Clients) = 0
<1>1. IsFiniteSet(Clients) /\ Holder \in Clients /\ \A c \in Clients : seed[c] \in Int
  BY ClientsFinite DEF SeedInv
<1>2. Sum(seed, Clients) = seed[Holder] + Sum(seed, Clients \ {Holder})  BY <1>1, SumRemove
<1>3. Sum(seed, Members) \in Int
  <2>1. IsFiniteSet(Members) /\ \A c \in Members : seed[c] \in Int
    BY <1>1, ClientsFinite DEF Members
  <2> QED  BY <2>1, SumIs
<1>4. seed[Holder] = -Sum(seed, Members)  BY DEF SeedInv
<1>5. Clients \ {Holder} = Members  BY DEF Members
<1> QED  BY <1>2, <1>3, <1>4, <1>5

(* So the masks of an entry multiply to 1.                                   *)
LEMMA MaskProductOne ==
  ASSUME SeedInv, summed, NEW i \in Entries
  PROVE  Product([c \in Clients |-> Mask(seed[c], i)], Clients, PRIME) = 1
<1> DEFINE f == [c \in Clients |-> Mask(seed[c], i)]
<1>1. PRIME \in Primes  BY DEF SeedInv
<1>2. PICK P, b, d : P = PRIME /\ b = HX[i] /\ Inverses(P, b, d) /\ Modulus(P)
  BY <1>1, PrimeFacts
<1>3. \A c \in Clients : seed[c] \in Int  BY DEF SeedInv
<1>4. ASSUME NEW c \in Clients PROVE f[c] \in Int /\ Exps(P, b, d, f[c], seed[c])
  <2>1. f[c] = PowMod(b, seed[c], P)  BY <1>2 DEF Mask
  <2>2. seed[c] \in Int  BY <1>3
  <2>3. Exps(P, b, d, f[c], seed[c])  BY <1>2, <2>1, <2>2, PowModExps
  <2> QED  BY <2>3 DEF Exps
<1> HIDE DEF f
<1>5. IsFiniteSet(Clients) /\ Clients # {}  BY ClientsFinite
<1>6. Exps(P, b, d, Product(f, Clients, P), Sum(seed, Clients))
  <2>1. \A c \in Clients : Exps(P, b, d, f[c], seed[c])  BY <1>4
  <2> QED  BY <1>2, <1>3, <1>5, <2>1, ExpsProduct
<1>7. Cong(P, Product(f, Clients, P), 1)  BY <1>2, <1>6, SeedsCancel, ExpsZero
<1>8. Product(f, Clients, P) \in 0 .. P - 1
  <2>1. \A c \in Clients : f[c] \in Int  BY <1>4
  <2> QED  BY <1>2, <1>5, <2>1, ProductReduced
<1>9. 1 \in 0 .. P - 1
  <2>1. P \in Nat \ {0, 1}  BY <1>2 DEF Inverses
  <2> QED  BY <2>1
<1>10. Product(f, Clients, P) = 1  BY <1>2, <1>7, <1>8, <1>9, ResidueUnique
<1> QED  BY <1>2, <1>10 DEF f

(* The gradients are numbers in their range, their sums in the scale.        *)
LEMMA TotalIs ==
  ASSUME SeedInv, NEW i \in Entries
  PROVE  /\ \A c \in Clients : grad[c][i] \in -MaxGrad .. MaxGrad
         /\ Total(i) = Sum([c \in Clients |-> grad[c][i]], Clients)
         /\ Total(i) \in -Scale .. Scale
<1> DEFINE w == [c \in Clients |-> grad[c][i]]
<1>1. \A c \in Clients : grad[c][i] \in -MaxGrad .. MaxGrad
  BY GradientAssumption DEF SeedInv
<1>2. Total(i) = Sum(w, Clients)  BY DEF Total, SumFunction, Sum
<1>3. \A c \in Clients : w[c] \in -MaxGrad .. MaxGrad  BY <1>1
<1>4. PICK M \in Nat, N \in Nat : M = MaxGrad /\ N = Num /\ N * M = Scale
  BY ScaleIs, ClientsFinite
<1>5. -M \in Int /\ M \in Int /\ Cardinality(Clients) = N  BY <1>4 DEF Num
<1>6. Sum(w, Clients) \in Int /\ N * (-M) <= Sum(w, Clients) /\ Sum(w, Clients) <= N * M
  <2>1. \A c \in Clients : w[c] \in -M .. M  BY <1>3, <1>4
  <2> HIDE DEF w
  <2> QED  BY <1>5, <2>1, ClientsFinite, SumBound
<1>7. N * (-M) = -(N * M)  OBVIOUS
<1>8. Sum(w, Clients) \in -Scale .. Scale  BY <1>4, <1>6, <1>7
<1> QED  BY <1>1, <1>2, <1>8

(* And the masked gradients multiply to the power of their sum.              *)
LEMMA MaskedProductIs ==
  ASSUME SeedInv, MaskInv, \A c \in Clients : masked[c] # << >>, NEW i \in Entries
  PROVE  /\ ProductMod([c \in Clients |-> masked[c][i]], PRIME) \in Int
         /\ ProductMod([c \in Clients |-> masked[c][i]], PRIME) = PowMod(2, Total(i), PRIME)
<1> DEFINE f == [c \in Clients |-> masked[c][i]]
           g == [c \in Clients |-> PowMod(2, grad[c][i], PRIME)]
           h == [c \in Clients |-> Mask(seed[c], i)]
           w == [c \in Clients |-> grad[c][i]]
<1>1. PRIME \in Primes  BY DEF SeedInv
<1>2. PICK P, d : P = PRIME /\ Inverses(P, 2, d) /\ Modulus(P)  BY <1>1, PrimeFacts
<1>3. PICK e : Inverses(P, HX[i], e)  BY <1>1, <1>2, PrimeFacts
<1>4. summed  BY ClientsFinite DEF MaskInv
<1>5. ASSUME NEW c \in Clients
      PROVE  /\ w[c] \in Int /\ Exps(P, 2, d, g[c], w[c])
             /\ f[c] \in Int /\ g[c] \in Int /\ h[c] \in Int
             /\ Cong(P, f[c], g[c] * h[c])
  <2>1. grad[c][i] \in -MaxGrad .. MaxGrad  BY TotalIs
  <2>2. grad[c][i] \in Int /\ seed[c] \in Int  BY <2>1 DEF SeedInv
  <2>3. g[c] = PowMod(2, grad[c][i], P) /\ h[c] = PowMod(HX[i], seed[c], P)
    BY <1>2 DEF Mask
  <2>4. Exps(P, 2, d, g[c], grad[c][i])  BY <1>2, <2>2, <2>3, PowModExps
  <2>5. Exps(P, HX[i], e, h[c], seed[c])  BY <1>3, <2>2, <2>3, PowModExps
  <2>6. PICK a \in Int : a = g[c] * h[c] /\ g[c] \in Int /\ h[c] \in Int
    BY <2>4, <2>5 DEF Exps
  <2>7. f[c] = CMod(a, P)  BY <1>2, <2>6 DEF MaskInv, Masked
  <2>8. P \in Nat \ {0}  BY <1>2 DEF Modulus
  <2>9. CMod(a, P) \in Int /\ Cong(P, CMod(a, P), a)  BY <2>8, CModIs
  <2> QED  BY <2>2, <2>4, <2>6, <2>7, <2>9
<1>6. ProductMod(f, PRIME) = Product(f, Clients, P)
  BY <1>2 DEF ProductMod, Product, FoldFunction
<1>7. Total(i) = Sum(w, Clients) /\ Product(h, Clients, P) = 1
  BY <1>2, <1>4, TotalIs, MaskProductOne
<1> HIDE DEF f, g, h, w
<1>8. IsFiniteSet(Clients) /\ Clients # {}  BY ClientsFinite
<1>9. Cong(P, Product(f, Clients, P), Product(g, Clients, P) * Product(h, Clients, P))
  BY <1>2, <1>5, <1>8, ProductOfProducts
<1>10. Exps(P, 2, d, Product(g, Clients, P), Sum(w, Clients))
  <2>1. \A c \in Clients : w[c] \in Int  BY <1>5
  <2>2. \A c \in Clients : Exps(P, 2, d, g[c], w[c])  BY <1>5
  <2> QED  BY <1>2, <1>8, <2>1, <2>2, ExpsProduct
<1>11. Product(g, Clients, P) * 1 = Product(g, Clients, P)  BY <1>10 DEF Exps
<1>12. Cong(P, Product(f, Clients, P), Product(g, Clients, P))  BY <1>7, <1>9, <1>11
<1>13. Total(i) \in Int
  <2>1. Total(i) \in -Scale .. Scale  BY TotalIs
  <2> QED  BY <2>1
<1>14. PICK z : /\ z = PowMod(2, Total(i), P) /\ z \in 0 .. P - 1
                /\ Exps(P, 2, d, z, Sum(w, Clients))
  BY <1>2, <1>7, <1>13, PowModExps
<1>15. Cong(P, Product(g, Clients, P), z)  BY <1>2, <1>10, <1>14, ExpsUnique
<1>16. Cong(P, Product(f, Clients, P), z)  BY <1>12, <1>15 DEF Cong
<1>17. Product(f, Clients, P) \in 0 .. P - 1
  <2>1. \A c \in Clients : f[c] \in Int  BY <1>5
  <2> QED  BY <1>2, <1>8, <2>1, ProductReduced
<1>18. Product(f, Clients, P) = z  BY <1>2, <1>14, <1>16, <1>17, ResidueUnique
<1>19. z \in Int  BY <1>14
<1> QED  BY <1>2, <1>6, <1>14, <1>18, <1>19 DEF f

-----------------------------------------------------------------------------
(* The steps.                                                                *)

(* A step that leaves the seeds and gradients leaves the masks and the sums. *)
LEMMA MasksStay ==
  ASSUME MaskInv, UNCHANGED <<PRIME, grad, seed, summed, masked>>
  PROVE  MaskInv'
BY DEF MaskInv, Masked, Mask

(* What would be looked up stays with the prime and the gradients.           *)
LEMMA LookUpStays ==
  ASSUME UNCHANGED <<PRIME, grad>>
  PROVE  /\ \A z : Sums(z)' = Sums(z)
         /\ \A i : Total(i)' = Total(i)
<1>1. ASSUME NEW z PROVE Sums(z)' = Sums(z)  BY DEF Sums, Table, Found
<1>2. ASSUME NEW i PROVE Total(i)' = Total(i)  BY DEF Total
<1> QED  BY <1>1, <1>2

(* So the broadcast stays.                                                   *)
LEMMA ResultStays ==
  ASSUME ResultInv, UNCHANGED <<PRIME, grad, result>>
  PROVE  ResultInv'
<1>1. CASE result = << >>  BY <1>1 DEF ResultInv
<1>2. CASE result # << >>
  <2>1. PICK z : /\ result = Sums(z)
                 /\ \A i \in Entries : z[i] \in Int /\ z[i] = PowMod(2, Total(i), PRIME)
    BY <1>2 DEF ResultInv
  <2>2. result' = Sums(z)' /\ PRIME' = PRIME  BY <2>1, LookUpStays
  <2>3. \A i \in Entries : Total(i)' = Total(i)  BY LookUpStays
  <2> QED  BY <2>1, <2>2, <2>3 DEF ResultInv
<1> QED  BY <1>1, <1>2

(* When the holder takes its seed it has not masked yet.                     *)
LEMMA SumSeedsMasks ==
  ASSUME SeedInv, MaskInv, SumSeeds
  PROVE  MaskInv'
<1>1. \A c \in Members : seed'[c] = seed[c]  BY SumSeedsKeeps
<1>2. UNCHANGED <<PRIME, grad, masked>> /\ summed' = TRUE /\ ~summed  BY DEF SumSeeds
<1>3. masked[Holder] = << >>  BY <1>2, ClientsFinite DEF MaskInv
<1>4. ASSUME NEW c \in Clients, masked'[c] # << >>
      PROVE  masked'[c] = [i \in Entries |-> Masked(grad[c][i], seed[c], i)]'
  <2>1. c \in Members /\ masked[c] # << >>  BY <1>2, <1>3, <1>4 DEF Members
  <2>2. seed'[c] = seed[c]  BY <1>1, <2>1
  <2>3. masked[c] = [i \in Entries |-> Masked(grad[c][i], seed[c], i)]  BY <2>1 DEF MaskInv
  <2> QED  BY <1>2, <2>2, <2>3 DEF Masked, Mask
<1> QED  BY <1>2, <1>4 DEF MaskInv

(* A client masks its gradient with the seed it keeps.                       *)
LEMMA MaskGradientMasks ==
  ASSUME MaskInv, NEW c \in Clients, MaskGradient(c)
  PROVE  MaskInv'
<1>1. UNCHANGED <<PRIME, grad, seed, summed>>  BY DEF MaskGradient
<1>2. masked' = [masked EXCEPT ![c] = [i \in Entries |-> Masked(grad[c][i], seed[c], i)]]
  BY DEF MaskGradient
<1>3. c = Holder => summed  BY DEF MaskGradient, Shuffled
<1>4. DOMAIN masked' = Clients  BY <1>2 DEF MaskInv
<1>5. ASSUME NEW d \in Clients, masked'[d] # << >>
      PROVE  /\ d = Holder => summed
             /\ masked'[d] = [i \in Entries |-> Masked(grad[d][i], seed[d], i)]
  <2>1. CASE d = c  BY <1>2, <1>3, <2>1 DEF MaskInv
  <2>2. CASE d # c
    <3>1. masked'[d] = masked[d]  BY <1>2, <2>2 DEF MaskInv
    <3> QED  BY <1>5, <3>1 DEF MaskInv
  <2> QED  BY <2>1, <2>2
<1> QED  BY <1>1, <1>4, <1>5 DEF MaskInv, Masked, Mask

(* The aggregator looks the products up.                                     *)
LEMMA AggregateSums ==
  ASSUME SeedInv, MaskInv, Aggregate
  PROVE  ResultInv'
<1> DEFINE z == [i \in Entries |-> ProductMod([c \in Clients |-> masked[c][i]], PRIME)]
<1>1. UNCHANGED <<PRIME, grad>> /\ result' = Sums(z)  BY DEF Aggregate
<1>2. ASSUME NEW i \in Entries PROVE z[i] \in Int /\ z[i] = PowMod(2, Total(i), PRIME)
  BY MaskedProductIs DEF Aggregate
<1> HIDE DEF z
<1>3. PICK y : /\ result' = Sums(y)
               /\ \A i \in Entries : y[i] \in Int /\ y[i] = PowMod(2, Total(i), PRIME)
  BY <1>1, <1>2
<1>4. Sums(y)' = Sums(y) /\ \A i \in Entries : Total(i)' = Total(i)  BY <1>1, LookUpStays
<1>5. result' = Sums(y)' /\ PRIME' = PRIME  BY <1>1, <1>3, <1>4
<1>6. \A i \in Entries : y[i] \in Int /\ y[i] = PowMod(2, Total(i)', PRIME')
  BY <1>3, <1>4, <1>5
<1> QED  BY <1>5, <1>6 DEF ResultInv

(* No step disturbs the invariant.                                           *)
LEMMA NextMasking == MaskingInv /\ [Next]_vars => MaskingInv'
<1> SUFFICES ASSUME SeedInv, MaskInv, ResultInv, [Next]_vars
             PROVE  SeedInv' /\ MaskInv' /\ ResultInv'
  BY DEF MaskingInv
<1>1. ASSUME NEW c \in Members, NEW r \in Obfuscators, EncryptSeed(c, r)
      PROVE  SeedInv' /\ MaskInv' /\ ResultInv'
  <2>1. UNCHANGED <<PRIME, grad, seed, summed, masked, result>>  BY <1>1 DEF EncryptSeed
  <2> QED  BY <1>1, <2>1, EncryptSeedKeeps, MasksStay, ResultStays
<1>2. ASSUME NEW g \in Groups, CombineGroup(g)
      PROVE  SeedInv' /\ MaskInv' /\ ResultInv'
  <2>1. UNCHANGED <<PRIME, grad, seed, summed, masked, result>>  BY <1>2 DEF CombineGroup
  <2> QED  BY <1>2, <2>1, CombineGroupKeeps, MasksStay, ResultStays
<1>3. CASE SumSeeds
  <2>1. UNCHANGED <<PRIME, grad, result>>  BY <1>3 DEF SumSeeds
  <2> QED  BY <1>3, <2>1, SumSeedsKeeps, SumSeedsMasks, ResultStays
<1>4. ASSUME NEW c \in Clients, MaskGradient(c)
      PROVE  SeedInv' /\ MaskInv' /\ ResultInv'
  <2>1. UNCHANGED <<PRIME, grad, seed, summed, cipher, sums, result>>
    BY <1>4 DEF MaskGradient
  <2>2. SeedInv'  BY <2>1 DEF SeedInv
  <2> QED  BY <1>4, <2>1, <2>2, MaskGradientMasks, ResultStays
<1>5. CASE Aggregate
  <2>1. UNCHANGED <<PRIME, grad, seed, summed, cipher, sums, masked>>  BY <1>5 DEF Aggregate
  <2>2. SeedInv'  BY <2>1 DEF SeedInv
  <2> QED  BY <1>5, <2>1, <2>2, MasksStay, AggregateSums
<1>6. CASE UNCHANGED vars
  <2>1. UNCHANGED <<PRIME, grad, seed, summed, cipher, sums, masked, result>>
    BY <1>6 DEF vars
  <2>2. SeedInv'  BY <2>1 DEF SeedInv
  <2> QED  BY <2>1, <2>2, MasksStay, ResultStays
<1> QED  BY <1>1, <1>2, <1>3, <1>4, <1>5, <1>6 DEF Next

(* The invariant holds in every round.                                       *)
THEOREM MaskingInvariant == Spec => []MaskingInv
BY InitMasking, NextMasking, PTL DEF Spec

(* MasksCancel: whatever the grouping and the key, the seed the holder       *)
(* decrypts makes the seeds add up to 0 and the masks multiply to 1.         *)
THEOREM MasksCancelOut == Spec => []MasksCancel
<1>1. MaskingInv => MasksCancel
  <2> SUFFICES ASSUME SeedInv, summed
               PROVE  /\ SumFunction(seed) = 0
                      /\ \A i \in Entries :
                           ProductMod([c \in Clients |-> Mask(seed[c], i)], PRIME) = 1
    BY DEF MaskingInv, MasksCancel
  <2>1. SumFunction(seed) = Sum(seed, Clients)  BY DEF SumFunction, Sum, SeedInv
  <2>2. ASSUME NEW i \in Entries
        PROVE  ProductMod([c \in Clients |-> Mask(seed[c], i)], PRIME) = 1
    <3>1. ProductMod([c \in Clients |-> Mask(seed[c], i)], PRIME)
            = Product([c \in Clients |-> Mask(seed[c], i)], Clients, PRIME)
      BY DEF ProductMod, Product, FoldFunction
    <3> QED  BY <3>1, MaskProductOne
  <2> QED  BY <2>1, <2>2, SeedsCancel
<1> QED  BY <1>1, MaskingInvariant, PTL

(* SumsRead: the aggregator broadcasts the vector of the sums if and only if *)
(* none of them is at the upper end, which the table leaves out.             *)
THEOREM SumsAreRead == Spec => []SumsRead
<1>1. MaskingInv => SumsRead
  <2> SUFFICES ASSUME SeedInv, ResultInv, result # << >>
               PROVE  result = <<"sum", [i \in Entries |-> Total(i)]>>
                        <=> \A i \in Entries : Total(i) < Scale
    BY DEF MaskingInv, SumsRead
  <2> DEFINE t == [i \in Entries |-> Total(i)]
  <2>1. PICK z : /\ result = Sums(z)
                 /\ \A i \in Entries : z[i] \in Int /\ z[i] = PowMod(2, Total(i), PRIME)
    BY DEF ResultInv
  <2>2. \A i \in Entries : Total(i) \in -Scale .. Scale  BY TotalIs
  <2>3. ASSUME \A i \in Entries : Total(i) < Scale
        PROVE  result = <<"sum", t>>
    <3>1. \A i \in Entries : Total(i) \in -Scale .. Scale - 1  BY <2>2, <2>3, ScaleIs
    <3>2. t \in [Entries -> -Scale .. Scale - 1]  BY <3>1
    <3>3. PRIME \in Primes  BY DEF SeedInv
    <3>4. \A i \in Entries : z[i] \in Int /\ z[i] = PowMod(2, t[i], PRIME)  BY <2>1
    <3>5. Sums(z) = <<"sum", t>>
      <4> HIDE DEF t
      <4> QED  BY <3>2, <3>3, <3>4, SumsAre
    <3> QED  BY <2>1, <3>5
  <2>4. ASSUME result = <<"sum", t>>, NEW i \in Entries
        PROVE  Total(i) < Scale
    <3>1. \A j \in Entries : z[j] \in Int  BY <2>1
    <3>2. <<"sum", t>> # <<"KeyError">>  OBVIOUS
    <3>3. PICK v \in Seq(-Scale .. Scale - 1) : <<"sum", t>> = <<"sum", v>>
      <4>1. Sums(z) = <<"sum", t>>  BY <2>1, <2>4
      <4> HIDE DEF t
      <4> QED  BY <3>1, <3>2, <4>1, SumsIn
    <3>4. t = v
      <4> HIDE DEF t
      <4> QED  BY <3>3
    <3>5. Len(HX) \in Nat /\ Entries = 1 .. Len(HX)  BY PrimeAssumption DEF Entries
    <3>6. DOMAIN v = Entries /\ t[i] = Total(i)  BY <3>4
    <3>7. v[i] \in -Scale .. Scale - 1
      <4>1. v \in Seq(-Scale .. Scale - 1) /\ i \in DOMAIN v  BY <3>3, <3>6
      <4>2. \A V : v \in Seq(V) => v[i] \in V  BY <4>1
      <4> QED  BY <4>1, <4>2
    <3>8. Total(i) \in -Scale .. Scale - 1  BY <3>4, <3>6, <3>7
    <3> QED  BY <3>8, ScaleIs
  <2> QED  BY <2>3, <2>4
<1> QED  BY <1>1, MaskingInvariant, PTL

(* TypeOK: what a round's variables hold.                                    *)
THEOREM MaskingTypes == Spec => []TypeOK
<1>1. MaskingInv => TypeOK
  <2> SUFFICES ASSUME SeedInv, MaskInv, ResultInv PROVE TypeOK
    BY DEF MaskingInv
  <2>1. seed \in [Clients -> 1 - PaillierKey.n .. Q - 1]
    <3>1. ASSUME NEW c \in Clients PROVE seed[c] \in 1 - PaillierKey.n .. Q - 1
      <4>1. PaillierKey.n \in Nat \ {0} /\ Q \in Nat  BY KeyIs
      <4>2. CASE seed[c] \in 0 .. Q - 1  BY <4>1, <4>2
      <4>3. CASE c = Holder /\ summed
        <5>1. Sum(seed, Members) \in 0 .. PaillierKey.n - 1  BY SeedSumIs DEF SeedInv
        <5>2. seed[c] = -Sum(seed, Members)  BY <4>3 DEF SeedInv
        <5>3. Q - 1 >= 0  BY <4>1 DEF SeedInv
        <5> QED  BY <4>1, <5>1, <5>2, <5>3
      <4> QED  BY <4>2, <4>3 DEF SeedInv, Members
    <3> QED  BY <3>1 DEF SeedInv
  <2>2. ASSUME NEW c \in Clients, masked[c] # << >>
        PROVE  masked[c] \in [Entries -> 1 - PRIME .. 0]
    <3>1. ASSUME NEW i \in Entries PROVE Masked(grad[c][i], seed[c], i) \in 1 - PRIME .. 0
      <4>1. grad[c][i] \in Int
        <5>1. grad[c][i] \in -MaxGrad .. MaxGrad  BY TotalIs
        <5> QED  BY <5>1
      <4>2. seed[c] \in Int /\ PRIME \in Primes  BY DEF SeedInv
      <4>3. PowMod(2, grad[c][i], PRIME) \in Int /\ Mask(seed[c], i) \in Int
        BY <4>1, <4>2, MaskNumbers
      <4>4. PICK a \in Int : a = PowMod(2, grad[c][i], PRIME) * Mask(seed[c], i)  BY <4>3
      <4>5. PICK P \in Nat \ {0} : P = PRIME  BY <4>2, PrimeFacts
      <4>6. CMod(a, P) \in 1 - P .. 0  BY CModIs
      <4> QED  BY <4>4, <4>5, <4>6 DEF Masked
    <3> QED  BY <2>2, <3>1 DEF MaskInv
  <2>3. result \in {<< >>, <<"KeyError">>} \/ result[2] \in Seq(-Scale .. Scale)
    <3> SUFFICES ASSUME result # << >>
                 PROVE  result = <<"KeyError">> \/ result[2] \in Seq(-Scale .. Scale)
      OBVIOUS
    <3>1. PICK z : result = Sums(z) /\ \A i \in Entries : z[i] \in Int  BY DEF ResultInv
    <3>2. \/ result = <<"KeyError">>
          \/ \E v \in Seq(-Scale .. Scale - 1) : result = <<"sum", v>>
      BY <3>1, SumsIn
    <3>3. ASSUME NEW v \in Seq(-Scale .. Scale - 1) PROVE v \in Seq(-Scale .. Scale)
      <4>1. -Scale .. Scale - 1 \subseteq -Scale .. Scale  BY ScaleIs
      <4>2. \A V, W : V \subseteq W => (v \in Seq(V) => v \in Seq(W))  OBVIOUS
      <4> QED  BY <4>1, <4>2
    <3> QED  BY <3>2, <3>3
  <2> QED  BY <2>1, <2>2, <2>3 DEF TypeOK, SeedInv
<1> QED  BY <1>1, MaskingInvariant, PTL
=============================================================================
