------------------------- MODULE VerificationProofs -------------------------
(***************************************************************************)
(* Both ways to check a claimed sum say what they should, for every number *)
(* of clients, vectors, parts, permutations and transactions of others.    *)
(***************************************************************************)
EXTENDS Verification, ArithmeticProofs

-----------------------------------------------------------------------------
(* Folds from the left.                                                      *)

\* f[s] is base for the empty set, and else it comes of the rest by the step of
\* the greatest element.
FoldsLeft(f, n, base, step) ==
  f = [s \in SUBSET (1 .. n) |-> IF s = {} THEN base ELSE step[Max(s)][f[s \ {Max(s)}]]]

(* The order of such a fold.                                                 *)
LEMMA Greatest ==
  ASSUME NEW n \in Nat
  PROVE  /\ \A s \in SUBSET (1 .. n) : s # {} => Max(s) \in s
         /\ \A k \in 1 .. n : Max(1 .. k) = k /\ (1 .. k) \ {k} = 1 .. k - 1
<1>1. ASSUME NEW s \in SUBSET (1 .. n), s # {}
      PROVE  Max(s) \in s
  <2> DEFINE T == {n - x : x \in s}
  <2>1. T \in SUBSET Nat /\ T # {}
    <3>1. \A x \in s : x \in 1 .. n  OBVIOUS
    <3>2. \A x \in 1 .. n : n - x \in Nat  OBVIOUS
    <3> QED  BY <1>1, <3>1, <3>2
  <2>2. PICK t \in T : \A u \in T : t <= u  BY <2>1, LeastNumber
  <2>3. PICK x \in s : t = n - x  BY <2>2
  <2>4. \A y \in s : x >= y  BY <2>2, <2>3
  <2> QED  BY <2>3, <2>4 DEF Max
<1>2. ASSUME NEW k \in 1 .. n
      PROVE  Max(1 .. k) = k
  <2>1. k \in 1 .. k /\ \A y \in 1 .. k : k >= y  OBVIOUS
  <2>2. \A x \in 1 .. k : (\A y \in 1 .. k : x >= y) => x = k  BY <2>1
  <2> QED  BY <2>1, <2>2 DEF Max
<1>3. \A k \in 1 .. n : (1 .. k) \ {k} = 1 .. k - 1  OBVIOUS
<1> QED  BY <1>1, <1>2, <1>3

(* There is such a fold for every step.                                      *)
LEMMA LeftExists ==
  ASSUME NEW n \in Nat, NEW V, NEW base \in V, NEW step \in [1 .. n -> [V -> V]]
  PROVE  \E f : f \in [SUBSET (1 .. n) -> V] /\ FoldsLeft(f, n, base, step)
<1>1. PICK pick : pick = [s \in SUBSET (1 .. n) |-> Max(s)]  OBVIOUS
<1>2. Picks(pick, 1 .. n)  BY <1>1, Greatest DEF Picks
<1>3. PICK f : f \in [SUBSET (1 .. n) -> V] /\ Folds(f, 1 .. n, base, step, pick)
  <2>1. 1 \in Int /\ n \in Int  OBVIOUS
  <2>2. IsFiniteSet(1 .. n)  BY <2>1, FS_Interval
  <2>3. base \in V /\ step \in [1 .. n -> [V -> V]]  OBVIOUS
  <2>4. PICK S : S = 1 .. n  OBVIOUS
  <2>5. \E f : f \in [SUBSET S -> V] /\ Folds(f, S, base, step, pick)
    BY <1>2, <2>2, <2>3, <2>4, FoldExists
  <2> QED  BY <2>4, <2>5
<1>4. FoldsLeft(f, n, base, step)  BY <1>1, <1>3 DEF Folds, FoldsLeft
<1> QED  BY <1>3, <1>4

\* The values of a fold of n elements, one by one.
RunsProduct(h, n, c, f) ==
  /\ h \in [0 .. n -> Int] /\ h[0] = c
  /\ \A k \in 1 .. n : h[k] = CMod(h[k - 1] * f[k], P)

RunsMulMod(h, n, f) ==
  /\ h \in [0 .. n -> Int] /\ h[0] = 1
  /\ \A k \in 1 .. n : h[k] = (h[k - 1] * f[k]) % P

RunsTotal(h, n, f) ==
  /\ h \in [0 .. n -> Int] /\ h[0] = 0
  /\ \A k \in 1 .. n : h[k] = h[k - 1] + f[k]

(* P is a modulus.                                                           *)
LEMMA ModulusIs == P \in Nat \ {0, 1} /\ P \in Nat \ {0} /\ P > 1 /\ Prime(P)
BY GeneratorAssumption DEF Prime

(* c_mod gives an integer that is not positive, and congruent.               *)
LEMMA CModIs ==
  ASSUME NEW x \in Int
  PROVE  CMod(x, P) \in 1 - P .. 0 /\ CMod(x, P) \in Int /\ Cong(P, CMod(x, P), x)
<1>1. P \in Nat \ {0}  BY ModulusIs
<1>2. PICK k \in Int, r \in 0 .. P - 1 : -x = P * k + r /\ r = (-x) % P
  <2>1. -x \in Int  OBVIOUS
  <2> QED  BY <1>1, <2>1, DivMod
<1>3. CMod(x, P) = -r  BY <1>2 DEF CMod
<1>4. -r = x + P * k  BY <1>1, <1>2
<1>5. (x + P * k) % P = x % P  BY <1>1, ModShift
<1> QED  BY <1>1, <1>3, <1>4, <1>5 DEF Cong

(* The running product of mul and commit.                                     *)
LEMMA ProductIs ==
  ASSUME NEW n \in Nat, NEW f \in [1 .. n -> Int], NEW c \in Int
  PROVE  \E h : RunsProduct(h, n, c, f) /\ Product(c, f) = h[n]
<1> DEFINE Loop(g) == g = [s \in SUBSET (1 .. n) |->
                             IF s = {} THEN c ELSE CMod(g[s \ {Max(s)}] * f[Max(s)], P)]
           step == [k \in 1 .. n |-> [y \in Int |-> CMod(y * f[k], P)]]
<1>1. \A k \in 1 .. n, y \in Int : CMod(y * f[k], P) \in Int
  <2> SUFFICES ASSUME NEW k \in 1 .. n, NEW y \in Int PROVE CMod(y * f[k], P) \in Int
    OBVIOUS
  <2>1. y * f[k] \in Int  OBVIOUS
  <2> QED  BY <2>1, CModIs
<1>2. step \in [1 .. n -> [Int -> Int]]  BY <1>1
<1>3. \A k \in 1 .. n, y \in Int : step[k][y] = CMod(y * f[k], P)  OBVIOUS
<1> HIDE DEF step
<1>4. PICK g : g \in [SUBSET (1 .. n) -> Int] /\ FoldsLeft(g, n, c, step)
  <2>1. c \in Int  OBVIOUS
  <2> QED  BY <1>2, <2>1, LeftExists
<1>5. \A s \in SUBSET (1 .. n) : s # {} => Max(s) \in 1 .. n /\ s \ {Max(s)} \in SUBSET (1 .. n)
  BY Greatest
<1>6. ASSUME NEW s \in SUBSET (1 .. n)
      PROVE  g[s] = IF s = {} THEN c ELSE CMod(g[s \ {Max(s)}] * f[Max(s)], P)
  <2>1. CASE s = {}  BY <1>4, <2>1 DEF FoldsLeft
  <2>2. CASE s # {}
    <3>1. Max(s) \in 1 .. n /\ s \ {Max(s)} \in SUBSET (1 .. n)  BY <1>5, <2>2
    <3>2. g[s \ {Max(s)}] \in Int  BY <1>4, <3>1
    <3>3. g[s] = step[Max(s)][g[s \ {Max(s)}]]  BY <1>4, <2>2 DEF FoldsLeft
    <3> QED  BY <1>3, <2>2, <3>1, <3>2, <3>3
  <2> QED  BY <2>1, <2>2
<1>7. Loop(g)
  <2>1. g = [s \in SUBSET (1 .. n) |-> g[s]]  BY <1>4
  <2> QED  BY <1>6, <2>1
<1> DEFINE i == CHOOSE g1 : Loop(g1)
<1>8. Loop(i)  BY <1>7
<1>9. Product(c, f) = i[1 .. n]
  <2>1. DOMAIN f = 1 .. n  OBVIOUS
  <2> QED  BY <2>1 DEF Product, FoldLeft, MapThenFoldSet
<1> HIDE DEF i
<1> DEFINE h == [k \in 0 .. n |-> i[1 .. k]]
<1>10. h[0] = c
  <2>1. 1 .. 0 = {} /\ {} \in SUBSET (1 .. n)  OBVIOUS
  <2> QED  BY <1>8, <2>1
<1>11. ASSUME NEW k \in 1 .. n PROVE h[k] = CMod(h[k - 1] * f[k], P)
  <2>1. 1 .. k \in SUBSET (1 .. n) /\ 1 .. k # {}
    <3>1. k \in 1 .. k /\ \A j \in 1 .. k : j \in 1 .. n  OBVIOUS
    <3> QED  BY <3>1
  <2>2. Max(1 .. k) = k /\ (1 .. k) \ {k} = 1 .. k - 1  BY Greatest
  <2>3. i[1 .. k] = CMod(i[1 .. k - 1] * f[k], P)  BY <1>8, <2>1, <2>2
  <2>4. k - 1 \in 0 .. n /\ k \in 0 .. n  OBVIOUS
  <2> QED  BY <2>3, <2>4
<1>12. \A k \in 0 .. n : h[k] \in Int
  <2> DEFINE A == {k \in Nat : k \in 0 .. n => h[k] \in Int}
  <2> HIDE DEF h
  <2>1. 0 \in A  BY <1>10
  <2>2. ASSUME NEW k \in Nat, k \in A PROVE k + 1 \in A
    <3> SUFFICES ASSUME k + 1 \in 0 .. n PROVE h[k + 1] \in Int
      OBVIOUS
    <3>1. k + 1 \in 1 .. n /\ (k + 1) - 1 = k /\ h[k] \in Int  BY <2>2
    <3> QED  BY <1>1, <1>11, <3>1
  <2>3. Nat \subseteq A
    <3> HIDE DEF A
    <3> QED  BY <2>1, <2>2, Induction
  <2> QED  BY <2>3
<1>13. h \in [0 .. n -> Int] /\ h[n] = i[1 .. n]
  <2>1. n \in 0 .. n  OBVIOUS
  <2>2. DOMAIN h = 0 .. n /\ h = [k \in 0 .. n |-> h[k]]  OBVIOUS
  <2>3. h[n] = i[1 .. n]  BY <2>1
  <2> HIDE DEF h
  <2> QED  BY <1>12, <2>2, <2>3
<1> HIDE DEF h
<1>14. RunsProduct(h, n, c, f)  BY <1>10, <1>11, <1>13 DEF RunsProduct
<1> QED  BY <1>9, <1>13, <1>14

(* The sum of a vector.                                                       *)
LEMMA TotalIs ==
  ASSUME NEW n \in Nat, NEW f \in [1 .. n -> Int]
  PROVE  \E h : RunsTotal(h, n, f) /\ Total(f) = h[n]
<1> DEFINE Loop(g) == g = [s \in SUBSET (1 .. n) |->
                             IF s = {} THEN 0 ELSE g[s \ {Max(s)}] + f[Max(s)]]
           step == [k \in 1 .. n |-> [y \in Int |-> y + f[k]]]
<1>1. \A k \in 1 .. n, y \in Int : y + f[k] \in Int
  OBVIOUS
<1>2. step \in [1 .. n -> [Int -> Int]]  BY <1>1
<1>3. \A k \in 1 .. n, y \in Int : step[k][y] = y + f[k]  OBVIOUS
<1> HIDE DEF step
<1>4. PICK g : g \in [SUBSET (1 .. n) -> Int] /\ FoldsLeft(g, n, 0, step)
  <2>1. 0 \in Int  OBVIOUS
  <2> QED  BY <1>2, <2>1, LeftExists
<1>5. \A s \in SUBSET (1 .. n) : s # {} => Max(s) \in 1 .. n /\ s \ {Max(s)} \in SUBSET (1 .. n)
  BY Greatest
<1>6. ASSUME NEW s \in SUBSET (1 .. n)
      PROVE  g[s] = IF s = {} THEN 0 ELSE g[s \ {Max(s)}] + f[Max(s)]
  <2>1. CASE s = {}  BY <1>4, <2>1 DEF FoldsLeft
  <2>2. CASE s # {}
    <3>1. Max(s) \in 1 .. n /\ s \ {Max(s)} \in SUBSET (1 .. n)  BY <1>5, <2>2
    <3>2. g[s \ {Max(s)}] \in Int  BY <1>4, <3>1
    <3>3. g[s] = step[Max(s)][g[s \ {Max(s)}]]  BY <1>4, <2>2 DEF FoldsLeft
    <3> QED  BY <1>3, <2>2, <3>1, <3>2, <3>3
  <2> QED  BY <2>1, <2>2
<1>7. Loop(g)
  <2>1. g = [s \in SUBSET (1 .. n) |-> g[s]]  BY <1>4
  <2> QED  BY <1>6, <2>1
<1> DEFINE i == CHOOSE g1 : Loop(g1)
<1>8. Loop(i)  BY <1>7
<1>9. Total(f) = i[1 .. n]
  <2>1. DOMAIN f = 1 .. n  OBVIOUS
  <2> QED  BY <2>1 DEF Total, FoldLeft, MapThenFoldSet
<1> HIDE DEF i
<1> DEFINE h == [k \in 0 .. n |-> i[1 .. k]]
<1>10. h[0] = 0
  <2>1. 1 .. 0 = {} /\ {} \in SUBSET (1 .. n)  OBVIOUS
  <2> QED  BY <1>8, <2>1
<1>11. ASSUME NEW k \in 1 .. n PROVE h[k] = h[k - 1] + f[k]
  <2>1. 1 .. k \in SUBSET (1 .. n) /\ 1 .. k # {}
    <3>1. k \in 1 .. k /\ \A j \in 1 .. k : j \in 1 .. n  OBVIOUS
    <3> QED  BY <3>1
  <2>2. Max(1 .. k) = k /\ (1 .. k) \ {k} = 1 .. k - 1  BY Greatest
  <2>3. i[1 .. k] = i[1 .. k - 1] + f[k]  BY <1>8, <2>1, <2>2
  <2>4. k - 1 \in 0 .. n /\ k \in 0 .. n  OBVIOUS
  <2> QED  BY <2>3, <2>4
<1>12. \A k \in 0 .. n : h[k] \in Int
  <2> DEFINE A == {k \in Nat : k \in 0 .. n => h[k] \in Int}
  <2> HIDE DEF h
  <2>1. 0 \in A  BY <1>10
  <2>2. ASSUME NEW k \in Nat, k \in A PROVE k + 1 \in A
    <3> SUFFICES ASSUME k + 1 \in 0 .. n PROVE h[k + 1] \in Int
      OBVIOUS
    <3>1. k + 1 \in 1 .. n /\ (k + 1) - 1 = k /\ h[k] \in Int  BY <2>2
    <3> QED  BY <1>1, <1>11, <3>1
  <2>3. Nat \subseteq A
    <3> HIDE DEF A
    <3> QED  BY <2>1, <2>2, Induction
  <2> QED  BY <2>3
<1>13. h \in [0 .. n -> Int] /\ h[n] = i[1 .. n]
  <2>1. n \in 0 .. n  OBVIOUS
  <2>2. DOMAIN h = 0 .. n /\ h = [k \in 0 .. n |-> h[k]]  OBVIOUS
  <2>3. h[n] = i[1 .. n]  BY <2>1
  <2> HIDE DEF h
  <2> QED  BY <1>12, <2>2, <2>3
<1> HIDE DEF h
<1>14. RunsTotal(h, n, f)  BY <1>10, <1>11, <1>13 DEF RunsTotal
<1> QED  BY <1>9, <1>13, <1>14

(* The running product of verifyCommitment.                                   *)
LEMMA MulModsIs ==
  ASSUME NEW n \in Nat, NEW f \in [1 .. n -> Int]
  PROVE  \E h : RunsMulMod(h, n, f) /\ MulMods(f) = h[n]
<1> DEFINE Loop(g) == g = [s \in SUBSET (1 .. n) |->
                             IF s = {} THEN 1 ELSE MulMod(g[s \ {Max(s)}], f[Max(s)], P)]
           step == [k \in 1 .. n |-> [y \in Int |-> MulMod(y, f[k], P)]]
<1>1. \A k \in 1 .. n, y \in Int : MulMod(y, f[k], P) \in Int
  <2> SUFFICES ASSUME NEW k \in 1 .. n, NEW y \in Int PROVE MulMod(y, f[k], P) \in Int
    OBVIOUS
  <2>1. PICK z \in Int : z = y * f[k]  OBVIOUS
  <2>2. P \in Nat \ {0}  BY ModulusIs
  <2>3. z % P \in Int  BY <2>2, DivMod
  <2> QED  BY <2>1, <2>3 DEF MulMod
<1>2. step \in [1 .. n -> [Int -> Int]]  BY <1>1
<1>3. \A k \in 1 .. n, y \in Int : step[k][y] = MulMod(y, f[k], P)  OBVIOUS
<1> HIDE DEF step
<1>4. PICK g : g \in [SUBSET (1 .. n) -> Int] /\ FoldsLeft(g, n, 1, step)
  <2>1. 1 \in Int  OBVIOUS
  <2> QED  BY <1>2, <2>1, LeftExists
<1>5. \A s \in SUBSET (1 .. n) : s # {} => Max(s) \in 1 .. n /\ s \ {Max(s)} \in SUBSET (1 .. n)
  BY Greatest
<1>6. ASSUME NEW s \in SUBSET (1 .. n)
      PROVE  g[s] = IF s = {} THEN 1 ELSE MulMod(g[s \ {Max(s)}], f[Max(s)], P)
  <2>1. CASE s = {}  BY <1>4, <2>1 DEF FoldsLeft
  <2>2. CASE s # {}
    <3>1. Max(s) \in 1 .. n /\ s \ {Max(s)} \in SUBSET (1 .. n)  BY <1>5, <2>2
    <3>2. g[s \ {Max(s)}] \in Int  BY <1>4, <3>1
    <3>3. g[s] = step[Max(s)][g[s \ {Max(s)}]]  BY <1>4, <2>2 DEF FoldsLeft
    <3> QED  BY <1>3, <2>2, <3>1, <3>2, <3>3
  <2> QED  BY <2>1, <2>2
<1>7. Loop(g)
  <2>1. g = [s \in SUBSET (1 .. n) |-> g[s]]  BY <1>4
  <2> QED  BY <1>6, <2>1
<1> DEFINE i == CHOOSE g1 : Loop(g1)
<1>8. Loop(i)  BY <1>7
<1>9. MulMods(f) = i[1 .. n]
  <2>1. DOMAIN f = 1 .. n  OBVIOUS
  <2> QED  BY <2>1 DEF MulMods, FoldLeft, MapThenFoldSet
<1> HIDE DEF i
<1> DEFINE h == [k \in 0 .. n |-> i[1 .. k]]
<1>10. h[0] = 1
  <2>1. 1 .. 0 = {} /\ {} \in SUBSET (1 .. n)  OBVIOUS
  <2> QED  BY <1>8, <2>1
<1>11. ASSUME NEW k \in 1 .. n PROVE h[k] = MulMod(h[k - 1], f[k], P)
  <2>1. 1 .. k \in SUBSET (1 .. n) /\ 1 .. k # {}
    <3>1. k \in 1 .. k /\ \A j \in 1 .. k : j \in 1 .. n  OBVIOUS
    <3> QED  BY <3>1
  <2>2. Max(1 .. k) = k /\ (1 .. k) \ {k} = 1 .. k - 1  BY Greatest
  <2>3. i[1 .. k] = MulMod(i[1 .. k - 1], f[k], P)  BY <1>8, <2>1, <2>2
  <2>4. k - 1 \in 0 .. n /\ k \in 0 .. n  OBVIOUS
  <2> QED  BY <2>3, <2>4
<1>12. \A k \in 0 .. n : h[k] \in Int
  <2> DEFINE A == {k \in Nat : k \in 0 .. n => h[k] \in Int}
  <2> HIDE DEF h
  <2>1. 0 \in A  BY <1>10
  <2>2. ASSUME NEW k \in Nat, k \in A PROVE k + 1 \in A
    <3> SUFFICES ASSUME k + 1 \in 0 .. n PROVE h[k + 1] \in Int
      OBVIOUS
    <3>1. k + 1 \in 1 .. n /\ (k + 1) - 1 = k /\ h[k] \in Int  BY <2>2
    <3> QED  BY <1>1, <1>11, <3>1
  <2>3. Nat \subseteq A
    <3> HIDE DEF A
    <3> QED  BY <2>1, <2>2, Induction
  <2> QED  BY <2>3
<1>13. h \in [0 .. n -> Int] /\ h[n] = i[1 .. n]
  <2>1. n \in 0 .. n  OBVIOUS
  <2>2. DOMAIN h = 0 .. n /\ h = [k \in 0 .. n |-> h[k]]  OBVIOUS
  <2>3. h[n] = i[1 .. n]  BY <2>1
  <2> HIDE DEF h
  <2> QED  BY <1>12, <2>2, <2>3
<1> HIDE DEF h
<1>14. RunsMulMod(h, n, f)  BY <1>10, <1>11, <1>13 DEF RunsMulMod, MulMod
<1> QED  BY <1>9, <1>13, <1>14

-----------------------------------------------------------------------------
(* Commitments, modulo P.                                                    *)

Same(x, y) == Cong(P, x, y)

(* Congruence is an equivalence and respects products.                       *)
LEMMA SameTimes ==
  ASSUME NEW a \in Int, NEW b \in Int, NEW c \in Int, NEW d \in Int, Same(a, c), Same(b, d)
  PROVE  Same(a * b, c * d)
BY ModulusIs, CongTimes DEF Same

(* What is given by c_mod is the same, and is known from what it is the same *)
(* as.                                                                       *)
LEMMA SameCMod ==
  ASSUME NEW x \in Int
  PROVE  /\ CMod(x, P) \in 1 - P .. 0 /\ CMod(x, P) \in Int /\ Same(CMod(x, P), x)
         /\ \A y \in 1 - P .. 0 : Same(y, x) => y = CMod(x, P)
<1>1. CMod(x, P) \in 1 - P .. 0 /\ CMod(x, P) \in Int /\ Same(CMod(x, P), x)
  BY CModIs DEF Same
<1>2. ASSUME NEW y \in 1 - P .. 0, NEW z \in 1 - P .. 0, Same(y, z)
      PROVE  y = z
  <2>1. P \in Nat \ {0} /\ y \in Int /\ z \in Int  BY ModulusIs
  <2>2. (y - z) % P = 0  BY <1>2, <2>1, CongDifference DEF Same
  <2>3. y - z \in Int  BY <2>1
  <2>4. PICK k \in Int : y - z = P * k  BY <2>1, <2>2, <2>3, ModZero
  <2>5. -P < P * k /\ P * k < P  BY <2>1, <2>4
  <2>6. k = 0  BY <2>1, <2>5, NoMultipleBelow
  <2> QED  BY <2>1, <2>4, <2>6
<1>3. \A y \in 1 - P .. 0 : Same(y, x) => Same(y, CMod(x, P))  BY <1>1 DEF Same, Cong
<1> QED  BY <1>1, <1>2, <1>3

(* The powers of a generator: residues, none of them 0, whose exponents add  *)
(* up.                                                                       *)
LEMMA PowerIs ==
  ASSUME NEW i \in 1 .. Len(G), NEW a \in Int
  PROVE  /\ Power(i, a) \in 0 .. P - 1 /\ Power(i, a) \in Int /\ Power(i, 0) = 1
         /\ \A b \in Int : Same(Power(i, a + b), Power(i, a) * Power(i, b))
<1>1. G[i] \in Nat /\ G[i] % P # 0 /\ P \in Nat /\ Prime(P)  BY GeneratorAssumption
<1>2. PICK g \in Nat : g = G[i]  BY <1>1
<1>3. PICK c \in Int : Inverses(P, g, c)  BY <1>1, <1>2, HasInverse
<1>4. ASSUME NEW e \in Int
      PROVE  Exps(P, g, c, Power(i, e), e) /\ Power(i, e) \in 0 .. P - 1
  BY <1>2, <1>3, PowModExps DEF Power
<1>5. Power(i, 0) = 1
  <2>1. 0 \in Int /\ 0 \in Nat /\ 1 \in Int  OBVIOUS
  <2>2. g \in Int /\ P \in Nat \ {0, 1}  BY <1>2, ModulusIs
  <2>3. Pow(g, 0) = 1  BY <2>2, PowSteps
  <2>4. PowMod(g, 0, P) = Pow(g, 0) % P  BY <2>1, <2>2, PowModIs
  <2>5. 1 % P = 1
    <3>1. P \in Nat \ {0} /\ 1 \in 0 .. P - 1  BY ModulusIs
    <3> QED  BY <2>1, <3>1, SmallMod
  <2> QED  BY <1>2, <2>3, <2>4, <2>5 DEF Power
<1>6. ASSUME NEW b \in Int PROVE Same(Power(i, a + b), Power(i, a) * Power(i, b))
  <2>1. a + b \in Int  OBVIOUS
  <2>2. Exps(P, g, c, Power(i, a) * Power(i, b), a + b)  BY <1>3, <1>4, ExpsTimes
  <2>3. Exps(P, g, c, Power(i, a + b), a + b)  BY <1>4, <2>1
  <2> QED  BY <1>3, <2>2, <2>3, ExpsUnique DEF Same
<1>7. Power(i, a) \in 0 .. P - 1  BY <1>4
<1> QED  BY <1>5, <1>6, <1>7, ModulusIs

\* The values of the running product of commit, modulo P.
CommitRun(h, k, v) ==
  /\ h \in [0 .. k -> Int] /\ h[0] = 1
  /\ \A j \in 1 .. k : h[j] \in 1 - P .. 0 /\ Same(h[j], h[j - 1] * Power(j, v[j]))

(* Every vector that is not longer than the generators has such a run.       *)
LEMMA CommitIs ==
  ASSUME NEW k \in 0 .. Len(G), NEW v \in [1 .. k -> Int]
  PROVE  \E h : CommitRun(h, k, v) /\ Commit(v) = h[k]
<1>0. Len(G) \in Nat  BY GeneratorAssumption
<1>1. k \in Nat  BY <1>0
<1>2. Len(v) = k  BY <1>1
<1>3. PICK f : f = [i \in 1 .. k |-> Power(i, v[i])]  OBVIOUS
<1>4. \A i \in 1 .. k : i \in 1 .. Len(G) /\ v[i] \in Int  BY <1>0
<1>5. f \in [1 .. k -> Int]  BY <1>3, <1>4, PowerIs
<1>6. PICK h : RunsProduct(h, k, 1, f) /\ Product(1, f) = h[k]
  <2>1. 1 \in Int  OBVIOUS
  <2> QED  BY <1>1, <1>5, <2>1, ProductIs
<1>7. Commit(v) = h[k]  BY <1>2, <1>3, <1>6 DEF Commit
<1>8. ASSUME NEW j \in 1 .. k
      PROVE  h[j] \in 1 - P .. 0 /\ Same(h[j], h[j - 1] * Power(j, v[j]))
  <2>1. h[j - 1] \in Int
    <3>1. j - 1 \in 0 .. k  BY <1>1
    <3> QED  BY <1>6, <3>1 DEF RunsProduct
  <2>2. h[j] = CMod(h[j - 1] * f[j], P) /\ f[j] = Power(j, v[j]) /\ f[j] \in Int
    BY <1>3, <1>5, <1>6 DEF RunsProduct
  <2>3. PICK z \in Int : z = h[j - 1] * f[j]  BY <2>1, <2>2
  <2> QED  BY <2>2, <2>3, SameCMod
<1> QED  BY <1>6, <1>7, <1>8 DEF RunsProduct, CommitRun

(* The commitment to a sum is the product of the commitments.                *)
LEMMA CommitAdd ==
  ASSUME NEW k \in 0 .. Len(G), NEW v \in [1 .. k -> Int], NEW w \in [1 .. k -> Int],
         NEW u \in [1 .. k -> Int], \A i \in 1 .. k : u[i] = v[i] + w[i]
  PROVE  /\ Commit(v) \in Int /\ Commit(w) \in Int /\ Commit(u) \in Int
         /\ Same(Commit(u), Commit(v) * Commit(w))
<1>0. Len(G) \in Nat /\ k \in Nat
  <2>1. Len(G) \in Nat  BY GeneratorAssumption
  <2> QED  BY <2>1
<1>1. PICK a : CommitRun(a, k, v) /\ Commit(v) = a[k]  BY CommitIs
<1>2. PICK b : CommitRun(b, k, w) /\ Commit(w) = b[k]  BY CommitIs
<1>3. PICK c : CommitRun(c, k, u) /\ Commit(u) = c[k]  BY CommitIs
<1>4. \A j \in 0 .. k : a[j] \in Int /\ b[j] \in Int /\ c[j] \in Int
  BY <1>1, <1>2, <1>3 DEF CommitRun
<1> DEFINE A == {j \in Nat : j \in 0 .. k => Same(c[j], a[j] * b[j])}
<1>5. 0 \in A
  <2>1. c[0] = 1 /\ a[0] = 1 /\ b[0] = 1  BY <1>1, <1>2, <1>3 DEF CommitRun
  <2>2. 1 = 1 * 1  OBVIOUS
  <2> QED  BY <2>1, <2>2 DEF Same, Cong
<1>6. ASSUME NEW j \in Nat, j \in A PROVE j + 1 \in A
  <2> SUFFICES ASSUME j + 1 \in 0 .. k PROVE Same(c[j + 1], a[j + 1] * b[j + 1])
    OBVIOUS
  <2>1. j + 1 \in 1 .. k /\ (j + 1) - 1 = j /\ j \in 0 .. k /\ j + 1 \in 1 .. Len(G)
    BY <1>0
  <2>2. PICK x \in Int, y \in Int, z \in Int : x = a[j] /\ y = b[j] /\ z = c[j]
    BY <1>4, <2>1
  <2>3. PICK s \in Int, t \in Int : s = v[j + 1] /\ t = w[j + 1]  BY <2>1
  <2>4. PICK p \in Int, q \in Int, r \in Int :
          p = Power(j + 1, s) /\ q = Power(j + 1, t) /\ r = Power(j + 1, s + t)
    <3>1. s + t \in Int /\ s \in Int /\ t \in Int  OBVIOUS
    <3>2. Power(j + 1, s) \in Int /\ Power(j + 1, t) \in Int  BY <2>1, <3>1, PowerIs
    <3>3. Power(j + 1, s + t) \in Int
      <4>1. PICK st \in Int : st = s + t  BY <3>1
      <4> QED  BY <2>1, <4>1, PowerIs
    <3> QED  BY <3>2, <3>3
  <2>5. Same(a[j + 1], x * p)  BY <1>1, <2>1, <2>2, <2>3, <2>4 DEF CommitRun
  <2>6. Same(b[j + 1], y * q)  BY <1>2, <2>1, <2>2, <2>3, <2>4 DEF CommitRun
  <2>7. Same(c[j + 1], z * r)
    <3>1. u[j + 1] = s + t  BY <2>1, <2>3
    <3> QED  BY <1>3, <2>1, <2>2, <2>4, <3>1 DEF CommitRun
  <2>8. Same(z, x * y)  BY <1>6, <2>1, <2>2
  <2>9. Same(r, p * q)  BY <2>1, <2>3, <2>4, PowerIs
  <2>10. PICK xy \in Int, pq \in Int, xp \in Int, yq \in Int :
           xy = x * y /\ pq = p * q /\ xp = x * p /\ yq = y * q
    OBVIOUS
  <2>11. Same(z * r, xy * pq)  BY <2>8, <2>9, <2>10, SameTimes
  <2>12. xy * pq = xp * yq  BY <2>10
  <2>13. Same(a[j + 1] * b[j + 1], xp * yq)
    <3>1. a[j + 1] \in Int /\ b[j + 1] \in Int  BY <1>4, <2>1
    <3> QED  BY <2>5, <2>6, <2>10, <3>1, SameTimes
  <2> QED  BY <2>7, <2>11, <2>12, <2>13 DEF Same, Cong
<1>7. Nat \subseteq A
  <2> HIDE DEF A
  <2> QED  BY <1>5, <1>6, Induction
<1> QED  BY <1>0, <1>1, <1>2, <1>3, <1>4, <1>7

(* The commitment to 0 is 1.                                                 *)
LEMMA CommitZero ==
  ASSUME NEW k \in 0 .. Len(G), NEW v \in [1 .. k -> Int], \A i \in 1 .. k : v[i] = 0
  PROVE  Same(Commit(v), 1)
<1>0. Len(G) \in Nat /\ k \in Nat
  <2>1. Len(G) \in Nat  BY GeneratorAssumption
  <2> QED  BY <2>1
<1>1. PICK h : CommitRun(h, k, v) /\ Commit(v) = h[k]  BY CommitIs
<1> DEFINE A == {j \in Nat : j \in 0 .. k => Same(h[j], 1)}
<1>2. 0 \in A  BY <1>1 DEF CommitRun, Same, Cong
<1>3. ASSUME NEW j \in Nat, j \in A PROVE j + 1 \in A
  <2> SUFFICES ASSUME j + 1 \in 0 .. k PROVE Same(h[j + 1], 1)
    OBVIOUS
  <2>1. j + 1 \in 1 .. k /\ (j + 1) - 1 = j /\ j \in 0 .. k /\ j + 1 \in 1 .. Len(G)
    BY <1>0
  <2>2. h[j] \in Int  BY <1>1, <2>1 DEF CommitRun
  <2>3. Power(j + 1, v[j + 1]) = 1
    <3>1. 0 \in Int  OBVIOUS
    <3> QED  BY <2>1, <3>1, PowerIs
  <2>4. Same(h[j + 1], h[j] * 1)  BY <1>1, <2>1, <2>3 DEF CommitRun
  <2>5. h[j] * 1 = h[j]  BY <2>2
  <2> QED  BY <1>3, <2>1, <2>4, <2>5 DEF Same, Cong
<1>4. Nat \subseteq A
  <2> HIDE DEF A
  <2> QED  BY <1>2, <1>3, Induction
<1> QED  BY <1>0, <1>1, <1>4

(* A commitment is in the range of c_mod and has an inverse.                 *)
LEMMA CommitRange ==
  ASSUME NEW k \in 1 .. Len(G), NEW v \in [1 .. k -> Int]
  PROVE  Commit(v) \in 1 - P .. -1 /\ Commit(v) % P # 0
<1>0. Len(G) \in Nat /\ k \in Nat /\ k \in 0 .. Len(G) /\ P \in Nat \ {0} /\ P > 1
  <2>1. Len(G) \in Nat  BY GeneratorAssumption
  <2> QED  BY <2>1, ModulusIs
<1>1. PICK h : CommitRun(h, k, v) /\ Commit(v) = h[k]  BY <1>0, CommitIs
<1>2. Commit(v) \in 1 - P .. 0
  <2>1. k \in 1 .. k  BY <1>0
  <2> QED  BY <1>1, <2>1 DEF CommitRun
<1>3. PICK w \in [1 .. k -> Int] : \A i \in 1 .. k : w[i] = -v[i]
  <2>1. \A i \in 1 .. k : -v[i] \in Int  OBVIOUS
  <2>2. [i \in 1 .. k |-> -v[i]] \in [1 .. k -> Int]  BY <2>1
  <2> QED  BY <2>2
<1>4. PICK o \in [1 .. k -> Int] : \A i \in 1 .. k : o[i] = 0
  <2>1. [i \in 1 .. k |-> 0] \in [1 .. k -> Int]  OBVIOUS
  <2> QED  BY <2>1
<1>5. \A i \in 1 .. k : o[i] = v[i] + w[i]
  <2>1. \A i \in 1 .. k : v[i] \in Int  OBVIOUS
  <2> QED  BY <1>3, <1>4, <2>1
<1>6. Commit(w) \in Int /\ Commit(v) \in Int /\ Same(Commit(o), Commit(v) * Commit(w))
  BY <1>0, <1>5, CommitAdd
<1>7. Same(Commit(o), 1)  BY <1>0, <1>4, CommitZero
<1>8. Commit(v) % P # 0
  <2> SUFFICES ASSUME Commit(v) % P = 0 PROVE FALSE
    OBVIOUS
  <2>1. PICK x \in Int, y \in Int : x = Commit(v) /\ y = Commit(w)  BY <1>6
  <2>2. (x * y) % P = (0 * y) % P
    <3>1. Cong(P, x, 0) /\ Cong(P, y, y) /\ 0 \in Int
      <4>1. 0 % P = 0  BY <1>0, SmallMod
      <4> QED  BY <2>1, <4>1 DEF Cong
    <3>2. x \in Int /\ y \in Int /\ P \in Nat \ {0}  BY <1>0
    <3>3. Cong(P, x * y, 0 * y)  BY <3>1, <3>2, CongTimes
    <3> QED  BY <3>3 DEF Cong
  <2>3. 0 * y = 0 /\ 0 % P = 0 /\ 1 % P = 1
    <3>1. 0 \in Int /\ 1 \in Int /\ 0 \in 0 .. P - 1 /\ 1 \in 0 .. P - 1  BY <1>0
    <3>2. 0 % P = 0 /\ 1 % P = 1  BY <1>0, <3>1, SmallMod
    <3> QED  BY <3>2
  <2> QED  BY <1>6, <1>7, <2>1, <2>2, <2>3 DEF Same, Cong
<1>9. Commit(v) # 0
  <2>1. 0 % P = 0  BY <1>0, SmallMod
  <2> QED  BY <1>8, <2>1
<1> QED  BY <1>0, <1>2, <1>8, <1>9

(* Two sums with one commitment are equal, if they are not too far apart.    *)
LEMMA CommitBinds ==
  ASSUME NEW k \in SubNums, NEW v \in [1 .. k -> Int], NEW u \in [1 .. k -> Int],
         \A i \in 1 .. k : u[i] - v[i] \in Parts
  PROVE  Commit(u) = Commit(v) <=> \A i \in 1 .. k : u[i] = v[i]
<1>0. Len(G) \in Nat /\ k \in Nat /\ k \in 0 .. Len(G) /\ k \in 1 .. Len(G)
  <2>1. Len(G) \in Nat  BY GeneratorAssumption
  <2> QED  BY <2>1, VectorAssumption
<1>1. PICK e \in [1 .. k -> Parts] : \A i \in 1 .. k : e[i] = u[i] - v[i]
  <2>1. [i \in 1 .. k |-> u[i] - v[i]] \in [1 .. k -> Parts]  OBVIOUS
  <2> QED  BY <2>1
<1>2. e \in [1 .. k -> Int] /\ \A i \in 1 .. k : u[i] = v[i] + e[i]
  <2>1. \A i \in 1 .. k : e[i] \in Int /\ u[i] \in Int /\ v[i] \in Int
    BY BoundsAssumption DEF Parts
  <2> QED  BY <1>1, <2>1
<1>3. ASSUME Commit(u) = Commit(v) PROVE \A i \in 1 .. k : u[i] = v[i]
  <2>1. PICK x \in Int, y \in Int : x = Commit(v) /\ y = Commit(e) /\ Same(Commit(u), x * y)
    BY <1>0, <1>2, CommitAdd
  <2>2. x % P # 0 /\ y \in 1 - P .. 0
    <3>1. x % P # 0 /\ y \in 1 - P .. -1  BY <1>0, <1>2, <2>1, CommitRange
    <3> QED  BY <3>1, ModulusIs
  <2>3. Cong(P, x * y, x * 1)
    <3>1. x * 1 = x  OBVIOUS
    <3> QED  BY <1>3, <2>1, <3>1 DEF Same, Cong
  <2>4. Same(y, 1)
    <3>1. P \in Nat /\ Prime(P) /\ 1 \in Int  BY ModulusIs
    <3> QED  BY <2>2, <2>3, <3>1, PrimeCancels DEF Same
  <2>5. y = CMod(1, P)
    <3>1. 1 \in Int  OBVIOUS
    <3> QED  BY <2>2, <2>4, <3>1, SameCMod
  <2>6. Product(1, [i \in 1 .. k |-> Power(i, e[i])]) = CMod(1, P)
    <3>1. Len(e) = k  BY <1>0
    <3> QED  BY <2>1, <2>5, <3>1 DEF Commit
  <2>7. \A i \in 1 .. k : e[i] = 0  BY <2>6, BindingAssumption
  <2> QED  BY <1>2, <2>7
<1>4. ASSUME \A i \in 1 .. k : u[i] = v[i] PROVE Commit(u) = Commit(v)
  <2>1. u = [i \in 1 .. k |-> u[i]] /\ v = [i \in 1 .. k |-> v[i]]  OBVIOUS
  <2>2. u = v  BY <1>4, <2>1
  <2> QED  BY <2>2
<1> QED  BY <1>3, <1>4

-----------------------------------------------------------------------------
(* Sums of vectors.                                                          *)

(* A sum of sums is the sum of the sums.                                     *)
LEMMA TotalAdd ==
  ASSUME NEW n \in Nat, NEW f \in [1 .. n -> Int], NEW g \in [1 .. n -> Int],
         NEW h \in [1 .. n -> Int], \A i \in 1 .. n : h[i] = f[i] + g[i]
  PROVE  /\ Total(f) \in Int /\ Total(g) \in Int /\ Total(h) \in Int
         /\ Total(h) = Total(f) + Total(g)
<1>1. PICK a : RunsTotal(a, n, f) /\ Total(f) = a[n]  BY TotalIs
<1>2. PICK b : RunsTotal(b, n, g) /\ Total(g) = b[n]  BY TotalIs
<1>3. PICK c : RunsTotal(c, n, h) /\ Total(h) = c[n]  BY TotalIs
<1>4. \A j \in 0 .. n : a[j] \in Int /\ b[j] \in Int /\ c[j] \in Int
  BY <1>1, <1>2, <1>3 DEF RunsTotal
<1> DEFINE A == {j \in Nat : j \in 0 .. n => c[j] = a[j] + b[j]}
<1>5. 0 \in A
  <2>1. a[0] = 0 /\ b[0] = 0 /\ c[0] = 0  BY <1>1, <1>2, <1>3 DEF RunsTotal
  <2> QED  BY <2>1
<1>6. ASSUME NEW j \in Nat, j \in A PROVE j + 1 \in A
  <2> SUFFICES ASSUME j + 1 \in 0 .. n PROVE c[j + 1] = a[j + 1] + b[j + 1]
    OBVIOUS
  <2>1. j + 1 \in 1 .. n /\ (j + 1) - 1 = j /\ j \in 0 .. n  OBVIOUS
  <2>2. /\ a[j + 1] = a[j] + f[j + 1] /\ b[j + 1] = b[j] + g[j + 1]
        /\ c[j + 1] = c[j] + h[j + 1]
    BY <1>1, <1>2, <1>3, <2>1 DEF RunsTotal
  <2>3. h[j + 1] = f[j + 1] + g[j + 1] /\ c[j] = a[j] + b[j]  BY <1>6, <2>1
  <2>4. a[j] \in Int /\ b[j] \in Int /\ f[j + 1] \in Int /\ g[j + 1] \in Int
    BY <1>4, <2>1
  <2> QED  BY <2>2, <2>3, <2>4
<1>7. Nat \subseteq A
  <2> HIDE DEF A
  <2> QED  BY <1>5, <1>6, Induction
<1>8. n \in 0 .. n  OBVIOUS
<1> QED  BY <1>1, <1>2, <1>3, <1>4, <1>7, <1>8

(* A sum is an integer, and that of the first element is its first.          *)
LEMMA TotalSmall ==
  ASSUME NEW n \in Nat, NEW f \in [1 .. n -> Int]
  PROVE  /\ Total(f) \in Int /\ (n = 1 => Total(f) = f[1])
         /\ (\A i \in 1 .. n : f[i] = 0) => Total(f) = 0
<1>1. PICK a : RunsTotal(a, n, f) /\ Total(f) = a[n]  BY TotalIs
<1>2. Total(f) \in Int
  <2>1. n \in 0 .. n  OBVIOUS
  <2> QED  BY <1>1, <2>1 DEF RunsTotal
<1>3. ASSUME n = 1 PROVE Total(f) = f[1]
  <2>1. 1 \in 1 .. n /\ f[1] \in Int /\ 1 - 1 = 0  BY <1>3
  <2>2. a[1] = a[0] + f[1] /\ a[0] = 0  BY <1>1, <2>1 DEF RunsTotal
  <2> QED  BY <1>1, <1>3, <2>1, <2>2
<1>4. ASSUME \A i \in 1 .. n : f[i] = 0 PROVE Total(f) = 0
  <2>1. \A i \in 1 .. n : f[i] = f[i] + f[i]  BY <1>4
  <2>2. Total(f) = Total(f) + Total(f)  BY <2>1, TotalAdd
  <2> QED  BY <1>2, <2>2
<1> QED  BY <1>2, <1>3, <1>4

\* A linear form on the vectors of length m.
Linear(L, m) ==
  /\ L \in [[1 .. m -> Int] -> Int]
  /\ \A v \in [1 .. m -> Int], w \in [1 .. m -> Int] :
       L[[i \in 1 .. m |-> v[i] + w[i]]] = L[v] + L[w]

\* s is the sum of n vectors of length m.
Sums(s, x, m, n) ==
  /\ x \in [1 .. n -> [1 .. m -> Int]] /\ s \in [1 .. m -> Int]
  /\ \A i \in 1 .. m : s[i] = Total([c \in 1 .. n |-> x[c][i]])

\* f has what the form gives for each of them.
Maps(f, L, x, n) == f \in [1 .. n -> Int] /\ \A c \in 1 .. n : f[c] = L[x[c]]

(* Linear forms and sums of vectors can be exchanged.                        *)
LEMMA LinearTotal ==
  ASSUME NEW m \in Nat, NEW n \in Nat, NEW L, Linear(L, m), NEW x, NEW s, Sums(s, x, m, n),
         NEW f, Maps(f, L, x, n)
  PROVE  L[s] = Total(f)
<1>0. /\ x \in [1 .. n -> [1 .. m -> Int]] /\ s \in [1 .. m -> Int] /\ f \in [1 .. n -> Int]
      /\ \A c \in 1 .. n : f[c] = L[x[c]]
  BY DEF Sums, Maps
<1> DEFINE Vec == [1 .. m -> Int]
           zero == [i \in 1 .. m |-> 0]
           step == [k \in Nat |-> [v \in Vec |-> IF k + 1 \in 1 .. n
                                                 THEN [i \in 1 .. m |-> v[i] + x[k + 1][i]]
                                                 ELSE v]]
<1>1. zero \in Vec  OBVIOUS
<1>2. step \in [Nat -> [Vec -> Vec]]
  <2>1. ASSUME NEW k \in Nat, NEW v \in Vec, k + 1 \in 1 .. n
        PROVE  [i \in 1 .. m |-> v[i] + x[k + 1][i]] \in Vec
    <3>1. x[k + 1] \in Vec  BY <1>0, <2>1
    <3>2. \A i \in 1 .. m : v[i] \in Int /\ x[k + 1][i] \in Int  BY <3>1
    <3> QED  BY <3>2
  <2> QED  BY <2>1
<1>3. PICK p : Iterates(p, Vec, zero, step)
  <2> HIDE DEF Vec, zero, step
  <2> QED  BY <1>1, <1>2, Iterate
<1>4. p \in [Nat -> Vec] /\ p[0] = zero /\ \A k \in Nat : p[k + 1] = step[k][p[k]]
  <2> HIDE DEF Vec, zero, step
  <2> QED  BY <1>3 DEF Iterates
<1>5. ASSUME NEW k \in Nat, k + 1 \in 1 .. n
      PROVE  p[k + 1] = [i \in 1 .. m |-> p[k][i] + x[k + 1][i]]
  BY <1>4, <1>5
<1> HIDE DEF step
<1>8. PICK a : RunsTotal(a, n, f) /\ Total(f) = a[n]  BY <1>0, TotalIs
<1>9. L[p[0]] = 0
  <2>1. zero = [i \in 1 .. m |-> zero[i] + zero[i]]  OBVIOUS
  <2>2. L[zero] \in Int /\ L[zero] = L[zero] + L[zero]  BY <1>1, <2>1 DEF Linear
  <2>3. PICK y \in Int : y = L[zero] /\ y = y + y  BY <2>2
  <2>4. y = 0  BY <2>3
  <2>5. p[0] = zero  BY <1>4
  <2> HIDE DEF zero
  <2> QED  BY <2>3, <2>4, <2>5
<1> DEFINE A == {k \in Nat : k \in 0 .. n => L[p[k]] = a[k]}
<1>10. 0 \in A  BY <1>8, <1>9 DEF RunsTotal
<1>11. ASSUME NEW k \in Nat, k \in A PROVE k + 1 \in A
  <2> SUFFICES ASSUME k + 1 \in 0 .. n PROVE L[p[k + 1]] = a[k + 1]
    OBVIOUS
  <2>1. k + 1 \in 1 .. n /\ (k + 1) - 1 = k /\ k \in 0 .. n  OBVIOUS
  <2>2. p[k] \in Vec /\ x[k + 1] \in Vec  BY <1>0, <1>4, <2>1
  <2>3. L[p[k + 1]] = L[p[k]] + L[x[k + 1]]  BY <1>5, <2>1, <2>2 DEF Linear
  <2>4. a[k + 1] = a[k] + f[k + 1]  BY <1>8, <2>1 DEF RunsTotal
  <2>5. f[k + 1] = L[x[k + 1]]  BY <1>0, <2>1
  <2> QED  BY <1>11, <2>1, <2>3, <2>4, <2>5
<1>12. Nat \subseteq A
  <2> HIDE DEF A
  <2> QED  BY <1>10, <1>11, Induction
<1>13. L[p[n]] = Total(f)
  <2>1. n \in 0 .. n  OBVIOUS
  <2> QED  BY <1>8, <1>12, <2>1
<1>14. ASSUME NEW i \in 1 .. m PROVE p[n][i] = s[i]
  <2>1. PICK g : g = [c \in 1 .. n |-> x[c][i]]  OBVIOUS
  <2>2. g \in [1 .. n -> Int]
    <3>1. \A c \in 1 .. n : x[c][i] \in Int
      <4>1. \A c \in 1 .. n : x[c] \in Vec  BY <1>0
      <4> QED  BY <4>1
    <3> QED  BY <2>1, <3>1
  <2>3. PICK b : RunsTotal(b, n, g) /\ Total(g) = b[n]  BY <2>2, TotalIs
  <2> DEFINE B == {k \in Nat : k \in 0 .. n => p[k][i] = b[k]}
  <2>4. 0 \in B  BY <1>4, <2>3 DEF RunsTotal
  <2>5. ASSUME NEW k \in Nat, k \in B PROVE k + 1 \in B
    <3> SUFFICES ASSUME k + 1 \in 0 .. n PROVE p[k + 1][i] = b[k + 1]
      OBVIOUS
    <3>1. k + 1 \in 1 .. n /\ (k + 1) - 1 = k /\ k \in 0 .. n  OBVIOUS
    <3>2. p[k + 1][i] = p[k][i] + x[k + 1][i]  BY <1>5, <3>1
    <3>3. b[k + 1] = b[k] + g[k + 1]  BY <2>3, <3>1 DEF RunsTotal
    <3>4. g[k + 1] = x[k + 1][i]  BY <2>1, <3>1
    <3> QED  BY <2>5, <3>1, <3>2, <3>3, <3>4
  <2>6. Nat \subseteq B
    <3> HIDE DEF B
    <3> QED  BY <2>4, <2>5, Induction
  <2>7. n \in 0 .. n  OBVIOUS
  <2> QED  BY <2>1, <2>3, <2>6, <2>7 DEF Sums
<1>15. p[n] = s
  <2>1. p[n] \in Vec  BY <1>4
  <2>2. p[n] = [i \in 1 .. m |-> p[n][i]] /\ s = [i \in 1 .. m |-> s[i]]  BY <1>0, <2>1
  <2> QED  BY <1>14, <2>2
<1> QED  BY <1>13, <1>15

\* The sum of the entries that idx picks.
PickSum(m, q, idx) == [v \in [1 .. m -> Int] |-> Total([j \in 1 .. q |-> v[idx[j]]])]

(* Such sums are linear forms.                                               *)
LEMMA PickSumLinear ==
  ASSUME NEW m \in Nat, NEW q \in Nat, NEW idx \in [1 .. q -> 1 .. m]
  PROVE  Linear(PickSum(m, q, idx), m)
<1> DEFINE Vec == [1 .. m -> Int]
           F(v) == [j \in 1 .. q |-> v[idx[j]]]
<1>1. ASSUME NEW v \in Vec PROVE F(v) \in [1 .. q -> Int] /\ Total(F(v)) \in Int
  <2>1. F(v) \in [1 .. q -> Int]
    <3>1. \A j \in 1 .. q : idx[j] \in 1 .. m  OBVIOUS
    <3> QED  BY <3>1
  <2> HIDE DEF F
  <2> QED  BY <2>1, TotalSmall
<1>2. PickSum(m, q, idx) \in [Vec -> Int] /\ \A v \in Vec : PickSum(m, q, idx)[v] = Total(F(v))
  BY <1>1 DEF PickSum
<1>3. ASSUME NEW v \in Vec, NEW w \in Vec
      PROVE  Total(F([i \in 1 .. m |-> v[i] + w[i]])) = Total(F(v)) + Total(F(w))
  <2>1. PICK u \in Vec : u = [i \in 1 .. m |-> v[i] + w[i]]
    <3>1. \A i \in 1 .. m : v[i] \in Int /\ w[i] \in Int  OBVIOUS
    <3>2. [i \in 1 .. m |-> v[i] + w[i]] \in Vec  BY <3>1
    <3> QED  BY <3>2
  <2>2. \A j \in 1 .. q : F(u)[j] = F(v)[j] + F(w)[j]
    <3>1. \A j \in 1 .. q : idx[j] \in 1 .. m  OBVIOUS
    <3> QED  BY <2>1, <3>1
  <2>3. F(u) \in [1 .. q -> Int] /\ F(v) \in [1 .. q -> Int] /\ F(w) \in [1 .. q -> Int]
    BY <1>1
  <2>4. PICK a \in [1 .. q -> Int], b \in [1 .. q -> Int], c \in [1 .. q -> Int] :
          a = F(u) /\ b = F(v) /\ c = F(w)
    BY <2>3
  <2>5. Total(a) = Total(b) + Total(c)
    <3> HIDE DEF F
    <3>1. \A j \in 1 .. q : a[j] = b[j] + c[j]  BY <2>2, <2>4
    <3> QED  BY <3>1, TotalAdd
  <2> QED  BY <2>1, <2>4, <2>5
<1>4. ASSUME NEW v \in Vec, NEW w \in Vec
      PROVE  [i \in 1 .. m |-> v[i] + w[i]] \in Vec
  OBVIOUS
<1> HIDE DEF F
<1> QED  BY <1>2, <1>3, <1>4 DEF Linear

\* Where the entries of part i of a permuted vector come from.
Cut(perm, size, i) == [j \in 1 .. size |-> perm[(i - 1) * size + j]]

(* The places of a part are in the vector.                                   *)
LEMMA PlaceIs ==
  ASSUME NEW k \in Nat \ {0}, NEW size \in Nat, NEW i \in 1 .. k, NEW j \in 1 .. size
  PROVE  /\ (i - 1) * size \in Nat /\ (i - 1) * size + j \in 1 .. k * size
         /\ i * size - ((i - 1) * size + 1) + 1 = size
         /\ j + ((i - 1) * size + 1) - 1 = (i - 1) * size + j
<1>1. PICK e \in Nat, a \in Nat : k = i + e /\ i = a + 1
  <2>1. k - i \in Nat /\ i - 1 \in Nat  OBVIOUS
  <2>2. k = i + (k - i) /\ i = (i - 1) + 1  OBVIOUS
  <2> QED  BY <2>1, <2>2
<1>2. PICK x \in Nat, y \in Nat : x = a * size /\ y = e * size  OBVIOUS
<1>3. i - 1 = a  BY <1>1
<1>4. i * size = x + size  BY <1>1, <1>2
<1>5. k * size = x + size + y  BY <1>1, <1>2, <1>4
<1> QED  BY <1>2, <1>3, <1>4, <1>5

\* L gives the sum of part i.
PartAs(L, m, perm, k, i) == \A v \in [1 .. m -> Int] : PartSums(v, perm, k)[i] = L[v]

(* The sum of a part is that of the entries of its cut.                      *)
LEMMA PartIs ==
  ASSUME NEW k \in Nat \ {0}, NEW size \in Nat, NEW m \in Nat, m = k * size,
         NEW perm \in [1 .. m -> 1 .. m], NEW i \in 1 .. k
  PROVE  /\ Cut(perm, size, i) \in [1 .. size -> 1 .. m]
         /\ PartAs(PickSum(m, size, Cut(perm, size, i)), m, perm, k, i)
<1>1. Cut(perm, size, i) \in [1 .. size -> 1 .. m]
  <2>1. \A j \in 1 .. size : (i - 1) * size + j \in 1 .. m  BY PlaceIs
  <2>2. \A j \in 1 .. size : perm[(i - 1) * size + j] \in 1 .. m  BY <2>1
  <2> QED  BY <2>2 DEF Cut
<1>2. ASSUME NEW v \in [1 .. m -> Int]
      PROVE  PartSums(v, perm, k)[i] = Total([j \in 1 .. size |-> v[Cut(perm, size, i)[j]]])
  <2>1. Len(v) = m  OBVIOUS
  <2>2. Len(v) \div k = size
    <3>1. m = k * size + 0 /\ 0 \in 0 .. k - 1 /\ m \in Int /\ size \in Int  OBVIOUS
    <3> QED  BY <2>1, <3>1, DivUnique
  <2>3. PICK w : w = [j \in 1 .. m |-> v[perm[j]]]  OBVIOUS
  <2>4. DivideGrad(v, perm, k)[i] = SubSeq(w, (i - 1) * size + 1, IF i < k THEN i * size ELSE m)
    BY <2>1, <2>2, <2>3 DEF DivideGrad
  <2>5. (IF i < k THEN i * size ELSE m) = i * size
    <3>1. i < k \/ i = k  OBVIOUS
    <3> QED  BY <3>1
  <2>6. PICK a \in Nat, b \in Int : a = (i - 1) * size /\ b = i * size /\ b - a = size
    <3>1. i - 1 \in Nat /\ i = (i - 1) + 1  OBVIOUS
    <3>2. PICK c \in Nat : c = i - 1 /\ i = c + 1  BY <3>1
    <3>3. PICK x \in Nat : x = c * size  OBVIOUS
    <3>4. i * size = x + size  BY <3>2, <3>3
    <3> QED  BY <3>2, <3>3, <3>4
  <2>7. SubSeq(w, a + 1, b) = [j \in 1 .. size |-> w[a + j]]
    <3>1. SubSeq(w, a + 1, b) = [j \in 1 .. (1 + b) - (a + 1) |-> w[(j + (a + 1)) - 1]]
      OBVIOUS
    <3>2. (1 + b) - (a + 1) = size  BY <2>6
    <3>3. \A j \in 1 .. size : (j + (a + 1)) - 1 = a + j  BY <2>6
    <3> QED  BY <3>1, <3>2, <3>3
  <2>8. \A j \in 1 .. size : w[a + j] = v[Cut(perm, size, i)[j]]
    <3>1. \A j \in 1 .. size : a + j \in 1 .. m  BY <2>6, PlaceIs
    <3> QED  BY <2>3, <2>6, <3>1 DEF Cut
  <2>9. DivideGrad(v, perm, k)[i] = [j \in 1 .. size |-> v[Cut(perm, size, i)[j]]]
    BY <2>4, <2>5, <2>6, <2>7, <2>8
  <2> QED  BY <2>9 DEF PartSums
<1> QED  BY <1>1, <1>2 DEF PickSum, PartAs

(* The sums of parts are linear forms.                                       *)
LEMMA PartLinear ==
  ASSUME NEW k \in Nat \ {0}, NEW size \in Nat, NEW m \in Nat, m = k * size,
         NEW perm \in [1 .. m -> 1 .. m], NEW i \in 1 .. k
  PROVE  \E L : Linear(L, m) /\ PartAs(L, m, perm, k, i)
<1>1. Cut(perm, size, i) \in [1 .. size -> 1 .. m]  BY PartIs
<1>2. Linear(PickSum(m, size, Cut(perm, size, i)), m)  BY <1>1, PickSumLinear
<1>3. PartAs(PickSum(m, size, Cut(perm, size, i)), m, perm, k, i)  BY PartIs
<1> QED  BY <1>2, <1>3

(* And so are those of halves.                                               *)
LEMMA HalfLinear ==
  ASSUME NEW m \in Nat, NEW i \in 1 .. 2
  PROVE  \E L : Linear(L, m) /\ \A v \in [1 .. m -> Int] : Halves(v)[i] = L[v]
<1>1. PICK a \in Nat : a = m \div 2 /\ a <= m
  <2>1. m \div 2 \in Nat /\ m \div 2 <= m  OBVIOUS
  <2> QED  BY <2>1
<1>2. PICK b \in Nat : m = a + b
  <2>1. m - a \in Nat /\ m = a + (m - a)  BY <1>1
  <2> QED  BY <2>1
<1>3. PICK f \in [1 .. a -> 1 .. m] : \A j \in 1 .. a : f[j] = j
  <2>1. [j \in 1 .. a |-> j] \in [1 .. a -> 1 .. m]  BY <1>1
  <2> QED  BY <2>1
<1>4. PICK g \in [1 .. b -> 1 .. m] : \A j \in 1 .. b : g[j] = a + j
  <2>1. [j \in 1 .. b |-> a + j] \in [1 .. b -> 1 .. m]  BY <1>2
  <2> QED  BY <2>1
<1>5. Linear(PickSum(m, a, f), m) /\ Linear(PickSum(m, b, g), m)  BY PickSumLinear
<1>6. ASSUME NEW v \in [1 .. m -> Int]
      PROVE  Halves(v)[1] = PickSum(m, a, f)[v] /\ Halves(v)[2] = PickSum(m, b, g)[v]
  <2>1. Len(v) = m  OBVIOUS
  <2>2. SubSeq(v, 1, a) = [j \in 1 .. a |-> v[f[j]]]
    <3>1. SubSeq(v, 1, a) = [j \in 1 .. (1 + a) - 1 |-> v[(j + 1) - 1]]  OBVIOUS
    <3>2. (1 + a) - 1 = a /\ \A j \in 1 .. a : (j + 1) - 1 = j  OBVIOUS
    <3> QED  BY <1>3, <3>1, <3>2
  <2>3. SubSeq(v, a + 1, m) = [j \in 1 .. b |-> v[g[j]]]
    <3>1. SubSeq(v, a + 1, m) = [j \in 1 .. (1 + m) - (a + 1) |-> v[(j + (a + 1)) - 1]]
      OBVIOUS
    <3>2. (1 + m) - (a + 1) = b /\ \A j \in 1 .. b : (j + (a + 1)) - 1 = a + j  BY <1>2
    <3> QED  BY <1>4, <3>1, <3>2
  <2> QED  BY <1>1, <2>1, <2>2, <2>3 DEF Halves, PickSum
<1>7. CASE i = 1  BY <1>5, <1>6, <1>7
<1>8. CASE i = 2  BY <1>5, <1>6, <1>8
<1> QED  BY <1>7, <1>8

-----------------------------------------------------------------------------
(* Sampling (avc.py).                                                        *)

(* The product of commitments is the commitment to the sum.                  *)
LEMMA MulIs ==
  ASSUME NEW k \in 1 .. Len(G), NEW n \in Nat \ {0}, NEW x \in [1 .. n -> [1 .. k -> Int]],
         NEW t \in [1 .. k -> Int],
         \A i \in 1 .. k : t[i] = Total([c \in 1 .. n |-> x[c][i]])
  PROVE  Mul([c \in 1 .. n |-> Commit(x[c])]) = Commit(t)
<1>0. Len(G) \in Nat /\ k \in Nat /\ k \in 0 .. Len(G)
  <2>1. Len(G) \in Nat  BY GeneratorAssumption
  <2> QED  BY <2>1
<1>1. PICK cs : cs = [c \in 1 .. n |-> Commit(x[c])]  OBVIOUS
<1>2. \A c \in 1 .. n : cs[c] \in 1 - P .. -1 /\ cs[c] \in Int
  <2>1. \A c \in 1 .. n : cs[c] \in 1 - P .. -1
    <3> SUFFICES ASSUME NEW c \in 1 .. n PROVE cs[c] \in 1 - P .. -1
      OBVIOUS
    <3>1. x[c] \in [1 .. k -> Int]  OBVIOUS
    <3> QED  BY <1>1, <3>1, CommitRange
  <2>2. \A y \in 1 - P .. -1 : y \in Int  BY ModulusIs
  <2> QED  BY <2>1, <2>2
<1>3. PICK q \in Nat : n = q + 1
  <2>1. n - 1 \in Nat /\ n = (n - 1) + 1  OBVIOUS
  <2> QED  BY <2>1
<1>4. PICK f \in [1 .. q -> Int] : \A j \in 1 .. q : f[j] = cs[j + 1]
  <2>1. \A j \in 1 .. q : cs[j + 1] \in Int
    <3>1. \A j \in 1 .. q : j + 1 \in 1 .. n  BY <1>3
    <3> QED  BY <1>2, <3>1
  <2>2. [j \in 1 .. q |-> cs[j + 1]] \in [1 .. q -> Int]  BY <2>1
  <2> QED  BY <2>2
<1>5. Head(cs) = cs[1] /\ Tail(cs) = f
  <2>1. cs \in Seq(Int) /\ cs # << >> /\ Len(cs) = n
    <3>1. cs \in [1 .. n -> Int]  BY <1>1, <1>2
    <3> QED  BY <3>1
  <2>2. Len(Tail(cs)) = q /\ Tail(cs) \in Seq(Int)  BY <1>3, <2>1
  <2>3. \A j \in 1 .. q : Tail(cs)[j] = cs[j + 1]  BY <1>3, <2>1
  <2>4. Tail(cs) = [j \in 1 .. q |-> Tail(cs)[j]] /\ f = [j \in 1 .. q |-> f[j]]
    <3>1. \A s \in Seq(Int) : Len(s) = q => s = [j \in 1 .. q |-> s[j]]  OBVIOUS
    <3> QED  BY <2>2, <3>1
  <2>5. Tail(cs) = f  BY <1>4, <2>3, <2>4
  <2> QED  BY <2>1, <2>5
<1>6. 1 \in 1 .. n /\ cs[1] \in Int
  <2>1. 1 \in 1 .. n  OBVIOUS
  <2> QED  BY <1>2, <2>1
<1>7. PICK h : RunsProduct(h, q, cs[1], f) /\ Product(cs[1], f) = h[q]
  <2>1. PICK y \in Int : y = cs[1]  BY <1>6
  <2> QED  BY <2>1, ProductIs
<1>8. Mul(cs) = h[q]  BY <1>5, <1>7 DEF Mul
<1> DEFINE column(i) == [c \in 1 .. n |-> x[c][i]]
<1>9. \A i \in 1 .. k : column(i) \in [1 .. n -> Int]
  <2>1. \A i \in 1 .. k, c \in 1 .. n : x[c][i] \in Int
    <3>1. \A c \in 1 .. n : x[c] \in [1 .. k -> Int]  OBVIOUS
    <3> QED  BY <3>1
  <2> QED  BY <2>1
<1>10. \A i \in 1 .. k : \E r : RunsTotal(r, n, column(i)) /\ t[i] = r[n]
  <2> SUFFICES ASSUME NEW i \in 1 .. k
               PROVE  \E r : RunsTotal(r, n, column(i)) /\ t[i] = r[n]
    OBVIOUS
  <2>1. PICK y \in [1 .. n -> Int] : y = column(i)  BY <1>9
  <2> HIDE DEF column
  <2>2. \E r : RunsTotal(r, n, y) /\ Total(y) = r[n]  BY TotalIs
  <2>3. t[i] = Total(y)  BY <2>1 DEF column
  <2> QED  BY <2>1, <2>2, <2>3
<1>11. PICK run : run = [i \in 1 .. k |-> CHOOSE r : RunsTotal(r, n, column(i)) /\ t[i] = r[n]]
  OBVIOUS
<1>12. \A i \in 1 .. k : RunsTotal(run[i], n, column(i)) /\ t[i] = run[i][n]
  <2> HIDE DEF column
  <2> QED  BY <1>10, <1>11
<1> DEFINE partial(j) == [i \in 1 .. k |-> run[i][j]]
<1>13. ASSUME NEW j \in 0 .. n PROVE partial(j) \in [1 .. k -> Int]
  <2>1. \A i \in 1 .. k : run[i][j] \in Int  BY <1>12 DEF RunsTotal
  <2> QED  BY <2>1
<1>14. ASSUME NEW j \in 1 .. n
       PROVE  \A i \in 1 .. k : partial(j)[i] = partial(j - 1)[i] + x[j][i]
  BY <1>12 DEF RunsTotal
<1>15. \A j \in 0 .. q : h[j] \in Int  BY <1>7 DEF RunsProduct
<1> DEFINE A == {j \in Nat : j \in 0 .. q => Same(h[j], Commit(partial(j + 1)))}
<1>16. 0 \in A
  <2>1. partial(0 + 1) = x[1]
    <3>1. \A i \in 1 .. k : partial(1)[i] = partial(0)[i] + x[1][i]
      <4>1. 1 - 1 = 0  OBVIOUS
      <4> QED  BY <1>6, <1>14, <4>1
    <3>2. \A i \in 1 .. k : partial(0)[i] = 0  BY <1>12 DEF RunsTotal
    <3>3. x[1] \in [1 .. k -> Int]  BY <1>6
    <3>4. \A i \in 1 .. k : partial(1)[i] = x[1][i]
      <4>1. \A i \in 1 .. k : x[1][i] \in Int  BY <3>3
      <4>2. ASSUME NEW i \in 1 .. k PROVE partial(1)[i] = x[1][i]
        <5>1. partial(1)[i] = partial(0)[i] + x[1][i]  BY <3>1
        <5>2. partial(0)[i] = 0  BY <3>2
        <5>3. 0 + x[1][i] = x[1][i]  BY <4>1
        <5> HIDE DEF partial
        <5> QED  BY <5>1, <5>2, <5>3
      <4> QED  BY <4>2
    <3>5. x[1] = [i \in 1 .. k |-> x[1][i]] /\ partial(1) = [i \in 1 .. k |-> partial(1)[i]]
      BY <3>3
    <3> QED  BY <3>4, <3>5
  <2>2. h[0] = cs[1] /\ cs[1] = Commit(x[1])  BY <1>1, <1>6, <1>7 DEF RunsProduct
  <2> QED  BY <2>1, <2>2 DEF Same, Cong
<1>17. ASSUME NEW j \in Nat, j \in A PROVE j + 1 \in A
  <2> SUFFICES ASSUME j + 1 \in 0 .. q PROVE Same(h[j + 1], Commit(partial((j + 1) + 1)))
    OBVIOUS
  <2>1. /\ j + 1 \in 1 .. q /\ (j + 1) - 1 = j /\ j \in 0 .. q /\ (j + 1) + 1 \in 1 .. n
        /\ ((j + 1) + 1) - 1 = j + 1 /\ j + 1 \in 0 .. n /\ (j + 1) + 1 \in 0 .. n
    BY <1>3
  <2>2. PICK v \in [1 .. k -> Int], w \in [1 .. k -> Int], u \in [1 .. k -> Int] :
          v = partial(j + 1) /\ w = x[(j + 1) + 1] /\ u = partial((j + 1) + 1)
    BY <1>13, <2>1
  <2>3. \A i \in 1 .. k : u[i] = v[i] + w[i]  BY <1>14, <2>1, <2>2
  <2>4. /\ Commit(v) \in Int /\ Commit(w) \in Int
        /\ Same(Commit(u), Commit(v) * Commit(w))
    <3>1. Same(Commit(u), Commit(v) * Commit(w))  BY <1>0, <2>3, CommitAdd
    <3>2. Commit(v) \in 1 - P .. -1 /\ Commit(w) \in 1 - P .. -1  BY CommitRange
    <3>3. Commit(v) \in Int /\ Commit(w) \in Int  BY <3>2
    <3> QED  BY <3>1, <3>3
  <2>5. h[j + 1] = CMod(h[j] * f[j + 1], P)  BY <1>7, <2>1 DEF RunsProduct
  <2>6. f[j + 1] = Commit(w)  BY <1>1, <1>4, <2>1, <2>2
  <2>7. Same(h[j], Commit(v))  BY <1>17, <2>1, <2>2
  <2>8. PICK a \in Int, b \in Int, c \in Int : a = h[j] /\ b = Commit(w) /\ c = Commit(v)
    BY <1>15, <2>1, <2>4
  <2>9. PICK y \in Int : y = a * b  OBVIOUS
  <2>10. Same(h[j + 1], a * b)  BY <2>5, <2>6, <2>8, <2>9, SameCMod
  <2>11. Same(a * b, c * b)
    <3>1. Same(a, c) /\ Same(b, b)  BY <2>7, <2>8 DEF Same, Cong
    <3> QED  BY <3>1, SameTimes
  <2> HIDE DEF partial
  <2> QED  BY <2>2, <2>4, <2>8, <2>10, <2>11 DEF Same, Cong
<1>18. Nat \subseteq A
  <2> HIDE DEF A
  <2> QED  BY <1>16, <1>17, Induction
<1>19. partial(q + 1) = t
  <2>1. \A i \in 1 .. k : partial(n)[i] = t[i]  BY <1>12
  <2>2. t = [i \in 1 .. k |-> t[i]] /\ partial(n) = [i \in 1 .. k |-> partial(n)[i]]
    OBVIOUS
  <2> QED  BY <1>3, <2>1, <2>2
<1>20. Same(h[q], Commit(t))
  <2>1. q \in 0 .. q /\ q \in A  BY <1>18
  <2> QED  BY <1>19, <2>1
<1>21. h[q] \in 1 - P .. 0
  <2>1. CASE q = 0
    <3>1. h[q] = cs[1]  BY <1>7, <2>1 DEF RunsProduct
    <3>2. cs[1] \in 1 - P .. -1  BY <1>2, <1>6
    <3> QED  BY <3>1, <3>2, ModulusIs
  <2>2. CASE q # 0
    <3>1. q \in 1 .. q /\ q - 1 \in 0 .. q  BY <2>2
    <3>2. h[q] = CMod(h[q - 1] * f[q], P)  BY <1>7, <3>1 DEF RunsProduct
    <3>3. PICK y \in Int : y = h[q - 1] * f[q]
      <4>1. h[q - 1] \in Int /\ f[q] \in Int  BY <1>15, <3>1
      <4>2. \A a \in Int, b \in Int : a * b \in Int  OBVIOUS
      <4> QED  BY <4>1, <4>2
    <3> QED  BY <3>2, <3>3, SameCMod
  <2> QED  BY <2>1, <2>2
<1>22. h[q] = Commit(t)
  <2>1. PICK y \in Int : y = Commit(t) /\ y \in 1 - P .. 0
    <3>1. Commit(t) \in 1 - P .. -1  BY CommitRange
    <3> QED  BY <3>1, ModulusIs
  <2>2. Same(y, y)  BY DEF Same, Cong
  <2>3. y = CMod(y, P)  BY <2>1, <2>2, SameCMod
  <2>4. h[q] = CMod(y, P)  BY <1>20, <1>21, <2>1, SameCMod
  <2> QED  BY <2>1, <2>3, <2>4
<1> QED  BY <1>1, <1>8, <1>22

\* The vectors are all of length m.
Wide(m) ==
  /\ m \in Nat
  /\ \A v \in Gradients \cup Deviations : v \in [1 .. m -> Int]
  /\ \A perm \in Shuffles : perm \in [1 .. m -> 1 .. m]

(* The permutations of a vector.                                             *)
LEMMA PermutationsAre ==
  ASSUME NEW m \in Nat
  PROVE  SetToSeqs(1 .. m) = {f \in [1 .. m -> 1 .. m] :
                                \A i, j \in 1 .. m : i # j => f[i] # f[j]}
<1>1. Cardinality(1 .. m) = m
  <2>1. 1 \in Int /\ m \in Int  OBVIOUS
  <2>2. Cardinality(1 .. m) = IF 1 > m THEN 0 ELSE m - 1 + 1  BY <2>1, FS_Interval
  <2> QED  BY <2>2
<1> QED  BY <1>1 DEF SetToSeqs

(* They are as long as the first gradient.                                   *)
LEMMA WidthIs ==
  ASSUME NEW v \in Gradients
  PROVE  Wide(Len(v))
<1>1. \A w \in Gradients \cup Deviations : w \in Seq(Int)  BY VectorAssumption
<1>2. v \in Seq(Int) /\ Len(v) \in Nat  BY <1>1
<1>3. ASSUME NEW w \in Gradients \cup Deviations PROVE w \in [1 .. Len(v) -> Int]
  <2>1. w \in Seq(Int) /\ Len(w) = Len(v)  BY <1>1, VectorAssumption
  <2> QED  BY <1>2, <2>1
<1>4. ASSUME NEW perm \in Shuffles PROVE perm \in [1 .. Len(v) -> 1 .. Len(v)]
  <2>1. perm \in SetToSeqs(1 .. Len(v))  BY VectorAssumption
  <2> QED  BY <1>2, <2>1, PermutationsAre
<1> QED  BY <1>2, <1>3, <1>4 DEF Wide

\* What is chosen at the start.
Chosen ==
  /\ grads \in [Clients -> Gradients]
  /\ \E d \in Deviations : claim = Add(Sum(grads), d)
  /\ sub_num \in SubNums

\* The vectors are of length m, and d is added to the true sum.
Claimed(m, d) ==
  /\ Wide(m) /\ Len(claim) = m /\ Len(grads[1]) = m /\ Len(grads) = NumClients
  /\ d \in Deviations /\ d \in [1 .. m -> Int]
  /\ Sum(grads) \in [1 .. m -> Int] /\ claim \in [1 .. m -> Int]
  /\ grads \in [1 .. NumClients -> [1 .. m -> Int]]
  /\ \A i \in 1 .. m : Sum(grads)[i] = Total([c \in 1 .. NumClients |-> grads[c][i]])
  /\ claim = [i \in 1 .. m |-> Sum(grads)[i] + d[i]]

(* The true sum and the claim.                                               *)
LEMMA ClaimIs ==
  ASSUME Chosen
  PROVE  \E m, d : Claimed(m, d)
<1>1. NumClients \in Nat \ {0} /\ 1 \in Clients  BY BoundsAssumption DEF Clients
<1>2. grads[1] \in Gradients  BY <1>1 DEF Chosen
<1>3. PICK m : m = Len(grads[1]) /\ Wide(m)  BY <1>2, WidthIs
<1>4. m \in Nat /\ \A c \in 1 .. NumClients : grads[c] \in [1 .. m -> Int]
  BY <1>3 DEF Wide, Chosen, Clients
<1>5. Len(grads) = NumClients /\ grads \in [1 .. NumClients -> [1 .. m -> Int]]
  BY <1>1, <1>4 DEF Chosen, Clients
<1>6. DOMAIN grads[1] = 1 .. m  BY <1>1, <1>4
<1>7. PICK s : s = Sum(grads)  OBVIOUS
<1>8. s = [i \in 1 .. m |-> Total([c \in 1 .. NumClients |-> grads[c][i]])]
  BY <1>5, <1>6, <1>7 DEF Sum
<1>9. ASSUME NEW i \in 1 .. m PROVE Total([c \in 1 .. NumClients |-> grads[c][i]]) \in Int
  <2>1. PICK f : f = [c \in 1 .. NumClients |-> grads[c][i]]  OBVIOUS
  <2>2. f \in [1 .. NumClients -> Int]
    <3>1. \A c \in 1 .. NumClients : grads[c][i] \in Int  BY <1>4
    <3> QED  BY <2>1, <3>1
  <2>3. Total(f) \in Int  BY <1>1, <2>2, TotalSmall
  <2> QED  BY <2>1, <2>3
<1>10. s \in [1 .. m -> Int]  BY <1>8, <1>9
<1>11. PICK d \in Deviations : claim = Add(s, d)  BY <1>7 DEF Chosen
<1>12. d \in [1 .. m -> Int]  BY <1>3 DEF Wide
<1>13. claim = [i \in 1 .. m |-> s[i] + d[i]]  BY <1>10, <1>11 DEF Add
<1>14. claim \in [1 .. m -> Int]
  <2>1. \A i \in 1 .. m : s[i] + d[i] \in Int
    <3>1. \A i \in 1 .. m : s[i] \in Int /\ d[i] \in Int  BY <1>10, <1>12
    <3> QED  BY <3>1
  <2> QED  BY <1>13, <2>1
<1>15. Len(claim) = m  BY <1>4, <1>14
<1>16. \A i \in 1 .. m : s[i] = Total([c \in 1 .. NumClients |-> grads[c][i]])  BY <1>8
<1>17. /\ Wide(m) /\ Len(claim) = m /\ Len(grads[1]) = m /\ Len(grads) = NumClients
       /\ d \in Deviations /\ d \in [1 .. m -> Int]
       /\ s \in [1 .. m -> Int] /\ claim \in [1 .. m -> Int]
       /\ grads \in [1 .. NumClients -> [1 .. m -> Int]]
       /\ claim = [i \in 1 .. m |-> s[i] + d[i]]
  BY <1>3, <1>5, <1>10, <1>12, <1>13, <1>14, <1>15
<1> QED  BY <1>7, <1>16, <1>17 DEF Claimed

(* How the sums of parts of the claim, of the true sum and of the gradients  *)
(* go together.                                                              *)
LEMMA PartsGoTogether ==
  ASSUME Chosen, Even(claim, sub_num), NEW perm, perm \in [1 .. Len(claim) -> 1 .. Len(claim)]
  PROVE  /\ \A c \in Clients : PartSums(grads[c], perm, sub_num) \in [1 .. sub_num -> Int]
         /\ PartSums(claim, perm, sub_num) \in [1 .. sub_num -> Int]
         /\ PartSums(Sum(grads), perm, sub_num) \in [1 .. sub_num -> Int]
         /\ \A i \in 1 .. sub_num :
              /\ PartSums(Sum(grads), perm, sub_num)[i] =
                   Total([c \in 1 .. NumClients |-> PartSums(grads[c], perm, sub_num)[i]])
              /\ \E d \in Deviations :
                   PartSums(claim, perm, sub_num)[i] =
                     PartSums(Sum(grads), perm, sub_num)[i] + PartSums(d, perm, sub_num)[i]
<1>0. PICK k \in Nat \ {0} : k = sub_num
  <2>1. sub_num \in 2 .. Len(G)  BY VectorAssumption DEF Chosen
  <2> QED  BY <2>1
<1>1. PICK m, d : /\ Wide(m) /\ Len(claim) = m
                  /\ d \in Deviations /\ d \in [1 .. m -> Int]
                  /\ Sum(grads) \in [1 .. m -> Int] /\ claim \in [1 .. m -> Int]
                  /\ grads \in [1 .. NumClients -> [1 .. m -> Int]]
                  /\ \A i \in 1 .. m : Sum(grads)[i] = Total([c \in 1 .. NumClients |-> grads[c][i]])
                  /\ claim = [i \in 1 .. m |-> Sum(grads)[i] + d[i]]
  <2>1. PICK m, d : Claimed(m, d)  BY ClaimIs
  <2> QED  BY <2>1 DEF Claimed
<1>2. m \in Nat /\ perm \in [1 .. m -> 1 .. m]  BY <1>1 DEF Wide
<1>3. PICK size \in Nat : m = k * size
  <2>1. m % k = 0 /\ m \div k \in Nat /\ m = k * (m \div k) + (m % k)
    <3>1. m % k = 0  BY <1>0, <1>1 DEF Even
    <3>2. m \in Int /\ m \div k \in Int /\ m = k * (m \div k) + (m % k)  BY <1>2, DivMod
    <3>3. m \div k \in Nat  BY <1>2
    <3> QED  BY <3>1, <3>2, <3>3
  <2>2. PICK q \in Nat : q = m \div k  BY <2>1
  <2>3. m = k * q  BY <2>1, <2>2
  <2> QED  BY <2>3
<1>4. ASSUME NEW v \in [1 .. m -> Int], NEW i \in 1 .. k
      PROVE  PartSums(v, perm, k)[i] \in Int
  <2>1. PICK L : Linear(L, m) /\ PartAs(L, m, perm, k, i)  BY <1>2, <1>3, PartLinear
  <2> QED  BY <2>1 DEF Linear, PartAs
<1>5. ASSUME NEW v \in [1 .. m -> Int]
      PROVE  PartSums(v, perm, k) \in [1 .. k -> Int]
  <2>1. PICK a : a = PartSums(v, perm, k)  OBVIOUS
  <2>2. DOMAIN a = 1 .. k /\ a = [i \in 1 .. k |-> a[i]]  BY <2>1 DEF PartSums
  <2>3. \A i \in 1 .. k : a[i] \in Int  BY <1>4, <2>1
  <2> QED  BY <2>1, <2>2, <2>3
<1>6. \A c \in Clients : grads[c] \in [1 .. m -> Int]  BY <1>1 DEF Clients
<1>7. ASSUME NEW i \in 1 .. k
      PROVE  /\ PartSums(Sum(grads), perm, k)[i] =
                  Total([c \in 1 .. NumClients |-> PartSums(grads[c], perm, k)[i]])
             /\ PartSums(claim, perm, k)[i] =
                  PartSums(Sum(grads), perm, k)[i] + PartSums(d, perm, k)[i]
  <2>1. PICK L : Linear(L, m) /\ PartAs(L, m, perm, k, i)  BY <1>2, <1>3, PartLinear
  <2>2. PartSums(claim, perm, k)[i] =
          PartSums(Sum(grads), perm, k)[i] + PartSums(d, perm, k)[i]
    <3>1. PICK s \in [1 .. m -> Int] : s = Sum(grads)  BY <1>1
    <3>2. claim = [j \in 1 .. m |-> s[j] + d[j]]  BY <1>1, <3>1
    <3>5. d \in [1 .. m -> Int]  BY <1>1, Zenon
    <3>6. \A v \in [1 .. m -> Int], w \in [1 .. m -> Int] :
            L[[j \in 1 .. m |-> v[j] + w[j]]] = L[v] + L[w]
      BY <2>1, Zenon DEF Linear
    <3>7. L[[j \in 1 .. m |-> s[j] + d[j]]] = L[s] + L[d]  BY <3>5, <3>6, Zenon
    <3>3. L[claim] = L[s] + L[d]  BY <3>2, <3>7, Zenon
    <3>4. /\ PartSums(claim, perm, k)[i] = L[claim]
          /\ PartSums(s, perm, k)[i] = L[s] /\ PartSums(d, perm, k)[i] = L[d]
      BY <1>1, <2>1 DEF PartAs
    <3> QED  BY <3>1, <3>3, <3>4
  <2>3. L[Sum(grads)] = Total([c \in 1 .. NumClients |-> L[grads[c]]])
    <3>1. NumClients \in Nat  BY BoundsAssumption
    <3>2. PICK s \in [1 .. m -> Int], x \in [1 .. NumClients -> [1 .. m -> Int]] :
            s = Sum(grads) /\ x = grads
      BY <1>1
    <3>3. Sums(s, x, m, NumClients)  BY <1>1, <3>2 DEF Sums
    <3>4. PICK f : f = [c \in 1 .. NumClients |-> L[x[c]]]  OBVIOUS
    <3>5. Maps(f, L, x, NumClients)  BY <2>1, <3>4 DEF Linear, Maps
    <3>6. L[s] = Total(f)  BY <1>2, <2>1, <3>1, <3>3, <3>5, LinearTotal
    <3> QED  BY <3>2, <3>4, <3>6
  <2>4. \A c \in 1 .. NumClients : L[grads[c]] = PartSums(grads[c], perm, k)[i]
    BY <1>6, <2>1 DEF PartAs, Clients
  <2>5. [c \in 1 .. NumClients |-> L[grads[c]]] =
          [c \in 1 .. NumClients |-> PartSums(grads[c], perm, k)[i]]
    BY <2>4
  <2>6. L[Sum(grads)] = PartSums(Sum(grads), perm, k)[i]  BY <1>1, <2>1 DEF PartAs
  <2> QED  BY <2>2, <2>3, <2>5, <2>6
<1>8. \A c \in Clients : PartSums(grads[c], perm, k) \in [1 .. k -> Int]  BY <1>5, <1>6
<1>9. /\ PartSums(claim, perm, k) \in [1 .. k -> Int]
      /\ PartSums(Sum(grads), perm, k) \in [1 .. k -> Int]
  BY <1>1, <1>5
<1>10. \A i \in 1 .. k : \E e \in Deviations :
         PartSums(claim, perm, k)[i] = PartSums(Sum(grads), perm, k)[i] + PartSums(e, perm, k)[i]
  BY <1>1, <1>7
<1> QED  BY <1>0, <1>7, <1>8, <1>9, <1>10

(* A sample is accepted exactly if the sums of all its parts are those of    *)
(* the true sum.                                                             *)
LEMMA SampleIsExact ==
  ASSUME Chosen, Even(claim, sub_num), NEW perm \in Shuffles
  PROVE  /\ Mul([c \in 1 .. NumClients |-> BatchCommit(grads[c], perm, sub_num)]) =
              BatchCommit(claim, perm, sub_num)
            <=> Agrees(perm)
         /\ BatchCommit(claim, perm, sub_num) \in 1 - P .. -1
         /\ \A c \in Clients : BatchCommit(grads[c], perm, sub_num) \in 1 - P .. -1
<1>1. perm \in [1 .. Len(claim) -> 1 .. Len(claim)]
  <2>1. PICK m, d : Claimed(m, d)  BY ClaimIs
  <2> QED  BY <2>1 DEF Claimed, Wide
<1>2. PICK k \in 1 .. Len(G) : k = sub_num /\ k \in SubNums
  <2>1. sub_num \in SubNums /\ sub_num \in 2 .. Len(G)  BY VectorAssumption DEF Chosen
  <2>2. Len(G) \in Nat  BY GeneratorAssumption
  <2> QED  BY <2>1, <2>2
<1>3. PICK u \in [1 .. k -> Int], t \in [1 .. k -> Int] :
        u = PartSums(claim, perm, k) /\ t = PartSums(Sum(grads), perm, k)
  BY <1>1, <1>2, PartsGoTogether
<1>4. PICK x \in [1 .. NumClients -> [1 .. k -> Int]] :
        \A c \in 1 .. NumClients : x[c] = PartSums(grads[c], perm, k)
  <2>1. \A c \in 1 .. NumClients : PartSums(grads[c], perm, k) \in [1 .. k -> Int]
    BY <1>1, <1>2, PartsGoTogether DEF Clients
  <2>2. [c \in 1 .. NumClients |-> PartSums(grads[c], perm, k)]
          \in [1 .. NumClients -> [1 .. k -> Int]]
    BY <2>1
  <2> QED  BY <2>2
<1>5. NumClients \in Nat \ {0}  BY BoundsAssumption
<1>6. \A i \in 1 .. k : t[i] = Total([c \in 1 .. NumClients |-> x[c][i]])
  <2> SUFFICES ASSUME NEW i \in 1 .. k
               PROVE  t[i] = Total([c \in 1 .. NumClients |-> x[c][i]])
    OBVIOUS
  <2>1. t[i] = Total([c \in 1 .. NumClients |-> PartSums(grads[c], perm, k)[i]])
    BY <1>1, <1>2, <1>3, PartsGoTogether
  <2>2. [c \in 1 .. NumClients |-> PartSums(grads[c], perm, k)[i]] =
          [c \in 1 .. NumClients |-> x[c][i]]
    BY <1>4
  <2> QED  BY <2>1, <2>2
<1>7. Mul([c \in 1 .. NumClients |-> Commit(x[c])]) = Commit(t)
  BY <1>5, <1>6, MulIs
<1>8. [c \in 1 .. NumClients |-> Commit(x[c])] =
        [c \in 1 .. NumClients |-> BatchCommit(grads[c], perm, k)]
  BY <1>4 DEF BatchCommit
<1>9. \A i \in 1 .. k : u[i] - t[i] \in Parts
  <2> SUFFICES ASSUME NEW i \in 1 .. k PROVE u[i] - t[i] \in Parts
    OBVIOUS
  <2>1. PICK d \in Deviations : u[i] = t[i] + PartSums(d, perm, k)[i]
    BY <1>1, <1>2, <1>3, PartsGoTogether
  <2>2. PartSums(d, perm, k)[i] \in Parts  BY <1>2, PartAssumption
  <2>3. \A p \in Parts : p \in Int  BY BoundsAssumption DEF Parts
  <2>4. PICK p \in Int, q \in Int : p = PartSums(d, perm, k)[i] /\ q = t[i]  BY <2>2, <2>3
  <2>5. u[i] - t[i] = p  BY <2>1, <2>4
  <2> QED  BY <2>2, <2>4, <2>5
<1>10. Commit(u) = Commit(t) <=> \A i \in 1 .. k : u[i] = t[i]
  BY <1>2, <1>9, CommitBinds
<1>11. (\A i \in 1 .. k : u[i] = t[i]) <=> u = t
  <2>1. u = [i \in 1 .. k |-> u[i]] /\ t = [i \in 1 .. k |-> t[i]]  OBVIOUS
  <2> QED  BY <2>1
<1>12. Agrees(perm) <=> u = t  BY <1>2, <1>3 DEF Agrees
<1>13. BatchCommit(claim, perm, k) = Commit(u)  BY <1>3 DEF BatchCommit
<1>14. Commit(u) \in 1 - P .. -1  BY CommitRange
<1>15. ASSUME NEW c \in Clients PROVE BatchCommit(grads[c], perm, k) \in 1 - P .. -1
  <2>1. PICK y \in [1 .. k -> Int] : y = x[c]  BY DEF Clients
  <2>2. Commit(y) \in 1 - P .. -1  BY CommitRange
  <2>3. BatchCommit(grads[c], perm, k) = Commit(y)  BY <1>4, <2>1 DEF BatchCommit, Clients
  <2> QED  BY <2>2, <2>3
<1> QED  BY <1>2, <1>7, <1>8, <1>10, <1>11, <1>12, <1>13, <1>14, <1>15

\* What the sampling has got to.
SampleInv ==
  /\ Chosen
  /\ drawn \in Seq(Shuffles) /\ Len(drawn) <= MaxSamples
  /\ opened \in {"none", "accepted", "refused", "raised"}
  /\ opened \in {"accepted", "refused"} => (opened = "accepted" <=> BatchOpen(c_list, c_sum))
  /\ IF Even(claim, sub_num)
     THEN /\ c_list = [c \in Clients |->
                         [s \in 1 .. Len(drawn) |-> BatchCommit(grads[c], drawn[s], sub_num)]]
          /\ c_sum = [s \in 1 .. Len(drawn) |-> BatchCommit(claim, drawn[s], sub_num)]
          /\ opened # "raised"
     ELSE /\ c_list = [c \in Clients |-> << >>] /\ c_sum = << >>
          /\ opened \in {"none", "raised"} /\ (opened = "raised" <=> drawn # << >>)

(* It holds at the start.                                                    *)
LEMMA SampleStarts == Init => SampleInv
<1> SUFFICES ASSUME Init PROVE SampleInv
  OBVIOUS
<1>1. Chosen  BY DEF Init, Chosen
<1>2. drawn = << >> /\ c_list = [c \in Clients |-> << >>] /\ c_sum = << >> /\ opened = "none"
  BY DEF Init
<1>3. drawn \in Seq(Shuffles) /\ Len(drawn) = 0 /\ 0 <= MaxSamples
  BY <1>2, BoundsAssumption
<1>4. 1 .. Len(drawn) = {}  BY <1>3
<1>5. [s \in 1 .. Len(drawn) |-> BatchCommit(claim, drawn[s], sub_num)] = << >>
  BY <1>4
<1>6. \A c \in Clients :
        [s \in 1 .. Len(drawn) |-> BatchCommit(grads[c], drawn[s], sub_num)] = << >>
  BY <1>4
<1>7. [c \in Clients |-> [s \in 1 .. Len(drawn) |-> BatchCommit(grads[c], drawn[s], sub_num)]]
        = [c \in Clients |-> << >>]
  BY <1>6
<1> QED  BY <1>1, <1>2, <1>3, <1>5, <1>7 DEF SampleInv

(* A list of what there is for every element grows by one with the list.     *)
LEMMA MapAppends ==
  ASSUME NEW S, NEW T, NEW l \in Seq(S), NEW x \in S, NEW f \in [S -> T]
  PROVE  [s \in 1 .. Len(Append(l, x)) |-> f[Append(l, x)[s]]] =
           Append([s \in 1 .. Len(l) |-> f[l[s]]], f[x])
<1>1. PICK a : a = [s \in 1 .. Len(l) |-> f[l[s]]]  OBVIOUS
<1>2. a \in Seq(T) /\ Len(a) = Len(l) /\ \A s \in 1 .. Len(l) : a[s] = f[l[s]]
  <2>1. \A s \in 1 .. Len(l) : l[s] \in S  OBVIOUS
  <2>2. \A s \in 1 .. Len(l) : f[l[s]] \in T  BY <2>1
  <2>3. a \in [1 .. Len(l) -> T]  BY <1>1, <2>2
  <2>4. Len(l) \in Nat  OBVIOUS
  <2> QED  BY <1>1, <2>3, <2>4
<1>3. PICK n \in Nat : n = Len(l)  OBVIOUS
<1>4. PICK b : b = [s \in 1 .. n + 1 |-> f[Append(l, x)[s]]]  OBVIOUS
<1>5. Len(Append(l, x)) = n + 1  BY <1>3
<1>6. Append(a, f[x]) = [s \in 1 .. n + 1 |-> Append(a, f[x])[s]]
  <2>1. f[x] \in T  OBVIOUS
  <2>2. Append(a, f[x]) \in Seq(T) /\ Len(Append(a, f[x])) = n + 1  BY <1>2, <1>3, <2>1
  <2>3. \A q \in Seq(T) : q = [s \in 1 .. Len(q) |-> q[s]]  OBVIOUS
  <2> QED  BY <2>2, <2>3
<1>7. ASSUME NEW s \in 1 .. n + 1 PROVE b[s] = Append(a, f[x])[s]
  <2>1. CASE s \in 1 .. n
    <3>1. Append(l, x)[s] = l[s]  BY <1>3, <2>1
    <3>2. Append(a, f[x])[s] = a[s]  BY <1>2, <1>3, <2>1
    <3> QED  BY <1>2, <1>3, <1>4, <2>1, <3>1, <3>2
  <2>2. CASE s = n + 1
    <3>1. Append(l, x)[s] = x  BY <1>3, <2>2
    <3>2. Append(a, f[x])[s] = f[x]  BY <1>2, <1>3, <2>2
    <3> QED  BY <1>4, <3>1, <3>2
  <2>3. s \in 1 .. n \/ s = n + 1  BY <1>3
  <2> QED  BY <2>1, <2>2, <2>3
<1> QED  BY <1>1, <1>4, <1>5, <1>6, <1>7

(* Every step keeps it.                                                      *)
LEMMA SampleKept == SampleInv /\ [Next]_vars => SampleInv'
<1> SUFFICES ASSUME SampleInv, [Next]_vars PROVE SampleInv'
  OBVIOUS
<1>1. \A v, perm, k : BatchCommit(v, perm, k)' = BatchCommit(v, perm, k)
  BY DEF BatchCommit
<1>2. \A v, k : Even(v, k)' = Even(v, k)  BY DEF Even
<1>3. ASSUME UNCHANGED <<grads, claim, sub_num>> PROVE Chosen'
  BY <1>3 DEF SampleInv, Chosen, Sum, Add
<1>4. ASSUME UNCHANGED <<grads, claim, sub_num, samplingVars>> PROVE SampleInv'
  <2>1. Chosen'  BY <1>3, <1>4
  <2> QED  BY <1>4, <2>1 DEF SampleInv, samplingVars
<1>5. ASSUME NEW perm \in Shuffles, Sample(perm) PROVE SampleInv'
  <2>1. Chosen' /\ UNCHANGED <<grads, claim, sub_num>>  BY <1>3, <1>5 DEF Sample
  <2>2. opened = "none" /\ Len(drawn) < MaxSamples /\ drawn' = Append(drawn, perm)
    BY <1>5 DEF Sample
  <2>3. drawn \in Seq(Shuffles)  BY DEF SampleInv
  <2>4. drawn' \in Seq(Shuffles) /\ Len(drawn') <= MaxSamples /\ drawn' # << >>
    BY <2>2, <2>3, BoundsAssumption
  <2>5. CASE ~Even(claim, sub_num)
    <3>1. opened' = "raised" /\ UNCHANGED <<c_list, c_sum>>  BY <1>5, <2>5 DEF Sample
    <3>2. c_list = [c \in Clients |-> << >>] /\ c_sum = << >>  BY <2>5 DEF SampleInv
    <3> QED  BY <2>1, <2>4, <2>5, <3>1, <3>2 DEF SampleInv
  <2>6. CASE Even(claim, sub_num)
    <3>1. /\ c_list' = [c \in Clients |->
                          Append(c_list[c], BatchCommit(grads[c], perm, sub_num))]
          /\ c_sum' = Append(c_sum, BatchCommit(claim, perm, sub_num))
          /\ UNCHANGED opened
      BY <1>5, <2>6 DEF Sample
    <3>2. ASSUME NEW v
          PROVE  Append([s \in 1 .. Len(drawn) |-> BatchCommit(v, drawn[s], sub_num)],
                        BatchCommit(v, perm, sub_num)) =
                   [s \in 1 .. Len(drawn') |-> BatchCommit(v, drawn'[s], sub_num)]
      <4>1. PICK f : f = [p \in Shuffles |-> BatchCommit(v, p, sub_num)]  OBVIOUS
      <4>2. PICK T : f \in [Shuffles -> T]
        <5>1. f \in [Shuffles -> {BatchCommit(v, p, sub_num) : p \in Shuffles}]  BY <4>1
        <5> QED  BY <5>1
      <4>3. [s \in 1 .. Len(drawn') |-> f[drawn'[s]]] =
              Append([s \in 1 .. Len(drawn) |-> f[drawn[s]]], f[perm])
        BY <2>2, <2>3, <4>2, MapAppends
      <4>4. [s \in 1 .. Len(drawn) |-> f[drawn[s]]] =
              [s \in 1 .. Len(drawn) |-> BatchCommit(v, drawn[s], sub_num)]
        <5>1. \A s \in 1 .. Len(drawn) : drawn[s] \in Shuffles  BY <2>3
        <5> QED  BY <4>1, <5>1
      <4>5. [s \in 1 .. Len(drawn') |-> f[drawn'[s]]] =
              [s \in 1 .. Len(drawn') |-> BatchCommit(v, drawn'[s], sub_num)]
        <5>1. \A s \in 1 .. Len(drawn') : drawn'[s] \in Shuffles  BY <2>4
        <5> QED  BY <4>1, <5>1
      <4> QED  BY <4>1, <4>3, <4>4, <4>5
    <3>3. c_sum' = [s \in 1 .. Len(drawn') |-> BatchCommit(claim, drawn'[s], sub_num)]
      <4>1. c_sum = [s \in 1 .. Len(drawn) |-> BatchCommit(claim, drawn[s], sub_num)]
        BY <2>6 DEF SampleInv
      <4> QED  BY <3>1, <3>2, <4>1
    <3>4. c_list' = [c \in Clients |->
                       [s \in 1 .. Len(drawn') |-> BatchCommit(grads[c], drawn'[s], sub_num)]]
      <4>1. c_list = [c \in Clients |->
                        [s \in 1 .. Len(drawn) |-> BatchCommit(grads[c], drawn[s], sub_num)]]
        BY <2>6 DEF SampleInv
      <4>2. ASSUME NEW c \in Clients
            PROVE  Append(c_list[c], BatchCommit(grads[c], perm, sub_num)) =
                     [s \in 1 .. Len(drawn') |-> BatchCommit(grads[c], drawn'[s], sub_num)]
        <5>1. c_list[c] = [s \in 1 .. Len(drawn) |-> BatchCommit(grads[c], drawn[s], sub_num)]
          BY <4>1
        <5>2. PICK v : v = grads[c]  OBVIOUS
        <5> QED  BY <3>2, <5>1, <5>2
      <4> QED  BY <3>1, <4>2
    <3> QED  BY <1>1, <1>2, <2>1, <2>2, <2>4, <2>6, <3>1, <3>3, <3>4 DEF SampleInv
  <2> QED  BY <2>5, <2>6
<1>6. ASSUME OpenSamples PROVE SampleInv'
  <2>1. /\ opened = "none" /\ drawn # << >>
        /\ opened' = IF BatchOpen(c_list, c_sum) THEN "accepted" ELSE "refused"
        /\ UNCHANGED <<grads, claim, sub_num, drawn, c_list, c_sum>>
    BY <1>6 DEF OpenSamples
  <2>2. Chosen'  BY <1>3, <2>1
  <2>3. Even(claim, sub_num)  BY <2>1 DEF SampleInv
  <2> QED  BY <2>1, <2>2, <2>3 DEF SampleInv
<1>7. CASE UNCHANGED vars  BY <1>4, <1>7 DEF vars
<1>8. CASE Send \/ Mine \/ Ask  BY <1>4, <1>8 DEF Send, Mine, Ask
<1>9. CASE \E v \in StrayValues : SendStray(SumCtoSC(v)) \/ SendStray(CommittoSC(v))
  BY <1>4, <1>9 DEF SendStray
<1> QED  BY <1>5, <1>6, <1>7, <1>8, <1>9 DEF Next

(* What is accepted.                                                         *)
LEMMA SampleGives == SampleInv => SamplesExact
<1> SUFFICES ASSUME SampleInv PROVE SamplesExact
  OBVIOUS
<1>1. Chosen /\ drawn \in Seq(Shuffles)  BY DEF SampleInv
<1>2. opened = "raised" <=> drawn # << >> /\ ~Even(claim, sub_num)  BY DEF SampleInv
<1>3. ASSUME opened \in {"accepted", "refused"}
      PROVE  opened = "accepted" <=> \A s \in 1 .. Len(drawn) : Agrees(drawn[s])
  <2>1. Even(claim, sub_num)  BY <1>3 DEF SampleInv
  <2>2. /\ c_list = [c \in Clients |->
                       [s \in 1 .. Len(drawn) |-> BatchCommit(grads[c], drawn[s], sub_num)]]
        /\ c_sum = [s \in 1 .. Len(drawn) |-> BatchCommit(claim, drawn[s], sub_num)]
    BY <2>1 DEF SampleInv
  <2>3. Len(c_sum) = Len(drawn)
    <3>1. Len(drawn) \in Nat  BY <1>1
    <3> QED  BY <2>2, <3>1
  <2>4. Len(c_list) = NumClients  BY <2>2, BoundsAssumption DEF Clients
  <2>5. ASSUME NEW s \in 1 .. Len(drawn)
        PROVE  Mul([c \in 1 .. Len(c_list) |-> c_list[c][s]]) = c_sum[s] <=> Agrees(drawn[s])
    <3>1. drawn[s] \in Shuffles  BY <1>1
    <3>2. Mul([c \in 1 .. NumClients |-> BatchCommit(grads[c], drawn[s], sub_num)]) =
            BatchCommit(claim, drawn[s], sub_num)
          <=> Agrees(drawn[s])
      BY <1>1, <2>1, <3>1, SampleIsExact
    <3>3. [c \in 1 .. Len(c_list) |-> c_list[c][s]] =
            [c \in 1 .. NumClients |-> BatchCommit(grads[c], drawn[s], sub_num)]
      BY <2>2, <2>4 DEF Clients
    <3>4. c_sum[s] = BatchCommit(claim, drawn[s], sub_num)  BY <2>2
    <3> QED  BY <3>2, <3>3, <3>4
  <2>6. BatchOpen(c_list, c_sum) <=> \A s \in 1 .. Len(drawn) : Agrees(drawn[s])
    <3>1. PICK a : a = [s \in 1 .. Len(drawn) |-> Mul([c \in 1 .. Len(c_list) |-> c_list[c][s]])]
      OBVIOUS
    <3>2. BatchOpen(c_list, c_sum) <=> a = c_sum  BY <2>3, <3>1 DEF BatchOpen
    <3>3. a = c_sum <=> \A s \in 1 .. Len(drawn) : a[s] = c_sum[s]
      <4>1. a = [s \in 1 .. Len(drawn) |-> a[s]] /\ c_sum = [s \in 1 .. Len(drawn) |-> c_sum[s]]
        BY <2>2, <3>1
      <4> QED  BY <4>1
    <3>4. \A s \in 1 .. Len(drawn) : a[s] = c_sum[s] <=> Agrees(drawn[s])  BY <2>5, <3>1
    <3> QED  BY <3>2, <3>3, <3>4
  <2> QED  BY <1>3, <2>6 DEF SampleInv
<1> QED  BY <1>2, <1>3 DEF SamplesExact

(* avc.py: the samples are accepted exactly if the claim has the sums of the *)
(* true one in all parts of all samples, as the commitments to the clients'  *)
(* parts multiply to the commitment to the part of the sum, and two sums of  *)
(* a part never have one commitment.                                         *)
THEOREM SamplesAreExact == Spec => []SamplesExact
<1>1. Spec => []SampleInv  BY SampleStarts, SampleKept, PTL DEF Spec
<1> QED  BY <1>1, SampleGives, PTL

-----------------------------------------------------------------------------
(* The contract.                                                             *)

(* A sum of numbers that are not far from 0 is not far from 0.               *)
LEMMA TotalBound ==
  ASSUME NEW n \in Nat, NEW f \in [1 .. n -> Int], NEW b \in Nat,
         \A i \in 1 .. n : f[i] \in -b .. b
  PROVE  Total(f) \in -(n * b) .. n * b
<1>1. PICK a : RunsTotal(a, n, f) /\ Total(f) = a[n]  BY TotalIs
<1> DEFINE A == {k \in Nat : k \in 0 .. n => a[k] \in -(k * b) .. k * b}
<1>2. 0 \in A
  <2>1. a[0] = 0 /\ 0 * b = 0  BY <1>1 DEF RunsTotal
  <2> QED  BY <2>1
<1>3. ASSUME NEW k \in Nat, k \in A PROVE k + 1 \in A
  <2> SUFFICES ASSUME k + 1 \in 0 .. n PROVE a[k + 1] \in -((k + 1) * b) .. (k + 1) * b
    OBVIOUS
  <2>1. k + 1 \in 1 .. n /\ (k + 1) - 1 = k /\ k \in 0 .. n  OBVIOUS
  <2>2. a[k + 1] = a[k] + f[k + 1]  BY <1>1, <2>1 DEF RunsTotal
  <2>3. PICK x \in Nat : x = k * b /\ (k + 1) * b = x + b  OBVIOUS
  <2>4. PICK y \in Int, z \in Int : /\ y = a[k] /\ z = f[k + 1]
                                    /\ y \in -x .. x /\ z \in -b .. b
    BY <1>3, <2>1, <2>3
  <2>5. y + z \in -(x + b) .. x + b  BY <2>4
  <2>6. a[k + 1] = y + z  BY <2>2, <2>4
  <2> QED  BY <2>3, <2>5, <2>6
<1>4. Nat \subseteq A
  <2> HIDE DEF A
  <2> QED  BY <1>2, <1>3, Induction
<1> QED  BY <1>1, <1>4

(* Residues that are congruent are equal.                                    *)
LEMMA SameResidue ==
  ASSUME NEW x \in 0 .. P - 1, NEW y \in 0 .. P - 1, Same(x, y)
  PROVE  x = y
<1>1. P \in Nat \ {0} /\ x \in Int /\ y \in Int  BY ModulusIs
<1>2. x % P = x /\ y % P = y  BY <1>1, SmallMod
<1> QED  BY <1>2 DEF Same, Cong

(* No power is divided by P.                                                 *)
LEMMA PowerIsNotZero ==
  ASSUME NEW i \in 1 .. Len(G), NEW a \in Int
  PROVE  Power(i, a) % P # 0 /\ Power(i, a) # 0
<1>0. P \in Nat \ {0} /\ P > 1  BY ModulusIs
<1>1. PICK b \in Int : b = -a /\ a + b = 0  OBVIOUS
<1>2. PICK x \in Int, y \in Int : x = Power(i, a) /\ y = Power(i, b)  BY PowerIs
<1>3. Same(1, x * y)
  <2>1. Power(i, a + b) = 1
    <3>1. 0 \in Int  OBVIOUS
    <3> QED  BY <1>1, <3>1, PowerIs
  <2>2. Same(Power(i, a + b), Power(i, a) * Power(i, b))  BY PowerIs
  <2> QED  BY <1>2, <2>1, <2>2
<1>4. x % P # 0
  <2> SUFFICES ASSUME x % P = 0 PROVE FALSE
    OBVIOUS
  <2>1. (x * y) % P = 0  BY <1>0, ModMultiple
  <2>2. 1 % P = 1
    <3>1. 1 \in Int /\ 1 \in 0 .. P - 1  BY <1>0
    <3> QED  BY <1>0, <3>1, SmallMod
  <2> QED  BY <1>3, <2>1, <2>2 DEF Same, Cong
<1>5. 0 % P = 0
  <2>1. 0 \in Int /\ 0 \in 0 .. P - 1  BY <1>0
  <2> QED  BY <1>0, <2>1, SmallMod
<1> QED  BY <1>2, <1>4, <1>5

(* The product of powers is the power of the sum.                            *)
LEMMA MulModsPower ==
  ASSUME NEW i \in 1 .. Len(G), NEW n \in Nat, NEW e \in [1 .. n -> Int],
         NEW f, f = [k \in 1 .. n |-> Power(i, e[k])]
  PROVE  MulMods(f) = Power(i, Total(e))
<1>0. P \in Nat \ {0}  BY ModulusIs
<1>1. \A k \in 1 .. n : Power(i, e[k]) \in Int
  <2> SUFFICES ASSUME NEW k \in 1 .. n PROVE Power(i, e[k]) \in Int
    OBVIOUS
  <2>1. PICK x \in Int : x = e[k]  OBVIOUS
  <2> QED  BY <2>1, PowerIs
<1>2. f \in [1 .. n -> Int]  BY <1>1
<1>3. PICK h : RunsMulMod(h, n, f) /\ MulMods(f) = h[n]  BY <1>2, MulModsIs
<1>4. PICK a : RunsTotal(a, n, e) /\ Total(e) = a[n]  BY TotalIs
<1> DEFINE A == {k \in Nat : k \in 0 .. n => h[k] = Power(i, a[k])}
<1>5. 0 \in A
  <2>1. h[0] = 1 /\ a[0] = 0  BY <1>3, <1>4 DEF RunsMulMod, RunsTotal
  <2>2. 0 \in Int  OBVIOUS
  <2> QED  BY <2>1, <2>2, PowerIs
<1>6. ASSUME NEW k \in Nat, k \in A PROVE k + 1 \in A
  <2> SUFFICES ASSUME k + 1 \in 0 .. n PROVE h[k + 1] = Power(i, a[k + 1])
    OBVIOUS
  <2>1. k + 1 \in 1 .. n /\ (k + 1) - 1 = k /\ k \in 0 .. n  OBVIOUS
  <2>2. PICK s \in Int, t \in Int : s = a[k] /\ t = e[k + 1]
    <3>1. a[k] \in Int /\ e[k + 1] \in Int  BY <1>4, <2>1 DEF RunsTotal
    <3> QED  BY <3>1
  <2>3. a[k + 1] = s + t /\ s + t \in Int  BY <1>4, <2>1, <2>2 DEF RunsTotal
  <2>4. PICK x \in Int, y \in Int : x = Power(i, s) /\ y = Power(i, t)  BY <2>2, PowerIs
  <2>5. h[k + 1] = (x * y) % P
    <3>1. h[k + 1] = (h[k] * f[k + 1]) % P  BY <1>3, <2>1 DEF RunsMulMod
    <3>2. h[k] = x  BY <1>6, <2>1, <2>2, <2>4
    <3>3. f[k + 1] = y  BY <2>1, <2>2, <2>4
    <3> QED  BY <3>1, <3>2, <3>3
  <2>6. PICK z \in 0 .. P - 1 : z = Power(i, s + t) /\ Same(z, x * y)
    <3>1. PICK st \in Int : st = s + t  BY <2>3
    <3>2. Power(i, st) \in 0 .. P - 1  BY <3>1, PowerIs
    <3>3. Same(Power(i, s + t), Power(i, s) * Power(i, t))  BY <2>2, PowerIs
    <3> QED  BY <2>4, <3>1, <3>2, <3>3
  <2>7. z % P = z
    <3>1. z \in Int  BY <1>0
    <3> QED  BY <1>0, <3>1, SmallMod
  <2> QED  BY <2>3, <2>5, <2>6, <2>7 DEF Same, Cong
<1>7. Nat \subseteq A
  <2> HIDE DEF A
  <2> QED  BY <1>5, <1>6, Induction
<1> QED  BY <1>3, <1>4, <1>7

(* The contract's product is the one of avc.py, reduced.                     *)
LEMMA MulModsProduct ==
  ASSUME NEW n \in Nat, NEW f \in [1 .. n -> Int]
  PROVE  MulMods(f) = Product(1, f) % P
<1>0. P \in Nat \ {0} /\ P > 1  BY ModulusIs
<1>1. PICK h : RunsMulMod(h, n, f) /\ MulMods(f) = h[n]  BY MulModsIs
<1>2. PICK g : RunsProduct(g, n, 1, f) /\ Product(1, f) = g[n]
  <2>1. 1 \in Int  OBVIOUS
  <2> QED  BY <2>1, ProductIs
<1> DEFINE A == {k \in Nat : k \in 0 .. n => h[k] = g[k] % P}
<1>3. 0 \in A
  <2>1. h[0] = 1 /\ g[0] = 1  BY <1>1, <1>2 DEF RunsMulMod, RunsProduct
  <2>2. 1 \in Int /\ 1 \in 0 .. P - 1  BY <1>0
  <2>3. 1 % P = 1  BY <1>0, <2>2, SmallMod
  <2> QED  BY <2>1, <2>3
<1>4. ASSUME NEW k \in Nat, k \in A PROVE k + 1 \in A
  <2> SUFFICES ASSUME k + 1 \in 0 .. n PROVE h[k + 1] = g[k + 1] % P
    OBVIOUS
  <2>1. k + 1 \in 1 .. n /\ (k + 1) - 1 = k /\ k \in 0 .. n  OBVIOUS
  <2>2. PICK x \in Int, y \in Int, z \in Int : x = h[k] /\ y = g[k] /\ z = f[k + 1]
    BY <1>1, <1>2, <2>1 DEF RunsMulMod, RunsProduct
  <2>3. h[k + 1] = (x * z) % P /\ g[k + 1] = CMod(y * z, P)
    BY <1>1, <1>2, <2>1, <2>2 DEF RunsMulMod, RunsProduct
  <2>4. Same(x, y)
    <3>1. x = y % P  BY <1>4, <2>1, <2>2
    <3> QED  BY <1>0, <3>1, CongMod DEF Same
  <2>5. Same(x * z, y * z)
    <3>1. Same(z, z)  BY DEF Same, Cong
    <3> QED  BY <2>4, <3>1, SameTimes
  <2>6. PICK w \in Int : w = y * z  OBVIOUS
  <2>7. Same(CMod(w, P), w)  BY SameCMod
  <2> QED  BY <2>3, <2>5, <2>6, <2>7 DEF Same, Cong
<1>5. Nat \subseteq A
  <2> HIDE DEF A
  <2> QED  BY <1>3, <1>4, Induction
<1> QED  BY <1>1, <1>2, <1>5

(* It is 0 exactly if P divides one of the factors.                          *)
LEMMA MulModsZero ==
  ASSUME NEW n \in Nat, NEW f \in [1 .. n -> Int]
  PROVE  MulMods(f) = 0 <=> \E k \in 1 .. n : f[k] % P = 0
<1>0. P \in Nat \ {0} /\ P \in Nat /\ P > 1 /\ Prime(P)  BY ModulusIs
<1>1. PICK h : RunsMulMod(h, n, f) /\ MulMods(f) = h[n]  BY MulModsIs
<1> DEFINE Some(k) == \E j \in 1 .. k : f[j] % P = 0
           A == {k \in Nat : k \in 0 .. n => h[k] \in 0 .. P - 1 /\ (h[k] = 0 <=> Some(k))}
<1>2. 0 \in A
  <2>1. h[0] = 1  BY <1>1 DEF RunsMulMod
  <2>2. ~Some(0) /\ 1 \in 0 .. P - 1  BY <1>0
  <2> HIDE DEF Some
  <2> QED  BY <2>1, <2>2
<1>3. ASSUME NEW k \in Nat, k \in A PROVE k + 1 \in A
  <2> SUFFICES ASSUME k + 1 \in 0 .. n
               PROVE  h[k + 1] \in 0 .. P - 1 /\ (h[k + 1] = 0 <=> Some(k + 1))
    OBVIOUS
  <2>1. k + 1 \in 1 .. n /\ (k + 1) - 1 = k /\ k \in 0 .. n  OBVIOUS
  <2>2. PICK x \in 0 .. P - 1, z \in Int : x = h[k] /\ z = f[k + 1] /\ (x = 0 <=> Some(k))
    <3> HIDE DEF Some
    <3> QED  BY <1>3, <2>1
  <2>3. h[k + 1] = (x * z) % P  BY <1>1, <2>1, <2>2 DEF RunsMulMod
  <2>4. x \in Int /\ x % P = x
    <3>1. x \in Int  BY <1>0
    <3> QED  BY <1>0, <3>1, SmallMod
  <2>5. (x * z) % P = 0 <=> x % P = 0 \/ z % P = 0
    <3>1. ASSUME (x * z) % P = 0, x % P # 0 PROVE z % P = 0
      BY <1>0, <2>4, <3>1, PrimeDivides
    <3>2. x % P = 0 \/ z % P = 0 => (x * z) % P = 0  BY <1>0, <2>4, ModMultiple
    <3> QED  BY <3>1, <3>2
  <2>6. PICK w \in Int : w = x * z  BY <2>4
  <2>7. w % P \in 0 .. P - 1  BY <1>0, CongMod
  <2>8. Some(k + 1) <=> Some(k) \/ z % P = 0
    <3>1. 1 .. k + 1 = (1 .. k) \cup {k + 1}  OBVIOUS
    <3> QED  BY <2>2, <3>1
  <2> HIDE DEF Some
  <2> QED  BY <2>2, <2>3, <2>4, <2>5, <2>6, <2>7, <2>8
<1>4. Nat \subseteq A
  <2> HIDE DEF A
  <2> QED  BY <1>2, <1>3, Induction
<1> QED  BY <1>1, <1>4

\* The exponents that cannot be told from 0 by their powers, but for 0.
Bound == (NumClients + MaxStray + 2) * ((NumClients + 1) * MaxPart)

(* Two powers are equal if the exponents are, when these are not too far     *)
(* apart.                                                                    *)
LEMMA PowerBinds ==
  ASSUME NEW i \in 1 .. 2, i \in 1 .. Len(G), NEW a \in Int, NEW b \in Int,
         a - b \in -Bound .. Bound
  PROVE  Power(i, a) = Power(i, b) <=> a = b
<1> SUFFICES ASSUME Power(i, a) = Power(i, b) PROVE a = b
  OBVIOUS
<1>0. P \in Nat \ {0} /\ P \in Nat /\ Prime(P) /\ P > 1  BY ModulusIs
<1>1. PICK e \in Int : e = a - b /\ a = b + e  OBVIOUS
<1>2. PICK x \in Int, y \in Int : x = Power(i, b) /\ y = Power(i, e) /\ y \in 0 .. P - 1
  <2>1. Power(i, b) \in Int  BY PowerIs
  <2>2. Power(i, e) \in 0 .. P - 1 /\ Power(i, e) \in Int  BY PowerIs
  <2> QED  BY <2>1, <2>2
<1>3. Same(x, x * y)
  <2>1. Same(Power(i, b + e), Power(i, b) * Power(i, e))  BY PowerIs
  <2> QED  BY <1>1, <1>2, <2>1
<1>4. Cong(P, x * y, x * 1)
  <2>1. x * 1 = x  OBVIOUS
  <2> QED  BY <1>3, <2>1 DEF Same, Cong
<1>5. x % P # 0  BY <1>2, PowerIsNotZero
<1>6. Same(y, 1)
  <2>1. 1 \in Int  OBVIOUS
  <2> QED  BY <1>0, <1>4, <1>5, <2>1, PrimeCancels DEF Same
<1>7. y = 1
  <2>1. 1 \in 0 .. P - 1  BY <1>0
  <2> QED  BY <1>2, <1>6, <2>1, SameResidue
<1>8. e = 0  BY <1>1, <1>2, <1>7, BindingAssumption DEF Bound
<1> QED  BY <1>1, <1>8

Calls == [call : {"SumCtoSC", "CommittoSC"}, numbers : Nat \X Nat]

\* The numbers carried by the first transactions, one by one.
RunsCarried(h, txs, call) ==
  /\ h \in [0 .. Len(txs) -> Seq(Nat \X Nat)] /\ h[0] = << >>
  /\ \A k \in 1 .. Len(txs) : h[k] = IF txs[k].call = call THEN Append(h[k - 1], txs[k].numbers)
                                     ELSE h[k - 1]

(* There is such a list.                                                     *)
LEMMA CarriedIs ==
  ASSUME NEW txs \in Seq(Calls), NEW call
  PROVE  \E h : RunsCarried(h, txs, call) /\ Carried(txs, call) = h[Len(txs)]
<1>0. PICK n \in Nat : n = Len(txs)  OBVIOUS
<1> DEFINE V == Seq(Nat \X Nat)
           step == [k \in Nat |-> [l \in V |->
                      IF k + 1 \in 1 .. n /\ txs[k + 1].call = call
                      THEN Append(l, txs[k + 1].numbers) ELSE l]]
           Loop(g) == g = [k \in 0 .. n |->
                             IF k = 0 THEN << >>
                             ELSE IF txs[k].call = call THEN Append(g[k - 1], txs[k].numbers)
                             ELSE g[k - 1]]
<1>1. \A k \in 1 .. n : txs[k] \in Calls /\ txs[k].numbers \in Nat \X Nat
  <2>1. \A k \in 1 .. n : txs[k] \in Calls  BY <1>0
  <2> QED  BY <2>1 DEF Calls
<1>2. step \in [Nat -> [V -> V]] /\ << >> \in V
  <2>1. ASSUME NEW k \in Nat, NEW l \in V, k + 1 \in 1 .. n
        PROVE  Append(l, txs[k + 1].numbers) \in V
    <3>1. txs[k + 1].numbers \in Nat \X Nat  BY <1>1, <2>1
    <3> QED  BY <3>1
  <2> QED  BY <2>1
<1>3. PICK p : p \in [Nat -> V] /\ p[0] = << >> /\ \A k \in Nat : p[k + 1] = step[k][p[k]]
  <2> HIDE DEF V, step
  <2>1. PICK p : Iterates(p, V, << >>, step)  BY <1>2, Iterate
  <2> QED  BY <2>1 DEF Iterates
<1>4. ASSUME NEW k \in 1 .. n
      PROVE  p[k] = IF txs[k].call = call THEN Append(p[k - 1], txs[k].numbers) ELSE p[k - 1]
  <2>1. PICK j \in Nat : k = j + 1 /\ j = k - 1
    <3>1. k - 1 \in Nat /\ k = (k - 1) + 1  OBVIOUS
    <3> QED  BY <3>1
  <2>2. p[j] \in V  BY <1>3
  <2>3. p[j + 1] = step[j][p[j]]  BY <1>3
  <2>4. step[j][p[j]] = IF txs[j + 1].call = call THEN Append(p[j], txs[j + 1].numbers) ELSE p[j]
    BY <2>1, <2>2
  <2> HIDE DEF step
  <2> QED  BY <2>1, <2>3, <2>4
<1> HIDE DEF step
<1>5. PICK g : g = [k \in 0 .. n |-> p[k]]  OBVIOUS
<1>6. Loop(g)
  <2>1. ASSUME NEW k \in 0 .. n
        PROVE  g[k] = IF k = 0 THEN << >>
                      ELSE IF txs[k].call = call THEN Append(g[k - 1], txs[k].numbers)
                      ELSE g[k - 1]
    <3>1. CASE k = 0  BY <1>3, <1>5, <3>1
    <3>2. CASE k # 0
      <4>1. k \in 1 .. n /\ k - 1 \in 0 .. n  BY <3>2
      <4>2. g[k] = p[k] /\ g[k - 1] = p[k - 1]  BY <1>5, <4>1
      <4> QED  BY <1>4, <3>2, <4>1, <4>2
    <3> QED  BY <3>1, <3>2
  <2>2. g = [k \in 0 .. n |-> g[k]]  BY <1>5
  <2> QED  BY <2>1, <2>2
<1> DEFINE i == CHOOSE g1 : Loop(g1)
<1>7. Loop(i)  BY <1>6
<1>8. Carried(txs, call) = i[n]  BY <1>0 DEF Carried
<1> HIDE DEF i
<1>9. i[0] = << >> /\ \A k \in 1 .. n :
        i[k] = IF txs[k].call = call THEN Append(i[k - 1], txs[k].numbers) ELSE i[k - 1]
  <2>1. 0 \in 0 .. n /\ \A k \in 1 .. n : k \in 0 .. n /\ k # 0  OBVIOUS
  <2>2. \A k \in 0 .. n : i[k] = IF k = 0 THEN << >>
                               ELSE IF txs[k].call = call THEN Append(i[k - 1], txs[k].numbers)
                               ELSE i[k - 1]
    BY <1>7
  <2> QED  BY <2>1, <2>2
<1>10. i \in [0 .. n -> V]
  <2> DEFINE A == {k \in Nat : k \in 0 .. n => i[k] \in V}
  <2>1. 0 \in A
    <3>1. i[0] \in V  BY <1>2, <1>9
    <3> HIDE DEF V
    <3> QED  BY <3>1
  <2>2. ASSUME NEW k \in Nat, k \in A PROVE k + 1 \in A
    <3> SUFFICES ASSUME k + 1 \in 0 .. n PROVE i[k + 1] \in V
      OBVIOUS
    <3>1. k + 1 \in 1 .. n /\ (k + 1) - 1 = k /\ i[k] \in V  BY <2>2
    <3>2. txs[k + 1].numbers \in Nat \X Nat  BY <1>1, <3>1
    <3>3. Append(i[k], txs[k + 1].numbers) \in V  BY <3>1, <3>2
    <3> QED  BY <1>9, <3>1, <3>3
  <2>3. Nat \subseteq A
    <3> HIDE DEF A
    <3> QED  BY <2>1, <2>2, Induction
  <2>4. DOMAIN i = 0 .. n /\ i = [k \in 0 .. n |-> i[k]]  BY <1>7
  <2> QED  BY <2>3, <2>4
<1> QED  BY <1>0, <1>8, <1>9, <1>10 DEF RunsCarried

(* What one more transaction does to it.                                     *)
LEMMA CarriedSteps ==
  ASSUME NEW txs \in Seq(Calls), NEW tx \in Calls, NEW call
  PROVE  /\ Carried(txs, call) \in Seq(Nat \X Nat) /\ Carried(<< >>, call) = << >>
         /\ Carried(Append(txs, tx), call) =
              IF tx.call = call THEN Append(Carried(txs, call), tx.numbers)
              ELSE Carried(txs, call)
<1>1. PICK a : RunsCarried(a, txs, call) /\ Carried(txs, call) = a[Len(txs)]  BY CarriedIs
<1>2. PICK n \in Nat, more \in Seq(Calls) :
        /\ n = Len(txs) /\ more = Append(txs, tx) /\ Len(more) = n + 1 /\ more[n + 1] = tx
        /\ \A k \in 1 .. n : more[k] = txs[k]
  <2>1. Len(txs) \in Nat /\ Append(txs, tx) \in Seq(Calls)  OBVIOUS
  <2>2. Len(Append(txs, tx)) = Len(txs) + 1 /\ Append(txs, tx)[Len(txs) + 1] = tx  OBVIOUS
  <2>3. \A k \in 1 .. Len(txs) : Append(txs, tx)[k] = txs[k]  OBVIOUS
  <2> QED  BY <2>1, <2>2, <2>3
<1>3. PICK b : RunsCarried(b, more, call) /\ Carried(more, call) = b[n + 1]
  <2>1. PICK b : RunsCarried(b, more, call) /\ Carried(more, call) = b[Len(more)]
    BY CarriedIs
  <2> QED  BY <1>2, <2>1
<1> DEFINE A == {k \in Nat : k \in 0 .. n => b[k] = a[k]}
<1>4. 0 \in A  BY <1>1, <1>3 DEF RunsCarried
<1>5. ASSUME NEW k \in Nat, k \in A PROVE k + 1 \in A
  <2> SUFFICES ASSUME k + 1 \in 0 .. n PROVE b[k + 1] = a[k + 1]
    OBVIOUS
  <2>1. /\ k + 1 \in 1 .. n /\ k + 1 \in 1 .. n + 1 /\ (k + 1) - 1 = k /\ k \in 0 .. n
    OBVIOUS
  <2>2. a[k + 1] = IF txs[k + 1].call = call THEN Append(a[k], txs[k + 1].numbers) ELSE a[k]
    BY <1>1, <1>2, <2>1 DEF RunsCarried
  <2>3. b[k + 1] = IF more[k + 1].call = call THEN Append(b[k], more[k + 1].numbers) ELSE b[k]
    BY <1>2, <1>3, <2>1 DEF RunsCarried
  <2> QED  BY <1>2, <1>5, <2>1, <2>2, <2>3
<1>6. Nat \subseteq A
  <2> HIDE DEF A
  <2> QED  BY <1>4, <1>5, Induction
<1>7. b[n + 1] = IF tx.call = call THEN Append(a[n], tx.numbers) ELSE a[n]
  <2>1. n + 1 \in 1 .. n + 1 /\ (n + 1) - 1 = n /\ n \in 0 .. n  OBVIOUS
  <2>2. b[n + 1] = IF more[n + 1].call = call THEN Append(b[n], more[n + 1].numbers) ELSE b[n]
    BY <1>2, <1>3, <2>1 DEF RunsCarried
  <2> QED  BY <1>2, <1>6, <2>1, <2>2
<1>8. Carried(txs, call) \in Seq(Nat \X Nat)
  <2>1. n \in 0 .. n  OBVIOUS
  <2> QED  BY <1>1, <1>2, <2>1 DEF RunsCarried
<1>9. Carried(<< >>, call) = << >>
  <2>1. << >> \in Seq(Calls) /\ Len(<< >>) = 0  OBVIOUS
  <2>2. PICK none \in Seq(Calls) : none = << >> /\ Len(none) = 0  BY <2>1
  <2>3. PICK c : RunsCarried(c, none, call) /\ Carried(none, call) = c[Len(none)]  BY CarriedIs
  <2> QED  BY <2>2, <2>3 DEF RunsCarried
<1> QED  BY <1>1, <1>2, <1>3, <1>7, <1>8, <1>9

(* No more is carried than there are transactions.                           *)
LEMMA CarriedLength ==
  ASSUME NEW txs \in Seq(Calls), NEW call
  PROVE  Len(Carried(txs, call)) <= Len(txs)
<1>1. PICK h : RunsCarried(h, txs, call) /\ Carried(txs, call) = h[Len(txs)]  BY CarriedIs
<1>2. PICK n \in Nat : n = Len(txs)  OBVIOUS
<1> DEFINE A == {z \in Nat : z \in 0 .. n => Len(h[z]) <= z}
<1>3. 0 \in A
  <2>1. h[0] = << >> /\ Len(<< >>) = 0  BY <1>1 DEF RunsCarried
  <2> QED  BY <2>1
<1>4. ASSUME NEW z \in Nat, z \in A PROVE z + 1 \in A
  <2> SUFFICES ASSUME z + 1 \in 0 .. n PROVE Len(h[z + 1]) <= z + 1
    OBVIOUS
  <2>1. z + 1 \in 1 .. n /\ (z + 1) - 1 = z /\ z \in 0 .. n  OBVIOUS
  <2>2. PICK l \in Seq(Nat \X Nat) : l = h[z]  BY <1>1, <1>2, <2>1 DEF RunsCarried
  <2>3. PICK x \in Nat \X Nat : x = txs[z + 1].numbers
    <3>1. txs[z + 1] \in Calls  BY <1>2, <2>1
    <3> QED  BY <3>1 DEF Calls
  <2>4. h[z + 1] = Append(l, x) \/ h[z + 1] = l
    BY <1>1, <1>2, <2>1, <2>2, <2>3 DEF RunsCarried
  <2>5. Len(Append(l, x)) = Len(l) + 1 /\ Len(l) \in Nat /\ Len(l) <= z
    BY <1>4, <2>1, <2>2
  <2> QED  BY <2>4, <2>5
<1>5. Nat \subseteq A
  <2> HIDE DEF A
  <2> QED  BY <1>3, <1>4, Induction
<1> QED  BY <1>1, <1>2, <1>5

Within(halves, limit) == halves \in Int \X Int /\ \A i \in 1 .. 2 : halves[i] \in -limit .. limit

(* The halves of the gradients and of the claim.                             *)
LEMMA HalvesGoTogether ==
  ASSUME Chosen
  PROVE  /\ \A c \in Clients : Within(Halves(grads[c]), MaxPart)
         /\ Within(Halves(claim), (NumClients + 1) * MaxPart)
         /\ Halves(Sum(grads)) \in Int \X Int
         /\ \A i \in 1 .. 2 : Halves(Sum(grads))[i] =
                                Total([c \in 1 .. NumClients |-> Halves(grads[c])[i]])
<1>0. NumClients \in Nat \ {0} /\ MaxPart \in Nat  BY BoundsAssumption
<1>1. PICK m, d : /\ Wide(m) /\ d \in Deviations /\ d \in [1 .. m -> Int]
                  /\ Sum(grads) \in [1 .. m -> Int] /\ claim \in [1 .. m -> Int]
                  /\ grads \in [1 .. NumClients -> [1 .. m -> Int]]
                  /\ \A i \in 1 .. m : Sum(grads)[i] = Total([c \in 1 .. NumClients |-> grads[c][i]])
                  /\ claim = [i \in 1 .. m |-> Sum(grads)[i] + d[i]]
  <2>1. PICK m, d : Claimed(m, d)  BY ClaimIs
  <2> QED  BY <2>1 DEF Claimed
<1>2. m \in Nat  BY <1>1 DEF Wide
<1>3. ASSUME NEW v \in Gradients \cup Deviations PROVE Within(Halves(v), MaxPart)
  <2>1. Halves(v) \in Parts \X Parts  BY PartAssumption
  <2>2. PICK x \in Parts, y \in Parts : Halves(v) = <<x, y>>  BY <2>1
  <2>3. x \in Int /\ y \in Int /\ x \in -MaxPart .. MaxPart /\ y \in -MaxPart .. MaxPart
    BY <1>0 DEF Parts
  <2>4. \A i \in 1 .. 2 : i = 1 \/ i = 2  OBVIOUS
  <2> QED  BY <2>2, <2>3, <2>4 DEF Within
<1>4. \A c \in Clients : Within(Halves(grads[c]), MaxPart)
  <2>1. \A c \in Clients : grads[c] \in Gradients  BY DEF Chosen
  <2> QED  BY <1>3, <2>1
<1>5. ASSUME NEW v \in [1 .. m -> Int] PROVE Halves(v) \in Int \X Int
  <2>1. PICK K : Linear(K, m) /\ \A w \in [1 .. m -> Int] : Halves(w)[1] = K[w]
    <3>1. 1 \in 1 .. 2  OBVIOUS
    <3> QED  BY <1>2, <3>1, HalfLinear
  <2>2. PICK L : Linear(L, m) /\ \A w \in [1 .. m -> Int] : Halves(w)[2] = L[w]
    <3>1. 2 \in 1 .. 2  OBVIOUS
    <3> QED  BY <1>2, <3>1, HalfLinear
  <2>3. K[v] \in Int /\ L[v] \in Int  BY <2>1, <2>2 DEF Linear
  <2>4. PICK x, y : Halves(v) = <<x, y>>  BY DEF Halves
  <2>5. x = K[v] /\ y = L[v]
    <3>1. Halves(v)[1] = x /\ Halves(v)[2] = y  BY <2>4
    <3> QED  BY <2>1, <2>2, <3>1
  <2> QED  BY <2>3, <2>4, <2>5
<1>6. ASSUME NEW i \in 1 .. 2
      PROVE  /\ Halves(Sum(grads))[i] = Total([c \in 1 .. NumClients |-> Halves(grads[c])[i]])
             /\ Halves(claim)[i] \in
                  -((NumClients + 1) * MaxPart) .. (NumClients + 1) * MaxPart
  <2>1. PICK L : Linear(L, m) /\ \A v \in [1 .. m -> Int] : Halves(v)[i] = L[v]
    BY <1>2, HalfLinear
  <2>2. PICK s, x : s = Sum(grads) /\ x = grads  OBVIOUS
  <2>3. Sums(s, x, m, NumClients)  BY <1>1, <2>2 DEF Sums
  <2>4. PICK f : f = [c \in 1 .. NumClients |-> L[x[c]]]  OBVIOUS
  <2>5. Maps(f, L, x, NumClients)
    <3>1. x \in [1 .. NumClients -> [1 .. m -> Int]]  BY <1>1, <2>2
    <3> QED  BY <2>1, <2>4, <3>1 DEF Linear, Maps
  <2>6. L[s] = Total(f)
    <3>1. NumClients \in Nat  BY <1>0
    <3> QED  BY <1>2, <2>1, <2>3, <2>5, <3>1, LinearTotal
  <2>7. \A c \in 1 .. NumClients : L[x[c]] = Halves(grads[c])[i]  BY <1>1, <2>1, <2>2
  <2>8. f = [c \in 1 .. NumClients |-> Halves(grads[c])[i]]  BY <2>4, <2>7
  <2>9. L[s] = Halves(Sum(grads))[i]  BY <1>1, <2>1, <2>2
  <2>10. \A c \in 1 .. NumClients : f[c] \in -MaxPart .. MaxPart
    BY <1>4, <2>8 DEF Within, Clients
  <2>11. Total(f) \in -(NumClients * MaxPart) .. NumClients * MaxPart
    <3>1. f \in [1 .. NumClients -> Int]  BY <2>5 DEF Maps
    <3>2. NumClients \in Nat  BY <1>0
    <3> QED  BY <1>0, <2>10, <3>1, <3>2, TotalBound
  <2>12. Halves(claim)[i] = L[s] + L[d]
    <3>1. Halves(claim)[i] = L[claim]  BY <1>1, <2>1
    <3>2. L[claim] = L[s] + L[d]  BY <1>1, <2>1, <2>2 DEF Linear
    <3> QED  BY <3>1, <3>2
  <2>13. L[d] \in -MaxPart .. MaxPart
    <3>1. L[d] = Halves(d)[i]  BY <1>1, <2>1
    <3>2. Within(Halves(d), MaxPart)  BY <1>1, <1>3
    <3> QED  BY <3>1, <3>2 DEF Within
  <2>14. PICK a \in Nat : a = NumClients * MaxPart /\ (NumClients + 1) * MaxPart = a + MaxPart
    BY <1>0
  <2>15. PICK y \in Int, z \in Int : /\ y = Total(f) /\ y \in -a .. a
                                     /\ z = L[d] /\ z \in -MaxPart .. MaxPart
    <3>1. \A u \in -a .. a : u \in Int  OBVIOUS
    <3>2. \A u \in -MaxPart .. MaxPart : u \in Int  BY <1>0
    <3> QED  BY <2>11, <2>13, <2>14, <3>1, <3>2
  <2>16. y + z \in -(a + MaxPart) .. a + MaxPart  BY <1>0, <2>15
  <2> QED  BY <2>6, <2>8, <2>9, <2>12, <2>14, <2>15, <2>16
<1>7. Halves(claim) \in Int \X Int /\ Halves(Sum(grads)) \in Int \X Int  BY <1>1, <1>5
<1> QED  BY <1>4, <1>6, <1>7 DEF Within

(* Generators enough for the two halves.                                     *)
LEMMA TwoGenerators == Chosen => \A i \in 1 .. 2 : i \in 1 .. Len(G)
<1> SUFFICES ASSUME Chosen PROVE \A i \in 1 .. 2 : i \in 1 .. Len(G)
  OBVIOUS
<1>1. sub_num \in 2 .. Len(G) /\ Len(G) \in Nat
  BY VectorAssumption, GeneratorAssumption DEF Chosen
<1> QED  BY <1>1

(* A commitment is two natural numbers.                                      *)
LEMMA CommitmentIs ==
  ASSUME Chosen, NEW h \in Int \X Int
  PROVE  Commitment(h) \in Nat \X Nat /\ \A i \in 1 .. 2 : Commitment(h)[i] = Power(i, h[i])
<1>1. PICK x \in Int, y \in Int : h = <<x, y>> /\ h[1] = x /\ h[2] = y  OBVIOUS
<1>2. 1 \in 1 .. Len(G) /\ 2 \in 1 .. Len(G)
  <2>1. 1 \in 1 .. 2 /\ 2 \in 1 .. 2  OBVIOUS
  <2> QED  BY <2>1, TwoGenerators
<1>3. PICK a \in Nat, b \in Nat : a = Power(1, x) /\ b = Power(2, y)
  <2>1. Power(1, x) \in 0 .. P - 1 /\ Power(2, y) \in 0 .. P - 1  BY <1>2, PowerIs
  <2>2. 0 .. P - 1 \subseteq Nat  BY ModulusIs
  <2> QED  BY <2>1, <2>2
<1>4. Commitment(h) = [i \in 1 .. 2 |-> IF i = 1 THEN a ELSE b]
  <2>1. \A i \in 1 .. 2 : i = 1 \/ i = 2  OBVIOUS
  <2>2. \A i \in 1 .. 2 : Power(i, h[i]) = IF i = 1 THEN a ELSE b  BY <1>1, <1>3, <2>1
  <2> QED  BY <2>2 DEF Commitment
<1>5. <<a, b>> = [i \in 1 .. 2 |-> IF i = 1 THEN a ELSE b]  OBVIOUS
<1>6. \A i \in 1 .. 2 : Commitment(h)[i] = Power(i, h[i])  BY DEF Commitment
<1> QED  BY <1>4, <1>5, <1>6

(* What the script sends, and what it carries.                               *)
LEMMA ScriptIs ==
  ASSUME Chosen
  PROVE  /\ Len(Script) = NumClients + 1
         /\ \A k \in 1 .. NumClients + 1 : Script[k] \in Calls
         /\ Carried(Script, "SumCtoSC") = <<Commitment(Halves(claim))>>
         /\ Carried(Script, "CommittoSC") =
              [c \in 1 .. NumClients |-> Commitment(Halves(grads[c]))]
<1>0. NumClients \in Nat \ {0} /\ MaxPart \in Nat  BY BoundsAssumption
<1>1. PICK n \in Nat : n = NumClients  BY <1>0
<1>2. PICK first : first = SumCtoSC(Commitment(Halves(claim))) /\ first \in Calls
                   /\ first.call = "SumCtoSC" /\ first.numbers = Commitment(Halves(claim))
  <2>1. PICK h \in Int \X Int : h = Halves(claim)  BY HalvesGoTogether DEF Within
  <2>2. PICK x \in Nat \X Nat : x = Commitment(h)  BY CommitmentIs
  <2>3. PICK tx : tx = SumCtoSC(x) /\ tx = [call |-> "SumCtoSC", numbers |-> x]
    BY DEF SumCtoSC
  <2> QED  BY <2>1, <2>2, <2>3 DEF Calls
<1>3. PICK rest : rest = [c \in 1 .. n |-> CommittoSC(Commitment(Halves(grads[c])))]  OBVIOUS
<1>4. ASSUME NEW c \in 1 .. n
      PROVE  /\ rest[c] \in Calls /\ rest[c].call = "CommittoSC"
             /\ rest[c].numbers = Commitment(Halves(grads[c]))
             /\ Commitment(Halves(grads[c])) \in Nat \X Nat
  <2>1. PICK h \in Int \X Int : h = Halves(grads[c])
    BY <1>1, HalvesGoTogether DEF Within, Clients
  <2>2. PICK x \in Nat \X Nat : x = Commitment(h)  BY CommitmentIs
  <2>3. PICK tx : tx = CommittoSC(x) /\ tx = [call |-> "CommittoSC", numbers |-> x]
    BY DEF CommittoSC
  <2>4. rest[c] = tx  BY <1>3, <2>1, <2>2, <2>3
  <2> QED  BY <2>1, <2>2, <2>3, <2>4 DEF Calls
<1>5. rest \in Seq(Calls) /\ Len(rest) = n
  <2>1. rest \in [1 .. n -> Calls]  BY <1>3, <1>4
  <2> QED  BY <2>1
<1>6. Script = <<first>> \o rest  BY <1>1, <1>2, <1>3 DEF Script, Clients
<1>7. /\ <<first>> \o rest \in Seq(Calls) /\ Len(<<first>> \o rest) = n + 1
      /\ (<<first>> \o rest)[1] = first
      /\ \A c \in 1 .. n : (<<first>> \o rest)[c + 1] = rest[c]
  <2>1. <<first>> \in Seq(Calls) /\ Len(<<first>>) = 1  BY <1>2
  <2> QED  BY <1>2, <1>5, <2>1
<1>8. PICK txs \in Seq(Calls) : /\ txs = Script /\ Len(txs) = n + 1 /\ txs[1] = first
                                  /\ \A c \in 1 .. n : txs[c + 1] = rest[c]
  BY <1>6, <1>7
<1>10. PICK a : RunsCarried(a, txs, "SumCtoSC") /\ Carried(txs, "SumCtoSC") = a[n + 1]
  BY <1>8, CarriedIs
<1>11. PICK b : RunsCarried(b, txs, "CommittoSC") /\ Carried(txs, "CommittoSC") = b[n + 1]
  BY <1>8, CarriedIs
<1>20. \A k \in 1 .. n + 1 :
         /\ a[k] = IF txs[k].call = "SumCtoSC" THEN Append(a[k - 1], txs[k].numbers)
                   ELSE a[k - 1]
         /\ b[k] = IF txs[k].call = "CommittoSC" THEN Append(b[k - 1], txs[k].numbers)
                   ELSE b[k - 1]
  BY <1>8, <1>10, <1>11 DEF RunsCarried
<1>21. a[0] = << >> /\ b[0] = << >>  BY <1>10, <1>11 DEF RunsCarried
<1> DEFINE Part(z) == [c \in 1 .. z |-> Commitment(Halves(grads[c]))]
           A == {z \in Nat : z \in 0 .. n => a[z + 1] = <<Commitment(Halves(claim))>> /\ b[z + 1] = Part(z)}
<1>12. 0 \in A
  <2>1. 1 \in 1 .. n + 1 /\ 1 - 1 = 0  OBVIOUS
  <2>2. a[1] = Append(a[0], first.numbers) /\ a[0] = << >>
    BY <1>2, <1>8, <1>20, <1>21, <2>1
  <2>3. b[1] = b[0] /\ b[0] = << >>
    BY <1>2, <1>8, <1>20, <1>21, <2>1
  <2>4. Part(0) = << >>  OBVIOUS
  <2>5. Append(<< >>, first.numbers) = <<first.numbers>>  OBVIOUS
  <2> HIDE DEF Part
  <2> QED  BY <1>2, <2>2, <2>3, <2>4, <2>5
<1>13. ASSUME NEW z \in Nat, z \in A PROVE z + 1 \in A
  <2> SUFFICES ASSUME z + 1 \in 0 .. n
               PROVE  a[(z + 1) + 1] = <<Commitment(Halves(claim))>> /\ b[(z + 1) + 1] = Part(z + 1)
    OBVIOUS
  <2>1. /\ z + 1 \in 1 .. n /\ z \in 0 .. n /\ (z + 1) + 1 \in 1 .. n + 1
        /\ ((z + 1) + 1) - 1 = z + 1
    OBVIOUS
  <2>2. txs[(z + 1) + 1] = rest[z + 1]  BY <1>8, <2>1
  <2>7. txs[(z + 1) + 1].call = "CommittoSC"
        /\ txs[(z + 1) + 1].numbers = Commitment(Halves(grads[z + 1]))
    BY <1>4, <2>1, <2>2
  <2>3. a[(z + 1) + 1] = a[z + 1]  BY <1>20, <2>1, <2>7
  <2>4. b[(z + 1) + 1] = Append(b[z + 1], Commitment(Halves(grads[z + 1])))  BY <1>20, <2>1, <2>7
  <2>5. a[z + 1] = <<Commitment(Halves(claim))>> /\ b[z + 1] = Part(z)  BY <1>13, <2>1
  <2>6. Append(Part(z), Commitment(Halves(grads[z + 1]))) = Part(z + 1)
    <3>1. \A c \in 1 .. n : Commitment(Halves(grads[c])) \in Nat \X Nat  BY <1>4
    <3>2. \A c \in 1 .. z + 1 : Commitment(Halves(grads[c])) \in Nat \X Nat  BY <2>1, <3>1
    <3>3. PICK p : p = Part(z)  OBVIOUS
    <3>4. p \in Seq(Nat \X Nat) /\ Len(p) = z
      <4>1. p \in [1 .. z -> Nat \X Nat]  BY <3>2, <3>3
      <4> QED  BY <4>1
    <3>5. PICK x \in Nat \X Nat : x = Commitment(Halves(grads[z + 1]))
      <4>1. z + 1 \in 1 .. z + 1  OBVIOUS
      <4> QED  BY <3>2, <4>1
    <3>6. PICK q : q = Append(p, x)  OBVIOUS
    <3>7. q = [c \in 1 .. z + 1 |-> q[c]]
      <4>1. q \in Seq(Nat \X Nat) /\ Len(q) = z + 1  BY <3>4, <3>6
      <4>2. \A t \in Seq(Nat \X Nat) : t = [c \in 1 .. Len(t) |-> t[c]]  OBVIOUS
      <4> QED  BY <4>1, <4>2
    <3>8. ASSUME NEW c \in 1 .. z + 1 PROVE q[c] = Commitment(Halves(grads[c]))
      <4>1. CASE c = z + 1  BY <3>4, <3>5, <3>6, <4>1
      <4>2. CASE c \in 1 .. z
        <5>1. q[c] = p[c]  BY <3>4, <3>6, <4>2
        <5> QED  BY <3>3, <4>2, <5>1
      <4>3. c = z + 1 \/ c \in 1 .. z  OBVIOUS
      <4> QED  BY <4>1, <4>2, <4>3
    <3>9. q = Part(z + 1)  BY <3>7, <3>8
    <3> HIDE DEF Part
    <3> QED  BY <3>3, <3>5, <3>6, <3>9
  <2> HIDE DEF Part
  <2> QED  BY <2>3, <2>4, <2>5, <2>6
<1>14. Nat \subseteq A
  <2> HIDE DEF A
  <2> QED  BY <1>12, <1>13, Induction
<1>15. a[n + 1] = <<Commitment(Halves(claim))>> /\ b[n + 1] = Part(n)
  <2>1. n \in 0 .. n /\ n \in A  BY <1>14
  <2> QED  BY <2>1
<1>16. \A k \in 1 .. n + 1 : txs[k] \in Calls  BY <1>8
<1> QED  BY <1>1, <1>8, <1>10, <1>11, <1>15, <1>16

\* What a verdict after txs should be: on the numbers, on zeros, and on what the
\* numbers commit to.
OnNumbers(sum, all, says) ==
  says <=> \A i \in 1 .. 2 : sum[i] = Product(1, [k \in 1 .. Len(all) |-> all[k][i]]) % P

OnZeros(sum, all, says) ==
  says => \A i \in 1 .. 2 : sum[i] = 0 <=> \E k \in 1 .. Len(all) : all[k][i] % P = 0

WellFormed(sum, all) ==
  \A i \in 1 .. 2 : Opens(i, sum[i]) /\ \A k \in 1 .. Len(all) : Opens(i, all[k][i])

OnHalves(sum, all, says) ==
  WellFormed(sum, all) =>
    (says <=> \A i \in 1 .. 2 :
       Opening(i, sum[i]) = Total([k \in 1 .. Len(all) |-> Opening(i, all[k][i])]))

Judged(txs, says) ==
  LET sum == LastSum(txs)
      all == Carried(txs, "CommittoSC")
  IN  OnNumbers(sum, all, says) /\ OnZeros(sum, all, says) /\ OnHalves(sum, all, says)

\* What the contract has got to.
ChainInv ==
  /\ Chosen
  /\ sent \in 0 .. NumClients + 1 /\ stray \in 0 .. MaxStray
  /\ pending \in Seq(Calls) /\ mined \in Seq(Calls)
  /\ Len(pending) + Len(mined) = sent + stray
  /\ commitData = Carried(mined, "CommittoSC")
  /\ c_sums = LastSum(mined)
  /\ \/ verdict = << >>
     \/ \E says \in BOOLEAN, after \in 0 .. Len(mined) :
          /\ verdict = <<[says |-> says, after |-> after]>>
          /\ Judged(SubSeq(mined, 1, after), says)

(* What a number that is a power opens to: the only small exponent there is. *)
LEMMA OpeningIs ==
  ASSUME NEW i \in 1 .. 2, i \in 1 .. Len(G), NEW e \in HalfSums
  PROVE  /\ Opens(i, Power(i, e)) /\ Opening(i, Power(i, e)) = e /\ e \in Int
         /\ e \in -((NumClients + 1) * MaxPart) .. (NumClients + 1) * MaxPart
<1>0. NumClients \in Nat \ {0} /\ MaxPart \in Nat /\ MaxStray \in Nat  BY BoundsAssumption
<1>1. PICK r \in Nat : r = (NumClients + 1) * MaxPart
  <2>1. \A u \in Nat, v \in Nat : u * v \in Nat  OBVIOUS
  <2>2. NumClients + 1 \in Nat  BY <1>0
  <2> QED  BY <1>0, <2>1, <2>2
<1>2. HalfSums = -r .. r  BY <1>1 DEF HalfSums
<1>3. Bound \in Nat /\ Bound >= 2 * r
  <2>1. PICK m \in Nat : NumClients + MaxStray + 2 = m + 2
    <3>1. NumClients + MaxStray \in Nat  BY <1>0
    <3> QED  BY <3>1
  <2>2. PICK z \in Nat : z = m * r
    <3>1. \A u \in Nat, v \in Nat : u * v \in Nat  OBVIOUS
    <3> QED  BY <3>1
  <2>3. (m + 2) * r = z + 2 * r  BY <2>2
  <2>4. Bound = z + 2 * r  BY <1>1, <2>1, <2>3 DEF Bound
  <2> QED  BY <2>4
<1>4. e \in Int /\ e \in -r .. r  BY <1>2
<1>5. \A d \in HalfSums : Power(i, d) = Power(i, e) => d = e
  <2> SUFFICES ASSUME NEW d \in HalfSums, Power(i, d) = Power(i, e) PROVE d = e
    OBVIOUS
  <2>1. d \in Int /\ d \in -r .. r  BY <1>2
  <2>2. d - e \in -Bound .. Bound  BY <1>3, <1>4, <2>1
  <2> QED  BY <1>4, <2>1, <2>2, PowerBinds
<1>6. Opens(i, Power(i, e))  BY DEF Opens
<1>7. Opening(i, Power(i, e)) = e  BY <1>5 DEF Opening
<1> QED  BY <1>1, <1>4, <1>6, <1>7

(* The last sum is two natural numbers.                                      *)
LEMMA LastSumIs ==
  ASSUME NEW txs \in Seq(Calls)
  PROVE  LastSum(txs) \in Nat \X Nat
<1>1. PICK l \in Seq(Nat \X Nat) : l = Carried(txs, "SumCtoSC")
  <2>1. PICK tx : tx = [call |-> "SumCtoSC", numbers |-> <<0, 0>>]  OBVIOUS
  <2>2. tx \in Calls  BY <2>1 DEF Calls
  <2>3. Carried(txs, "SumCtoSC") \in Seq(Nat \X Nat)  BY <2>2, CarriedSteps
  <2> QED  BY <2>3
<1>2. CASE l = << >>
  <2>1. LastSum(txs) = <<0, 0>>  BY <1>1, <1>2 DEF LastSum
  <2> QED  BY <2>1
<1>3. CASE l # << >>
  <2>1. LastSum(txs) = l[Len(l)]  BY <1>1, <1>3 DEF LastSum, Last
  <2>2. Len(l) \in 1 .. Len(l)  BY <1>3
  <2>3. l[Len(l)] \in Nat \X Nat  BY <2>2
  <2> QED  BY <2>1, <2>3
<1> QED  BY <1>2, <1>3

(* Numbers that open to small exponents are compared as these add up.        *)
LEMMA HalvesJudged ==
  ASSUME NEW i \in 1 .. 2, i \in 1 .. Len(G), NEW q \in Nat, q <= NumClients + 1 + MaxStray,
         NEW f \in [1 .. q -> Int], NEW x \in Int, Opens(i, x), \A k \in 1 .. q : Opens(i, f[k])
  PROVE  MulMods(f) = x <=> Opening(i, x) = Total([k \in 1 .. q |-> Opening(i, f[k])])
<1>0. NumClients \in Nat \ {0} /\ MaxPart \in Nat /\ MaxStray \in Nat  BY BoundsAssumption
<1>1. PICK r \in Nat : r = (NumClients + 1) * MaxPart
  <2>1. \A u \in Nat, v \in Nat : u * v \in Nat  OBVIOUS
  <2>2. NumClients + 1 \in Nat  BY <1>0
  <2> QED  BY <1>0, <2>1, <2>2
<1>2. PICK l \in HalfSums : Power(i, l) = x  BY DEF Opens
<1>3. Opening(i, x) = l /\ l \in Int /\ l \in -r .. r  BY <1>1, <1>2, OpeningIs
<1>4. PICK e : e = [k \in 1 .. q |-> Opening(i, f[k])]  OBVIOUS
<1>5. ASSUME NEW k \in 1 .. q
      PROVE  e[k] \in Int /\ e[k] \in -r .. r /\ f[k] = Power(i, e[k])
  <2>1. PICK d \in HalfSums : Power(i, d) = f[k]  BY DEF Opens
  <2>2. Opening(i, f[k]) = d /\ d \in Int /\ d \in -r .. r  BY <1>1, <2>1, OpeningIs
  <2> QED  BY <1>4, <2>1, <2>2
<1>6. e \in [1 .. q -> Int]  BY <1>4, <1>5
<1>7. f = [k \in 1 .. q |-> Power(i, e[k])]  BY <1>5
<1>8. MulMods(f) = Power(i, Total(e))  BY <1>6, <1>7, MulModsPower
<1>9. PICK w \in Nat : w = q * r
  <2>1. \A u \in Nat, v \in Nat : u * v \in Nat  OBVIOUS
  <2> QED  BY <2>1
<1>10. PICK t \in -w .. w : t = Total(e)  BY <1>5, <1>6, <1>9, TotalBound
<1>11. Bound \in Nat /\ Bound >= w + r
  <2>1. PICK m \in Nat : NumClients + MaxStray + 2 = q + 1 + m
    <3>1. PICK y \in Nat : y = NumClients + 1 + MaxStray  BY <1>0
    <3>2. y - q \in Nat /\ NumClients + MaxStray + 2 = q + 1 + (y - q)  BY <1>0, <3>1
    <3> QED  BY <3>2
  <2>2. PICK z \in Nat : z = m * r
    <3>1. \A u \in Nat, v \in Nat : u * v \in Nat  OBVIOUS
    <3> QED  BY <3>1
  <2>3. (q + 1 + m) * r = w + r + z  BY <1>9, <2>2
  <2>4. Bound = w + r + z  BY <1>1, <2>1, <2>3 DEF Bound
  <2> QED  BY <2>4
<1>12. t \in Int /\ t - l \in -Bound .. Bound
  <2>1. t \in Int /\ -w <= t /\ t <= w /\ -r <= l /\ l <= r  BY <1>3, <1>10
  <2> QED  BY <1>3, <1>11, <2>1
<1>13. Power(i, t) = Power(i, l) <=> t = l  BY <1>3, <1>12, PowerBinds
<1> QED  BY <1>2, <1>3, <1>4, <1>8, <1>10, <1>13

(* verifyCommitment judges what is mined.                                    *)
LEMMA VerifyIs ==
  ASSUME ChainInv
  PROVE  Judged(mined, VerifyCommitment)
<1>1. /\ NumClients \in Nat \ {0} /\ MaxStray \in Nat /\ \A i \in 1 .. 2 : i \in 1 .. Len(G)
      /\ mined \in Seq(Calls)
  BY BoundsAssumption, TwoGenerators DEF ChainInv
<1>2. PICK all \in Seq(Nat \X Nat) : all = Carried(mined, "CommittoSC")
  <2>1. PICK tx : tx = [call |-> "SumCtoSC", numbers |-> <<0, 0>>]  OBVIOUS
  <2>2. tx \in Calls  BY <2>1 DEF Calls
  <2>3. Carried(mined, "CommittoSC") \in Seq(Nat \X Nat)  BY <1>1, <2>2, CarriedSteps
  <2> QED  BY <2>3
<1>3. PICK q \in Nat : q = Len(all) /\ q <= NumClients + 1 + MaxStray
  <2>1. PICK p \in Nat, n \in Nat : p = Len(pending) /\ n = Len(mined) /\ p + n = sent + stray
    BY DEF ChainInv
  <2>2. sent <= NumClients + 1 /\ stray <= MaxStray /\ sent \in Int /\ stray \in Int
    BY <1>1 DEF ChainInv
  <2>3. n <= NumClients + 1 + MaxStray  BY <1>1, <2>1, <2>2
  <2>4. Len(all) <= n /\ Len(all) \in Nat  BY <1>1, <1>2, <2>1, CarriedLength
  <2>5. Len(all) <= NumClients + 1 + MaxStray  BY <1>1, <2>3, <2>4
  <2> QED  BY <2>4, <2>5
<1>4. PICK sum \in Nat \X Nat : sum = LastSum(mined)  BY <1>1, LastSumIs
<1>5. ASSUME NEW i \in 1 .. 2
      PROVE  \E f \in [1 .. q -> Int] :
               /\ f = [k \in 1 .. Len(all) |-> all[k][i]] /\ Column(i) = f
               /\ sum[i] \in Int /\ c_sums[i] = sum[i]
  <2>1. PICK f : f = [k \in 1 .. q |-> all[k][i]]  OBVIOUS
  <2>2. \A z \in Nat \X Nat : z[i] \in Int
    <3>1. \A z \in Nat \X Nat : z[1] \in Nat /\ z[2] \in Nat  OBVIOUS
    <3>2. i = 1 \/ i = 2  OBVIOUS
    <3> QED  BY <3>1, <3>2
  <2>3. \A k \in 1 .. q : all[k] \in Nat \X Nat  BY <1>3
  <2>4. f \in [1 .. q -> Int]
    <3>1. \A k \in 1 .. q : all[k][i] \in Int  BY <2>2, <2>3
    <3> QED  BY <2>1, <3>1
  <2>5. commitData = all /\ c_sums = sum  BY <1>2, <1>4 DEF ChainInv
  <2>6. Column(i) = f  BY <1>3, <2>1, <2>5 DEF Column
  <2> QED  BY <1>3, <2>1, <2>2, <2>4, <2>5, <2>6
<1>6. PICK says : says = VerifyCommitment /\ (says <=> \A i \in 1 .. 2 : MulMods(Column(i)) = sum[i])
  BY <1>5 DEF VerifyCommitment
<1>7. OnNumbers(sum, all, says)
  <2>1. ASSUME NEW i \in 1 .. 2
        PROVE  MulMods(Column(i)) = Product(1, [k \in 1 .. Len(all) |-> all[k][i]]) % P
    <3>1. PICK f \in [1 .. q -> Int] :
            f = [k \in 1 .. Len(all) |-> all[k][i]] /\ Column(i) = f
      BY <1>5
    <3>2. MulMods(f) = Product(1, f) % P  BY MulModsProduct
    <3> QED  BY <3>1, <3>2
  <2> QED  BY <1>6, <2>1 DEF OnNumbers
<1>8. OnZeros(sum, all, says)
  <2>1. ASSUME NEW i \in 1 .. 2
        PROVE  MulMods(Column(i)) = 0 <=> \E k \in 1 .. Len(all) : all[k][i] % P = 0
    <3>1. PICK f \in [1 .. q -> Int] :
            f = [k \in 1 .. Len(all) |-> all[k][i]] /\ Column(i) = f
      BY <1>5
    <3>2. MulMods(f) = 0 <=> \E k \in 1 .. q : f[k] % P = 0  BY MulModsZero
    <3>3. \A k \in 1 .. q : f[k] = all[k][i]  BY <1>3, <3>1
    <3> QED  BY <1>3, <3>1, <3>2, <3>3
  <2> QED  BY <1>6, <2>1 DEF OnZeros
<1>9. OnHalves(sum, all, says)
  <2> SUFFICES ASSUME WellFormed(sum, all)
               PROVE  says <=> \A i \in 1 .. 2 :
                        Opening(i, sum[i]) =
                          Total([k \in 1 .. Len(all) |-> Opening(i, all[k][i])])
    BY DEF OnHalves
  <2>1. ASSUME NEW i \in 1 .. 2
        PROVE  MulMods(Column(i)) = sum[i] <=>
                 Opening(i, sum[i]) = Total([k \in 1 .. Len(all) |-> Opening(i, all[k][i])])
    <3>1. PICK f \in [1 .. q -> Int] :
            f = [k \in 1 .. Len(all) |-> all[k][i]] /\ Column(i) = f /\ sum[i] \in Int
      BY <1>5
    <3>2. PICK x \in Int : x = sum[i]  BY <3>1
    <3>3. \A k \in 1 .. q : f[k] = all[k][i]  BY <1>3, <3>1
    <3>4. Opens(i, x) /\ \A k \in 1 .. q : Opens(i, f[k])
      BY <1>3, <3>2, <3>3 DEF WellFormed
    <3>5. i \in 1 .. Len(G)  BY <1>1
    <3>6. MulMods(f) = x <=> Opening(i, x) = Total([k \in 1 .. q |-> Opening(i, f[k])])
      BY <1>3, <3>4, <3>5, HalvesJudged
    <3>7. [k \in 1 .. q |-> Opening(i, f[k])] = [k \in 1 .. Len(all) |-> Opening(i, all[k][i])]
      BY <1>3, <3>3
    <3> QED  BY <3>1, <3>2, <3>6, <3>7
  <2> QED  BY <1>6, <2>1
<1> QED  BY <1>2, <1>4, <1>6, <1>7, <1>8, <1>9 DEF Judged

(* It holds at the start.                                                    *)
LEMMA ChainStarts == Init => ChainInv
<1> SUFFICES ASSUME Init PROVE ChainInv
  OBVIOUS
<1>1. Chosen  BY DEF Init, Chosen
<1>2. /\ sent = 0 /\ stray = 0 /\ pending = << >> /\ mined = << >> /\ commitData = << >>
      /\ c_sums = <<0, 0>> /\ verdict = << >>
  BY DEF Init
<1>3. \A call : Carried(<< >>, call) = << >>
  <2>1. PICK txs \in Seq(Calls) : txs = << >>
    <3>1. << >> \in Seq(Calls)  OBVIOUS
    <3> QED  BY <3>1
  <2>2. PICK tx : tx = [call |-> "SumCtoSC", numbers |-> <<0, 0>>]  OBVIOUS
  <2>3. tx \in Calls  BY <2>2 DEF Calls
  <2> QED  BY <2>1, <2>3, CarriedSteps
<1>4. Carried(mined, "CommittoSC") = << >> /\ LastSum(mined) = <<0, 0>>
  BY <1>2, <1>3 DEF LastSum
<1>6. pending \in Seq(Calls) /\ mined \in Seq(Calls) /\ Len(pending) + Len(mined) = 0
  BY <1>2
<1>7. sent \in 0 .. NumClients + 1 /\ stray \in 0 .. MaxStray /\ sent + stray = 0
  BY <1>2, BoundsAssumption
<1> QED  BY <1>1, <1>2, <1>4, <1>6, <1>7 DEF ChainInv

(* A verdict stays what it was judged by.                                    *)
LEMMA PrefixStays ==
  ASSUME NEW S, NEW l \in Seq(S), NEW x \in S, NEW k \in 0 .. Len(l)
  PROVE  /\ SubSeq(Append(l, x), 1, k) = SubSeq(l, 1, k)
         /\ SubSeq(l, 1, Len(l)) = l
<1>1. PICK n \in Nat : n = Len(l)  OBVIOUS
<1>2. (1 + k) - 1 = k /\ (1 + n) - 1 = n  BY <1>1
<1>3. SubSeq(Append(l, x), 1, k) = [j \in 1 .. k |-> l[j]]
  <2>1. SubSeq(Append(l, x), 1, k) = [j \in 1 .. (1 + k) - 1 |-> Append(l, x)[(j + 1) - 1]]
    OBVIOUS
  <2>2. \A j \in 1 .. k : (j + 1) - 1 = j /\ Append(l, x)[j] = l[j]
    <3>1. \A j \in 1 .. k : j \in 1 .. Len(l)  BY <1>1
    <3>2. \A j \in 1 .. Len(l) : Append(l, x)[j] = l[j]  OBVIOUS
    <3> QED  BY <3>1, <3>2
  <2> QED  BY <1>2, <2>1, <2>2
<1>4. SubSeq(l, 1, k) = [j \in 1 .. k |-> l[j]]
  <2>1. SubSeq(l, 1, k) = [j \in 1 .. (1 + k) - 1 |-> l[(j + 1) - 1]]  OBVIOUS
  <2> QED  BY <1>2, <2>1
<1>5. SubSeq(l, 1, n) = l
  <2>1. SubSeq(l, 1, n) = [j \in 1 .. (1 + n) - 1 |-> l[(j + 1) - 1]]  OBVIOUS
  <2>2. l = [j \in 1 .. n |-> l[j]]  BY <1>1
  <2> QED  BY <1>2, <2>1, <2>2
<1> QED  BY <1>1, <1>3, <1>4, <1>5

(* Every step keeps it.                                                      *)
LEMMA ChainKept == ChainInv /\ [Next]_vars => ChainInv'
<1> SUFFICES ASSUME ChainInv, [Next]_vars PROVE ChainInv'
  OBVIOUS
<1>0. /\ \A txs, call : Carried(txs, call)' = Carried(txs, call)
      /\ \A txs : LastSum(txs)' = LastSum(txs)
      /\ \A txs, says : Judged(txs, says)' = Judged(txs, says)
  BY DEF Carried, LastSum, Judged, OnNumbers, OnZeros, OnHalves, WellFormed, Opens, Opening
<1>1. ASSUME UNCHANGED <<grads, claim, sub_num>> PROVE Chosen'
  BY <1>1 DEF ChainInv, Chosen, Sum, Add
<1>2. ASSUME UNCHANGED <<grads, claim, sub_num, chainVars>> PROVE ChainInv'
  <2>1. Chosen'  BY <1>1, <1>2
  <2>2. UNCHANGED <<sent, pending, commitData, c_sums, mined, stray, verdict>>
    BY <1>2 DEF chainVars
  <2> QED  BY <2>1, <2>2 DEF ChainInv
<1>4. pending \in Seq(Calls) /\ mined \in Seq(Calls)  BY DEF ChainInv
<1>5. ASSUME Send PROVE ChainInv'
  <2>1. Chosen'  BY <1>1, <1>5 DEF Send
  <2>2. /\ sent < Len(Script) /\ sent' = sent + 1
        /\ pending' = Append(pending, Script[sent + 1])
        /\ UNCHANGED <<commitData, c_sums, mined, stray, verdict>>
    BY <1>5 DEF Send
  <2>3. Len(Script) = NumClients + 1 /\ \A k \in 1 .. NumClients + 1 : Script[k] \in Calls
    BY ScriptIs DEF ChainInv
  <2>4. sent' \in 0 .. NumClients + 1 /\ sent + 1 \in 1 .. NumClients + 1
    BY <2>2, <2>3, BoundsAssumption DEF ChainInv
  <2>5. pending' \in Seq(Calls) /\ Len(pending') = Len(pending) + 1
    BY <1>4, <2>2, <2>3, <2>4
  <2>6. Len(pending') + Len(mined') = sent' + stray'
    <3>1. PICK p \in Nat, q \in Nat : p = Len(pending) /\ q = Len(mined)  BY <1>4
    <3>2. p + q = sent + stray /\ sent \in Int /\ stray \in Int  BY <3>1 DEF ChainInv
    <3>3. PICK x \in Int, y \in Int : x = sent /\ y = stray  BY <3>2
    <3>4. Len(pending') = p + 1 /\ Len(mined') = q /\ sent' = x + 1 /\ stray' = y
      BY <2>2, <2>5, <3>1, <3>3
    <3>5. (p + 1) + q = (x + 1) + y  BY <3>2, <3>3
    <3> QED  BY <3>4, <3>5
  <2> QED  BY <2>1, <2>2, <2>4, <2>5, <2>6 DEF ChainInv
<1>6. ASSUME NEW tx \in Calls, SendStray(tx) PROVE ChainInv'
  <2>1. Chosen'  BY <1>1, <1>6 DEF SendStray
  <2>2. /\ stray < MaxStray /\ stray' = stray + 1 /\ pending' = Append(pending, tx)
        /\ UNCHANGED <<sent, commitData, c_sums, mined, verdict>>
    BY <1>6 DEF SendStray
  <2>3. stray' \in 0 .. MaxStray  BY <2>2, BoundsAssumption DEF ChainInv
  <2>4. pending' \in Seq(Calls) /\ Len(pending') = Len(pending) + 1  BY <1>4, <2>2
  <2>5. Len(pending') + Len(mined') = sent' + stray'
    <3>1. PICK p \in Nat, q \in Nat : p = Len(pending) /\ q = Len(mined)  BY <1>4
    <3>2. p + q = sent + stray /\ sent \in Int /\ stray \in Int  BY <3>1 DEF ChainInv
    <3> QED  BY <2>2, <2>4, <3>1, <3>2
  <2> QED  BY <2>1, <2>2, <2>3, <2>4, <2>5 DEF ChainInv
<1>7. ASSUME NEW v \in StrayValues PROVE SumCtoSC(v) \in Calls /\ CommittoSC(v) \in Calls
  <2>1. v \in Nat \X Nat  BY StrayAssumption
  <2> QED  BY <2>1 DEF SumCtoSC, CommittoSC, Calls
<1>8. ASSUME Mine PROVE ChainInv'
  <2>1. Chosen'  BY <1>1, <1>8 DEF Mine
  <2>2. /\ pending # << >> /\ pending' = Tail(pending) /\ mined' = Append(mined, Head(pending))
        /\ UNCHANGED <<sent, stray, verdict>>
    BY <1>8 DEF Mine
  <2>3. PICK tx \in Calls : tx = Head(pending)  BY <1>4, <2>2
  <2>4. tx.numbers \in Nat \X Nat /\ tx.call \in {"SumCtoSC", "CommittoSC"}  BY DEF Calls
  <2>5. pending' \in Seq(Calls) /\ mined' \in Seq(Calls)  BY <1>4, <2>2, <2>3
  <2>6. Len(pending') + Len(mined') = sent' + stray'
    <3>1. PICK p \in Nat, q \in Nat : p = Len(pending) /\ q = Len(mined)  BY <1>4
    <3>2. p + q = sent + stray /\ sent \in Int /\ stray \in Int  BY <3>1 DEF ChainInv
    <3>3. Len(pending') = p - 1 /\ Len(mined') = q + 1  BY <1>4, <2>2, <2>3, <3>1
    <3> QED  BY <2>2, <3>1, <3>2, <3>3
  <2>7. /\ \A call : Carried(mined, call) \in Seq(Nat \X Nat)
        /\ \A call : Carried(mined', call) = IF tx.call = call
                                             THEN Append(Carried(mined, call), tx.numbers)
                                             ELSE Carried(mined, call)
    <3>1. mined \in Seq(Calls) /\ mined' = Append(mined, tx)  BY <1>4, <2>2, <2>3
    <3>2. ASSUME NEW call
          PROVE  /\ Carried(mined, call) \in Seq(Nat \X Nat)
                 /\ Carried(Append(mined, tx), call) =
                      IF tx.call = call THEN Append(Carried(mined, call), tx.numbers)
                      ELSE Carried(mined, call)
      BY <2>4, <3>1, CarriedSteps
    <3> QED  BY <3>1, <3>2
  <2>8. /\ c_sums' = IF tx.call = "SumCtoSC" THEN tx.numbers ELSE c_sums
        /\ commitData' = IF tx.call = "SumCtoSC" THEN commitData
                         ELSE Append(commitData, tx.numbers)
    BY <1>8, <2>3, <2>4 DEF Mine
  <2>9. c_sums' = LastSum(mined')
    <3>1. CASE tx.call = "SumCtoSC"
      <4>1. PICK l \in Seq(Nat \X Nat) : l = Carried(mined, "SumCtoSC")  BY <2>7
      <4>2. Carried(mined', "SumCtoSC") = Append(l, tx.numbers)  BY <2>7, <3>1, <4>1
      <4>3. Append(l, tx.numbers) # << >> /\ Last(Append(l, tx.numbers)) = tx.numbers
        <5>1. Len(Append(l, tx.numbers)) = Len(l) + 1 /\ Len(l) \in Nat
          BY <2>4
        <5>2. Append(l, tx.numbers)[Len(l) + 1] = tx.numbers  BY <2>4
        <5> QED  BY <5>1, <5>2 DEF Last
      <4> QED  BY <2>8, <3>1, <4>2, <4>3 DEF LastSum
    <3>2. CASE tx.call # "SumCtoSC"
      <4>1. Carried(mined', "SumCtoSC") = Carried(mined, "SumCtoSC")  BY <2>7, <3>2
      <4>2. LastSum(mined') = LastSum(mined)  BY <4>1 DEF LastSum
      <4> QED  BY <2>8, <3>2, <4>2 DEF ChainInv
    <3> QED  BY <3>1, <3>2
  <2>10. commitData' = Carried(mined', "CommittoSC")
    <3>1. commitData = Carried(mined, "CommittoSC")  BY DEF ChainInv
    <3> QED  BY <2>4, <2>7, <2>8, <3>1
  <2>11. \/ verdict' = << >>
         \/ \E says \in BOOLEAN, after \in 0 .. Len(mined') :
              /\ verdict' = <<[says |-> says, after |-> after]>>
              /\ Judged(SubSeq(mined', 1, after), says)
    <3>1. CASE verdict = << >>  BY <2>2, <3>1
    <3>2. CASE verdict # << >>
      <4>1. PICK says \in BOOLEAN, after \in 0 .. Len(mined) :
              /\ verdict = <<[says |-> says, after |-> after]>>
              /\ Judged(SubSeq(mined, 1, after), says)
        BY <3>2 DEF ChainInv
      <4>2. SubSeq(mined', 1, after) = SubSeq(mined, 1, after)
        BY <1>4, <2>2, <2>3, PrefixStays
      <4>3. after \in 0 .. Len(mined')
        <5>1. Len(mined') = Len(mined) + 1 /\ Len(mined) \in Nat  BY <1>4, <2>2, <2>3
        <5> QED  BY <5>1
      <4> QED  BY <2>2, <4>1, <4>2, <4>3
    <3> QED  BY <3>1, <3>2
  <2>12. sent' \in 0 .. NumClients + 1 /\ stray' \in 0 .. MaxStray  BY <2>2 DEF ChainInv
  <2> QED  BY <2>1, <2>5, <2>6, <2>9, <2>10, <2>11, <2>12 DEF ChainInv
<1>9. ASSUME Ask PROVE ChainInv'
  <2>1. Chosen'  BY <1>1, <1>9 DEF Ask
  <2>2. /\ verdict' = <<[says |-> VerifyCommitment, after |-> Len(mined)]>>
        /\ UNCHANGED <<sent, pending, commitData, c_sums, mined, stray>>
    BY <1>9 DEF Ask
  <2>3. Judged(mined, VerifyCommitment)  BY VerifyIs
  <2>4. PICK says \in BOOLEAN : says = VerifyCommitment  BY DEF VerifyCommitment
  <2>5. PICK after \in 0 .. Len(mined) : after = Len(mined) /\ SubSeq(mined, 1, after) = mined
    <3>1. Len(mined) \in Nat /\ Len(mined) \in 0 .. Len(mined)  BY <1>4
    <3>2. mined = [j \in 1 .. Len(mined) |-> mined[j]]  BY <1>4
    <3>3. SubSeq(mined, 1, Len(mined)) =
            [j \in 1 .. (1 + Len(mined)) - 1 |-> mined[(j + 1) - 1]]
      BY <1>4
    <3>4. (1 + Len(mined)) - 1 = Len(mined) /\ \A j \in 1 .. Len(mined) : (j + 1) - 1 = j
      BY <3>1
    <3> QED  BY <3>1, <3>2, <3>3, <3>4
  <2>6. \E s \in BOOLEAN, a \in 0 .. Len(mined') :
          verdict' = <<[says |-> s, after |-> a]>> /\ Judged(SubSeq(mined', 1, a), s)
    BY <2>2, <2>3, <2>4, <2>5
  <2> QED  BY <2>1, <2>2, <2>6 DEF ChainInv
<1>10. CASE \E perm \in Shuffles : Sample(perm)  BY <1>2, <1>10 DEF Sample
<1>11. CASE OpenSamples  BY <1>2, <1>11 DEF OpenSamples
<1>12. CASE UNCHANGED vars  BY <1>2, <1>12 DEF vars
<1>13. CASE \E v \in StrayValues : SendStray(SumCtoSC(v)) \/ SendStray(CommittoSC(v))
  BY <1>6, <1>7, <1>13
<1> QED  BY <1>5, <1>8, <1>9, <1>10, <1>11, <1>12, <1>13 DEF Next

(* The verdict is right on the claim when the script was waited for.         *)
LEMMA ChainGives == ChainInv => VerdictExact
<1> SUFFICES ASSUME ChainInv, verdict # << >> PROVE VerdictExact
  BY DEF VerdictExact
<1>1. PICK says \in BOOLEAN, after \in 0 .. Len(mined) :
        /\ verdict = <<[says |-> says, after |-> after]>>
        /\ Judged(SubSeq(mined, 1, after), says)
  BY DEF ChainInv
<1>2. verdict[1].says = says /\ verdict[1].after = after  BY <1>1
<1>3. PICK txs : txs = SubSeq(mined, 1, after)  OBVIOUS
<1>4. PICK sum, all : sum = LastSum(txs) /\ all = Carried(txs, "CommittoSC")  OBVIOUS
<1>5. OnNumbers(sum, all, says) /\ OnZeros(sum, all, says) /\ OnHalves(sum, all, says)
  BY <1>1, <1>3, <1>4 DEF Judged
<1>6. ASSUME txs = Script PROVE says <=> Halves(claim) = Halves(Sum(grads))
  <2>0. Chosen /\ NumClients \in Nat /\ NumClients \in Nat \ {0} /\ MaxPart \in Nat
    BY BoundsAssumption DEF ChainInv
  <2>1. PICK h \in Int \X Int : /\ h = Halves(claim) /\ sum = Commitment(h)
                                /\ \A i \in 1 .. 2 : h[i] \in HalfSums
    <3>1. PICK h \in Int \X Int : h = Halves(claim) /\ \A i \in 1 .. 2 : h[i] \in HalfSums
      BY <2>0, HalvesGoTogether DEF Within, HalfSums
    <3>2. Carried(txs, "SumCtoSC") = <<Commitment(h)>>  BY <1>6, <2>0, <3>1, ScriptIs
    <3>3. \A x : Last(<<x>>) = x /\ <<x>> # << >>  BY DEF Last
    <3>4. LastSum(txs) = Commitment(h)  BY <3>2, <3>3 DEF LastSum
    <3> QED  BY <1>4, <3>1, <3>4
  <2>2. /\ all = [c \in 1 .. NumClients |-> Commitment(Halves(grads[c]))]
        /\ Len(all) = NumClients
    <3>1. all = [c \in 1 .. NumClients |-> Commitment(Halves(grads[c]))]
      BY <1>4, <1>6, <2>0, ScriptIs
    <3> QED  BY <2>0, <3>1
  <2>3. ASSUME NEW c \in 1 .. NumClients, NEW i \in 1 .. 2
        PROVE  Halves(grads[c])[i] \in HalfSums /\ all[c][i] = Power(i, Halves(grads[c])[i])
    <3>1. PICK g \in Int \X Int : g = Halves(grads[c]) /\ g[i] \in -MaxPart .. MaxPart
      BY <2>0, HalvesGoTogether DEF Within, Clients
    <3>2. g[i] \in HalfSums
      <4>1. PICK z \in Nat : z = NumClients * MaxPart
        <5>1. \A u \in Nat, v \in Nat : u * v \in Nat  OBVIOUS
        <5> QED  BY <2>0, <5>1
      <4>2. (NumClients + 1) * MaxPart = z + MaxPart  BY <2>0, <4>1
      <4>3. \A u \in -MaxPart .. MaxPart : u \in -(z + MaxPart) .. z + MaxPart  BY <2>0
      <4> QED  BY <3>1, <4>2, <4>3 DEF HalfSums
    <3>3. Commitment(g)[i] = Power(i, g[i])  BY <2>0, CommitmentIs
    <3> QED  BY <2>2, <3>1, <3>2, <3>3
  <2>4. \A i \in 1 .. 2 : sum[i] = Power(i, h[i])  BY <2>0, <2>1, CommitmentIs
  <2>5. \A i \in 1 .. 2 : i \in 1 .. Len(G)  BY <2>0, TwoGenerators
  <2>6. ASSUME NEW i \in 1 .. 2
        PROVE  /\ Opens(i, sum[i]) /\ Opening(i, sum[i]) = h[i]
               /\ \A k \in 1 .. NumClients :
                    Opens(i, all[k][i]) /\ Opening(i, all[k][i]) = Halves(grads[k])[i]
    <3>1. PICK e \in HalfSums : e = h[i] /\ sum[i] = Power(i, e)  BY <2>1, <2>4
    <3>2. Opens(i, sum[i]) /\ Opening(i, sum[i]) = h[i]  BY <2>5, <3>1, OpeningIs
    <3>3. ASSUME NEW k \in 1 .. NumClients
          PROVE  Opens(i, all[k][i]) /\ Opening(i, all[k][i]) = Halves(grads[k])[i]
      <4>1. PICK d \in HalfSums : d = Halves(grads[k])[i] /\ all[k][i] = Power(i, d)  BY <2>3
      <4> QED  BY <2>5, <4>1, OpeningIs
    <3> QED  BY <3>2, <3>3
  <2>7. WellFormed(sum, all)  BY <2>2, <2>6 DEF WellFormed
  <2>8. says <=> \A i \in 1 .. 2 :
          Opening(i, sum[i]) = Total([k \in 1 .. Len(all) |-> Opening(i, all[k][i])])
    BY <1>5, <2>7 DEF OnHalves
  <2>9. ASSUME NEW i \in 1 .. 2
        PROVE  Total([k \in 1 .. Len(all) |-> Opening(i, all[k][i])]) = Halves(Sum(grads))[i]
    <3>1. [k \in 1 .. Len(all) |-> Opening(i, all[k][i])] =
            [c \in 1 .. NumClients |-> Halves(grads[c])[i]]
      BY <2>2, <2>6
    <3> QED  BY <2>0, <3>1, HalvesGoTogether
  <2>10. says <=> \A i \in 1 .. 2 : h[i] = Halves(Sum(grads))[i]  BY <2>6, <2>8, <2>9
  <2>11. PICK t \in Int \X Int : t = Halves(Sum(grads))  BY <2>0, HalvesGoTogether
  <2>12. h = t <=> \A i \in 1 .. 2 : h[i] = t[i]
    <3>1. 1 \in 1 .. 2 /\ 2 \in 1 .. 2  OBVIOUS
    <3>2. \A x \in Int \X Int, y \in Int \X Int : x[1] = y[1] /\ x[2] = y[2] => x = y
      OBVIOUS
    <3> QED  BY <3>1, <3>2
  <2> QED  BY <2>1, <2>10, <2>11, <2>12
<1> QED
  BY <1>2, <1>3, <1>4, <1>5, <1>6
  DEF VerdictExact, OnNumbers, OnZeros, OnHalves, WellFormed

(* The contract's verdict compares the last sum uploaded with the product of *)
(* all commitments uploaded, as far as they were mined, whatever numbers     *)
(* anybody uploaded: a 0 passes for a 0 only, numbers that commit to halves  *)
(* are judged by these, and the claim of the script is judged rightly when   *)
(* exactly the script's transactions were mined.                             *)
THEOREM VerdictIsExact == Spec => []VerdictExact
<1>1. Spec => []ChainInv  BY ChainStarts, ChainKept, PTL DEF Spec
<1> QED  BY <1>1, ChainGives, PTL

-----------------------------------------------------------------------------
(* Types.                                                                    *)

(* What is committed to and what the contract holds are residues.            *)
LEMMA TypesFollow == SampleInv /\ ChainInv => TypeOK
<1> SUFFICES ASSUME SampleInv, ChainInv PROVE TypeOK
  OBVIOUS
<1>1. Chosen /\ grads \in [Clients -> Gradients] /\ drawn \in Seq(Shuffles)
      /\ Len(drawn) <= MaxSamples
  BY DEF SampleInv, Chosen
<1>2. Len(claim) = Len(grads[1])
  <2>1. PICK m, d : Claimed(m, d)  BY <1>1, ClaimIs
  <2> QED  BY <2>1 DEF Claimed
<1>3. /\ c_sum \in Seq(1 - P .. -1)
      /\ \A c \in Clients : c_list[c] \in Seq(1 - P .. -1) /\ Len(c_list[c]) = Len(c_sum)
  <2>1. CASE Even(claim, sub_num)
    <3>1. PICK n \in Nat : n = Len(drawn)  BY <1>1
    <3>2. /\ c_list = [c \in Clients |->
                         [s \in 1 .. n |-> BatchCommit(grads[c], drawn[s], sub_num)]]
          /\ c_sum = [s \in 1 .. n |-> BatchCommit(claim, drawn[s], sub_num)]
      BY <2>1, <3>1 DEF SampleInv
    <3>3. ASSUME NEW s \in 1 .. n
          PROVE  /\ BatchCommit(claim, drawn[s], sub_num) \in 1 - P .. -1
                 /\ \A c \in Clients : BatchCommit(grads[c], drawn[s], sub_num) \in 1 - P .. -1
      <4>1. drawn[s] \in Shuffles  BY <1>1, <3>1
      <4>2. BatchCommit(claim, drawn[s], sub_num) \in 1 - P .. -1
        BY <1>1, <2>1, <4>1, SampleIsExact
      <4>3. \A c \in Clients : BatchCommit(grads[c], drawn[s], sub_num) \in 1 - P .. -1
        BY <1>1, <2>1, <4>1, SampleIsExact
      <4> QED  BY <4>2, <4>3
    <3>4. c_sum \in [1 .. n -> 1 - P .. -1]  BY <3>2, <3>3
    <3>5. \A c \in Clients : c_list[c] \in [1 .. n -> 1 - P .. -1]  BY <3>2, <3>3
    <3>6. \A t \in [1 .. n -> 1 - P .. -1] : t \in Seq(1 - P .. -1) /\ Len(t) = n
      <4>1. PICK S : S = 1 - P .. -1  OBVIOUS
      <4>2. \A t \in [1 .. n -> S] : t \in Seq(S) /\ Len(t) = n  OBVIOUS
      <4> QED  BY <4>1, <4>2
    <3> QED  BY <3>4, <3>5, <3>6
  <2>2. CASE ~Even(claim, sub_num)
    <3>1. c_list = [c \in Clients |-> << >>] /\ c_sum = << >>  BY <2>2 DEF SampleInv
    <3>2. << >> \in Seq(1 - P .. -1)  OBVIOUS
    <3> QED  BY <3>1, <3>2
  <2> QED  BY <2>1, <2>2
<1>4. commitData \in Seq(Nat \X Nat) /\ c_sums \in Nat \X Nat
  <2>1. mined \in Seq(Calls)  BY DEF ChainInv
  <2>2. PICK tx : tx = [call |-> "SumCtoSC", numbers |-> <<0, 0>>]  OBVIOUS
  <2>3. tx \in Calls  BY <2>2 DEF Calls
  <2>4. Carried(mined, "CommittoSC") \in Seq(Nat \X Nat)  BY <2>1, <2>3, CarriedSteps
  <2>5. LastSum(mined) \in Nat \X Nat  BY <2>1, LastSumIs
  <2> QED  BY <2>4, <2>5 DEF ChainInv
<1>9. /\ sent \in 0 .. NumClients + 1 /\ stray \in 0 .. MaxStray
      /\ Len(pending) + Len(mined) = sent + stray
      /\ opened \in {"none", "accepted", "refused", "raised"}
  BY DEF ChainInv, SampleInv
<1> QED  BY <1>1, <1>2, <1>3, <1>4, <1>9 DEF TypeOK

(* Every state is of the types TypeOK gives: commitments from c_mod are      *)
(* negative and not 0, those of the contract residues, and every transaction *)
(* is waiting or mined.                                                      *)
THEOREM VerificationTypes == Spec => []TypeOK
<1>1. Spec => []SampleInv  BY SampleStarts, SampleKept, PTL DEF Spec
<1>2. Spec => []ChainInv  BY ChainStarts, ChainKept, PTL DEF Spec
<1> QED  BY <1>1, <1>2, TypesFollow, PTL

-----------------------------------------------------------------------------
(* How often a wrong claim passes: the permutations are counted by two       *)
(* injections.                                                               *)

(* A set is not greater than one it can be mapped into one to one.           *)
LEMMA OneToOne ==
  ASSUME NEW S, NEW T, IsFiniteSet(T), NEW f \in [S -> T],
         \A x, y \in S : f[x] = f[y] => x = y
  PROVE  IsFiniteSet(S) /\ Cardinality(S) <= Cardinality(T)
<1>1. f \in Injection(S, T)  BY DEF Injection, IsInjective
<1> QED  BY <1>1, FS_Injection

(* One entry more or less.                                                   *)
LEMMA TotalChange ==
  ASSUME NEW n \in Nat, NEW f \in [1 .. n -> Int], NEW g \in [1 .. n -> Int],
         NEW o \in 1 .. n, \A j \in 1 .. n : j # o => f[j] = g[j]
  PROVE  Total(f) + g[o] = Total(g) + f[o]
<1>1. PICK a : RunsTotal(a, n, f) /\ Total(f) = a[n]  BY TotalIs
<1>2. PICK b : RunsTotal(b, n, g) /\ Total(g) = b[n]  BY TotalIs
<1>3. PICK x \in Int, y \in Int : x = f[o] /\ y = g[o]  OBVIOUS
<1> DEFINE A == {k \in Nat : k \in 0 .. n => IF k < o THEN a[k] = b[k] ELSE a[k] + y = b[k] + x}
<1>4. 0 \in A  BY <1>1, <1>2 DEF RunsTotal
<1>5. ASSUME NEW k \in Nat, k \in A PROVE k + 1 \in A
  <2> SUFFICES ASSUME k + 1 \in 0 .. n
               PROVE  IF k + 1 < o THEN a[k + 1] = b[k + 1] ELSE a[k + 1] + y = b[k + 1] + x
    OBVIOUS
  <2>1. k + 1 \in 1 .. n /\ (k + 1) - 1 = k /\ k \in 0 .. n  OBVIOUS
  <2>2. a[k + 1] = a[k] + f[k + 1] /\ b[k + 1] = b[k] + g[k + 1]
    BY <1>1, <1>2, <2>1 DEF RunsTotal
  <2>3. PICK s \in Int, t \in Int, u \in Int, v \in Int :
          s = a[k] /\ t = b[k] /\ u = f[k + 1] /\ v = g[k + 1]
    <3>1. a[k] \in Int /\ b[k] \in Int /\ f[k + 1] \in Int /\ g[k + 1] \in Int
      BY <1>1, <1>2, <2>1 DEF RunsTotal
    <3> QED  BY <3>1
  <2>4. IF k < o THEN s = t ELSE s + y = t + x  BY <1>5, <2>1, <2>3
  <2>5. k + 1 # o => u = v  BY <2>1, <2>3
  <2>6. k + 1 = o => u = x /\ v = y  BY <1>3, <2>3
  <2>7. IF k + 1 < o THEN s + u = t + v ELSE s + u + y = t + v + x
    <3>1. CASE k + 1 < o
      <4>1. k < o /\ k + 1 # o  BY <3>1
      <4>2. s = t /\ u = v  BY <2>4, <2>5, <4>1
      <4> QED  BY <3>1, <4>2
    <3>2. CASE k + 1 = o
      <4>1. k < o /\ ~(k + 1 < o)  BY <3>2
      <4>2. s = t /\ u = x /\ v = y  BY <2>4, <2>6, <3>2, <4>1
      <4> QED  BY <4>1, <4>2
    <3>3. CASE k + 1 > o
      <4>1. ~(k < o) /\ k + 1 # o /\ ~(k + 1 < o)  BY <3>3
      <4>2. s + y = t + x /\ u = v  BY <2>4, <2>5, <4>1
      <4>3. s + u + y = t + v + x  BY <4>2
      <4> QED  BY <4>1, <4>3
    <3>4. k + 1 < o \/ k + 1 = o \/ k + 1 > o  OBVIOUS
    <3> QED  BY <3>1, <3>2, <3>3, <3>4
  <2> QED  BY <2>2, <2>3, <2>7
<1>6. Nat \subseteq A
  <2> HIDE DEF A
  <2> QED  BY <1>4, <1>5, Induction
<1>7. n \in 0 .. n /\ ~(n < o)  OBVIOUS
<1> QED  BY <1>1, <1>2, <1>3, <1>6, <1>7

(* Entries that are all the same.                                            *)
LEMMA TotalConstant ==
  ASSUME NEW n \in Nat, NEW c \in Int, NEW f \in [1 .. n -> Int], \A i \in 1 .. n : f[i] = c
  PROVE  Total(f) = n * c
<1>1. PICK a : RunsTotal(a, n, f) /\ Total(f) = a[n]  BY TotalIs
<1> DEFINE A == {k \in Nat : k \in 0 .. n => a[k] = k * c}
<1>2. 0 \in A  BY <1>1 DEF RunsTotal
<1>3. ASSUME NEW k \in Nat, k \in A PROVE k + 1 \in A
  <2> SUFFICES ASSUME k + 1 \in 0 .. n PROVE a[k + 1] = (k + 1) * c
    OBVIOUS
  <2>1. k + 1 \in 1 .. n /\ (k + 1) - 1 = k /\ k \in 0 .. n  OBVIOUS
  <2>2. a[k + 1] = a[k] + f[k + 1] /\ f[k + 1] = c  BY <1>1, <2>1 DEF RunsTotal
  <2>3. a[k] = k * c  BY <1>3, <2>1
  <2>4. k * c \in Int /\ (k + 1) * c = k * c + c  OBVIOUS
  <2> QED  BY <2>2, <2>3, <2>4
<1>4. Nat \subseteq A
  <2> HIDE DEF A
  <2> QED  BY <1>2, <1>3, Induction
<1> QED  BY <1>1, <1>4

\* The part a place belongs to, counted from 0, and the same place of the next
\* part, which is the first after the last.
PartOf(size, p) == (p - 1) \div size
NextPlace(m, size, p) == IF p + size <= m THEN p + size ELSE p + size - m

\* k equal parts.
Parted(k, size, m) == k \in Nat /\ k >= 2 /\ size \in Nat \ {0} /\ m \in Nat /\ m = k * size

\* The place of entry o of part i.
PlaceOf(size, i, o) == (i - 1) * size + o

(* The place of an entry of a part.                                          *)
LEMMA PartOfPlace ==
  ASSUME NEW k, NEW size, NEW m, Parted(k, size, m), NEW i \in 1 .. k, NEW o \in 1 .. size
  PROVE  PlaceOf(size, i, o) \in 1 .. m /\ PartOf(size, PlaceOf(size, i, o)) = i - 1
<1>1. k \in Nat \ {0} /\ size \in Nat \ {0} /\ size \in Nat /\ m = k * size  BY DEF Parted
<1>2. (i - 1) * size + o \in 1 .. k * size  BY <1>1, PlaceIs
<1>3. PICK j \in Nat : j = i - 1  BY <1>1
<1>4. PICK x \in Int : x = j * size + o - 1  BY <1>1
<1>5. x = size * j + (o - 1) /\ o - 1 \in 0 .. size - 1 /\ j \in Int  BY <1>1, <1>4
<1>6. x \div size = j  BY <1>1, <1>5, DivUnique
<1>7. PICK y \in Int : y = j * size + o /\ y - 1 = x
  <2>1. PICK z \in Int : z = j * size  BY <1>1
  <2>2. o \in Int  BY <1>1
  <2> QED  BY <1>4, <2>1, <2>2
<1>8. PlaceOf(size, i, o) = y  BY <1>3, <1>7 DEF PlaceOf
<1>9. PartOf(size, y) = j  BY <1>6, <1>7 DEF PartOf
<1>10. y \in 1 .. m  BY <1>1, <1>2, <1>3, <1>7
<1> QED  BY <1>3, <1>8, <1>9, <1>10

(* What is in the same place of different parts is in different places, and  *)
(* so is what is in different places of a part.                              *)
LEMMA PlaceOnce ==
  ASSUME NEW k, NEW size, NEW m, Parted(k, size, m), NEW i \in 1 .. k,
         NEW o \in 1 .. size, NEW x \in 1 .. size, PlaceOf(size, i, o) = PlaceOf(size, i, x)
  PROVE  o = x
<1>1. (i - 1) * size \in Int
  <2>1. i - 1 \in Int /\ size \in Int  BY DEF Parted
  <2> QED  BY <2>1
<1>2. PICK z \in Int : z = (i - 1) * size  BY <1>1
<1>3. z + o = z + x /\ o \in Int /\ x \in Int  BY <1>2 DEF PlaceOf, Parted
<1> QED  BY <1>2, <1>3

(* Every place is that of an entry, and the next place is that of the same   *)
(* entry of another part.                                                    *)
LEMMA PlaceIsOf ==
  ASSUME NEW k, NEW size, NEW m, Parted(k, size, m), NEW p \in 1 .. m
  PROVE  \E i \in 1 .. k, o \in 1 .. size :
           /\ p = PlaceOf(size, i, o) /\ PartOf(size, p) = i - 1
           /\ NextPlace(m, size, p) =
                IF i < k THEN PlaceOf(size, i + 1, o) ELSE PlaceOf(size, 1, o)
<1>0. k \in Nat /\ k >= 2 /\ size \in Nat \ {0} /\ m \in Nat /\ m = k * size  BY DEF Parted
<1>1. PICK x \in Nat : x = p - 1 /\ x < m  BY <1>0
<1>2. PICK j \in Int, r \in 0 .. size - 1 : x = size * j + r /\ j = x \div size
  <2>1. x \div size \in Int /\ x % size \in 0 .. size - 1
        /\ x = size * (x \div size) + (x % size)
    BY <1>0, DivMod
  <2> QED  BY <2>1
<1>3. j \in 0 .. k - 1
  <2>1. ASSUME j < 0 PROVE FALSE
    <3>1. PICK e \in Nat : j = -1 - e
      <4>1. -1 - j \in Nat /\ j = -1 - (-1 - j)  BY <2>1
      <4> QED  BY <4>1
    <3>2. PICK z \in Nat : z = size * e  BY <1>0
    <3>3. size * j = -size - z  BY <1>0, <3>1, <3>2
    <3> QED  BY <1>0, <1>1, <1>2, <3>2, <3>3
  <2>2. ASSUME j >= k PROVE FALSE
    <3>1. PICK e \in Nat : j = k + e
      <4>1. j - k \in Nat /\ j = k + (j - k)  BY <1>0, <2>2
      <4> QED  BY <4>1
    <3>2. PICK z \in Nat : z = size * e  BY <1>0
    <3>3. size * j = m + z  BY <1>0, <3>1, <3>2
    <3> QED  BY <1>0, <1>1, <1>2, <3>2, <3>3
  <2> QED  BY <1>0, <2>1, <2>2
<1>4. PICK o \in 1 .. size : o = r + 1
  <2>1. r + 1 \in 1 .. size  BY <1>0
  <2> QED  BY <2>1
<1>5. PICK y \in Nat : y = size * j /\ y = j * size
  <2>1. size * j \in Nat /\ size * j = j * size  BY <1>0, <1>3
  <2> QED  BY <2>1
<1>6. p = y + o  BY <1>0, <1>1, <1>2, <1>4, <1>5
<1>7. PartOf(size, p) = j  BY <1>0, <1>1, <1>2 DEF PartOf
<1>8. (j + 1) * size = y + size  BY <1>0, <1>3, <1>5
<1>9. PICK i \in 1 .. k : i = j + 1 /\ i - 1 = j  BY <1>0, <1>3
<1>10. PlaceOf(size, i, o) = y + o  BY <1>5, <1>9 DEF PlaceOf
<1>11. PlaceOf(size, i + 1, o) = y + size + o
  <2>1. (i + 1) - 1 = j + 1  BY <1>0, <1>9
  <2> QED  BY <1>8, <2>1 DEF PlaceOf
<1>12. PlaceOf(size, 1, o) = o
  <2>1. (1 - 1) * size = 0 /\ 0 + o = o  BY <1>0
  <2> QED  BY <2>1 DEF PlaceOf
<1>13. CASE i < k
  <2>1. PICK e \in Nat : k = (j + 1) + 1 + e
    <3>1. k - j - 2 \in Nat /\ k = (j + 1) + 1 + (k - j - 2)  BY <1>0, <1>3, <1>9, <1>13
    <3> QED  BY <3>1
  <2>2. PICK z \in Nat : z = e * size  BY <1>0
  <2>3. m = y + size + size + z
    <3>1. PICK j1 \in Nat : j1 = j + 1  BY <1>3
    <3>2. k * size = j1 * size + size + e * size  BY <1>0, <2>1, <3>1
    <3> QED  BY <1>0, <1>8, <2>2, <3>1, <3>2
  <2>4. p + size <= m /\ p + size = y + size + o  BY <1>0, <1>4, <1>6, <2>2, <2>3
  <2>5. NextPlace(m, size, p) = PlaceOf(size, i + 1, o)  BY <1>11, <2>4 DEF NextPlace
  <2> QED  BY <1>6, <1>7, <1>9, <1>10, <1>13, <2>5
<1>14. CASE ~(i < k)
  <2>1. k = j + 1  BY <1>0, <1>3, <1>9, <1>14
  <2>2. m = y + size  BY <1>0, <1>8, <2>1
  <2>3. ~(p + size <= m) /\ p + size - m = o  BY <1>0, <1>4, <1>5, <1>6, <2>2
  <2>4. NextPlace(m, size, p) = PlaceOf(size, 1, o)  BY <1>12, <2>3 DEF NextPlace
  <2> QED  BY <1>6, <1>7, <1>9, <1>10, <1>14, <2>4
<1> QED  BY <1>13, <1>14

(* The next place is one, of another part.                                   *)
LEMMA NextPlaceIs ==
  ASSUME NEW k, NEW size, NEW m, Parted(k, size, m), NEW p \in 1 .. m
  PROVE  /\ NextPlace(m, size, p) \in 1 .. m
         /\ PartOf(size, NextPlace(m, size, p)) # PartOf(size, p)
<1>0. k \in Nat /\ k >= 2  BY DEF Parted
<1>1. PICK i \in 1 .. k, o \in 1 .. size :
        /\ PartOf(size, p) = i - 1
        /\ NextPlace(m, size, p) =
             IF i < k THEN PlaceOf(size, i + 1, o) ELSE PlaceOf(size, 1, o)
  BY PlaceIsOf
<1>2. PICK l \in 1 .. k : l = (IF i < k THEN i + 1 ELSE 1) /\ l # i  BY <1>0
<1>3. NextPlace(m, size, p) = PlaceOf(size, l, o)  BY <1>1, <1>2
<1>4. PlaceOf(size, l, o) \in 1 .. m /\ PartOf(size, PlaceOf(size, l, o)) = l - 1
  BY PartOfPlace
<1>5. l - 1 # i - 1  BY <1>0, <1>2
<1> QED  BY <1>1, <1>3, <1>4, <1>5

(* The next place of no two places is the same.                              *)
LEMMA NextPlaceOnce ==
  ASSUME NEW k, NEW size, NEW m, Parted(k, size, m), NEW p \in 1 .. m, NEW q \in 1 .. m,
         NextPlace(m, size, p) = NextPlace(m, size, q)
  PROVE  p = q
<1>1. size \in Nat \ {0} /\ m \in Nat  BY DEF Parted
<1>2. p \in Int /\ q \in Int /\ 1 <= p /\ p <= m /\ 1 <= q /\ q <= m  BY <1>1
<1> QED  BY <1>1, <1>2 DEF NextPlace

Orders(m) == {f \in [1 .. m -> 1 .. m] : \A i, j \in 1 .. m : i # j => f[i] # f[j]}

(* Orders: there are finitely many, and they leave nothing out.        *)
LEMMA PermutationsFinite ==
  ASSUME NEW m \in Nat
  PROVE  /\ IsFiniteSet(Orders(m))
         /\ \A f \in Orders(m), v \in 1 .. m : \E p \in 1 .. m : f[p] = v
<1>1. PICK n : n = 1 .. m  OBVIOUS
<1>2. IsFiniteSet(n)
  <2>1. 1 \in Int /\ m \in Int  OBVIOUS
  <2> QED  BY <1>1, <2>1, FS_Interval
<1>3. IsFiniteSet(SUBSET (n \X n))
  <2>1. IsFiniteSet(n \X n)  BY <1>2, FS_Product
  <2> QED  BY <2>1, FS_SUBSET
<1> DEFINE graph == [f \in Orders(m) |-> {<<p, f[p]>> : p \in n}]
<1>4. graph \in [Orders(m) -> SUBSET (n \X n)]  BY <1>1 DEF Orders
<1>5. ASSUME NEW f \in Orders(m), NEW g \in Orders(m), graph[f] = graph[g]
      PROVE  f = g
  <2>1. ASSUME NEW p \in n PROVE f[p] = g[p]
    <3>1. <<p, f[p]>> \in graph[f]  OBVIOUS
    <3>2. PICK q \in n : <<p, f[p]>> = <<q, g[q]>>  BY <1>5, <3>1
    <3> QED  BY <3>2
  <2>2. f = [p \in n |-> f[p]] /\ g = [p \in n |-> g[p]]  BY <1>1 DEF Orders
  <2> QED  BY <2>1, <2>2
<1>6. IsFiniteSet(Orders(m))
  <2> HIDE DEF graph
  <2> QED  BY <1>3, <1>4, <1>5, OneToOne
<1>7. ASSUME NEW f \in Orders(m), NEW v \in n PROVE \E p \in n : f[p] = v
  <2>1. f \in Injection(n, n)  BY <1>1 DEF Orders, Injection, IsInjective
  <2>2. f \in Surjection(n, n)  BY <1>2, <2>1, FS_Injection
  <2> QED  BY <2>2 DEF Surjection
<1> QED  BY <1>1, <1>6, <1>7

\* The values a and b change places.
Swapped(m, a, b, f) ==
  [j \in 1 .. m |-> IF f[j] = a THEN b ELSE IF f[j] = b THEN a ELSE f[j]]

\* The value b moves to the next part.
Moved(m, size, b, f) ==
  LET q == CHOOSE q \in 1 .. m : f[q] = b
      r == NextPlace(m, size, q)
  IN  [j \in 1 .. m |-> IF j = q THEN f[r] ELSE IF j = r THEN f[q] ELSE f[j]]

\* The values a and b are in different parts.
Apart(m, size, a, b, f) ==
  \A p, q \in 1 .. m : f[p] = a /\ f[q] = b => PartOf(size, p) # PartOf(size, q)

(* Values that change places do so for good, or back.                        *)
LEMMA SwappedIs ==
  ASSUME NEW m \in Nat, NEW size, NEW a \in 1 .. m, NEW b \in 1 .. m, a # b,
         NEW f \in Orders(m)
  PROVE  /\ Swapped(m, a, b, f) \in Orders(m)
         /\ Swapped(m, a, b, Swapped(m, a, b, f)) = f
         /\ Apart(m, size, a, b, f) => Apart(m, size, a, b, Swapped(m, a, b, f))
<1>1. PICK g : g = Swapped(m, a, b, f)  OBVIOUS
<1>2. f \in [1 .. m -> 1 .. m] /\ \A i, j \in 1 .. m : i # j => f[i] # f[j]
  BY DEF Orders
<1>3. /\ g = [j \in 1 .. m |-> g[j]]
      /\ \A j \in 1 .. m : g[j] = IF f[j] = a THEN b ELSE IF f[j] = b THEN a ELSE f[j]
  BY <1>1 DEF Swapped
<1>4. g \in [1 .. m -> 1 .. m]
  <2>1. \A j \in 1 .. m : g[j] \in 1 .. m  BY <1>2, <1>3
  <2> QED  BY <1>3, <2>1
<1>5. g \in Orders(m)
  <2>1. \A i, j \in 1 .. m : i # j => g[i] # g[j]  BY <1>2, <1>3
  <2> QED  BY <1>4, <2>1 DEF Orders
<1>6. Swapped(m, a, b, g) = f
  <2>1. \A j \in 1 .. m : f[j] = IF g[j] = a THEN b ELSE IF g[j] = b THEN a ELSE g[j]
    BY <1>3
  <2>2. f = [j \in 1 .. m |-> f[j]]  BY <1>2
  <2> QED  BY <2>1, <2>2 DEF Swapped
<1>7. Apart(m, size, a, b, f) => Apart(m, size, a, b, g)
  <2>1. \A p \in 1 .. m : /\ g[p] = a => f[p] = b
                          /\ g[p] = b => f[p] = a
    BY <1>3
  <2> QED  BY <2>1 DEF Apart
<1> QED  BY <1>1, <1>5, <1>6, <1>7

\* h is f with the value b moved from the place q to the place r.
Moves(h, m, size, b, f, q, r) ==
  /\ f[q] = b /\ r = NextPlace(m, size, q) /\ r # q /\ PartOf(size, q) # PartOf(size, r)
  /\ h \in [1 .. m -> 1 .. m] /\ h[q] = f[r] /\ h[r] = b
  /\ \A j \in 1 .. m : j # q /\ j # r => h[j] = f[j]

(* What moves from where to where.                                           *)
LEMMA MovesFromTo ==
  ASSUME NEW k, NEW size, NEW m, Parted(k, size, m),
         NEW b \in 1 .. m, NEW f \in Orders(m)
  PROVE  \E q, r \in 1 .. m : Moves(Moved(m, size, b, f), m, size, b, f, q, r)
<1>0. m \in Nat  BY DEF Parted
<1>1. PICK q : q = CHOOSE p \in 1 .. m : f[p] = b  OBVIOUS
<1>2. q \in 1 .. m /\ f[q] = b
  <2>1. \E p \in 1 .. m : f[p] = b  BY <1>0, PermutationsFinite
  <2> QED  BY <1>1, <2>1
<1>3. PICK r : r = NextPlace(m, size, q)  OBVIOUS
<1>5. r \in 1 .. m /\ PartOf(size, r) # PartOf(size, q)  BY <1>2, <1>3, NextPlaceIs
<1>6. r # q  BY <1>5
<1>7. f \in [1 .. m -> 1 .. m]  BY DEF Orders
<1>8. Moved(m, size, b, f) =
        [j \in 1 .. m |-> IF j = q THEN f[r] ELSE IF j = r THEN f[q] ELSE f[j]]
  BY <1>1, <1>3 DEF Moved
<1>9. PICK h : h = Moved(m, size, b, f)  OBVIOUS
<1>10. \A j \in 1 .. m : h[j] = IF j = q THEN f[r] ELSE IF j = r THEN f[q] ELSE f[j]
  BY <1>8, <1>9
<1>11. \A j \in 1 .. m : f[j] \in 1 .. m  BY <1>7
<1>12. \A j \in 1 .. m : (IF j = q THEN f[r] ELSE IF j = r THEN f[q] ELSE f[j]) \in 1 .. m
  BY <1>2, <1>5, <1>11
<1>13. h \in [1 .. m -> 1 .. m]  BY <1>8, <1>9, <1>12
<1>14. h[q] = f[r] /\ h[r] = b  BY <1>2, <1>5, <1>6, <1>10
<1>15. \A j \in 1 .. m : j # q /\ j # r => h[j] = f[j]  BY <1>10
<1>16. Moves(h, m, size, b, f, q, r)
  BY <1>2, <1>3, <1>5, <1>6, <1>13, <1>14, <1>15 DEF Moves
<1> QED  BY <1>2, <1>5, <1>9, <1>16

(* A value that moves to the next part is apart from those it was with, and  *)
(* where it came from is known from where it is.                             *)
LEMMA MovedIs ==
  ASSUME NEW k, NEW size, NEW m, Parted(k, size, m),
         NEW a \in 1 .. m, NEW b \in 1 .. m, a # b,
         NEW f \in Orders(m)
  PROVE  /\ Moved(m, size, b, f) \in Orders(m)
         /\ ~Apart(m, size, a, b, f) => Apart(m, size, a, b, Moved(m, size, b, f))
         /\ \A g \in Orders(m) : Moved(m, size, b, f) = Moved(m, size, b, g) => f = g
<1>2. PICK h : h = Moved(m, size, b, f)  OBVIOUS
<1>3. PICK q \in 1 .. m, r \in 1 .. m : Moves(h, m, size, b, f, q, r)
  BY <1>2, MovesFromTo
<1>4. f \in [1 .. m -> 1 .. m] /\ \A i, j \in 1 .. m : i # j => f[i] # f[j]
  BY DEF Orders
<1>5. /\ f[q] = b /\ r # q /\ PartOf(size, q) # PartOf(size, r)
      /\ h \in [1 .. m -> 1 .. m] /\ h[q] = f[r] /\ h[r] = b
      /\ \A j \in 1 .. m : j # q /\ j # r => h[j] = f[j]
  BY <1>3 DEF Moves
<1>6. h \in Orders(m)
  <2>1. ASSUME NEW i \in 1 .. m, NEW j \in 1 .. m, i # j PROVE h[i] # h[j]
    <3>1. f[i] # f[j] /\ (i # q => f[i] # b) /\ (j # q => f[j] # b)
          /\ (i # r => f[i] # f[r]) /\ (j # r => f[j] # f[r])
      BY <1>4, <1>5, <2>1
    <3>2. f[r] # b  BY <1>4, <1>5
    <3>3. CASE i = q
      <4>1. CASE j = r  BY <1>5, <3>2, <3>3, <4>1
      <4>2. CASE j # r  BY <1>5, <2>1, <3>1, <3>3, <4>2
      <4> QED  BY <4>1, <4>2
    <3>4. CASE i = r
      <4>1. CASE j = q  BY <1>5, <3>2, <3>4, <4>1
      <4>2. CASE j # q  BY <1>5, <2>1, <3>1, <3>4, <4>2
      <4> QED  BY <4>1, <4>2
    <3>5. CASE i # q /\ i # r
      <4>1. h[i] = f[i]  BY <1>5, <3>5
      <4>2. CASE j = q  BY <1>5, <3>1, <3>5, <4>1, <4>2
      <4>3. CASE j = r  BY <1>5, <3>1, <3>5, <4>1, <4>3
      <4>4. CASE j # q /\ j # r  BY <1>5, <3>1, <4>1, <4>4
      <4> QED  BY <4>2, <4>3, <4>4
    <3> QED  BY <3>3, <3>4, <3>5
  <2> QED  BY <1>5, <2>1 DEF Orders
<1>7. ASSUME ~Apart(m, size, a, b, f) PROVE Apart(m, size, a, b, h)
  <2>1. PICK p1 \in 1 .. m, q1 \in 1 .. m : /\ f[p1] = a /\ f[q1] = b
                                           /\ PartOf(size, p1) = PartOf(size, q1)
    BY <1>7 DEF Apart
  <2>2. q1 = q  BY <1>4, <1>5, <2>1
  <2>3. p1 # q /\ p1 # r  BY <1>5, <2>1, <2>2
  <2>4. h[p1] = a /\ h[r] = b  BY <1>5, <2>1, <2>3
  <2>5. \A i, j \in 1 .. m : i # j => h[i] # h[j]  BY <1>6 DEF Orders
  <2>6. \A p, z \in 1 .. m : h[p] = a /\ h[z] = b => p = p1 /\ z = r  BY <2>4, <2>5
  <2> QED  BY <1>5, <2>1, <2>2, <2>6 DEF Apart
<1>8. ASSUME NEW g \in Orders(m), h = Moved(m, size, b, g) PROVE f = g
  <2>1. PICK q1 \in 1 .. m, r1 \in 1 .. m : Moves(h, m, size, b, g, q1, r1)
    BY <1>8, MovesFromTo
  <2>2. /\ g[q1] = b /\ h[q1] = g[r1] /\ h[r1] = b
        /\ \A j \in 1 .. m : j # q1 /\ j # r1 => h[j] = g[j]
    BY <2>1 DEF Moves
  <2>3. \A i, j \in 1 .. m : i # j => h[i] # h[j]  BY <1>6 DEF Orders
  <2>4. r = r1  BY <1>5, <2>2, <2>3
  <2>5. NextPlace(m, size, q) = NextPlace(m, size, q1)  BY <1>3, <2>1, <2>4 DEF Moves
  <2>6. q = q1  BY <2>5, NextPlaceOnce
  <2>7. ASSUME NEW j \in 1 .. m PROVE f[j] = g[j]
    <3>1. CASE j = q  BY <1>5, <2>2, <2>6, <3>1
    <3>2. CASE j = r  BY <1>5, <2>2, <2>4, <2>6, <3>2
    <3>3. CASE j # q /\ j # r  BY <1>5, <2>2, <2>4, <2>6, <3>3
    <3> QED  BY <3>1, <3>2, <3>3
  <2>8. f = [j \in 1 .. m |-> f[j]] /\ g = [j \in 1 .. m |-> g[j]]  BY DEF Orders
  <2> QED  BY <2>7, <2>8
<1> QED  BY <1>2, <1>6, <1>7, <1>8

\* A vector that vanishes on all parts.
Zero(d, m, size, k, f) == \A i \in 1 .. k : PickSum(m, size, Cut(f, size, i))[d] = 0

\* The permutations for which it does.
Passing(d, m, size, k) == {f \in Orders(m) : Zero(d, m, size, k, f)}

\* The entries of d that a cut picks.
Picked(d, size, idx) == [j \in 1 .. size |-> d[idx[j]]]

\* Their total is what the cut gives for d.
IsPicked(d, m, size, idx) ==
  /\ Picked(d, size, idx) \in [1 .. size -> Int]
  /\ PickSum(m, size, idx)[d] = Total(Picked(d, size, idx))

(* What a part of a permuted vector is the total of.                         *)
LEMMA PickedIs ==
  ASSUME NEW k, NEW size, NEW m, Parted(k, size, m),
         NEW f \in [1 .. m -> 1 .. m], NEW d \in [1 .. m -> Int]
  PROVE  \A i \in 1 .. k : IsPicked(d, m, size, Cut(f, size, i))
<1> SUFFICES ASSUME NEW i \in 1 .. k, NEW u, u = Picked(d, size, Cut(f, size, i))
             PROVE  u \in [1 .. size -> Int] /\ PickSum(m, size, Cut(f, size, i))[d] = Total(u)
  BY Zenon DEF IsPicked
<1>1. u = [o \in 1 .. size |-> u[o]]  BY DEF Picked
<1>2. \A o \in 1 .. size : u[o] \in Int
  <2> SUFFICES ASSUME NEW o \in 1 .. size PROVE u[o] \in Int
    OBVIOUS
  <2>1. u[o] = d[f[PlaceOf(size, i, o)]]  BY DEF Picked, Cut, PlaceOf
  <2>2. PlaceOf(size, i, o) \in 1 .. m  BY PartOfPlace
  <2>3. f[PlaceOf(size, i, o)] \in 1 .. m  BY <2>2
  <2> QED  BY <2>1, <2>3
<1>3. u \in [1 .. size -> Int]  BY <1>1, <1>2
<1>4. PickSum(m, size, Cut(f, size, i))[d] = Total(u)  BY DEF PickSum, Picked
<1> QED  BY <1>3, <1>4

(* If values apart of which the vector tells change places, it vanishes on   *)
(* all parts at most once.                                                   *)
LEMMA SwapChanges ==
  ASSUME NEW k, NEW size, NEW m, Parted(k, size, m),
         NEW d \in [1 .. m -> Int], NEW a \in 1 .. m, NEW b \in 1 .. m, d[a] # d[b],
         NEW f \in Orders(m), Apart(m, size, a, b, f), Zero(d, m, size, k, f)
  PROVE  ~Zero(d, m, size, k, Swapped(m, a, b, f))
<1> SUFFICES ASSUME Zero(d, m, size, k, Swapped(m, a, b, f)) PROVE FALSE
  OBVIOUS
<1>0. m \in Nat /\ size \in Nat  BY DEF Parted
<1>1. PICK g : g = Swapped(m, a, b, f)  OBVIOUS
<1>2. f \in [1 .. m -> 1 .. m] /\ \A x, y \in 1 .. m : x # y => f[x] # f[y]
  BY DEF Orders
<1>3. a # b  OBVIOUS
<1>4. g \in [1 .. m -> 1 .. m]
  <2>1. g \in Orders(m)  BY <1>0, <1>1, <1>3, SwappedIs
  <2> QED  BY <2>1 DEF Orders
<1>5. \A x \in 1 .. m : g[x] = IF f[x] = a THEN b ELSE IF f[x] = b THEN a ELSE f[x]
  BY <1>1 DEF Swapped
<1>6. PICK p \in 1 .. m : f[p] = a  BY <1>0, PermutationsFinite
<1>7. PICK i \in 1 .. k, o \in 1 .. size : p = PlaceOf(size, i, o) /\ PartOf(size, p) = i - 1
  BY PlaceIsOf
<1>8. PICK u : u = Picked(d, size, Cut(f, size, i))  OBVIOUS
<1>9. /\ u \in [1 .. size -> Int] /\ Total(u) = 0
      /\ \A x \in 1 .. size : u[x] = d[f[PlaceOf(size, i, x)]]
  <2>1. PickSum(m, size, Cut(f, size, i))[d] = 0  BY DEF Zero
  <2>2. f \in [1 .. m -> 1 .. m]  BY <1>2
  <2>7. IsPicked(d, m, size, Cut(f, size, i))  BY <2>2, PickedIs
  <2>3. u \in [1 .. size -> Int] /\ PickSum(m, size, Cut(f, size, i))[d] = Total(u)
    BY <1>8, <2>7, Zenon DEF IsPicked
  <2>6. u \in [1 .. size -> Int]  BY <2>3, Zenon
  <2>4. \A x \in 1 .. size : u[x] = d[f[PlaceOf(size, i, x)]]
    BY <1>8 DEF Picked, Cut, PlaceOf
  <2>5. Total(u) = 0  BY <2>1, <2>3
  <2> QED  BY <2>4, <2>5, <2>6, Zenon
<1>10. PICK v : v = Picked(d, size, Cut(g, size, i))  OBVIOUS
<1>11. /\ v \in [1 .. size -> Int] /\ Total(v) = 0
       /\ \A x \in 1 .. size : v[x] = d[g[PlaceOf(size, i, x)]]
  <2>1. PickSum(m, size, Cut(g, size, i))[d] = 0  BY <1>1 DEF Zero
  <2>2. g \in [1 .. m -> 1 .. m]  BY <1>4
  <2>7. IsPicked(d, m, size, Cut(g, size, i))  BY <2>2, PickedIs
  <2>3. v \in [1 .. size -> Int] /\ PickSum(m, size, Cut(g, size, i))[d] = Total(v)
    BY <1>10, <2>7, Zenon DEF IsPicked
  <2>6. v \in [1 .. size -> Int]  BY <2>3, Zenon
  <2>4. \A x \in 1 .. size : v[x] = d[g[PlaceOf(size, i, x)]]
    BY <1>10 DEF Picked, Cut, PlaceOf
  <2>5. Total(v) = 0  BY <2>1, <2>3
  <2> QED  BY <2>4, <2>5, <2>6, Zenon
<1>12. u[o] = d[a] /\ v[o] = d[b]
  <2>1. f[p] = a /\ g[p] = b  BY <1>5, <1>6
  <2> QED  BY <1>7, <1>9, <1>11, <2>1
<1>13. ASSUME NEW x \in 1 .. size, x # o PROVE u[x] = v[x]
  <2>1. PICK q : q = PlaceOf(size, i, x)  OBVIOUS
  <2>2. q \in 1 .. m /\ PartOf(size, q) = i - 1  BY <2>1, PartOfPlace
  <2>3. q # p  BY <1>7, <1>13, <2>1, PlaceOnce
  <2>4. f[q] # a  BY <1>2, <1>6, <2>2, <2>3
  <2>5. f[q] # b  BY <1>6, <1>7, <2>2 DEF Apart
  <2>6. g[q] = f[q]  BY <1>5, <2>2, <2>4, <2>5
  <2> QED  BY <1>9, <1>11, <2>1, <2>6
<1>14. Total(u) + v[o] = Total(v) + u[o]
  <2>1. \A j \in 1 .. size : j # o => u[j] = v[j]  BY <1>13
  <2> QED  BY <1>0, <1>9, <1>11, <2>1, TotalChange
<1>15. PICK x \in Int, y \in Int : x = d[a] /\ y = d[b] /\ x # y  OBVIOUS
<1>16. 0 + y = 0 + x  BY <1>9, <1>11, <1>12, <1>14, <1>15
<1> QED  BY <1>15, <1>16

\* f maps S into T one to one.
IntoOnce(f, S, T) == f \in [S -> T] /\ \A x, y \in S : f[x] = f[y] => x = y

(* Three quarters.                                                           *)
LEMMA ThreeQuarters ==
  ASSUME NEW All, IsFiniteSet(All), NEW Pass \in SUBSET All, NEW Dis \in SUBSET All,
         NEW mv, IntoOnce(mv, All \ Dis, Dis),
         NEW sw, IntoOnce(sw, Pass \cap Dis, Dis \ Pass)
  PROVE  4 * Cardinality(Pass) <= 3 * Cardinality(All)
<1>1. /\ IsFiniteSet(Dis) /\ IsFiniteSet(Pass) /\ IsFiniteSet(All \ Dis)
      /\ IsFiniteSet(Dis \ Pass) /\ IsFiniteSet(Pass \cap Dis) /\ IsFiniteSet(Pass \ Dis)
  <2>1. \A s \in SUBSET All : IsFiniteSet(s)  BY FS_Subset
  <2> QED  BY <2>1
<1>2. Cardinality(All \ Dis) <= Cardinality(Dis)  BY <1>1, OneToOne DEF IntoOnce
<1>3. Cardinality(Pass \cap Dis) <= Cardinality(Dis \ Pass)
  BY <1>1, OneToOne DEF IntoOnce
<1>4. Cardinality(Pass \ Dis) <= Cardinality(All \ Dis)
  <2>1. Pass \ Dis \in SUBSET (All \ Dis)  OBVIOUS
  <2> QED  BY <1>1, <2>1, FS_Subset
<1>5. Cardinality(All \ Dis) = Cardinality(All) - Cardinality(Dis)
  <2>1. All \cap Dis = Dis  OBVIOUS
  <2>2. Cardinality(All \ Dis) = Cardinality(All) - Cardinality(All \cap Dis)  BY FS_Difference
  <2> QED  BY <2>1, <2>2
<1>6. Cardinality(Pass \ Dis) = Cardinality(Pass) - Cardinality(Pass \cap Dis)
  BY <1>1, FS_Difference
<1>7. Cardinality(Dis \ Pass) = Cardinality(Dis) - Cardinality(Pass \cap Dis)
  <2>1. Dis \cap Pass = Pass \cap Dis  OBVIOUS
  <2>2. Cardinality(Dis \ Pass) = Cardinality(Dis) - Cardinality(Dis \cap Pass)
    BY <1>1, FS_Difference
  <2> QED  BY <2>1, <2>2
<1>8. /\ Cardinality(All) \in Nat /\ Cardinality(Dis) \in Nat /\ Cardinality(Pass) \in Nat
      /\ Cardinality(Pass \cap Dis) \in Nat
  BY <1>1, FS_CardinalityType
<1>9. PICK n \in Nat, e \in Nat, p \in Nat, x \in Nat :
        /\ n = Cardinality(All) /\ e = Cardinality(Dis) /\ p = Cardinality(Pass)
        /\ x = Cardinality(Pass \cap Dis)
  BY <1>8
<1>10. n - e <= e /\ x <= e - x /\ p - x <= n - e
  BY <1>2, <1>3, <1>4, <1>5, <1>6, <1>7, <1>9
<1>11. 4 * p <= 3 * n  BY <1>10
<1> QED  BY <1>9, <1>11

(* A vector other than 0 vanishes on all parts of at most three quarters of  *)
(* the permutations.                                                         *)
LEMMA FewPass ==
  ASSUME NEW k, NEW size, NEW m, Parted(k, size, m), NEW d \in [1 .. m -> Int],
         NEW z \in 1 .. m, d[z] # 0
  PROVE  4 * Cardinality(Passing(d, m, size, k)) <= 3 * Cardinality(Orders(m))
<1>0. m \in Nat /\ size \in Nat \ {0} /\ k \in Nat /\ k >= 2  BY DEF Parted
<1>1. PICK All : All = Orders(m) /\ IsFiniteSet(All)  BY <1>0, PermutationsFinite
<1>2. PICK Pass : /\ Pass = {f \in All : Zero(d, m, size, k, f)}
                  /\ Pass = Passing(d, m, size, k)
  BY <1>1 DEF Passing
<1>3. CASE \A i \in 1 .. m : d[i] = d[z]
  <2>1. PICK c \in Int : c = d[z] /\ c # 0  OBVIOUS
  <2>2. ASSUME NEW f \in All PROVE ~Zero(d, m, size, k, f)
    <3>1. f \in [1 .. m -> 1 .. m]  BY <1>1 DEF Orders
    <3>2. PICK i \in 1 .. k : i = 1  BY <1>0
    <3>3. PICK u : u = Picked(d, size, Cut(f, size, i))  OBVIOUS
    <3>9. IsPicked(d, m, size, Cut(f, size, i))  BY <3>1, PickedIs
    <3>4. u \in [1 .. size -> Int] /\ PickSum(m, size, Cut(f, size, i))[d] = Total(u)
      BY <3>3, <3>9, Zenon DEF IsPicked
    <3>5. \A o \in 1 .. size : u[o] = d[f[PlaceOf(size, i, o)]]
      BY <3>3 DEF Picked, Cut, PlaceOf
    <3>6. \A o \in 1 .. size : u[o] = c
      <4> SUFFICES ASSUME NEW o \in 1 .. size PROVE u[o] = c
        OBVIOUS
      <4>1. PlaceOf(size, i, o) \in 1 .. m  BY PartOfPlace
      <4>2. f[PlaceOf(size, i, o)] \in 1 .. m  BY <3>1, <4>1
      <4> QED  BY <1>3, <2>1, <3>5, <4>2
    <3>7. Total(u) = size * c  BY <1>0, <3>4, <3>6, TotalConstant
    <3>8. size * c # 0
      <4>1. c \in Nat \ {0} \/ -c \in Nat \ {0}  BY <2>1
      <4>2. CASE c \in Nat \ {0}
        <5>1. size * c > 0  BY <1>0, <4>2
        <5> QED  BY <5>1
      <4>3. CASE -c \in Nat \ {0}
        <5>1. size * (-c) > 0  BY <1>0, <4>3
        <5>2. size * (-c) = -(size * c)  BY <1>0
        <5> QED  BY <5>1, <5>2
      <4> QED  BY <4>1, <4>2, <4>3
    <3> QED  BY <3>4, <3>7, <3>8 DEF Zero
  <2>3. Pass = {}  BY <1>2, <2>2
  <2>4. Cardinality(Pass) = 0  BY <2>3, FS_EmptySet
  <2>5. Cardinality(All) \in Nat  BY <1>1, FS_CardinalityType
  <2>6. 4 * Cardinality(Pass) <= 3 * Cardinality(All)  BY <2>4, <2>5
  <2> QED  BY <1>1, <1>2, <2>6
<1>4. CASE \E i \in 1 .. m : d[i] # d[z]
  <2>1. PICK a \in 1 .. m : d[a] # d[z]  BY <1>4
  <2>2. a # z  BY <2>1
  <2>3. PICK Dis : Dis = {f \in All : Apart(m, size, a, z, f)}  OBVIOUS
  <2>4. PICK mv : mv = [f \in All \ Dis |-> Moved(m, size, z, f)]  OBVIOUS
  <2>5. PICK sw : sw = [f \in Pass \cap Dis |-> Swapped(m, a, z, f)]  OBVIOUS
  <2>6. ASSUME NEW f \in All \ Dis PROVE Moved(m, size, z, f) \in Dis
    <3>1. f \in Orders(m) /\ ~Apart(m, size, a, z, f)  BY <1>1, <2>3
    <3>2. Moved(m, size, z, f) \in Orders(m)  BY <2>2, <3>1, MovedIs
    <3>3. Apart(m, size, a, z, Moved(m, size, z, f))  BY <2>2, <3>1, MovedIs
    <3> QED  BY <1>1, <2>3, <3>2, <3>3
  <2>7. mv \in [All \ Dis -> Dis]  BY <2>4, <2>6
  <2>8. ASSUME NEW f \in All \ Dis, NEW g \in All \ Dis, mv[f] = mv[g] PROVE f = g
    <3>1. f \in Orders(m) /\ g \in Orders(m)  BY <1>1
    <3>2. Moved(m, size, z, f) = Moved(m, size, z, g)  BY <2>4, <2>8
    <3>3. \A h \in Orders(m) : Moved(m, size, z, f) = Moved(m, size, z, h) => f = h
      BY <2>2, <3>1, MovedIs
    <3> QED  BY <3>1, <3>2, <3>3
  <2>9. ASSUME NEW f \in Pass \cap Dis PROVE Swapped(m, a, z, f) \in Dis \ Pass
    <3>1. f \in Orders(m) /\ Apart(m, size, a, z, f) /\ Zero(d, m, size, k, f)
      BY <1>1, <1>2, <2>3
    <3>2. /\ Swapped(m, a, z, f) \in Orders(m)
          /\ Apart(m, size, a, z, Swapped(m, a, z, f))
      BY <1>0, <2>2, <3>1, SwappedIs
    <3>3. ~Zero(d, m, size, k, Swapped(m, a, z, f))  BY <2>1, <3>1, SwapChanges
    <3> QED  BY <1>1, <1>2, <2>3, <3>2, <3>3
  <2>10. sw \in [Pass \cap Dis -> Dis \ Pass]  BY <2>5, <2>9
  <2>11. ASSUME NEW f \in Pass \cap Dis, NEW g \in Pass \cap Dis, sw[f] = sw[g] PROVE f = g
    <3>1. f \in Orders(m) /\ g \in Orders(m)  BY <1>1, <1>2
    <3>2. Swapped(m, a, z, f) = Swapped(m, a, z, g)  BY <2>5, <2>11
    <3>3. Swapped(m, a, z, Swapped(m, a, z, f)) = f  BY <1>0, <2>2, <3>1, SwappedIs
    <3>4. Swapped(m, a, z, Swapped(m, a, z, g)) = g  BY <1>0, <2>2, <3>1, SwappedIs
    <3> QED  BY <3>2, <3>3, <3>4
  <2>12. Pass \in SUBSET All /\ Dis \in SUBSET All  BY <1>2, <2>3
  <2>13. 4 * Cardinality(Pass) <= 3 * Cardinality(All)
    <3>1. IntoOnce(mv, All \ Dis, Dis)  BY <2>7, <2>8 DEF IntoOnce
    <3>2. IntoOnce(sw, Pass \cap Dis, Dis \ Pass)  BY <2>10, <2>11 DEF IntoOnce
    <3> QED  BY <1>1, <2>12, <3>1, <3>2, ThreeQuarters
  <2> QED  BY <1>1, <1>2, <2>13
<1> QED  BY <1>3, <1>4

(* A sample lets a claim through exactly if what was added to the sum        *)
(* vanishes on all its parts.                                                *)
LEMMA AgreesIs ==
  ASSUME NEW k, NEW size, NEW m, Parted(k, size, m), k = sub_num,
         NEW s \in [1 .. m -> Int], s = Sum(grads), NEW d \in [1 .. m -> Int],
         claim = [i \in 1 .. m |-> s[i] + d[i]], claim \in [1 .. m -> Int],
         NEW f \in Orders(m)
  PROVE  Agrees(f) <=> Zero(d, m, size, k, f)
<1>0. k \in Nat \ {0} /\ size \in Nat /\ m \in Nat /\ m = k * size  BY DEF Parted
<1>1. f \in [1 .. m -> 1 .. m]  BY DEF Orders
<1>2. PICK u : u = PartSums(claim, f, k) /\ u = [i \in 1 .. k |-> u[i]]  BY DEF PartSums
<1>3. PICK t : t = PartSums(s, f, k) /\ t = [i \in 1 .. k |-> t[i]]  BY DEF PartSums
<1>4. ASSUME NEW i \in 1 .. k
      PROVE  u[i] = t[i] <=> PickSum(m, size, Cut(f, size, i))[d] = 0
  <2>1. PICK L : L = PickSum(m, size, Cut(f, size, i))  OBVIOUS
  <2>2. Cut(f, size, i) \in [1 .. size -> 1 .. m]  BY <1>0, <1>1, PartIs
  <2>3. Linear(L, m)  BY <1>0, <2>1, <2>2, PickSumLinear
  <2>4. PartAs(L, m, f, k, i)  BY <1>0, <1>1, <2>1, PartIs
  <2>5. u[i] = L[claim] /\ t[i] = L[s]  BY <1>2, <1>3, <2>4 DEF PartAs
  <2>6. L[claim] = L[s] + L[d]  BY <2>3 DEF Linear
  <2>7. L[s] \in Int /\ L[d] \in Int  BY <2>3 DEF Linear
  <2>8. PICK x \in Int, y \in Int : x = L[s] /\ y = L[d]  BY <2>7
  <2>9. u[i] = x + y /\ t[i] = x  BY <2>5, <2>6, <2>8
  <2> QED  BY <2>1, <2>8, <2>9
<1>5. u = t <=> \A i \in 1 .. k : u[i] = t[i]  BY <1>2, <1>3
<1>6. Agrees(f) <=> u = t  BY <1>2, <1>3 DEF Agrees
<1> QED  BY <1>4, <1>5, <1>6 DEF Zero

(* What holds of every choice.                                               *)
LEMMA SamplingDoes == Chosen => SamplingCatches
<1> SUFFICES ASSUME Chosen, Even(claim, sub_num)
             PROVE  LET all     == SetToSeqs(DOMAIN claim)
                        passing == {perm \in all : Agrees(perm)}
                    IN  IF claim = Sum(grads) THEN passing = all
                        ELSE 4 * Cardinality(passing) <= 3 * Cardinality(all)
  BY DEF SamplingCatches
<1>1. PICK m, d : /\ Wide(m) /\ Len(claim) = m /\ d \in [1 .. m -> Int]
                  /\ Sum(grads) \in [1 .. m -> Int] /\ claim \in [1 .. m -> Int]
                  /\ claim = [i \in 1 .. m |-> Sum(grads)[i] + d[i]]
  <2>1. PICK m, d : Claimed(m, d)  BY ClaimIs
  <2> QED  BY <2>1 DEF Claimed
<1>2. m \in Nat  BY <1>1 DEF Wide
<1>3. PICK k \in Nat : k = sub_num /\ k >= 2
  <2>1. sub_num \in 2 .. Len(G)  BY VectorAssumption DEF Chosen
  <2> QED  BY <2>1
<1>4. PICK size \in Nat : m = k * size
  <2>1. k \in Nat \ {0}  BY <1>3
  <2>2. m % k = 0  BY <1>1, <1>3 DEF Even
  <2>3. m \in Int /\ m \div k \in Int /\ m = k * (m \div k) + (m % k)  BY <1>2, <2>1, DivMod
  <2>4. PICK q \in Nat : q = m \div k  BY <1>2, <2>1
  <2>5. m = k * q  BY <2>2, <2>3, <2>4
  <2> QED  BY <2>5
<1>5. SetToSeqs(DOMAIN claim) = Orders(m)
  <2>1. DOMAIN claim = 1 .. m  BY <1>1
  <2> QED  BY <1>2, <2>1, PermutationsAre DEF Orders
<1>6. PICK passing : passing = {f \in Orders(m) : Agrees(f)}  OBVIOUS
<1>7. CASE claim = Sum(grads)
  <2>1. \A f : Agrees(f)  BY <1>7 DEF Agrees
  <2>2. passing = Orders(m)  BY <1>6, <2>1
  <2> QED  BY <1>5, <1>6, <1>7, <2>2
<1>8. CASE claim # Sum(grads)
  <2>1. PICK s \in [1 .. m -> Int] : s = Sum(grads)  BY <1>1
  <2>2. claim = [i \in 1 .. m |-> s[i] + d[i]]  BY <1>1, <2>1
  <2>3. PICK z \in 1 .. m : d[z] # 0
    <3> SUFFICES ASSUME \A i \in 1 .. m : d[i] = 0 PROVE FALSE
      OBVIOUS
    <3>1. \A i \in 1 .. m : claim[i] = s[i]
      <4> SUFFICES ASSUME NEW i \in 1 .. m PROVE claim[i] = s[i]
        OBVIOUS
      <4>1. claim[i] = s[i] + 0 /\ s[i] \in Int  BY <2>2
      <4> QED  BY <4>1
    <3>2. claim = [i \in 1 .. m |-> claim[i]] /\ s = [i \in 1 .. m |-> s[i]]  BY <1>1
    <3>3. claim = s  BY <3>1, <3>2
    <3> QED  BY <1>8, <2>1, <3>3
  <2>4. size # 0
    <3>1. ASSUME size = 0 PROVE FALSE
      <4>1. m = 0  BY <1>4, <3>1
      <4> QED  BY <2>3, <4>1
    <3> QED  BY <3>1
  <2>5. Parted(k, size, m)  BY <1>2, <1>3, <1>4, <2>4 DEF Parted
  <2>6. \A f \in Orders(m) : Agrees(f) <=> Zero(d, m, size, k, f)
    BY <1>1, <1>3, <2>1, <2>2, <2>5, AgreesIs
  <2>7. passing = Passing(d, m, size, k)  BY <1>6, <2>6 DEF Passing
  <2>8. 4 * Cardinality(passing) <= 3 * Cardinality(Orders(m))
    BY <1>1, <2>3, <2>5, <2>7, FewPass
  <2> QED  BY <1>5, <1>6, <1>8, <2>8
<1> QED  BY <1>7, <1>8

(* README.md, introduction: a wrong claim is let through by a sample for at  *)
(* most three quarters of its permutations, whatever was added to the sum,   *)
(* and a right one for all.                                                  *)
THEOREM SamplingDoesCatch == Spec => []SamplingCatches
<1>1. SampleInv => SamplingCatches  BY SamplingDoes DEF SampleInv
<1> QED  BY <1>1, SampleStarts, SampleKept, PTL DEF Spec
=============================================================================
