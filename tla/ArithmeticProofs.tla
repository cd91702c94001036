-------------------------- MODULE ArithmeticProofs --------------------------
(***************************************************************************)
(* What the helpers of phe/util.py compute: repeated squaring gives the    *)
(* power, the extended Euclidean algorithm an inverse, improved_i_sqrt the *)
(* root of a square, and miller_rabin never refuses a prime.  With them,   *)
(* Paillier decryption inverts encryption, and the operations on           *)
(* ciphertexts are operations on what they hold (phe/paillier.py).  The    *)
(* facts about integers at the beginning, the least number principle,      *)
(* which stands for induction, recursions and folds, and the remainders    *)
(* serve other modules too.                                                *)
(***************************************************************************)
EXTENDS RawPaillier, FiniteSetTheorems, WellFoundedInduction, TLAPS

(* Every set of natural numbers that is not empty has a least element: the   *)
(* form in which the proofs use induction, on the set of counterexamples.    *)
LEMMA LeastNumber ==
  ASSUME NEW S \in SUBSET Nat, S # {}
  PROVE  \E x \in S : \A y \in S : x <= y
<1>1. PICK x \in S : \A y \in S : ~(<<y, x>> \in OpToRel(<, Nat))
  BY NatLessThanWellFounded, WFMin, Zenon
<1>2. \A y \in S : ~(y < x)
  BY <1>1 DEF OpToRel
<1> QED  BY <1>2

-----------------------------------------------------------------------------
(* Division with remainder, and that it has one solution only.               *)
LEMMA DivMod ==
  ASSUME NEW m \in Nat \ {0}, NEW x \in Int
  PROVE  /\ x \div m \in Int /\ x % m \in 0 .. m - 1
         /\ x = m * (x \div m) + (x % m)
  OBVIOUS

(* The only multiple of m nearer to 0 than m is 0.                           *)
LEMMA NoMultipleBelow ==
  ASSUME NEW m \in Nat \ {0}, NEW d \in Int, -m < m * d, m * d < m
  PROVE  d = 0
<1>1. CASE d >= 1
  <2>1. m * d >= m  BY <1>1
  <2> QED  BY <2>1
<1>2. CASE d <= -1
  <2>1. m * d <= -m  BY <1>2
  <2> QED  BY <2>1
<1> QED  BY <1>1, <1>2

(* So a remainder is known from any such equation.                           *)
LEMMA ModUnique ==
  ASSUME NEW m \in Nat \ {0}, NEW x \in Int, NEW k \in Int, NEW r \in 0 .. m - 1,
         x = m * k + r
  PROVE  x % m = r
<1> DEFINE d == k - (x \div m)
<1>1. /\ x \div m \in Int /\ x % m \in 0 .. m - 1 /\ x = m * (x \div m) + (x % m)
  BY DivMod
<1>2. m * d = (x % m) - r
  <2>1. m * d = m * k - m * (x \div m)  BY <1>1
  <2> QED  BY <2>1, <1>1
<1>3. d \in Int  BY <1>1
<1>4. -m < m * d /\ m * d < m  BY <1>1, <1>2
<1>5. d = 0  BY <1>3, <1>4, NoMultipleBelow
<1> QED  BY <1>2, <1>5, <1>1

(* And so is the quotient.                                                   *)
LEMMA DivUnique ==
  ASSUME NEW m \in Nat \ {0}, NEW x \in Int, NEW k \in Int, NEW r \in 0 .. m - 1,
         x = m * k + r
  PROVE  x \div m = k
<1> DEFINE d == k - (x \div m)
<1>1. x \div m \in Int /\ x = m * (x \div m) + (x % m)  BY DivMod
<1>2. x % m = r  BY ModUnique
<1>3. m * d = 0
  <2>1. m * d = m * k - m * (x \div m)  BY <1>1
  <2> QED  BY <2>1, <1>1, <1>2
<1>4. d \in Int  BY <1>1
<1>5. d = 0  BY <1>3, <1>4, NoMultipleBelow
<1> QED  BY <1>1, <1>5

(* Adding a multiple of the modulus changes nothing.                         *)
LEMMA ModShift ==
  ASSUME NEW m \in Nat \ {0}, NEW x \in Int, NEW k \in Int
  PROVE  (x + m * k) % m = x % m
<1>1. /\ x \div m \in Int /\ x % m \in 0 .. m - 1 /\ x = m * (x \div m) + (x % m)
  BY DivMod
<1>2. x + m * k = m * (x \div m + k) + (x % m)
  <2>1. m * (x \div m + k) = m * (x \div m) + m * k  BY <1>1
  <2> QED  BY <2>1, <1>1
<1>3. x + m * k \in Int /\ x \div m + k \in Int  BY <1>1
<1> QED  BY <1>1, <1>2, <1>3, ModUnique

(* A residue may be taken before a factor and a summand are applied: this is *)
(* what the operations on ciphertexts rest on.                               *)
LEMMA ModAffine ==
  ASSUME NEW m \in Nat \ {0}, NEW x \in Int, NEW f \in Int, NEW v \in Int
  PROVE  ((x % m) * f + v) % m = (x * f + v) % m
<1>1. /\ x \div m \in Int /\ x % m \in 0 .. m - 1 /\ x = m * (x \div m) + (x % m)
  BY DivMod
<1> DEFINE k == (x \div m) * f
           y == (x % m) * f + v
<1>2. k \in Int /\ y \in Int  BY <1>1
<1>3. x * f + v = y + m * k
  <2>1. x * f = (m * (x \div m)) * f + (x % m) * f  BY <1>1
  <2>2. (m * (x \div m)) * f = m * k  BY <1>1
  <2>3. x * f \in Int /\ (x % m) * f \in Int /\ m * k \in Int  BY <1>1
  <2> QED  BY <2>1, <2>2, <2>3
<1>4. (y + m * k) % m = y % m
  <2> HIDE DEF k, y
  <2> QED  BY <1>2, ModShift
<1> QED  BY <1>3, <1>4

(* The residues of small numbers.                                            *)
LEMMA SmallMod ==
  ASSUME NEW m \in Nat \ {0}, NEW x \in Int
  PROVE  /\ x \in 0 .. m - 1 => x % m = x
         /\ x \in -m .. -1 => x % m = x + m
<1>1. CASE x \in 0 .. m - 1
  <2>1. x = m * 0 + x  OBVIOUS
  <2>2. x % m = x  BY <1>1, <2>1, ModUnique
  <2> QED  BY <1>1, <2>2
<1>2. CASE x \in -m .. -1
  <2>1. x = m * (-1) + (x + m)  OBVIOUS
  <2>2. x + m \in 0 .. m - 1  BY <1>2
  <2>3. x % m = x + m  BY <2>1, <2>2, ModUnique
  <2> QED  BY <1>2, <2>3
<1> QED  BY <1>1, <1>2

-----------------------------------------------------------------------------
(* Induction, as the proofs below use it: a set of numbers that contains 0   *)
(* and, with a number, its successor, contains them all.                     *)
LEMMA Induction ==
  ASSUME NEW S, 0 \in S, \A k \in Nat : k \in S => k + 1 \in S
  PROVE  Nat \subseteq S
<1> SUFFICES ASSUME NEW z \in Nat, z \notin S PROVE FALSE
  OBVIOUS
<1>1. PICK x \in Nat \ S : \A y \in Nat \ S : x <= y
  <2>1. Nat \ S \in SUBSET Nat /\ Nat \ S # {}  OBVIOUS
  <2> QED  BY <2>1, LeastNumber
<1>2. x # 0 /\ x - 1 \in Nat /\ x - 1 \in S  BY <1>1
<1>3. (x - 1) + 1 \in S  BY <1>2
<1> QED  BY <1>1, <1>3

\* f begins with base, and step[k] leads from f[k] to the next.
Iterates(f, V, base, step) ==
  /\ f \in [Nat -> V]
  /\ f = [k \in Nat |-> IF k = 0 THEN base ELSE step[k - 1][f[k - 1]]]

(* A value, a step for every number, and there is the sequence of the values *)
(* that come of it.                                                          *)
LEMMA Iterate ==
  ASSUME NEW V, NEW base \in V, NEW step \in [Nat -> [V -> V]]
  PROVE  \E f : Iterates(f, V, base, step)
<1> DEFINE Goes(g, z) == /\ g \in [0 .. z -> V] /\ g[0] = base
                         /\ \A k \in 0 .. z - 1 : g[k + 1] = step[k][g[k]]
           S == {z \in Nat : \E g : Goes(g, z)}
<1>1. 0 \in S
  <2>1. Goes([k \in 0 .. 0 |-> base], 0)  OBVIOUS
  <2> QED  BY <2>1
<1>2. ASSUME NEW z \in Nat, z \in S PROVE z + 1 \in S
  <2>1. PICK g : Goes(g, z)  BY <1>2
  <2> DEFINE h == [k \in 0 .. z + 1 |-> IF k <= z THEN g[k] ELSE step[z][g[z]]]
  <2>2. g[z] \in V  BY <2>1
  <2>3. step[z][g[z]] \in V  BY <2>2
  <2>4. h \in [0 .. z + 1 -> V]  BY <2>1, <2>3
  <2>5. h[0] = base  BY <2>1
  <2>6. ASSUME NEW k \in 0 .. (z + 1) - 1 PROVE h[k + 1] = step[k][h[k]]
    <3>1. k \in 0 .. z /\ k \in 0 .. z + 1 /\ k + 1 \in 0 .. z + 1  OBVIOUS
    <3>2. h[k] = g[k]  BY <3>1
    <3>3. CASE k = z  BY <3>1, <3>2, <3>3
    <3>4. CASE k < z
      <4>1. k \in 0 .. z - 1 /\ k + 1 <= z  BY <3>4, <3>1
      <4>2. h[k + 1] = g[k + 1]  BY <4>1, <3>1
      <4> QED  BY <2>1, <3>2, <4>1, <4>2
    <3> QED  BY <3>1, <3>3, <3>4
  <2> HIDE DEF h
  <2>7. Goes(h, z + 1)  BY <2>4, <2>5, <2>6
  <2> QED  BY <2>7
<1>3. Nat \subseteq S
  <2> HIDE DEF S
  <2> QED  BY <1>1, <1>2, Induction
<1> DEFINE G(z) == CHOOSE g : Goes(g, z)
           f == [z \in Nat |-> G(z)[z]]
<1>4. \A z \in Nat : Goes(G(z), z)  BY <1>3
<1>5. ASSUME NEW z \in Nat PROVE \A k \in 0 .. z : G(z + 1)[k] = G(z)[k]
  <2> DEFINE T == {k \in Nat : k <= z => G(z + 1)[k] = G(z)[k]}
  <2> HIDE DEF G
  <2>1. 0 \in T  BY <1>4
  <2>2. ASSUME NEW k \in Nat, k \in T PROVE k + 1 \in T
    <3> SUFFICES ASSUME k + 1 <= z PROVE G(z + 1)[k + 1] = G(z)[k + 1]
      OBVIOUS
    <3>1. k \in 0 .. z - 1 /\ k \in 0 .. (z + 1) - 1  OBVIOUS
    <3>2. G(z + 1)[k] = G(z)[k]  BY <2>2
    <3>3. G(z)[k + 1] = step[k][G(z)[k]]  BY <1>4, <3>1
    <3>4. z + 1 \in Nat  OBVIOUS
    <3>5. G(z + 1)[k + 1] = step[k][G(z + 1)[k]]  BY <1>4, <3>1, <3>4
    <3> QED  BY <3>2, <3>3, <3>5
  <2>3. Nat \subseteq T
    <3> HIDE DEF T
    <3> QED  BY <2>1, <2>2, Induction
  <2> QED  BY <2>3
<1>6. f \in [Nat -> V] /\ f[0] = base
  <2> HIDE DEF G
  <2> QED  BY <1>4
<1>7. ASSUME NEW k \in Nat PROVE f[k + 1] = step[k][f[k]]
  <2> HIDE DEF G
  <2>1. k + 1 \in Nat /\ k \in 0 .. (k + 1) - 1 /\ k \in 0 .. k  OBVIOUS
  <2>2. f[k + 1] = step[k][G(k + 1)[k]]  BY <1>4, <2>1
  <2>3. G(k + 1)[k] = f[k]  BY <1>5, <2>1
  <2> QED  BY <2>2, <2>3
<1> HIDE DEF f
<1>8. ASSUME NEW k \in Nat \ {0} PROVE f[k] = step[k - 1][f[k - 1]]
  <2>1. k - 1 \in Nat /\ (k - 1) + 1 = k  OBVIOUS
  <2>2. f[(k - 1) + 1] = step[k - 1][f[k - 1]]  BY <1>7, <2>1
  <2> QED  BY <2>1, <2>2
<1>9. f = [k \in Nat |-> IF k = 0 THEN base ELSE step[k - 1][f[k - 1]]]
  BY <1>6, <1>8
<1>10. Iterates(f, V, base, step)  BY <1>6, <1>9 DEF Iterates
<1> QED  BY <1>10

-----------------------------------------------------------------------------
\* An order to take the elements of S in.
Picks(pick, S) == \A s \in SUBSET S : s # {} => pick[s] \in s

\* f[s] is base for the empty set, and else it comes of the rest by the step of
\* the element taken, which is pick[s].
Folds(f, S, base, step, pick) ==
  f = [s \in SUBSET S |-> IF s = {} THEN base ELSE step[pick[s]][f[s \ {pick[s]}]]]

(* There is a fold for every finite set, every step and every order.         *)
LEMMA FoldExists ==
  ASSUME NEW S, IsFiniteSet(S), NEW V, NEW base \in V, NEW step \in [S -> [V -> V]],
         NEW pick, Picks(pick, S)
  PROVE  \E f : f \in [SUBSET S -> V] /\ Folds(f, S, base, step, pick)
<1> DEFINE W == [SUBSET S -> V]
           next(g) == [s \in SUBSET S |->
                         IF s = {} THEN base ELSE step[pick[s]][g[s \ {pick[s]}]]]
           steps == [k \in Nat |-> [g \in W |-> next(g)]]
           first == [s \in SUBSET S |-> base]
<1>1. ASSUME NEW s \in SUBSET S, s # {}
      PROVE  pick[s] \in s /\ pick[s] \in S /\ s \ {pick[s]} \in SUBSET S
  BY <1>1 DEF Picks
<1>2. ASSUME NEW g \in W PROVE next(g) \in W  BY <1>1
<1>3. steps \in [Nat -> [W -> W]] /\ first \in W  BY <1>2
<1>4. PICK h : Iterates(h, W, first, steps)
  <2> HIDE DEF steps, first, W
  <2> QED  BY <1>3, Iterate
<1> DEFINE f == [s \in SUBSET S |-> h[Cardinality(s)][s]]
<1>5. h \in [Nat -> W] /\ h[0] = first  BY <1>4 DEF Iterates
<1>6. ASSUME NEW k \in Nat \ {0} PROVE h[k] = next(h[k - 1])
  <2>1. k \in Nat /\ k - 1 \in Nat /\ k # 0  OBVIOUS
  <2>2. h[k] = steps[k - 1][h[k - 1]]
    <3> HIDE DEF steps, W
    <3> QED  BY <1>4, <2>1 DEF Iterates
  <2>3. h[k - 1] \in W  BY <1>5, <2>1
  <2> QED  BY <2>1, <2>2, <2>3
<1>7. \A s \in SUBSET S : Cardinality(s) \in Nat  BY FS_Subset, FS_CardinalityType
<1>8. f \in [SUBSET S -> V]  BY <1>5, <1>7
<1>9. ASSUME NEW s \in SUBSET S
      PROVE  f[s] = IF s = {} THEN base ELSE step[pick[s]][f[s \ {pick[s]}]]
  <2>1. CASE s = {}
    <3>1. f[s] = h[0][s]  BY <2>1, FS_EmptySet
    <3> QED  BY <1>5, <2>1, <3>1
  <2>2. CASE s # {}
    <3>1. IsFiniteSet(s)  BY FS_Subset
    <3>2. PICK k \in Nat \ {0} : k = Cardinality(s) /\ Cardinality(s \ {pick[s]}) = k - 1
      <4>1. pick[s] \in s  BY <1>1, <2>2
      <4>2. Cardinality(s) \in Nat /\ Cardinality(s) # 0
        BY <2>2, <3>1, FS_CardinalityType, FS_EmptySet
      <4>3. Cardinality(s \ {pick[s]}) = Cardinality(s) - 1  BY <3>1, <4>1, FS_RemoveElement
      <4> QED  BY <4>2, <4>3
    <3>3. f[s] = next(h[k - 1])[s]  BY <1>6, <3>2
    <3>4. s \ {pick[s]} \in SUBSET S  OBVIOUS
    <3>5. f[s \ {pick[s]}] = h[k - 1][s \ {pick[s]}]  BY <3>2, <3>4
    <3> HIDE DEF f
    <3> QED  BY <2>2, <3>3, <3>5
  <2> QED  BY <2>1, <2>2
<1> HIDE DEF f
<1>10. f = [s \in SUBSET S |-> f[s]]  BY <1>8
<1>11. Folds(f, S, base, step, pick)  BY <1>9, <1>10 DEF Folds
<1> QED  BY <1>8, <1>11

-----------------------------------------------------------------------------
(* Powers: the recursion that defines them.                                  *)
LEMMA PowSteps ==
  ASSUME NEW b \in Int
  PROVE  /\ Pow(b, 0) = 1
         /\ \A e \in Nat : Pow(b, e) \in Int /\ Pow(b, e + 1) = b * Pow(b, e)
<1> DEFINE Loop(f) == [k \in Nat |-> IF k = 0 THEN 1 ELSE b * f[k - 1]]
           pow == CHOOSE f : f = Loop(f)
<1>1. \A e : Pow(b, e) = pow[e]  BY DEF Pow
<1>2. \E f : f = Loop(f)
  <2> DEFINE times == [k \in Nat |-> [v \in Int |-> b * v]]
  <2>1. times \in [Nat -> [Int -> Int]]  OBVIOUS
  <2> HIDE DEF times
  <2>2. PICK f : Iterates(f, Int, 1, times)
    <3>1. 1 \in Int  OBVIOUS
    <3> QED  BY <2>1, <3>1, Iterate, Zenon
  <2>3. ASSUME NEW k \in Nat \ {0} PROVE times[k - 1][f[k - 1]] = b * f[k - 1]
    <3>1. k - 1 \in Nat  OBVIOUS
    <3>2. f[k - 1] \in Int  BY <2>2, <3>1 DEF Iterates
    <3> QED  BY <3>1, <3>2 DEF times
  <2>4. f = Loop(f)  BY <2>2, <2>3 DEF Iterates
  <2> QED  BY <2>4
<1>3. pow = Loop(pow)  BY <1>2
<1> HIDE DEF pow
<1>4. pow[0] = 1  BY <1>3
<1>5. ASSUME NEW k \in Nat PROVE pow[k + 1] = b * pow[k]
  <2>1. k + 1 \in Nat /\ k + 1 # 0 /\ (k + 1) - 1 = k  OBVIOUS
  <2> QED  BY <1>3, <2>1
<1>6. \A k \in Nat : pow[k] \in Int
  <2> DEFINE S == {k \in Nat : pow[k] \in Int}
  <2>1. 0 \in S  BY <1>4
  <2>2. \A k \in Nat : k \in S => k + 1 \in S  BY <1>5
  <2>3. Nat \subseteq S
    <3> HIDE DEF S
    <3> QED  BY <2>1, <2>2, Induction
  <2> QED  BY <2>3
<1> QED  BY <1>1, <1>4, <1>5, <1>6

(* Powers of the same number are multiplied by adding their exponents.       *)
LEMMA PowAdd ==
  ASSUME NEW b \in Int, NEW e \in Nat, NEW f \in Nat
  PROVE  Pow(b, e + f) = Pow(b, e) * Pow(b, f)
<1> DEFINE S == {k \in Nat : Pow(b, e + k) = Pow(b, e) * Pow(b, k)}
<1>1. 0 \in S
  <2>1. Pow(b, 0) = 1 /\ Pow(b, e) \in Int  BY PowSteps
  <2> QED  BY <2>1
<1>2. ASSUME NEW k \in Nat, k \in S PROVE k + 1 \in S
  <2>1. e + k \in Nat /\ (e + k) + 1 = e + (k + 1)  OBVIOUS
  <2>2. Pow(b, e + (k + 1)) = b * Pow(b, e + k)  BY <2>1, PowSteps
  <2>3. Pow(b, k + 1) = b * Pow(b, k)  BY PowSteps
  <2>4. Pow(b, e) \in Int /\ Pow(b, k) \in Int  BY PowSteps
  <2>5. Pow(b, e + k) = Pow(b, e) * Pow(b, k)  BY <1>2
  <2>6. b * (Pow(b, e) * Pow(b, k)) = Pow(b, e) * (b * Pow(b, k))  BY <2>4
  <2> QED  BY <2>2, <2>3, <2>5, <2>6
<1>3. Nat \subseteq S
  <2> HIDE DEF S
  <2> QED  BY <1>1, <1>2, Induction
<1> QED  BY <1>3

(* Powers with the same exponent are multiplied by multiplying their bases.  *)
LEMMA PowTimes ==
  ASSUME NEW a \in Int, NEW b \in Int, NEW e \in Nat
  PROVE  Pow(a * b, e) = Pow(a, e) * Pow(b, e)
<1> DEFINE S == {k \in Nat : Pow(a * b, k) = Pow(a, k) * Pow(b, k)}
<1>0. a * b \in Int  OBVIOUS
<1>1. 0 \in S  BY <1>0, PowSteps
<1>2. ASSUME NEW k \in Nat, k \in S PROVE k + 1 \in S
  <2>1. Pow(a * b, k + 1) = (a * b) * Pow(a * b, k)  BY <1>0, PowSteps
  <2>2. Pow(a, k + 1) = a * Pow(a, k) /\ Pow(a, k) \in Int  BY PowSteps
  <2>3. Pow(b, k + 1) = b * Pow(b, k) /\ Pow(b, k) \in Int  BY PowSteps
  <2>4. Pow(a * b, k) = Pow(a, k) * Pow(b, k)  BY <1>2
  <2>5. (a * b) * (Pow(a, k) * Pow(b, k)) = (a * Pow(a, k)) * (b * Pow(b, k))
    BY <2>2, <2>3
  <2> QED  BY <2>1, <2>2, <2>3, <2>4, <2>5
<1>3. Nat \subseteq S
  <2> HIDE DEF S
  <2> QED  BY <1>1, <1>2, Induction
<1> QED  BY <1>3

(* A power of a power multiplies the exponents.                              *)
LEMMA PowPow ==
  ASSUME NEW b \in Int, NEW e \in Nat, NEW f \in Nat
  PROVE  Pow(Pow(b, e), f) = Pow(b, e * f)
<1> DEFINE S == {k \in Nat : Pow(Pow(b, e), k) = Pow(b, e * k)}
<1>0. Pow(b, e) \in Int  BY PowSteps
<1>1. 0 \in S
  <2>1. e * 0 = 0  OBVIOUS
  <2> QED  BY <1>0, <2>1, PowSteps
<1>2. ASSUME NEW k \in Nat, k \in S PROVE k + 1 \in S
  <2>1. Pow(Pow(b, e), k + 1) = Pow(b, e) * Pow(Pow(b, e), k)  BY <1>0, PowSteps
  <2>2. e * k \in Nat /\ e + e * k = e * (k + 1)  OBVIOUS
  <2>3. Pow(b, e + e * k) = Pow(b, e) * Pow(b, e * k)
    <3> DEFINE d == e * k
    <3> HIDE DEF d
    <3>1. d \in Nat  BY <2>2 DEF d
    <3>2. Pow(b, e + d) = Pow(b, e) * Pow(b, d)  BY <3>1, PowAdd
    <3> QED  BY <3>2 DEF d
  <2> QED  BY <1>2, <2>1, <2>2, <2>3
<1>3. Nat \subseteq S
  <2> HIDE DEF S
  <2> QED  BY <1>1, <1>2, Induction
<1> QED  BY <1>3

(* The powers of a positive number are positive, and those of 1 are 1.       *)
LEMMA PowPositive ==
  ASSUME NEW b \in Nat \ {0}, NEW e \in Nat
  PROVE  Pow(b, e) \in Nat \ {0} /\ Pow(1, e) = 1
<1> DEFINE S == {k \in Nat : Pow(b, k) \in Nat \ {0} /\ Pow(1, k) = 1}
<1>0. b \in Int /\ 1 \in Int  OBVIOUS
<1>1. 0 \in S
  <2>1. Pow(b, 0) = 1  BY <1>0, PowSteps
  <2>2. Pow(1, 0) = 1  BY <1>0, PowSteps
  <2> QED  BY <2>1, <2>2
<1>2. ASSUME NEW k \in Nat, k \in S PROVE k + 1 \in S
  <2>1. Pow(b, k + 1) = b * Pow(b, k) /\ Pow(1, k + 1) = 1 * Pow(1, k)  BY <1>0, PowSteps
  <2>2. Pow(b, k) \in Nat /\ Pow(b, k) >= 1 /\ b >= 1 /\ Pow(1, k) = 1  BY <1>2
  <2>3. b * Pow(b, k) \in Nat /\ b * Pow(b, k) # 0  BY <2>2
  <2> QED  BY <2>1, <2>2, <2>3
<1>3. Nat \subseteq S
  <2> HIDE DEF S
  <2> QED  BY <1>1, <1>2, Induction
<1> QED  BY <1>3

(* The powers of 2 grow, faster than their exponents.                        *)
LEMMA PowGrows ==
  ASSUME NEW e \in Nat
  PROVE  /\ Pow(2, e) \in Nat /\ Pow(2, e) > e
         /\ Pow(2, e + 1) = 2 * Pow(2, e)
         /\ \A f \in 0 .. e : Pow(2, f) <= Pow(2, e) /\ (f < e => Pow(2, f) < Pow(2, e))
<1>0. 2 \in Int /\ 2 \in Nat \ {0}  OBVIOUS
<1>1. \A k \in Nat : Pow(2, k) \in Nat \ {0} /\ Pow(2, k + 1) = 2 * Pow(2, k)
  BY <1>0, PowSteps, PowPositive
<1> DEFINE S == {k \in Nat : Pow(2, k) > k}
           T == {k \in Nat : \A f \in 0 .. k : /\ Pow(2, f) <= Pow(2, k)
                                               /\ f < k => Pow(2, f) < Pow(2, k)}
<1>2. 0 \in S /\ 0 \in T
  <2>1. Pow(2, 0) = 1  BY <1>0, PowSteps
  <2> QED  BY <2>1
<1>3. ASSUME NEW k \in Nat, k \in S PROVE k + 1 \in S
  BY <1>1, <1>3
<1>4. ASSUME NEW k \in Nat, k \in T PROVE k + 1 \in T
  <2>1. Pow(2, k) < Pow(2, k + 1)  BY <1>1
  <2>2. ASSUME NEW f \in 0 .. k + 1
        PROVE  Pow(2, f) <= Pow(2, k + 1) /\ (f < k + 1 => Pow(2, f) < Pow(2, k + 1))
    <3>1. CASE f = k + 1
      <4>1. k + 1 \in Nat  OBVIOUS
      <4> QED  BY <1>1, <3>1, <4>1
    <3>2. CASE f < k + 1
      <4>1. f \in 0 .. k /\ f \in Nat /\ k + 1 \in Nat  BY <3>2
      <4>2. Pow(2, f) <= Pow(2, k)  BY <1>4, <4>1
      <4> QED  BY <1>1, <2>1, <4>1, <4>2
    <3> QED  BY <3>1, <3>2
  <2> QED  BY <2>2
<1>5. Nat \subseteq S
  <2> HIDE DEF S
  <2> QED  BY <1>2, <1>3, Induction
<1>6. Nat \subseteq T
  <2> HIDE DEF T
  <2> QED  BY <1>2, <1>4, Induction
<1> QED  BY <1>1, <1>5, <1>6

-----------------------------------------------------------------------------
(* Remainders may be taken of the factors of a product.                      *)
LEMMA ModTimes ==
  ASSUME NEW m \in Nat \ {0}, NEW a \in Int, NEW b \in Int
  PROVE  /\ ((a % m) * b) % m = (a * b) % m
         /\ (b * (a % m)) % m = (b * a) % m
         /\ ((a % m) * (b % m)) % m = (a * b) % m
<1>1. \A x, y \in Int : ((x % m) * y) % m = (x * y) % m
  <2> TAKE x, y \in Int
  <2>1. ((x % m) * y + 0) % m = (x * y + 0) % m
    <3>1. 0 \in Int  OBVIOUS
    <3> QED  BY <3>1, ModAffine, Zenon
  <2>2. x % m \in Int /\ x * y + 0 = x * y /\ (x % m) * y + 0 = (x % m) * y
    <3>1. x % m \in Int  BY DivMod
    <3> QED  BY <3>1
  <2> QED  BY <2>1, <2>2
<1>2. a % m \in Int /\ b % m \in Int  BY DivMod
<1>3. ((a % m) * b) % m = (a * b) % m  BY <1>1
<1>4. b * (a % m) = (a % m) * b /\ b * a = a * b  BY <1>2
<1>5. ((b % m) * (a % m)) % m = (b * (a % m)) % m  BY <1>1, <1>2
<1>6. (b % m) * (a % m) = (a % m) * (b % m)  BY <1>2
<1> QED  BY <1>3, <1>4, <1>5, <1>6

\* a and b leave the same remainder.
Cong(m, a, b) == a % m = b % m

(* Numbers with the same remainders have products with the same remainder.    *)
LEMMA CongTimes ==
  ASSUME NEW m \in Nat \ {0}, NEW a \in Int, NEW b \in Int, NEW c \in Int, NEW d \in Int,
         Cong(m, a, c), Cong(m, b, d)
  PROVE  Cong(m, a * b, c * d)
<1>1. ((a % m) * (b % m)) % m = (a * b) % m  BY ModTimes
<1>2. ((c % m) * (d % m)) % m = (c * d) % m  BY ModTimes
<1> QED  BY <1>1, <1>2 DEF Cong

(* And powers with the same remainder.                                       *)
LEMMA CongPow ==
  ASSUME NEW m \in Nat \ {0}, NEW a \in Int, NEW c \in Int, Cong(m, a, c), NEW e \in Nat
  PROVE  Cong(m, Pow(a, e), Pow(c, e))
<1> DEFINE S == {k \in Nat : Cong(m, Pow(a, k), Pow(c, k))}
<1>1. 0 \in S
  <2>1. Pow(a, 0) = 1 /\ Pow(c, 0) = 1  BY PowSteps
  <2> QED  BY <2>1 DEF Cong
<1>2. ASSUME NEW k \in Nat, k \in S PROVE k + 1 \in S
  <2>1. PICK y \in Int : y = Pow(a, k) /\ Pow(a, k + 1) = a * y  BY PowSteps
  <2>2. PICK z \in Int : z = Pow(c, k) /\ Pow(c, k + 1) = c * z  BY PowSteps
  <2>3. Cong(m, y, z)  BY <1>2, <2>1, <2>2
  <2>4. Cong(m, a * y, c * z)  BY <2>3, CongTimes
  <2> QED  BY <2>1, <2>2, <2>4
<1>3. Nat \subseteq S
  <2> HIDE DEF S
  <2> QED  BY <1>1, <1>2, Induction
<1> QED  BY <1>3

(* Repeated squaring computes the power.                                     *)
LEMMA SquareAndMultiplyIs ==
  ASSUME NEW x \in Int, NEW e \in Nat, NEW c \in Nat \ {0, 1}
  PROVE  SquareAndMultiply(x, e, c) = Pow(x, e) % c
<1> DEFINE Turned(f, y, k) == IF k = 0 THEN 1
                              ELSE IF Odd(k) THEN (y * f[k - 1][y]) % c
                              ELSE f[k \div 2][(y * y) % c]
           Loop(f) == [k \in Nat |-> [y \in Int |-> Turned(f, y, k)]]
           pow == CHOOSE f : f = Loop(f)
           power == [k \in Nat |-> [y \in Int |-> Pow(y, k) % c]]
<1>0. c \in Nat \ {0}  OBVIOUS
<1>1. SquareAndMultiply(x, e, c) = pow[e][x]  BY DEF SquareAndMultiply
<1>2. ASSUME NEW y \in Int, NEW k \in Nat, NEW f,
             k # 0 => f[k - 1][y] = Pow(y, k - 1) % c,
             k # 0 => f[k \div 2][(y * y) % c] = Pow((y * y) % c, k \div 2) % c
      PROVE  Turned(f, y, k) = Pow(y, k) % c
  <2>1. CASE k = 0
    <3>1. Pow(y, 0) = 1  BY PowSteps
    <3>2. 1 \in 0 .. c - 1  OBVIOUS
    <3>3. 1 % c = 1  BY <1>0, <3>2, SmallMod
    <3> QED  BY <2>1, <3>1, <3>3
  <2>2. CASE k # 0 /\ Odd(k)
    <3>1. k - 1 \in Nat /\ (k - 1) + 1 = k  BY <2>2
    <3>2. PICK z \in Int : z = Pow(y, k - 1) /\ Pow(y, k) = y * z
      <4>1. Pow(y, k - 1) \in Int /\ Pow(y, (k - 1) + 1) = y * Pow(y, k - 1)
        BY <3>1, PowSteps
      <4> QED  BY <3>1, <4>1
    <3>3. (y * (z % c)) % c = (y * z) % c  BY <1>0, ModTimes
    <3> QED  BY <1>2, <2>2, <3>2, <3>3
  <2>3. CASE k # 0 /\ ~Odd(k)
    <3>1. PICK j \in Nat : j = k \div 2 /\ k = j + j  BY <2>3 DEF Odd
    <3>2. y * y \in Int  OBVIOUS
    <3>3. PICK z \in Int : z = y * y  BY <3>2
    <3>4. z % c \in Int /\ Cong(c, z % c, z)
      <4>1. z % c \in 0 .. c - 1  BY <1>0, DivMod
      <4> QED  BY <1>0, <4>1, SmallMod DEF Cong
    <3>5. Cong(c, Pow(z % c, j), Pow(z, j))  BY <1>0, <3>4, CongPow
    <3>6. Pow(z, j) = Pow(y, j) * Pow(y, j)  BY <3>3, PowTimes
    <3>7. Pow(y, j + j) = Pow(y, j) * Pow(y, j)  BY PowAdd
    <3>8. Turned(f, y, k) = f[k \div 2][(y * y) % c]  BY <2>3
    <3>9. Turned(f, y, k) = Pow(z % c, j) % c  BY <1>2, <2>3, <3>1, <3>3, <3>8
    <3> QED  BY <3>1, <3>5, <3>6, <3>7, <3>9 DEF Cong
  <2> QED  BY <2>1, <2>2, <2>3
<1> HIDE DEF Turned
<1>3. ASSUME NEW y \in Int, NEW k \in Nat \ {0}
      PROVE  k - 1 \in Nat /\ k - 1 < k /\ k \div 2 \in Nat /\ k \div 2 < k /\ (y * y) % c \in Int
  <2>1. y * y \in Int /\ k - 1 \in Nat /\ k - 1 < k /\ k \div 2 \in Nat /\ k \div 2 < k
    OBVIOUS
  <2> QED  BY <1>0, <2>1, DivMod
<1>4. power = Loop(power)
  <2>1. ASSUME NEW y \in Int, NEW k \in Nat PROVE Turned(power, y, k) = Pow(y, k) % c
    <3>1. k # 0 => power[k - 1][y] = Pow(y, k - 1) % c  BY <1>3
    <3>2. k # 0 => power[k \div 2][(y * y) % c] = Pow((y * y) % c, k \div 2) % c
      BY <1>3
    <3> HIDE DEF power
    <3> QED  BY <1>2, <3>1, <3>2
  <2> QED  BY <2>1
<1>5. pow = Loop(pow)  BY <1>4
<1>6. \A y \in Int, k \in Nat : pow[k][y] = Turned(pow, y, k)
  <2> HIDE DEF pow
  <2> QED  BY <1>5
<1> HIDE DEF pow
<1> DEFINE Bad == {k \in Nat : \E y \in Int : pow[k][y] # Pow(y, k) % c}
<1>7. Bad = {}
  <2> SUFFICES ASSUME Bad # {} PROVE FALSE
    OBVIOUS
  <2>1. PICK k \in Bad : \A j \in Bad : k <= j
    <3>1. Bad \in SUBSET Nat  OBVIOUS
    <3> HIDE DEF Bad
    <3> QED  BY <3>1, LeastNumber
  <2>2. PICK y \in Int : pow[k][y] # Pow(y, k) % c  BY <2>1
  <2>3. \A j \in Nat, z \in Int : j < k => pow[j][z] = Pow(z, j) % c  BY <2>1
  <2>4. k # 0 => pow[k - 1][y] = Pow(y, k - 1) % c  BY <1>3, <2>3
  <2>5. k # 0 => pow[k \div 2][(y * y) % c] = Pow((y * y) % c, k \div 2) % c
    <3> SUFFICES ASSUME k # 0
                 PROVE  pow[k \div 2][(y * y) % c] = Pow((y * y) % c, k \div 2) % c
      OBVIOUS
    <3>1. k \in Nat \ {0}  OBVIOUS
    <3>2. k \div 2 \in Nat /\ k \div 2 < k /\ (y * y) % c \in Int  BY <1>3, <3>1
    <3> QED  BY <2>3, <3>2
  <2>6. Turned(pow, y, k) = Pow(y, k) % c
    <3>1. k \in Nat  OBVIOUS
    <3> HIDE DEF Bad
    <3> QED  BY <1>2, <2>4, <2>5, <3>1
  <2> QED  BY <1>6, <2>2, <2>6
<1> QED  BY <1>1, <1>7

(* So does PowMod when the exponent is not negative.                         *)
LEMMA PowModIs ==
  ASSUME NEW x \in Int, NEW e \in Nat, NEW c \in Nat \ {0, 1}
  PROVE  PowMod(x, e, c) = Pow(x, e) % c
<1>1. CASE x = 1
  <2>1. 1 \in Nat \ {0} /\ 1 \in 0 .. c - 1  OBVIOUS
  <2>2. Pow(1, e) = 1 /\ 1 % c = 1  BY <2>1, PowPositive, SmallMod
  <2> QED  BY <1>1, <2>2 DEF PowMod
<1>2. CASE x # 1
  <2>1. x % c \in Int /\ (x % c) % c = x % c
    <3>1. x % c \in 0 .. c - 1  BY DivMod
    <3> QED  BY <3>1, SmallMod
  <2>2. PowMod(x, e, c) = SquareAndMultiply(x % c, e, c)  BY <1>2 DEF PowMod
  <2>3. SquareAndMultiply(x % c, e, c) = Pow(x % c, e) % c  BY <2>1, SquareAndMultiplyIs
  <2>4. Cong(c, Pow(x % c, e), Pow(x, e))
    <3>1. c \in Nat \ {0} /\ Cong(c, x % c, x)  BY <2>1 DEF Cong
    <3> QED  BY <2>1, <3>1, CongPow
  <2> QED  BY <2>2, <2>3, <2>4 DEF Cong
<1> QED  BY <1>1, <1>2

-----------------------------------------------------------------------------
(* Divisibility: the remainder is 0 exactly for the multiples.               *)
LEMMA ModZero ==
  ASSUME NEW m \in Nat \ {0}, NEW x \in Int
  PROVE  x % m = 0 <=> \E k \in Int : x = m * k
<1>1. ASSUME x % m = 0 PROVE \E k \in Int : x = m * k
  <2>1. x \div m \in Int /\ x = m * (x \div m) + (x % m)  BY DivMod
  <2>2. m * (x \div m) \in Int  BY <2>1
  <2>3. x = m * (x \div m)  BY <1>1, <2>1, <2>2
  <2> QED  BY <2>1, <2>3
<1>2. ASSUME NEW k \in Int, x = m * k PROVE x % m = 0
  <2>1. 0 \in 0 .. m - 1 /\ m * k \in Int  OBVIOUS
  <2>2. x = m * k + 0  BY <1>2, <2>1
  <2> QED  BY <2>1, <2>2, ModUnique
<1> QED  BY <1>1, <1>2

(* Numbers with the same remainder differ by a multiple.                     *)
LEMMA CongDifference ==
  ASSUME NEW m \in Nat \ {0}, NEW a \in Int, NEW b \in Int
  PROVE  Cong(m, a, b) <=> (a - b) % m = 0
<1>1. ASSUME Cong(m, a, b) PROVE (a - b) % m = 0
  <2>1. PICK i \in Int, r \in Int : a = m * i + r /\ r = a % m
    <3>1. a \div m \in Int /\ a % m \in Int /\ a = m * (a \div m) + (a % m)  BY DivMod
    <3> QED  BY <3>1
  <2>2. PICK j \in Int : b = m * j + r
    <3>1. b \div m \in Int /\ b = m * (b \div m) + (b % m)  BY DivMod
    <3> QED  BY <3>1, <1>1, <2>1 DEF Cong
  <2>3. i - j \in Int /\ a - b = m * (i - j) /\ a - b \in Int  BY <2>1, <2>2
  <2> QED  BY <2>3, ModZero
<1>2. ASSUME (a - b) % m = 0 PROVE Cong(m, a, b)
  <2>1. a - b \in Int  OBVIOUS
  <2>2. PICK k \in Int : a - b = m * k  BY <1>2, <2>1, ModZero
  <2>3. m * k \in Int  OBVIOUS
  <2>4. a = b + m * k  BY <2>2, <2>3
  <2> QED  BY <2>4, ModShift DEF Cong
<1> QED  BY <1>1, <1>2

(* Multiples stay multiples.                                                 *)
LEMMA ModMultiple ==
  ASSUME NEW m \in Nat \ {0}, NEW a \in Int, NEW b \in Int, a % m = 0
  PROVE  (a * b) % m = 0 /\ (b * a) % m = 0
<1>1. PICK k \in Int : a = m * k  BY ModZero
<1>2. k * b \in Int /\ a * b = m * (k * b) /\ b * a = m * (k * b) /\ a * b \in Int
  BY <1>1
<1> QED  BY <1>2, ModZero

(* Euclid's lemma: a prime that divides a product divides a factor.          *)
LEMMA PrimeDivides ==
  ASSUME NEW p \in Nat, Prime(p), NEW a \in Int, NEW b \in Int,
         (a * b) % p = 0, a % p # 0
  PROVE  b % p = 0
<1>0. p \in Nat \ {0} /\ p > 1  BY DEF Prime
<1> DEFINE S == {d \in Nat \ {0} : (d * b) % p = 0}
<1>1. a % p \in S /\ a % p < p
  <2>1. a % p \in 0 .. p - 1  BY <1>0, DivMod
  <2>2. ((a % p) * b) % p = 0  BY <1>0, ModTimes
  <2> QED  BY <2>1, <2>2
<1>2. PICK d \in S : \A e \in S : d <= e
  <2>1. S \in SUBSET Nat /\ S # {}  BY <1>1
  <2> HIDE DEF S
  <2> QED  BY <2>1, LeastNumber
<1>3. d \in Nat \ {0} /\ d < p /\ (d * b) % p = 0  BY <1>1, <1>2
<1>4. p % d = 0
  <2>1. PICK k \in Int, r \in 0 .. d - 1 : p = d * k + r /\ r = p % d
    <3>1. p \div d \in Int /\ p % d \in 0 .. d - 1 /\ p = d * (p \div d) + (p % d)
      BY <1>3, DivMod
    <3> QED  BY <3>1
  <2>2. PICK i \in Int : d * b = p * i
    <3>1. d * b \in Int  BY <1>3
    <3> QED  BY <1>0, <1>3, <3>1, ModZero
  <2>3. r * b = p * (b - i * k)
    <3>1. r = p - d * k  BY <2>1
    <3>2. r * b = p * b - (d * k) * b  BY <3>1, <1>3
    <3>3. (d * k) * b = (d * b) * k  BY <1>3
    <3>4. (p * i) * k = p * (i * k)  BY <1>0
    <3>5. p * (b - i * k) = p * b - p * (i * k)  BY <1>0
    <3> QED  BY <2>2, <3>2, <3>3, <3>4, <3>5
  <2>4. r * b \in Int /\ b - i * k \in Int  BY <1>3
  <2>5. (r * b) % p = 0  BY <1>0, <2>3, <2>4, ModZero
  <2>6. r \notin S  BY <1>2, <1>3
  <2> QED  BY <2>1, <2>5, <2>6
<1>5. d = 1  BY <1>3, <1>4 DEF Prime
<1>6. 1 * b = b  OBVIOUS
<1> QED  BY <1>3, <1>5, <1>6

(* So a factor that the prime does not divide may be cancelled.              *)
LEMMA PrimeCancels ==
  ASSUME NEW p \in Nat, Prime(p), NEW a \in Int, NEW x \in Int, NEW y \in Int,
         a % p # 0, Cong(p, a * x, a * y)
  PROVE  Cong(p, x, y)
<1>0. p \in Nat \ {0}  BY DEF Prime
<1>1. (a * x - a * y) % p = 0
  <2>1. a * x \in Int /\ a * y \in Int  OBVIOUS
  <2> QED  BY <1>0, <2>1, CongDifference
<1>2. a * x - a * y = a * (x - y) /\ x - y \in Int  OBVIOUS
<1>3. (x - y) % p = 0  BY <1>1, <1>2, PrimeDivides
<1> QED  BY <1>0, <1>3, CongDifference

(* A prime has no square roots of 1 but 1 and -1.                            *)
LEMMA RootsOfOne ==
  ASSUME NEW p \in Nat, Prime(p), NEW x \in 0 .. p - 1, (x * x) % p = 1
  PROVE  x = 1 \/ x = p - 1
<1>0. p \in Nat \ {0} /\ p > 1  BY DEF Prime
<1>1. 1 % p = 1
  <2>1. 1 \in 0 .. p - 1  BY <1>0
  <2> QED  BY <1>0, <2>1, SmallMod
<1>2. (x * x - 1) % p = 0
  <2>1. x * x \in Int /\ Cong(p, x * x, 1)  BY <1>1 DEF Cong
  <2> QED  BY <1>0, <2>1, CongDifference
<1>3. x * x - 1 = (x - 1) * (x + 1) /\ x - 1 \in Int /\ x + 1 \in Int  OBVIOUS
<1>4. (x - 1) % p = 0 \/ (x + 1) % p = 0  BY <1>2, <1>3, PrimeDivides
<1>5. CASE (x - 1) % p = 0
  <2>1. x - 1 \in 0 .. p - 1 \/ x - 1 \in -p .. -1  BY <1>0
  <2>2. x - 1 = 0 \/ x - 1 = -p  BY <1>0, <1>3, <1>5, <2>1, SmallMod
  <2> QED  BY <2>2, <1>0
<1>6. CASE (x + 1) % p = 0
  <2>1. x + 1 \in 0 .. p - 1 \/ x = p - 1  BY <1>0
  <2>2. x + 1 \in 0 .. p - 1 => x + 1 = 0  BY <1>0, <1>3, <1>6, SmallMod
  <2> QED  BY <2>1, <2>2
<1> QED  BY <1>4, <1>5, <1>6

-----------------------------------------------------------------------------
\* f[1] * ... * f[k].
ProductTo(f, k) ==
  LET prod[j \in Nat] == IF j = 0 THEN 1 ELSE f[j] * prod[j - 1]
  IN  prod[k]

(* The recursion of a product.                                               *)
LEMMA ProductSteps ==
  ASSUME NEW f \in [Nat -> Int]
  PROVE  /\ ProductTo(f, 0) = 1
         /\ \A k \in Nat : /\ ProductTo(f, k) \in Int
                           /\ ProductTo(f, k + 1) = f[k + 1] * ProductTo(f, k)
<1> DEFINE Loop(g) == [j \in Nat |-> IF j = 0 THEN 1 ELSE f[j] * g[j - 1]]
           prod == CHOOSE g : g = Loop(g)
<1>1. \A k : ProductTo(f, k) = prod[k]  BY DEF ProductTo
<1>2. \E g : g = Loop(g)
  <2> DEFINE times == [k \in Nat |-> [v \in Int |-> f[k + 1] * v]]
  <2>1. times \in [Nat -> [Int -> Int]]  OBVIOUS
  <2> HIDE DEF times
  <2>2. PICK g : Iterates(g, Int, 1, times)
    <3>1. 1 \in Int  OBVIOUS
    <3> QED  BY <2>1, <3>1, Iterate, Zenon
  <2>3. ASSUME NEW k \in Nat \ {0} PROVE times[k - 1][g[k - 1]] = f[k] * g[k - 1]
    <3>1. k - 1 \in Nat /\ (k - 1) + 1 = k  OBVIOUS
    <3>2. g[k - 1] \in Int  BY <2>2, <3>1 DEF Iterates
    <3> QED  BY <3>1, <3>2 DEF times
  <2>4. g = Loop(g)  BY <2>2, <2>3 DEF Iterates
  <2> QED  BY <2>4
<1>3. prod = Loop(prod)  BY <1>2
<1> HIDE DEF prod
<1>4. prod[0] = 1  BY <1>3
<1>5. ASSUME NEW k \in Nat PROVE prod[k + 1] = f[k + 1] * prod[k]
  <2>1. k + 1 \in Nat /\ k + 1 # 0 /\ (k + 1) - 1 = k  OBVIOUS
  <2> QED  BY <1>3, <2>1
<1>6. \A k \in Nat : prod[k] \in Int
  <2> DEFINE S == {k \in Nat : prod[k] \in Int}
  <2>1. 0 \in S  BY <1>4
  <2>2. \A k \in Nat : k \in S => k + 1 \in S  BY <1>5
  <2>3. Nat \subseteq S
    <3> HIDE DEF S
    <3> QED  BY <2>1, <2>2, Induction
  <2> QED  BY <2>3
<1> QED  BY <1>1, <1>4, <1>5, <1>6

(* Congruent factors, and for every factor one more, give congruent products *)
(* but for the power of what they have more.                                 *)
LEMMA ProductCong ==
  ASSUME NEW m \in Nat \ {0}, NEW a \in Int, NEW f \in [Nat -> Int], NEW g \in [Nat -> Int],
         NEW z \in Nat, \A j \in 1 .. z : Cong(m, a * f[j], g[j])
  PROVE  Cong(m, Pow(a, z) * ProductTo(f, z), ProductTo(g, z))
<1> DEFINE S == {k \in Nat : k <= z => Cong(m, Pow(a, k) * ProductTo(f, k), ProductTo(g, k))}
<1>1. 0 \in S
  <2>1. Pow(a, 0) = 1 /\ ProductTo(f, 0) = 1 /\ ProductTo(g, 0) = 1
    BY PowSteps, ProductSteps
  <2> QED  BY <2>1 DEF Cong
<1>2. ASSUME NEW k \in Nat, k \in S PROVE k + 1 \in S
  <2> SUFFICES ASSUME k + 1 <= z
               PROVE  Cong(m, Pow(a, k + 1) * ProductTo(f, k + 1), ProductTo(g, k + 1))
    OBVIOUS
  <2>1. PICK y \in Int : y = Pow(a, k) /\ Pow(a, k + 1) = a * y
    <3>1. Pow(a, k) \in Int /\ Pow(a, k + 1) = a * Pow(a, k)  BY PowSteps
    <3> QED  BY <3>1
  <2>2. PICK u \in Int : u = ProductTo(f, k) /\ ProductTo(f, k + 1) = f[k + 1] * u
    <3>1. ProductTo(f, k) \in Int /\ ProductTo(f, k + 1) = f[k + 1] * ProductTo(f, k)
      BY ProductSteps
    <3> QED  BY <3>1
  <2>3. PICK v \in Int : v = ProductTo(g, k) /\ ProductTo(g, k + 1) = g[k + 1] * v
    <3>1. ProductTo(g, k) \in Int /\ ProductTo(g, k + 1) = g[k + 1] * ProductTo(g, k)
      BY ProductSteps
    <3> QED  BY <3>1
  <2>4. PICK s \in Int, t \in Int : s = f[k + 1] /\ t = g[k + 1]  OBVIOUS
  <2>5. Cong(m, y * u, v)  BY <1>2, <2>1, <2>2, <2>3
  <2>6. Cong(m, a * s, t)  BY <2>4
  <2>7. a * s \in Int /\ y * u \in Int  OBVIOUS
  <2>8. Cong(m, (a * s) * (y * u), t * v)  BY <2>5, <2>6, <2>7, CongTimes, Zenon
  <2>9. (a * s) * (y * u) = (a * y) * (s * u)  OBVIOUS
  <2> QED  BY <2>1, <2>2, <2>3, <2>4, <2>8, <2>9
<1>3. Nat \subseteq S
  <2> HIDE DEF S
  <2> QED  BY <1>1, <1>2, Induction
<1> QED  BY <1>3

\* The elements of S among the numbers, 1 elsewhere: their product is the
\* product of S.
OnlyIn(S) == [j \in Nat |-> IF j \in S THEN j ELSE 1]

(* A new element is a new factor.                                            *)
LEMMA ProductAdd ==
  ASSUME NEW S, NEW z \in Nat, NEW x \in 1 .. z, x \notin S
  PROVE  ProductTo(OnlyIn(S \cup {x}), z) = x * ProductTo(OnlyIn(S), z)
<1> DEFINE f == OnlyIn(S)
           g == OnlyIn(S \cup {x})
           T == {k \in Nat : ProductTo(g, k) = IF x <= k THEN x * ProductTo(f, k)
                                             ELSE ProductTo(f, k)}
<1>1. f \in [Nat -> Int] /\ g \in [Nat -> Int]  BY DEF OnlyIn
<1>2. f[x] = 1 /\ g[x] = x /\ \A j \in Nat : j # x => g[j] = f[j]  BY DEF OnlyIn
<1> HIDE DEF f, g
<1>3. 0 \in T
  <2>1. ProductTo(f, 0) = 1 /\ ProductTo(g, 0) = 1  BY <1>1, ProductSteps
  <2> QED  BY <2>1
<1>4. ASSUME NEW k \in Nat, k \in T PROVE k + 1 \in T
  <2>1. PICK u \in Int : u = ProductTo(f, k) /\ ProductTo(f, k + 1) = f[k + 1] * u
    <3>1. ProductTo(f, k) \in Int /\ ProductTo(f, k + 1) = f[k + 1] * ProductTo(f, k)
      BY <1>1, ProductSteps
    <3> QED  BY <3>1
  <2>2. PICK v \in Int : v = ProductTo(g, k) /\ ProductTo(g, k + 1) = g[k + 1] * v
    <3>1. ProductTo(g, k) \in Int /\ ProductTo(g, k + 1) = g[k + 1] * ProductTo(g, k)
      BY <1>1, ProductSteps
    <3> QED  BY <3>1
  <2>3. k + 1 \in Nat  OBVIOUS
  <2>4. CASE x <= k
    <3>1. v = x * u /\ g[k + 1] = f[k + 1]  BY <1>2, <1>4, <2>1, <2>2, <2>3, <2>4
    <3>2. PICK s \in Int : s = f[k + 1]  BY <1>1, <2>3
    <3>3. s * (x * u) = x * (s * u)  OBVIOUS
    <3> QED  BY <2>1, <2>2, <2>4, <3>1, <3>2, <3>3
  <2>5. CASE x = k + 1
    <3>1. v = u  BY <1>4, <2>1, <2>2, <2>5
    <3>2. f[k + 1] = 1 /\ g[k + 1] = x  BY <1>2, <2>5
    <3>3. 1 * u = u  OBVIOUS
    <3> QED  BY <2>1, <2>2, <2>5, <3>1, <3>2, <3>3
  <2>6. CASE x > k + 1
    <3>1. v = u /\ g[k + 1] = f[k + 1]  BY <1>2, <1>4, <2>1, <2>2, <2>3, <2>6
    <3> QED  BY <2>1, <2>2, <2>6, <3>1
  <2> QED  BY <2>4, <2>5, <2>6
<1>5. Nat \subseteq T
  <2> HIDE DEF T
  <2> QED  BY <1>3, <1>4, Induction
<1> QED  BY <1>5 DEF f, g

(* The factors of a product may be taken in any order: if they are different *)
(* numbers, it is the product of their set.                                  *)
LEMMA ProductOfSet ==
  ASSUME NEW z \in Nat, NEW f \in [Nat -> Int], \A j \in 1 .. z : f[j] \in 1 .. z,
         \A i, j \in 1 .. z : f[i] = f[j] => i = j
  PROVE  ProductTo(f, z) = ProductTo(OnlyIn({f[j] : j \in 1 .. z}), z)
<1> DEFINE Image(k) == {f[j] : j \in 1 .. k}
           T == {k \in Nat : k <= z => ProductTo(f, k) = ProductTo(OnlyIn(Image(k)), z)}
<1>1. 0 \in T
  <2> DEFINE g == OnlyIn(Image(0))
  <2>1. g \in [Nat -> Int] /\ \A j \in Nat : g[j] = 1  BY DEF OnlyIn
  <2> HIDE DEF g
  <2> DEFINE U == {k \in Nat : ProductTo(g, k) = 1}
  <2>2. 0 \in U  BY <2>1, ProductSteps
  <2>3. ASSUME NEW k \in Nat, k \in U PROVE k + 1 \in U
    <3>1. ProductTo(g, k + 1) = g[k + 1] * ProductTo(g, k) /\ k + 1 \in Nat
      BY <2>1, ProductSteps
    <3> QED  BY <2>1, <2>3, <3>1
  <2>4. Nat \subseteq U
    <3> HIDE DEF U
    <3> QED  BY <2>2, <2>3, Induction
  <2>5. ProductTo(g, z) = 1 /\ ProductTo(f, 0) = 1  BY <2>4, ProductSteps
  <2> QED  BY <2>5 DEF g
<1>2. ASSUME NEW k \in Nat, k \in T PROVE k + 1 \in T
  <2> SUFFICES ASSUME k + 1 <= z
               PROVE  ProductTo(f, k + 1) = ProductTo(OnlyIn(Image(k + 1)), z)
    OBVIOUS
  <2>1. k + 1 \in 1 .. z /\ \A j \in 1 .. k : j \in 1 .. z /\ j # k + 1  OBVIOUS
  <2>2. f[k + 1] \in 1 .. z /\ f[k + 1] \notin Image(k)  BY <2>1
  <2>3. Image(k + 1) = Image(k) \cup {f[k + 1]}
    <3>1. 1 .. k + 1 = (1 .. k) \cup {k + 1}  OBVIOUS
    <3> QED  BY <3>1
  <2>4. ProductTo(f, k + 1) = f[k + 1] * ProductTo(f, k)  BY ProductSteps
  <2>5. ProductTo(f, k) = ProductTo(OnlyIn(Image(k)), z)  BY <1>2
  <2> HIDE DEF Image
  <2>6. ProductTo(OnlyIn(Image(k) \cup {f[k + 1]}), z)
          = f[k + 1] * ProductTo(OnlyIn(Image(k)), z)
    BY <2>2, ProductAdd
  <2> QED  BY <2>3, <2>4, <2>5, <2>6
<1>3. Nat \subseteq T
  <2> HIDE DEF T
  <2> QED  BY <1>1, <1>2, Induction
<1> QED  BY <1>3

(* So all the numbers below z, in any order, have the same product.          *)
LEMMA ProductPermuted ==
  ASSUME NEW z \in Nat, NEW f \in [Nat -> Int], \A j \in 1 .. z : f[j] \in 1 .. z,
         \A i, j \in 1 .. z : f[i] = f[j] => i = j
  PROVE  ProductTo(f, z) = ProductTo(OnlyIn(1 .. z), z)
<1> DEFINE g == [j \in 1 .. z |-> f[j]]
<1>1. g \in Injection(1 .. z, 1 .. z)  BY DEF Injection, IsInjective
<1>2. IsFiniteSet(1 .. z)
  <2>1. z \in Int /\ 1 \in Int  OBVIOUS
  <2> QED  BY <2>1, FS_Interval
<1>3. g \in Surjection(1 .. z, 1 .. z)
  <2> HIDE DEF g
  <2> QED  BY <1>1, <1>2, FS_Injection
<1>4. {f[j] : j \in 1 .. z} = 1 .. z
  <2>1. \A y \in 1 .. z : \E j \in 1 .. z : g[j] = y  BY <1>3 DEF Surjection
  <2> QED  BY <2>1
<1> QED  BY <1>4, ProductOfSet

(* Fermat's little theorem: for a prime p, every number that p does not      *)
(* divide has a power with the exponent p - 1 that is 1 modulo p.            *)
LEMMA Fermat ==
  ASSUME NEW p \in Nat, Prime(p), NEW a \in Int, a % p # 0
  PROVE  Pow(a, p - 1) % p = 1
<1>1. p \in Nat \ {0} /\ p > 1 /\ p - 1 \in Nat  BY DEF Prime
<1> DEFINE f == [j \in Nat |-> (a * j) % p]
           all == OnlyIn(1 .. p - 1)
<1>2. ASSUME NEW j \in Nat PROVE (a * j) % p \in Int /\ (a * j) % p \in 0 .. p - 1
  <2>1. a * j \in Int  OBVIOUS
  <2>2. (a * j) % p \in 0 .. p - 1  BY <1>1, <2>1, DivMod
  <2> QED  BY <2>2
<1>3. \A j \in Nat : f[j] = (a * j) % p /\ f[j] \in 0 .. p - 1  BY <1>2
<1>4. f \in [Nat -> Int]  BY <1>2
<1>5. all \in [Nat -> Int] /\ \A j \in 1 .. p - 1 : all[j] = j  BY DEF OnlyIn
<1>6. \A j \in 1 .. p - 1 : j % p = j /\ j % p # 0
  <2> TAKE j \in 1 .. p - 1
  <2>1. j \in 0 .. p - 1  OBVIOUS
  <2> QED  BY <1>1, <2>1, SmallMod
<1> HIDE DEF f, all
<1>7. \A j \in 1 .. p - 1 : f[j] \in 1 .. p - 1
  <2> TAKE j \in 1 .. p - 1
  <2>1. ASSUME (a * j) % p = 0 PROVE FALSE
    <3>1. j \in Int /\ (a * j) % p = 0 /\ a % p # 0  BY <2>1
    <3>2. j % p = 0  BY <3>1, PrimeDivides, Zenon
    <3> QED  BY <1>6, <3>2
  <2> QED  BY <1>3, <2>1
<1>8. \A i, j \in 1 .. p - 1 : f[i] = f[j] => i = j
  <2> TAKE i, j \in 1 .. p - 1
  <2> HAVE f[i] = f[j]
  <2>1. Cong(p, a * i, a * j)  BY <1>3 DEF Cong
  <2>2. Cong(p, i, j)
    <3>1. i \in Int /\ j \in Int /\ a % p # 0  OBVIOUS
    <3> QED  BY <2>1, <3>1, PrimeCancels, Zenon
  <2> QED  BY <1>6, <2>2 DEF Cong
<1>9. ProductTo(f, p - 1) = ProductTo(all, p - 1)
  BY <1>1, <1>4, <1>7, <1>8, ProductPermuted DEF all
<1>10. Cong(p, Pow(a, p - 1) * ProductTo(all, p - 1), ProductTo(f, p - 1))
  <2>1. ASSUME NEW j \in 1 .. p - 1 PROVE Cong(p, a * all[j], f[j])
    <3>1. f[j] = (a * j) % p /\ f[j] \in 0 .. p - 1 /\ all[j] = j  BY <1>3, <1>5
    <3>2. f[j] % p = f[j]  BY <1>1, <3>1, SmallMod
    <3> QED  BY <3>1, <3>2 DEF Cong
  <2> QED  BY <1>1, <1>4, <1>5, <2>1, ProductCong
<1>11. ProductTo(all, p - 1) % p # 0
  <2> DEFINE S == {k \in Nat : k < p => ProductTo(all, k) % p # 0}
  <2>1. 0 \in S
    <3>1. ProductTo(all, 0) = 1 /\ 1 \in 0 .. p - 1  BY <1>1, <1>5, ProductSteps
    <3> QED  BY <1>1, <3>1, SmallMod
  <2>2. ASSUME NEW k \in Nat, k \in S PROVE k + 1 \in S
    <3> SUFFICES ASSUME k + 1 < p PROVE ProductTo(all, k + 1) % p # 0
      OBVIOUS
    <3>1. PICK u \in Int : u = ProductTo(all, k) /\ ProductTo(all, k + 1) = (k + 1) * u
      <4>1. ProductTo(all, k) \in Int /\ ProductTo(all, k + 1) = all[k + 1] * ProductTo(all, k)
        BY <1>5, ProductSteps
      <4>2. k + 1 \in 1 .. p - 1  BY <1>1
      <4> QED  BY <1>5, <4>1, <4>2
    <3>2. u % p # 0  BY <2>2, <3>1
    <3>3. k + 1 \in 1 .. p - 1 /\ k + 1 \in Int  BY <1>1
    <3>4. (k + 1) % p # 0  BY <1>6, <3>3
    <3> QED  BY <3>1, <3>2, <3>3, <3>4, PrimeDivides
  <2>3. Nat \subseteq S
    <3> HIDE DEF S
    <3> QED  BY <2>1, <2>2, Induction
  <2> QED  BY <1>1, <2>3
<1>12. PICK y \in Int, u \in Int : y = Pow(a, p - 1) /\ u = ProductTo(all, p - 1)
  BY <1>1, <1>5, PowSteps, ProductSteps
<1>13. y * u = u * y /\ u * 1 = u  OBVIOUS
<1>14. Cong(p, u * y, u * 1) /\ u % p # 0  BY <1>9, <1>10, <1>11, <1>12, <1>13
<1>15. Cong(p, y, 1)
  <2>1. 1 \in Int  OBVIOUS
  <2> QED  BY <1>14, <2>1, PrimeCancels
<1>16. 1 % p = 1
  <2>1. 1 \in 0 .. p - 1  BY <1>1
  <2> QED  BY <1>1, <2>1, SmallMod
<1> QED  BY <1>12, <1>15, <1>16 DEF Cong

-----------------------------------------------------------------------------
(* n - 1 is an odd number times a power of 2, the one miller_rabin finds.    *)
LEMMA TwoAdicIs ==
  ASSUME NEW n \in Nat \ {0, 1}
  PROVE  \E d \in Nat, r \in Nat :
           TwoAdic(n) = <<d, r>> /\ n - 1 = d * Pow(2, r) /\ Odd(d)
<1> DEFINE Loop(f) == [k \in Nat |-> IF k = 0 THEN n - 1 ELSE f[k - 1] \div 2]
           halved == CHOOSE f : f = Loop(f)
           First(k) == Odd(halved[k]) /\ \A j \in 0 .. k - 1 : ~Odd(halved[j])
           r == CHOOSE k \in 0 .. n - 1 : First(k)
<1>1. TwoAdic(n) = <<halved[r], r>>  BY Zenon DEF TwoAdic
<1>2. \E f : f = Loop(f)
  <2> DEFINE half == [k \in Nat |-> [v \in Nat |-> v \div 2]]
  <2>1. half \in [Nat -> [Nat -> Nat]]  OBVIOUS
  <2> HIDE DEF half
  <2>2. PICK f : Iterates(f, Nat, n - 1, half)
    <3>1. n - 1 \in Nat  OBVIOUS
    <3> QED  BY <2>1, <3>1, Iterate, Zenon
  <2>3. ASSUME NEW k \in Nat \ {0} PROVE half[k - 1][f[k - 1]] = f[k - 1] \div 2
    <3>1. k - 1 \in Nat  OBVIOUS
    <3>2. f[k - 1] \in Nat  BY <2>2, <3>1 DEF Iterates
    <3> QED  BY <3>1, <3>2 DEF half
  <2>4. f = Loop(f)  BY <2>2, <2>3 DEF Iterates
  <2> QED  BY <2>4
<1>3. halved = Loop(halved)  BY <1>2
<1> HIDE DEF halved
<1>4. halved[0] = n - 1  BY <1>3
<1>5. ASSUME NEW k \in Nat PROVE halved[k + 1] = halved[k] \div 2
  <2>1. k + 1 \in Nat /\ k + 1 # 0 /\ (k + 1) - 1 = k  OBVIOUS
  <2> QED  BY <1>3, <2>1
<1> DEFINE S == {k \in Nat : (\A j \in 0 .. k - 1 : ~Odd(halved[j])) =>
                   halved[k] \in Nat \ {0} /\ n - 1 = halved[k] * Pow(2, k)}
<1>6. 0 \in S
  <2>1. Pow(2, 0) = 1
    <3>1. 2 \in Int  OBVIOUS
    <3> QED  BY <3>1, PowSteps
  <2> QED  BY <1>4, <2>1
<1>7. ASSUME NEW k \in Nat, k \in S PROVE k + 1 \in S
  <2> SUFFICES ASSUME \A j \in 0 .. (k + 1) - 1 : ~Odd(halved[j])
               PROVE  /\ halved[k + 1] \in Nat \ {0}
                      /\ n - 1 = halved[k + 1] * Pow(2, k + 1)
    OBVIOUS
  <2>1. (\A j \in 0 .. k - 1 : ~Odd(halved[j])) /\ ~Odd(halved[k])  OBVIOUS
  <2>2. halved[k] \in Nat \ {0} /\ n - 1 = halved[k] * Pow(2, k)  BY <1>7, <2>1
  <2>3. PICK v \in Nat \ {0}, y \in Nat : v = halved[k] /\ y = Pow(2, k) /\ Pow(2, k + 1) = 2 * y
    BY <2>2, PowGrows
  <2>4. v % 2 # 1  BY <2>1, <2>3 DEF Odd
  <2>5. PICK w \in Nat \ {0} : w = v \div 2 /\ v = 2 * w  BY <2>4
  <2>6. v * y = w * (2 * y)  BY <2>5
  <2> QED  BY <1>5, <2>2, <2>3, <2>5, <2>6
<1>8. Nat \subseteq S
  <2> HIDE DEF S
  <2> QED  BY <1>6, <1>7, Induction
<1>9. \E k \in 0 .. n - 1 : Odd(halved[k])
  <2> SUFFICES ASSUME \A k \in 0 .. n - 1 : ~Odd(halved[k]) PROVE FALSE
    OBVIOUS
  <2>1. n \in Nat /\ \A j \in 0 .. n - 1 : ~Odd(halved[j])  OBVIOUS
  <2>2. halved[n] \in Nat \ {0} /\ n - 1 = halved[n] * Pow(2, n)  BY <1>8, <2>1
  <2>3. PICK v \in Nat \ {0}, y \in Nat : v = halved[n] /\ y = Pow(2, n) /\ y > n
    BY <2>2, PowGrows
  <2>4. v * y >= y  BY <2>3
  <2> QED  BY <2>2, <2>3, <2>4
<1>10. \E k \in 0 .. n - 1 : First(k)
  <2> DEFINE T == {k \in 0 .. n - 1 : Odd(halved[k])}
  <2>1. PICK k \in T : \A j \in T : k <= j
    <3>1. T \in SUBSET Nat /\ T # {}  BY <1>9
    <3> HIDE DEF T
    <3> QED  BY <3>1, LeastNumber
  <2>2. \A j \in 0 .. k - 1 : ~Odd(halved[j])  BY <2>1
  <2> QED  BY <2>2
<1>11. r \in 0 .. n - 1 /\ First(r)  BY <1>10
<1>12. r \in Nat /\ halved[r] \in Nat /\ n - 1 = halved[r] * Pow(2, r) /\ Odd(halved[r])
  <2> HIDE DEF r
  <2> QED  BY <1>8, <1>11
<1> QED  BY <1>1, <1>12

\* a ** d % n, squared j times.
Squared(n, a, d, j) == Pow(a, d * Pow(2, j)) % n

(* Doubling the exponent squares the power.                                  *)
LEMMA PowDoubles ==
  ASSUME NEW n \in Nat \ {0}, NEW a \in Int, NEW d \in Nat, NEW j \in Nat
  PROVE  /\ Squared(n, a, d, j) \in 0 .. n - 1
         /\ Squared(n, a, d, j + 1) = (Squared(n, a, d, j) * Squared(n, a, d, j)) % n
<1>1. PICK e \in Nat : e = d * Pow(2, j) /\ d * Pow(2, j + 1) = e + e
  <2>1. PICK y \in Nat : y = Pow(2, j) /\ Pow(2, j + 1) = 2 * y  BY PowGrows
  <2>2. d * y \in Nat /\ d * (2 * y) = d * y + d * y  OBVIOUS
  <2> QED  BY <2>1, <2>2
<1>2. PICK z \in Int : z = Pow(a, e)  BY PowSteps
<1>3. Pow(a, e + e) = z * z  BY <1>2, PowAdd
<1>4. ((z % n) * (z % n)) % n = (z * z) % n  BY ModTimes
<1>5. z % n \in 0 .. n - 1  BY DivMod
<1> QED  BY <1>1, <1>2, <1>3, <1>4, <1>5 DEF Squared

(* What a round of miller_rabin looks at are the powers of the witness whose *)
(* exponents are d, doubled again and again.                                 *)
LEMMA PassesIs ==
  ASSUME NEW n \in Nat \ {0, 1}, NEW a \in Int, NEW d \in Nat, NEW r \in Nat,
         TwoAdic(n) = <<d, r>>
  PROVE  Passes(n, a) <=>
           \/ Squared(n, a, d, 0) = 1
           \/ \E j \in 0 .. r - 1 : Squared(n, a, d, j) = n - 1
<1> DEFINE square == [y \in Int |-> (y * y) % n]
           Loop(f) == [j \in Nat |-> IF j = 0 THEN PowMod(a, d, n) ELSE square[f[j - 1]]]
           x == CHOOSE f : f = Loop(f)
           X(j) == Squared(n, a, d, j)
<1>1. Passes(n, a) <=> (x[0] = 1 \/ \E j \in 0 .. r - 1 : x[j] = n - 1)
  <2>1. TwoAdic(n)[1] = d /\ TwoAdic(n)[2] = r  OBVIOUS
  <2> QED  BY <2>1 DEF Passes
<1>2. ASSUME NEW j \in Nat
      PROVE  X(j) \in Int /\ X(j + 1) = (X(j) * X(j)) % n
  <2>1. n \in Nat \ {0}  OBVIOUS
  <2>2. X(j) \in 0 .. n - 1 /\ X(j + 1) = (X(j) * X(j)) % n  BY <2>1, PowDoubles
  <2> QED  BY <2>2
<1>3. X(0) = PowMod(a, d, n)
  <2>1. Pow(2, 0) = 1
    <3>1. 2 \in Int  OBVIOUS
    <3> QED  BY <3>1, PowSteps
  <2>2. d * Pow(2, 0) = d  BY <2>1
  <2> QED  BY <2>2, PowModIs DEF Squared
<1> HIDE DEF X
<1>4. \E f : f = Loop(f)
  <2> DEFINE f == [j \in Nat |-> X(j)]
  <2>1. ASSUME NEW j \in Nat PROVE f[j] = Loop(f)[j]
    <3>1. CASE j = 0  BY <1>3, <3>1
    <3>2. CASE j # 0
      <4>1. j - 1 \in Nat /\ (j - 1) + 1 = j  BY <3>2
      <4>2. X(j - 1) \in Int /\ X((j - 1) + 1) = (X(j - 1) * X(j - 1)) % n
        BY <1>2, <4>1
      <4>3. Loop(f)[j] = square[X(j - 1)]  BY <3>2, <4>1
      <4>4. square[X(j - 1)] = (X(j - 1) * X(j - 1)) % n  BY <4>2
      <4> QED  BY <4>1, <4>2, <4>3, <4>4
    <3> QED  BY <3>1, <3>2
  <2>2. f = Loop(f)  BY <2>1
  <2> QED  BY <2>2
<1>5. x = Loop(x)  BY <1>4
<1> HIDE DEF x
<1> DEFINE S == {j \in Nat : x[j] = X(j)}
<1>6. 0 \in S  BY <1>3, <1>5
<1>7. ASSUME NEW j \in Nat, j \in S PROVE j + 1 \in S
  <2>1. j + 1 \in Nat /\ j + 1 # 0 /\ (j + 1) - 1 = j  OBVIOUS
  <2>2. x[j + 1] = square[x[j]]  BY <1>5, <2>1
  <2>3. X(j) \in Int /\ X(j + 1) = (X(j) * X(j)) % n  BY <1>2
  <2>4. square[X(j)] = (X(j) * X(j)) % n  BY <2>3
  <2> QED  BY <1>7, <2>1, <2>2, <2>3, <2>4
<1>8. Nat \subseteq S
  <2> HIDE DEF S
  <2> QED  BY <1>6, <1>7, Induction
<1>9. x[0] = X(0) /\ \A j \in 0 .. r - 1 : x[j] = X(j)  BY <1>8
<1> QED  BY <1>1, <1>9 DEF X

(* A prime passes every round, whatever the witness: what fails is composite *)
(* (phe/util.py, miller_rabin).                                              *)
THEOREM PrimesPass ==
  ASSUME NEW n \in Nat, Prime(n), NEW a \in Int, a % n # 0
  PROVE  Passes(n, a)
<1>0. n \in Nat \ {0, 1} /\ n > 1  BY DEF Prime
<1>1. PICK d \in Nat, r \in Nat : TwoAdic(n) = <<d, r>> /\ n - 1 = d * Pow(2, r)
  BY <1>0, TwoAdicIs
<1> DEFINE X(j) == Squared(n, a, d, j)
<1>2. Passes(n, a) <=> X(0) = 1 \/ \E j \in 0 .. r - 1 : X(j) = n - 1
  BY <1>0, <1>1, PassesIs
<1>3. ASSUME NEW j \in Nat
      PROVE  X(j) \in 0 .. n - 1 /\ X(j + 1) = (X(j) * X(j)) % n
  BY <1>0, PowDoubles
<1>4. X(r) = 1  BY <1>1, Fermat DEF Squared
<1> HIDE DEF X
<1> DEFINE S == {j \in Nat : X(j) = 1}
<1>5. PICK j \in S : \A i \in S : j <= i
  <2>1. S \in SUBSET Nat /\ S # {}  BY <1>4
  <2> HIDE DEF S
  <2> QED  BY <2>1, LeastNumber
<1>6. CASE j = 0  BY <1>2, <1>5, <1>6
<1>7. CASE j # 0
  <2>1. j - 1 \in Nat /\ (j - 1) + 1 = j /\ j - 1 \notin S  BY <1>5, <1>7
  <2>2. X(j) = 1 /\ j <= r  BY <1>4, <1>5
  <2>3. X(j - 1) \in 0 .. n - 1 /\ (X(j - 1) * X(j - 1)) % n = 1  BY <1>3, <2>1, <2>2
  <2>4. X(j - 1) # 1  BY <2>1
  <2>5. X(j - 1) = n - 1  BY <2>3, <2>4, RootsOfOne
  <2>6. j - 1 \in 0 .. r - 1  BY <2>1, <2>2
  <2> QED  BY <1>2, <2>5, <2>6
<1> QED  BY <1>6, <1>7

-----------------------------------------------------------------------------
(* Every number above 1 has a prime divisor.                                 *)
LEMMA PrimeDivisor ==
  ASSUME NEW x \in Nat, x > 1
  PROVE  \E p \in Nat : Prime(p) /\ x % p = 0
<1> DEFINE S == {d \in Nat : d > 1 /\ x % d = 0}
<1>1. PICK d \in S : \A e \in S : d <= e
  <2>1. x = x * 1 /\ x \in Nat \ {0}  OBVIOUS
  <2>2. x % x = 0  BY <2>1, ModZero
  <2>3. S \in SUBSET Nat /\ S # {}  BY <2>2
  <2> HIDE DEF S
  <2> QED  BY <2>3, LeastNumber
<1>2. ASSUME NEW e \in 2 .. d - 1, d % e = 0 PROVE FALSE
  <2>1. d \in Nat \ {0} /\ e \in Nat \ {0} /\ e < d /\ e > 1 /\ x % d = 0  OBVIOUS
  <2>2. PICK i \in Int : d = e * i  BY <1>2, <2>1, ModZero
  <2>3. PICK j \in Int : x = d * j  BY <2>1, ModZero
  <2>4. i * j \in Int /\ x = e * (i * j)  BY <2>2, <2>3
  <2>5. x % e = 0  BY <2>1, <2>4, ModZero
  <2>6. e \in S  BY <2>1, <2>5
  <2>7. d <= e  BY <1>1, <2>6
  <2> QED  BY <2>1, <2>7
<1>3. Prime(d)  BY <1>2 DEF Prime
<1> QED  BY <1>3

(* There are primes above any number.                                        *)
LEMMA PrimesAbove ==
  ASSUME NEW z \in Nat
  PROVE  \E p \in Nat : Prime(p) /\ p > z
<1> DEFINE f == [j \in Nat |-> IF j = 0 THEN 1 ELSE j]
           S == {k \in Nat : /\ ProductTo(f, k) \in Nat \ {0}
                             /\ \A j \in 1 .. k : ProductTo(f, k) % j = 0}
<1>1. f \in [Nat -> Int]  OBVIOUS
<1>2. 0 \in S
  <2> HIDE DEF f
  <2> QED  BY <1>1, ProductSteps
<1>3. ASSUME NEW k \in Nat, k \in S PROVE k + 1 \in S
  <2>1. ProductTo(f, k + 1) = (k + 1) * ProductTo(f, k)
    <3>1. f[k + 1] = k + 1  OBVIOUS
    <3> HIDE DEF f
    <3> QED  BY <1>1, <3>1, ProductSteps
  <2>2. PICK y \in Nat \ {0} : y = ProductTo(f, k)  BY <1>3
  <2>3. (k + 1) * y \in Nat \ {0} /\ k + 1 \in Int /\ k + 1 \in Nat \ {0}
    <3>1. (k + 1) * y >= y  OBVIOUS
    <3> QED  BY <3>1
  <2>4. ASSUME NEW j \in 1 .. k + 1 PROVE ((k + 1) * y) % j = 0
    <3>1. j \in Nat \ {0}  OBVIOUS
    <3>2. CASE j \in 1 .. k
      <4>1. y % j = 0  BY <1>3, <2>2, <3>2
      <4>2. y \in Int  OBVIOUS
      <4> QED  BY <2>3, <3>1, <4>1, <4>2, ModMultiple, Zenon
    <3>3. CASE j = k + 1
      <4>1. (k + 1) * y \in Int  OBVIOUS
      <4> QED  BY <3>1, <3>3, <4>1, ModZero
    <3> QED  BY <3>2, <3>3
  <2> HIDE DEF f
  <2> QED  BY <2>1, <2>2, <2>3, <2>4
<1>4. Nat \subseteq S
  <2> HIDE DEF S
  <2> QED  BY <1>2, <1>3, Induction
<1>5. PICK y \in Nat \ {0} : \A j \in 1 .. z : y % j = 0  BY <1>4
<1>6. PICK p \in Nat : Prime(p) /\ (y + 1) % p = 0
  <2>1. y + 1 \in Nat /\ y + 1 > 1  OBVIOUS
  <2> QED  BY <2>1, PrimeDivisor
<1>7. ASSUME p <= z PROVE FALSE
  <2>1. p \in Nat \ {0} /\ p > 1 /\ p \in 1 .. z  BY <1>6, <1>7 DEF Prime
  <2>2. PICK i \in Int : y = p * i
    <3>1. y \in Int /\ y % p = 0  BY <1>5, <2>1
    <3> QED  BY <2>1, <3>1, ModZero
  <2>3. PICK j \in Int : y + 1 = p * j
    <3>1. y + 1 \in Int /\ (y + 1) % p = 0  BY <1>6
    <3> QED  BY <2>1, <3>1, ModZero
  <2>4. p * (j - i) = p * j - p * i  OBVIOUS
  <2>5. j - i \in Int /\ -p < p * (j - i) /\ p * (j - i) < p  BY <2>1, <2>2, <2>3, <2>4
  <2>6. j - i = 0  BY <2>1, <2>5, NoMultipleBelow
  <2> QED  BY <2>2, <2>3, <2>6
<1> QED  BY <1>6, <1>7

(* next_prime finds the least prime above its argument.                      *)
LEMMA NextPrimeIs ==
  ASSUME NEW r \in Nat
  PROVE  /\ NextPrime(r) \in Nat /\ NextPrime(r) > r /\ Prime(NextPrime(r))
         /\ \A s \in r + 1 .. NextPrime(r) - 1 : ~Prime(s)
<1> DEFINE Loop(f) == [k \in Nat |-> IF Prime(k) THEN k ELSE f[k + 1]]
           next == CHOOSE f : f = Loop(f)
           Least(k, p) == p \in Nat /\ p >= k /\ Prime(p) /\ \A s \in k .. p - 1 : ~Prime(s)
<1>1. NextPrime(r) = next[r + 1]  BY DEF NextPrime
<1>2. ASSUME NEW k \in Nat PROVE \E p : Least(k, p)
  <2> DEFINE S == {p \in Nat : Prime(p) /\ p >= k}
  <2>1. PICK p \in S : \A s \in S : p <= s
    <3>1. S \in SUBSET Nat /\ S # {}  
      <4>1. PICK p \in Nat : Prime(p) /\ p > k  BY PrimesAbove
      <4> QED  BY <4>1
    <3> HIDE DEF S
    <3> QED  BY <3>1, LeastNumber
  <2>2. \A s \in k .. p - 1 : s \in Nat /\ s < p /\ s >= k  OBVIOUS
  <2>3. Least(k, p)  BY <2>1, <2>2
  <2> QED  BY <2>3
<1>3. ASSUME NEW k \in Nat, NEW p, NEW s, Least(k, p), Least(k, s) PROVE p = s
  <2>1. p < s => p \in k .. s - 1  BY <1>3
  <2>2. s < p => s \in k .. p - 1  BY <1>3
  <2> QED  BY <1>3, <2>1, <2>2
<1>4. ASSUME NEW k \in Nat, NEW p, Least(k, p)
      PROVE  (Prime(k) => p = k) /\ (~Prime(k) => Least(k + 1, p))
  <2>1. Prime(k) => p = k
    <3>1. p > k => k \in k .. p - 1  BY <1>4
    <3> QED  BY <1>4, <3>1
  <2>2. ~Prime(k) => Least(k + 1, p)
    <3>1. ~Prime(k) => p # k  BY <1>4
    <3>2. \A s \in k + 1 .. p - 1 : s \in k .. p - 1  BY <1>4
    <3> QED  BY <1>4, <3>1, <3>2
  <2> QED  BY <2>1, <2>2
<1> HIDE DEF Least
<1>5. \E f : f = Loop(f)
  <2> DEFINE f == [k \in Nat |-> CHOOSE p : Least(k, p)]
  <2>1. /\ \A k \in Nat : Least(k, f[k])
        /\ f = [k \in Nat |-> f[k]]
    BY <1>2
  <2> HIDE DEF f
  <2>2. ASSUME NEW k \in Nat PROVE f[k] = IF Prime(k) THEN k ELSE f[k + 1]
    <3>1. k + 1 \in Nat  OBVIOUS
    <3>2. Least(k, f[k]) /\ Least(k + 1, f[k + 1])  BY <2>1, <3>1
    <3>3. Prime(k) => f[k] = k  BY <1>4, <3>2
    <3>4. ~Prime(k) => f[k] = f[k + 1]  BY <1>3, <1>4, <3>1, <3>2
    <3> QED  BY <3>3, <3>4
  <2>3. f = Loop(f)  BY <2>1, <2>2
  <2> QED  BY <2>3
<1>6. next = Loop(next)  BY <1>5
<1> HIDE DEF next
<1>7. PICK p : Least(r + 1, p)
  <2>1. r + 1 \in Nat  OBVIOUS
  <2> QED  BY <1>2, <2>1
<1>8. p \in Nat /\ p >= r + 1 /\ Prime(p) /\ \A s \in r + 1 .. p - 1 : ~Prime(s)
  BY <1>7 DEF Least
<1> DEFINE S == {i \in Nat : r + 1 + i <= p => next[r + 1] = next[r + 1 + i]}
<1>9. 0 \in S
  <2>1. r + 1 + 0 = r + 1  OBVIOUS
  <2> QED  BY <2>1
<1>10. ASSUME NEW i \in Nat, i \in S PROVE i + 1 \in S
  <2> SUFFICES ASSUME r + 1 + (i + 1) <= p PROVE next[r + 1] = next[r + 1 + (i + 1)]
    OBVIOUS
  <2>1. next[r + 1] = next[r + 1 + i]  BY <1>8, <1>10
  <2>2. r + 1 + i \in Nat /\ r + 1 + i \in r + 1 .. p - 1
        /\ (r + 1 + i) + 1 = r + 1 + (i + 1)
    BY <1>8
  <2>3. ~Prime(r + 1 + i)  BY <1>8, <2>2
  <2>4. next[r + 1 + i] = next[(r + 1 + i) + 1]  BY <1>6, <2>2, <2>3
  <2> QED  BY <2>1, <2>2, <2>4
<1>11. Nat \subseteq S
  <2> HIDE DEF S
  <2> QED  BY <1>9, <1>10, Induction
<1>12. next[r + 1] = p
  <2>1. p - (r + 1) \in Nat /\ r + 1 + (p - (r + 1)) = p  BY <1>8
  <2>2. next[r + 1] = next[p]  BY <1>11, <2>1
  <2> QED  BY <1>6, <1>8, <2>2
<1> QED  BY <1>1, <1>8, <1>12

-----------------------------------------------------------------------------
(* bit_length: the number lies between two powers of 2.                      *)
LEMMA BitLengthIs ==
  ASSUME NEW x \in Nat
  PROVE  /\ BitLength(x) \in 0 .. x /\ x < Pow(2, BitLength(x))
         /\ \A j \in 0 .. BitLength(x) - 1 : Pow(2, j) <= x
<1> DEFINE S == {k \in Nat : x < Pow(2, k)}
           Good(k) == x < Pow(2, k) /\ \A j \in 0 .. k - 1 : Pow(2, j) <= x
<1>1. x \in S  BY PowGrows
<1>2. PICK k \in S : \A j \in S : k <= j
  <2>1. S \in SUBSET Nat /\ S # {}  BY <1>1
  <2> HIDE DEF S
  <2> QED  BY <2>1, LeastNumber
<1>3. ASSUME NEW j \in 0 .. k - 1 PROVE Pow(2, j) <= x
  <2>1. j \in Nat /\ j \notin S  BY <1>2
  <2>2. Pow(2, j) \in Nat  BY <2>1, PowGrows
  <2> QED  BY <2>1, <2>2
<1>4. k \in 0 .. x /\ Good(k)  BY <1>1, <1>2, <1>3
<1>5. BitLength(x) = CHOOSE l \in 0 .. x : Good(l)  BY DEF BitLength
<1> HIDE DEF Good
<1>6. BitLength(x) \in 0 .. x /\ Good(BitLength(x))  BY <1>4, <1>5
<1> QED  BY <1>6 DEF Good

(* Squares keep the order.                                                   *)
LEMMA SquaresGrow ==
  ASSUME NEW x \in Nat, NEW y \in Nat
  PROVE  x < y <=> x * x < y * y
<1>1. ASSUME x < y PROVE x * x < y * y
  <2>1. PICK d \in Nat \ {0} : y = x + d
    <3>1. y - x \in Nat \ {0} /\ y = x + (y - x)  BY <1>1
    <3> QED  BY <3>1
  <2>2. y * y = x * x + (x * d + x * d) + d * d  BY <2>1
  <2>3. x * d \in Nat /\ d * d \in Nat /\ d * d >= d /\ x * x \in Nat  OBVIOUS
  <2> QED  BY <2>2, <2>3
<1>2. ASSUME y <= x PROVE y * y <= x * x
  <2>1. PICK d \in Nat : x = y + d
    <3>1. x - y \in Nat /\ x = y + (x - y)  BY <1>2
    <3> QED  BY <3>1
  <2>2. x * x = y * y + (y * d + y * d) + d * d  BY <2>1
  <2>3. y * d \in Nat /\ d * d \in Nat /\ y * y \in Nat  OBVIOUS
  <2> QED  BY <2>2, <2>3
<1>3. x * x \in Nat /\ y * y \in Nat  OBVIOUS
<1> QED  BY <1>1, <1>2, <1>3

(* improved_i_sqrt finds the integer part of the root of any number.         *)
THEOREM ISqrtIs ==
  ASSUME NEW n \in Nat
  PROVE  /\ ISqrt(n) \in Nat /\ ISqrt(n) * ISqrt(n) <= n
         /\ n < (ISqrt(n) + 1) * (ISqrt(n) + 1)
<1> DEFINE half == BitLength(n) \div 2
           Top(j) == /\ Pow(2, 2 * j) <= n
                     /\ \A l \in j + 1 .. half : Pow(2, 2 * l) > n
           i == CHOOSE j \in 0 .. half : Top(j)
           Next(y, k) == LET m == y + Pow(2, i - k) IN IF m * m <= n THEN m ELSE y
           Loop(f) == [k \in 0 .. i |-> IF k = 0 THEN Pow(2, i) ELSE Next(f[k - 1], k)]
           root == CHOOSE f : f = Loop(f)
<1>1. ISqrt(n) = IF n = 0 THEN 0 ELSE root[i]  BY Zenon DEF ISqrt
<1>2. CASE n = 0  BY <1>1, <1>2
<1>3. CASE n # 0
  <2>1. BitLength(n) \in Nat /\ n < Pow(2, BitLength(n)) /\ half \in Nat
        /\ BitLength(n) <= 2 * half + 1
    <3>1. BitLength(n) \in Nat /\ n < Pow(2, BitLength(n))  BY BitLengthIs
    <3> QED  BY <3>1
  <2>2. \E j \in 0 .. half : Top(j)
    <3> DEFINE S == {j \in Nat : j <= half /\ Pow(2, 2 * (half - j)) <= n}
    <3>1. half \in S
      <4>1. half - half = 0 /\ 2 * 0 = 0 /\ 2 \in Int  BY <2>1
      <4>2. Pow(2, 0) = 1  BY <4>1, PowSteps
      <4> QED  BY <1>3, <2>1, <4>1, <4>2
    <3>2. PICK s \in S : \A y \in S : s <= y
      <4>1. S \in SUBSET Nat /\ S # {}  BY <3>1
      <4> HIDE DEF S
      <4> QED  BY <4>1, LeastNumber
    <3>3. half - s \in 0 .. half /\ Pow(2, 2 * (half - s)) <= n  BY <2>1, <3>2
    <3>4. ASSUME NEW l \in half - s + 1 .. half PROVE Pow(2, 2 * l) > n
      <4>1. half - l \in Nat /\ half - l <= half /\ half - l < s /\ half - (half - l) = l
        BY <2>1, <3>2, <3>3
      <4>2. half - l \notin S  BY <3>2, <4>1
      <4>3. 2 * l \in Nat  BY <3>3
      <4>4. Pow(2, 2 * l) \in Nat  BY <4>3, PowGrows
      <4> QED  BY <4>1, <4>2, <4>4
    <3> QED  BY <3>3, <3>4
  <2>3. i \in 0 .. half /\ Top(i)
    <3> HIDE DEF Top
    <3> QED  BY <2>2
  <2> HIDE DEF i
  <2>4. i \in Nat  BY <2>1, <2>3
  <2>5. \A k \in 0 .. i : Pow(2, i - k) \in Nat
    <3>1. \A k \in 0 .. i : i - k \in Nat  BY <2>4
    <3> QED  BY <3>1, PowGrows
  <2>6. \E f : f = Loop(f)
    <3> DEFINE up == [k \in Nat |-> [y \in Nat |-> IF k < i THEN Next(y, k + 1) ELSE y]]
    <3>1. up \in [Nat -> [Nat -> Nat]]
      <4>1. ASSUME NEW k \in Nat, NEW y \in Nat, k < i PROVE Next(y, k + 1) \in Nat
        <5>1. k + 1 \in 0 .. i  BY <2>4, <4>1
        <5> QED  BY <2>5, <5>1
      <4> HIDE DEF Next
      <4> QED  BY <4>1
    <3> HIDE DEF up
    <3>2. PICK f : Iterates(f, Nat, Pow(2, i), up)
      <4>1. Pow(2, i) \in Nat  BY <2>4, PowGrows
      <4> QED  BY <3>1, <4>1, Iterate, Zenon
    <3> HIDE DEF Next
    <3>3. ASSUME NEW k \in 1 .. i PROVE f[k] = Next(f[k - 1], k)
      <4>1. k - 1 \in Nat /\ k \in Nat /\ k # 0 /\ k - 1 < i /\ (k - 1) + 1 = k  BY <2>4
      <4>2. f[k - 1] \in Nat /\ f[k] = up[k - 1][f[k - 1]]  BY <3>2, <4>1 DEF Iterates
      <4> QED  BY <4>1, <4>2 DEF up
    <3>4. f[0] = Pow(2, i)  BY <3>2 DEF Iterates
    <3> DEFINE g == [k \in 0 .. i |-> f[k]]
    <3>5. ASSUME NEW k \in 0 .. i PROVE g[k] = Loop(g)[k]
      <4>1. CASE k = 0  BY <3>4, <4>1
      <4>2. CASE k # 0
        <5>1. k \in 1 .. i /\ k - 1 \in 0 .. i  BY <2>4, <4>2
        <5> QED  BY <3>3, <4>2, <5>1
      <4> QED  BY <4>1, <4>2
    <3>6. g = Loop(g)  BY <3>5
    <3> QED  BY <3>6
  <2>7. root = Loop(root)
    <3> HIDE DEF Next
    <3> QED  BY <2>6
  <2> HIDE DEF root
  <2> DEFINE Near(y, k) == /\ y \in Nat /\ y * y <= n
                           /\ n < (y + Pow(2, i - k)) * (y + Pow(2, i - k))
             S == {k \in Nat : k <= i => Near(root[k], k)}
  <2>8. 0 \in S
    <3>1. PICK y \in Nat : y = Pow(2, i) /\ root[0] = y /\ Pow(2, i - 0) = y
      <4>1. Pow(2, i) \in Nat /\ i - 0 = i /\ 0 \in 0 .. i  BY <2>4, PowGrows
      <4>2. root[0] = Pow(2, i)
        <5> HIDE DEF Next
        <5> QED  BY <2>7, <4>1
      <4> QED  BY <4>1, <4>2
    <3>2. i + i = 2 * i /\ Pow(2, i + i) = y * y
      <4>1. 2 \in Int  OBVIOUS
      <4>2. Pow(2, i + i) = Pow(2, i) * Pow(2, i)  BY <2>4, <4>1, PowAdd
      <4> QED  BY <2>4, <3>1, <4>2
    <3>3. y * y <= n  BY <2>3, <3>2
    <3>4. PICK z \in Nat : z = y + y /\ Pow(2, 2 * (i + 1)) = z * z
      <4>1. i + 1 \in Nat /\ (i + 1) + (i + 1) = 2 * (i + 1) /\ 2 \in Int  BY <2>4
      <4>2. Pow(2, (i + 1) + (i + 1)) = Pow(2, i + 1) * Pow(2, i + 1)
        BY <4>1, PowAdd
      <4>3. Pow(2, i + 1) = 2 * y  BY <2>4, <3>1, PowGrows
      <4>4. 2 * y = y + y /\ y + y \in Nat  OBVIOUS
      <4> QED  BY <4>1, <4>2, <4>3, <4>4
    <3>5. n < Pow(2, 2 * (i + 1))
      <4>1. CASE i + 1 <= half
        <5>1. i + 1 \in i + 1 .. half  BY <2>1, <2>4, <4>1
        <5>2. 2 * (i + 1) \in Nat  BY <2>4
        <5>3. Pow(2, 2 * (i + 1)) > n  BY <2>3, <5>1
        <5>4. Pow(2, 2 * (i + 1)) \in Nat  BY <5>2, PowGrows
        <5> QED  BY <5>3, <5>4
      <4>2. CASE i = half
        <5>1. 2 * (i + 1) \in Nat /\ BitLength(n) \in 0 .. 2 * (i + 1)  BY <2>1, <4>2
        <5>2. Pow(2, BitLength(n)) <= Pow(2, 2 * (i + 1))  BY <5>1, PowGrows
        <5>3. Pow(2, BitLength(n)) \in Nat /\ Pow(2, 2 * (i + 1)) \in Nat
          BY <2>1, <5>1, PowGrows
        <5> QED  BY <2>1, <5>2, <5>3
      <4> QED  BY <2>1, <2>3, <4>1, <4>2
    <3> QED  BY <3>1, <3>3, <3>4, <3>5
  <2>9. ASSUME NEW k \in Nat, k \in S PROVE k + 1 \in S
    <3> SUFFICES ASSUME k + 1 <= i PROVE Near(root[k + 1], k + 1)
      OBVIOUS
    <3>1. k <= i /\ k + 1 \in 0 .. i /\ k + 1 # 0 /\ (k + 1) - 1 = k
          /\ i - (k + 1) \in Nat /\ (i - (k + 1)) + 1 = i - k
      BY <2>4
    <3>2. PICK y \in Nat : y = root[k] /\ Near(y, k)  BY <2>9, <3>1
    <3>3. PICK z \in Nat : z = Pow(2, i - (k + 1)) /\ Pow(2, i - k) = z + z
      <4>1. Pow(2, i - (k + 1)) \in Nat
            /\ Pow(2, (i - (k + 1)) + 1) = 2 * Pow(2, i - (k + 1))
        BY <3>1, PowGrows
      <4> QED  BY <3>1, <4>1
    <3>4. root[k + 1] = Next(y, k + 1)
      <4> HIDE DEF Next
      <4> QED  BY <2>7, <3>1, <3>2
    <3>5. root[k + 1] = IF (y + z) * (y + z) <= n THEN y + z ELSE y  BY <3>3, <3>4
    <3>6. y * y <= n /\ n < (y + (z + z)) * (y + (z + z))  BY <3>2, <3>3
    <3>7. y + (z + z) = (y + z) + z  OBVIOUS
    <3>8. (y + z) * (y + z) \in Nat /\ y + z \in Nat  OBVIOUS
    <3>9. CASE (y + z) * (y + z) <= n  BY <3>3, <3>5, <3>6, <3>7, <3>8, <3>9
    <3>10. CASE ~((y + z) * (y + z) <= n)  BY <3>3, <3>5, <3>6, <3>8, <3>10
    <3> QED  BY <3>9, <3>10
  <2>10. Nat \subseteq S
    <3> HIDE DEF S
    <3> QED  BY <2>8, <2>9, Induction
  <2>11. Near(root[i], i)  BY <2>4, <2>10
  <2>12. i - i = 0 /\ Pow(2, 0) = 1
    <3>1. 2 \in Int  OBVIOUS
    <3> QED  BY <2>4, <3>1, PowSteps
  <2> QED  BY <1>1, <1>3, <2>11, <2>12
<1> QED  BY <1>2, <1>3

(* So it finds the root of a square.                                         *)
LEMMA ISqrtSquare ==
  ASSUME NEW x \in Nat
  PROVE  ISqrt(x * x) = x
<1>1. x * x \in Nat  OBVIOUS
<1>2. PICK y \in Nat : y = ISqrt(x * x) /\ y * y <= x * x /\ x * x < (y + 1) * (y + 1)
  BY <1>1, ISqrtIs
<1>3. ~(x < y) /\ x < y + 1
  <2>1. y + 1 \in Nat /\ y * y \in Nat  OBVIOUS
  <2> QED  BY <1>1, <1>2, <2>1, SquaresGrow
<1> QED  BY <1>2, <1>3

-----------------------------------------------------------------------------
\* f stops with out, and elsewhere goes on with next.
Recurses(f, D, stop, next, out) ==
  f = [v \in D |-> IF v \in stop THEN out[v] ELSE f[next[v]]]

(* A recursion that comes nearer to its end with every call defines a        *)
(* function.                                                                 *)
LEMMA Recursion ==
  ASSUME NEW D, NEW V, NEW stop \in SUBSET D, NEW next \in [D -> D], NEW out \in [D -> V],
         NEW measure \in [D -> Nat],
         \A v \in D \ stop : measure[next[v]] < measure[v]
  PROVE  \E f : Recurses(f, D, stop, next, out)
<1> DEFINE step == [k \in Nat |-> [g \in [D -> V] |->
                     [v \in D |-> IF v \in stop THEN out[v] ELSE g[next[v]]]]]
<1>1. step \in [Nat -> [[D -> V] -> [D -> V]]]
  <2>1. ASSUME NEW g \in [D -> V]
        PROVE  [v \in D |-> IF v \in stop THEN out[v] ELSE g[next[v]]] \in [D -> V]
    OBVIOUS
  <2> QED  BY <2>1
<1> HIDE DEF step
<1>2. PICK h : Iterates(h, [D -> V], out, step)  BY <1>1, Iterate, Zenon
<1>3. ASSUME NEW k \in Nat, NEW v \in D
      PROVE  h[k + 1][v] = IF v \in stop THEN out[v] ELSE h[k][next[v]]
  <2>1. k + 1 \in Nat /\ k + 1 # 0 /\ (k + 1) - 1 = k  OBVIOUS
  <2>2. h[k + 1] = step[k][h[k]] /\ h[k] \in [D -> V]  BY <1>2, <2>1 DEF Iterates
  <2> QED  BY <2>2 DEF step
<1> DEFINE S == {k \in Nat : \A v \in D : measure[v] < k => h[k + 1][v] = h[k][v]}
<1>4. 0 \in S  OBVIOUS
<1>5. ASSUME NEW k \in Nat, k \in S PROVE k + 1 \in S
  <2> SUFFICES ASSUME NEW v \in D, measure[v] < k + 1
               PROVE  h[(k + 1) + 1][v] = h[k + 1][v]
    OBVIOUS
  <2>1. k + 1 \in Nat  OBVIOUS
  <2>2. CASE v \in stop  BY <1>3, <2>1, <2>2
  <2>3. CASE v \notin stop
    <3>1. next[v] \in D /\ measure[next[v]] < k  BY <2>3
    <3>2. h[k + 1][next[v]] = h[k][next[v]]  BY <1>5, <3>1
    <3> QED  BY <1>3, <2>1, <2>3, <3>2
  <2> QED  BY <2>2, <2>3
<1>6. Nat \subseteq S
  <2> HIDE DEF S
  <2> QED  BY <1>4, <1>5, Induction
<1>7. ASSUME NEW v \in D, NEW k \in Nat, measure[v] < k
      PROVE  h[k][v] = h[measure[v] + 1][v]
  <2> DEFINE T == {i \in Nat : h[measure[v] + 1 + i][v] = h[measure[v] + 1][v]}
  <2>1. 0 \in T
    <3>1. measure[v] + 1 + 0 = measure[v] + 1  OBVIOUS
    <3> QED  BY <3>1
  <2>2. ASSUME NEW i \in Nat, i \in T PROVE i + 1 \in T
    <3>1. PICK j \in Nat : j = measure[v] + 1 + i  OBVIOUS
    <3>2. measure[v] < j /\ j + 1 = measure[v] + 1 + (i + 1)  BY <3>1
    <3>3. h[j + 1][v] = h[j][v]  BY <1>6, <3>2
    <3> QED  BY <2>2, <3>1, <3>2, <3>3
  <2>3. Nat \subseteq T
    <3> HIDE DEF T
    <3> QED  BY <2>1, <2>2, Induction
  <2>4. k - (measure[v] + 1) \in Nat /\ measure[v] + 1 + (k - (measure[v] + 1)) = k
    BY <1>7
  <2> QED  BY <2>3, <2>4
<1> DEFINE f == [v \in D |-> h[measure[v] + 1][v]]
<1>8. ASSUME NEW v \in D PROVE f[v] = IF v \in stop THEN out[v] ELSE f[next[v]]
  <2>1. f[v] = IF v \in stop THEN out[v] ELSE h[measure[v]][next[v]]  BY <1>3
  <2>2. CASE v \notin stop
    <3>1. next[v] \in D /\ measure[next[v]] < measure[v]  BY <2>2
    <3>2. h[measure[v]][next[v]] = f[next[v]]  BY <1>7, <3>1
    <3> QED  BY <2>1, <2>2, <3>2
  <2> QED  BY <2>1, <2>2
<1>9. f = [v \in D |-> IF v \in stop THEN out[v] ELSE f[next[v]]]
  <2>1. f = [v \in D |-> f[v]]  OBVIOUS
  <2> HIDE DEF f
  <2> QED  BY <1>8, <2>1
<1>10. Recurses(f, D, stop, next, out)  BY <1>9 DEF Recurses
<1> QED  BY <1>10

\* One turn of the algorithm, with the quotient k, leads from v to w.
Turns(v, k, w) ==
  /\ v.r0 = v.r1 * k + w.r1 /\ w.r0 = v.r1
  /\ w.s0 = v.s1 /\ w.s1 = v.s0 - k * v.s1
  /\ w.t0 = v.t1 /\ w.t1 = v.t0 - k * v.t1

\* The state v of the algorithm for a and b combines them as it says.
Combines(a, b, v) == v.r0 = v.s0 * a + v.t0 * b /\ v.r1 = v.s1 * a + v.t1 * b

\* What the algorithm gives from state v on: a divisor of its two numbers, and a
\* combination of a and b, if v is one.
Ends(a, b, v, out) ==
  \E r \in Nat, s \in Int, t \in Int, i \in Int, j \in Int :
    /\ out = <<r, s, t>>
    /\ v.r0 = r * i /\ v.r1 = r * j
    /\ Combines(a, b, v) => r = s * a + t * b

(* The algorithm ends so when the second number is 0.                        *)
LEMMA EuclidEnds ==
  ASSUME NEW a \in Nat, NEW b \in Nat, NEW v \in EuclidState, v.r1 = 0
  PROVE  Ends(a, b, v, <<v.r0, v.s0, v.t0>>)
<1>1. v.r0 \in Nat /\ v.s0 \in Int /\ v.t0 \in Int  BY DEF EuclidState
<1>2. v.r0 = v.r0 * 1 /\ v.r1 = v.r0 * 0 /\ 1 \in Int /\ 0 \in Int  BY <1>1
<1>3. Combines(a, b, v) => v.r0 = v.s0 * a + v.t0 * b  BY DEF Combines
<1> QED  BY <1>1, <1>2, <1>3 DEF Ends

(* And if it ends so from the state after a turn, it does from that before.  *)
LEMMA EuclidTurns ==
  ASSUME NEW a \in Nat, NEW b \in Nat, NEW v \in EuclidState, NEW w \in EuclidState,
         NEW e \in Int, Turns(v, e, w), NEW out, Ends(a, b, w, out)
  PROVE  Ends(a, b, v, out)
<1>1. PICK r0 \in Int, r1 \in Int, s0 \in Int, s1 \in Int, t0 \in Int, t1 \in Int :
        r0 = v.r0 /\ r1 = v.r1 /\ s0 = v.s0 /\ s1 = v.s1 /\ t0 = v.t0 /\ t1 = v.t1
  <2>1. /\ v.r0 \in Int /\ v.r1 \in Int /\ v.s0 \in Int /\ v.s1 \in Int
        /\ v.t0 \in Int /\ v.t1 \in Int
    BY DEF EuclidState
  <2> QED  BY <2>1, Zenon
<1>2. PICK x \in Int : x = w.r1  BY DEF EuclidState
<1>3. r0 = r1 * e + x /\ w.r0 = r1 /\ w.s0 = s1 /\ w.t0 = t1
      /\ w.s1 = s0 - e * s1 /\ w.t1 = t0 - e * t1
  BY <1>1, <1>2 DEF Turns
<1>4. PICK r \in Nat, s \in Int, t \in Int, i \in Int, j \in Int :
        /\ out = <<r, s, t>> /\ w.r0 = r * i /\ w.r1 = r * j
        /\ Combines(a, b, w) => r = s * a + t * b
  BY Zenon DEF Ends
<1>5. r0 = r * (i * e + j) /\ i * e + j \in Int
  <2>1. (r * i) * e + r * j = r * (i * e + j) /\ i * e + j \in Int  OBVIOUS
  <2>2. r1 * e = (r * i) * e  BY <1>3, <1>4
  <2>3. x = r * j  BY <1>2, <1>4
  <2> QED  BY <1>3, <2>1, <2>2, <2>3
<1>6. Combines(a, b, v) => Combines(a, b, w)
  <2> SUFFICES ASSUME r0 = s0 * a + t0 * b, r1 = s1 * a + t1 * b
               PROVE  /\ r1 = s1 * a + t1 * b
                      /\ x = (s0 - e * s1) * a + (t0 - e * t1) * b
    BY <1>1, <1>2, <1>3 DEF Combines
  <2>1. (s0 - e * s1) * a + (t0 - e * t1) * b = (s0 * a + t0 * b) - e * (s1 * a + t1 * b)
    OBVIOUS
  <2>2. x = r0 - e * r1
    <3>1. e * r1 = r1 * e /\ r1 * e \in Int  OBVIOUS
    <3> QED  BY <1>3, <3>1
  <2>3. e * r1 = e * (s1 * a + t1 * b)  OBVIOUS
  <2> QED  BY <2>1, <2>2, <2>3
<1>7. PICK k \in Int : v.r0 = r * k /\ v.r1 = r * i  BY <1>1, <1>3, <1>4, <1>5
<1>8. Combines(a, b, v) => r = s * a + t * b  BY <1>4, <1>6
<1>9. SUFFICES \E r_ \in Nat, s_ \in Int, t_ \in Int, i_ \in Int, j_ \in Int :
                 /\ out = <<r_, s_, t_>>
                 /\ v.r0 = r_ * i_ /\ v.r1 = r_ * j_
                 /\ Combines(a, b, v) => r_ = s_ * a + t_ * b
  BY DEF Ends
<1>10. WITNESS r \in Nat, s \in Int, t \in Int, k \in Int, i \in Int
<1> QED  BY <1>4, <1>7, <1>8

\* r, s and t as the algorithm promises them for a and b.
IsCombination(a, b, out) ==
  \E r \in Nat, s \in Int, t \in Int, i \in Int, j \in Int :
    /\ out = <<r, s, t>>
    /\ r = s * a + t * b /\ a = r * i /\ b = r * j

(* The extended Euclidean algorithm: r divides both numbers and is the       *)
(* combination of them that s and t say.                                     *)
LEMMA ExtendedEuclidIs ==
  ASSUME NEW a \in Nat, NEW b \in Nat
  PROVE  IsCombination(a, b, ExtendedEuclid(a, b))
<1> DEFINE turn(v) == [r0 |-> v.r1, r1 |-> v.r0 - (v.r0 \div v.r1) * v.r1,
                       s0 |-> v.s1, s1 |-> v.s0 - (v.r0 \div v.r1) * v.s1,
                       t0 |-> v.t1, t1 |-> v.t0 - (v.r0 \div v.r1) * v.t1]
           Loop(f) == [v \in EuclidState |->
                         IF v.r1 = 0 THEN <<v.r0, v.s0, v.t0>> ELSE f[turn(v)]]
           loop == CHOOSE f : f = Loop(f)
           init == [r0 |-> a, r1 |-> b, s0 |-> 1, s1 |-> 0, t0 |-> 0, t1 |-> 1]
<1>1. ExtendedEuclid(a, b) = loop[init]  BY Zenon DEF ExtendedEuclid
<1>2. ASSUME NEW v \in EuclidState, v.r1 # 0
      PROVE  /\ turn(v) \in EuclidState /\ turn(v).r1 < v.r1
             /\ \E k \in Int : Turns(v, k, turn(v))
  <2>1. v.r1 \in Nat \ {0} /\ v.r0 \in Int /\ v.s0 \in Int /\ v.s1 \in Int
        /\ v.t0 \in Int /\ v.t1 \in Int
    BY <1>2 DEF EuclidState
  <2>2. PICK k \in Int : k = v.r0 \div v.r1 /\ v.r0 - k * v.r1 \in 0 .. v.r1 - 1
    <3>1. v.r0 \div v.r1 \in Int /\ v.r0 % v.r1 \in 0 .. v.r1 - 1
          /\ v.r0 = v.r1 * (v.r0 \div v.r1) + (v.r0 % v.r1)
      BY <2>1, DivMod
    <3>2. PICK k \in Int : k = v.r0 \div v.r1  BY <3>1
    <3>3. v.r1 * k = k * v.r1 /\ v.r1 * k \in Int  BY <2>1
    <3>4. v.r0 - k * v.r1 = v.r0 % v.r1  BY <2>1, <3>1, <3>2, <3>3
    <3> QED  BY <3>1, <3>2, <3>4
  <2>3. turn(v) = [r0 |-> v.r1, r1 |-> v.r0 - k * v.r1, s0 |-> v.s1, s1 |-> v.s0 - k * v.s1,
                   t0 |-> v.t1, t1 |-> v.t0 - k * v.t1]
    BY <2>2
  <2>4. v.s0 - k * v.s1 \in Int /\ v.t0 - k * v.t1 \in Int /\ v.r0 - k * v.r1 \in Nat
    BY <2>1, <2>2
  <2> HIDE DEF turn
  <2>5. turn(v) \in EuclidState  BY <2>1, <2>3, <2>4 DEF EuclidState
  <2>6. turn(v).r1 = v.r0 - k * v.r1  BY <2>3
  <2>7. v.r0 = v.r1 * k + (v.r0 - k * v.r1) /\ v.r0 - k * v.r1 < v.r1  BY <2>1, <2>2
  <2>8. Turns(v, k, turn(v))  BY <2>3, <2>7 DEF Turns
  <2> QED  BY <2>5, <2>6, <2>7, <2>8
<1> HIDE DEF turn
<1>3. \E f : f = Loop(f)
  <2> DEFINE D == EuclidState
             V == {<<v.r0, v.s0, v.t0>> : v \in EuclidState}
             stop == {v \in D : v.r1 = 0}
             next == [v \in D |-> IF v.r1 = 0 THEN v ELSE turn(v)]
             out == [v \in D |-> <<v.r0, v.s0, v.t0>>]
             measure == [v \in D |-> v.r1]
  <2>1. next \in [D -> D] /\ out \in [D -> V] /\ stop \in SUBSET D  BY <1>2
  <2>2. measure \in [D -> Nat]  BY DEF EuclidState
  <2>3. \A v \in D \ stop : measure[next[v]] < measure[v]  BY <1>2
  <2>4. \A v \in D : /\ v \in stop <=> v.r1 = 0
                     /\ out[v] = <<v.r0, v.s0, v.t0>> 
                     /\ v.r1 # 0 => next[v] = turn(v)
    OBVIOUS
  <2> HIDE DEF D, V, stop, next, out, measure
  <2>5. PICK f : Recurses(f, D, stop, next, out)
    BY <2>1, <2>2, <2>3, Recursion, Zenon
  <2>6. f = Loop(f)  BY <2>4, <2>5 DEF D, Recurses
  <2> QED  BY <2>6
<1>4. loop = Loop(loop)  BY <1>3
<1> HIDE DEF loop
<1> DEFINE Good(v) == Ends(a, b, v, loop[v])
           Bad == {k \in Nat : \E v \in EuclidState : v.r1 = k /\ ~Good(v)}
<1>5. Bad = {}
  <2> SUFFICES ASSUME Bad # {} PROVE FALSE
    OBVIOUS
  <2>1. PICK k \in Bad : \A l \in Bad : k <= l
    <3>1. Bad \in SUBSET Nat  OBVIOUS
    <3> HIDE DEF Bad
    <3> QED  BY <3>1, LeastNumber
  <2>2. PICK v \in EuclidState : v.r1 = k /\ ~Good(v)  BY <2>1
  <2>3. CASE k = 0
    <3>1. loop[v] = <<v.r0, v.s0, v.t0>>  BY <1>4, <2>2, <2>3
    <3> QED  BY <2>2, <2>3, <3>1, EuclidEnds
  <2>4. CASE k # 0
    <3>1. turn(v) \in EuclidState /\ turn(v).r1 < v.r1 /\ loop[v] = loop[turn(v)]
      BY <1>2, <1>4, <2>2, <2>4
    <3>2. PICK e \in Int : Turns(v, e, turn(v))  BY <1>2, <2>2, <2>4
    <3>3. turn(v).r1 \in Nat /\ turn(v).r1 \notin Bad
      <4>1. turn(v).r1 \in Nat  BY <3>1 DEF EuclidState
      <4> QED  BY <2>1, <2>2, <3>1, <4>1
    <3>4. Good(turn(v))  BY <3>1, <3>3
    <3>5. Good(v)  BY <3>1, <3>2, <3>4, EuclidTurns
    <3> QED  BY <2>2, <3>5
  <2> QED  BY <2>3, <2>4
<1>6. init \in EuclidState /\ init.r0 = a /\ init.r1 = b
  BY DEF EuclidState
<1>7. Combines(a, b, init)  BY DEF Combines
<1> HIDE DEF init
<1>8. Good(init)
  <2>1. init.r1 \in Nat  BY <1>6
  <2> QED  BY <1>5, <1>6, <2>1
<1>9. IsCombination(a, b, loop[init])  BY <1>6, <1>7, <1>8 DEF Ends, IsCombination
<1> QED  BY <1>1, <1>9

-----------------------------------------------------------------------------
(* Numbers that differ by a multiple leave the same remainder.               *)
LEMMA CongMultiple ==
  ASSUME NEW m \in Nat \ {0}, NEW a \in Int, NEW b \in Int, NEW k \in Int, a = b + m * k
  PROVE  Cong(m, a, b) /\ Cong(m, b, a)
BY ModShift DEF Cong

(* A remainder is congruent to what it is the remainder of.                  *)
LEMMA CongMod ==
  ASSUME NEW m \in Nat \ {0}, NEW a \in Int
  PROVE  /\ a % m \in 0 .. m - 1 /\ Cong(m, a % m, a) /\ Cong(m, a, a % m)
         /\ \A b \in 0 .. m - 1 : Cong(m, a, b) => a % m = b
<1>1. a % m \in 0 .. m - 1  BY DivMod
<1>2. \A b \in 0 .. m - 1 : b % m = b  BY SmallMod
<1>3. (a % m) % m = a % m  BY <1>1, <1>2
<1> QED  BY <1>1, <1>2, <1>3 DEF Cong

(* Two inverses of the same number are congruent.                            *)
LEMMA InverseUnique ==
  ASSUME NEW m \in Nat \ {0}, NEW a \in Int, NEW x \in Int, NEW y \in Int,
         Cong(m, a * x, 1), Cong(m, a * y, 1)
  PROVE  Cong(m, x, y)
<1>1. a * x \in Int /\ a * y \in Int /\ 1 \in Int  OBVIOUS
<1>2. Cong(m, x, x) /\ Cong(m, y, y)  BY DEF Cong
<1>3. Cong(m, (a * x) * y, 1 * y)  BY <1>1, <1>2, CongTimes
<1>4. Cong(m, (a * y) * x, 1 * x)  BY <1>1, <1>2, CongTimes
<1>5. (a * x) * y = (a * y) * x /\ 1 * x = x /\ 1 * y = y  OBVIOUS
<1> QED  BY <1>3, <1>4, <1>5 DEF Cong

(* invert gives the inverse, when there is one.                              *)
LEMMA InvertIs ==
  ASSUME NEW m \in Nat \ {0, 1}, NEW a \in Nat, NEW b \in Int, Cong(m, a * b, 1)
  PROVE  Invert(a, m) \in 0 .. m - 1 /\ Cong(m, a * Invert(a, m), 1) /\ Cong(m, Invert(a, m), b)
<1>0. m \in Nat \ {0} /\ m \in Nat /\ m > 1  OBVIOUS
<1>1. PICK r \in Nat, s \in Int, t \in Int, i \in Int, j \in Int :
        /\ ExtendedEuclid(a, m) = <<r, s, t>>
        /\ r = s * a + t * m /\ a = r * i /\ m = r * j
  <2>1. m \in Nat  BY <1>0
  <2>2. IsCombination(a, m, ExtendedEuclid(a, m))  BY <2>1, ExtendedEuclidIs
  <2> QED  BY <2>2 DEF IsCombination
<1>2. PICK k \in Int : a * b = 1 + m * k
  <2>1. a * b \in Int /\ 1 \in Int  OBVIOUS
  <2>2. (a * b - 1) % m = 0
    <3>1. m \in Nat \ {0} /\ a * b \in Int /\ 1 \in Int  BY <1>0, <2>1
    <3>2. Cong(m, a * b, 1)  OBVIOUS
    <3> QED  BY <3>1, <3>2, CongDifference
  <2>5. a * b - 1 \in Int  BY <2>1
  <2>3. PICK k \in Int : a * b - 1 = m * k  BY <1>0, <2>2, <2>5, ModZero
  <2>4. m * k \in Int  OBVIOUS
  <2> QED  BY <2>1, <2>3, <2>4
<1>3. r = 1
  <2>1. (r * i) * b = r * (i * b) /\ (r * j) * k = r * (j * k)
        /\ r * (i * b - j * k) = r * (i * b) - r * (j * k) /\ i * b - j * k \in Int
    OBVIOUS
  <2>2. a * b = (r * i) * b /\ m * k = (r * j) * k  BY <1>1
  <2>3. r * (i * b - j * k) = 1  BY <1>2, <2>1, <2>2
  <2>4. PICK z \in Int : z = i * b - j * k  BY <2>1
  <2>5. r * z = 1  BY <2>3, <2>4
  <2>6. r # 0  BY <2>5
  <2>7. r * z = z * r  OBVIOUS
  <2>8. z > 0 => r * z >= r  OBVIOUS
  <2>9. z <= 0 => r * z <= 0  OBVIOUS
  <2> QED  BY <2>5, <2>6, <2>8, <2>9
<1>4. Invert(a, m) = s % m  BY <1>1 DEF Invert
<1>5. s % m \in 0 .. m - 1 /\ Cong(m, s % m, s)  BY <1>0, CongMod
<1>6. Cong(m, a * s, 1)
  <2>1. s * a = a * s /\ t * m = m * t /\ a * s \in Int /\ m * t \in Int  OBVIOUS
  <2>2. 1 = a * s + m * t  BY <1>1, <1>3, <2>1
  <2>3. 1 \in Int /\ t \in Int  OBVIOUS
  <2> QED  BY <1>0, <2>1, <2>2, <2>3, CongMultiple
<1>7. Cong(m, a * (s % m), a * s)
  <2>1. a \in Int /\ s % m \in Int /\ Cong(m, a, a)  BY <1>5 DEF Cong
  <2> QED  BY <1>0, <1>5, <2>1, CongTimes
<1>8. Cong(m, a * (s % m), 1)  BY <1>6, <1>7 DEF Cong
<1>9. Cong(m, s % m, b)
  <2>1. a \in Int /\ s % m \in Int  BY <1>5
  <2> QED  BY <1>0, <1>8, <2>1, InverseUnique
<1> QED  BY <1>4, <1>5, <1>8, <1>9

(* The powers of 1 + s * z modulo the square of s: the other summands are    *)
(* multiples of it.                                                          *)
LEMMA BinomialMod ==
  ASSUME NEW s \in Nat \ {0}, NEW z \in Int, NEW e \in Nat
  PROVE  Cong(s * s, Pow(1 + s * z, e), 1 + s * (z * e))
<1> DEFINE m == s * s
           b == 1 + s * z
           S == {k \in Nat : Cong(m, Pow(b, k), 1 + s * (z * k))}
<1>0. m \in Nat \ {0} /\ b \in Int
  <2>1. s * s > 0 /\ s * s \in Int  OBVIOUS
  <2> QED  BY <2>1
<1>1. 0 \in S
  <2>1. Pow(b, 0) = 1  BY <1>0, PowSteps
  <2>2. 1 + s * (z * 0) = 1  OBVIOUS
  <2> QED  BY <2>1, <2>2 DEF Cong
<1>2. ASSUME NEW k \in Nat, k \in S PROVE k + 1 \in S
  <2>1. PICK c \in Int : c = Pow(b, k)  BY <1>0, PowSteps
  <2>2. Pow(b, k + 1) = b * c  BY <1>0, <2>1, PowSteps
  <2>3. PICK d \in Int : d = 1 + s * (z * k)  OBVIOUS
  <2>4. Cong(m, c, d)  BY <1>2, <2>1, <2>3
  <2>5. Cong(m, b * c, b * d)
    <3>1. Cong(m, b, b)  BY DEF Cong
    <3> HIDE DEF m, b
    <3> QED  BY <1>0, <2>4, <3>1, CongTimes
  <2>6. b * d = (1 + s * (z * (k + 1))) + m * (z * (z * k))
    <3>1. b * d = (1 + s * z) * (1 + s * (z * k))  BY <2>3
    <3>2. (1 + s * z) * (1 + s * (z * k)) = (1 + s * (z * (k + 1))) + (s * s) * (z * (z * k))
      OBVIOUS
    <3> QED  BY <3>1, <3>2
  <2>7. Cong(m, b * d, 1 + s * (z * (k + 1)))
    <3>1. 1 + s * (z * (k + 1)) \in Int /\ z * (z * k) \in Int  OBVIOUS
    <3>2. b * d \in Int  BY <1>0
    <3> HIDE DEF m, b
    <3> QED  BY <1>0, <2>6, <3>1, <3>2, CongMultiple
  <2>8. Cong(m, Pow(b, k + 1), 1 + s * (z * (k + 1)))  BY <2>2, <2>5, <2>7 DEF Cong
  <2>9. k + 1 \in Nat  OBVIOUS
  <2> QED  BY <2>8, <2>9
<1>3. Nat \subseteq S
  <2> HIDE DEF S
  <2> QED  BY <1>1, <1>2, Induction
<1> QED  BY <1>3

-----------------------------------------------------------------------------
\* A key as the constructor leaves it: two primes in ascending order.
IsKey(k) ==
  /\ k.p \in Nat /\ Prime(k.p) /\ k.q \in Nat /\ Prime(k.q) /\ k.p < k.q
  /\ k.n = k.p * k.q

\* Numbers neither prime divides: what raw_encrypt should draw.
Unit(k, u) == u \in Int /\ u % k.p # 0 /\ u % k.q # 0

\* (1 + n)^m * u^n modulo the square of n: the ciphertexts of m.
Sealed(k, m, u) == (1 + k.n * m) * Pow(u, k.n)
Holds(k, c, m)  == c \in Int /\ \E u : Unit(k, u) /\ Cong(Square(k), c, Sealed(k, m, u))

(* The size of a key.                                                        *)
LEMMA KeyFacts ==
  ASSUME NEW k, IsKey(k)
  PROVE  /\ k.n \in Nat /\ k.n > 3 /\ k.n \in Nat \ {0} /\ k.n \in Nat \ {0, 1}
         /\ Square(k) \in Nat \ {0} /\ Square(k) \in Nat \ {0, 1} /\ Square(k) = k.n * k.n
<1>1. PICK p \in Nat, q \in Nat : p = k.p /\ q = k.q /\ p > 1 /\ p < q /\ k.n = p * q
  BY DEF IsKey, Prime
<1>2. p * q >= 2 * q /\ p * q \in Nat  BY <1>1
<1>3. k.n \in Nat /\ k.n > 3  BY <1>1, <1>2
<1>4. PICK n \in Nat : n = k.n  BY <1>3
<1>5. n * n >= n /\ n * n \in Nat  BY <1>3, <1>4
<1> QED  BY <1>3, <1>4, <1>5 DEF Square

(* The product of two units is one.                                          *)
LEMMA UnitTimes ==
  ASSUME NEW k, IsKey(k), NEW u, Unit(k, u), NEW v, Unit(k, v)
  PROVE  Unit(k, u * v)
<1>1. k.p \in Nat /\ Prime(k.p) /\ k.q \in Nat /\ Prime(k.q)  BY DEF IsKey
<1>2. u \in Int /\ v \in Int /\ u * v \in Int  BY DEF Unit
<1>3. (u * v) % k.p # 0 /\ (u * v) % k.q # 0  BY <1>1, <1>2, PrimeDivides DEF Unit
<1> QED  BY <1>2, <1>3 DEF Unit

(* What is sealed is a number.                                               *)
LEMMA SealedIs ==
  ASSUME NEW k, IsKey(k), NEW m \in Int, NEW u, Unit(k, u)
  PROVE  Sealed(k, m, u) \in Int /\ 1 + k.n * m \in Int /\ Pow(u, k.n) \in Int /\ u \in Int
<1>1. PICK n \in Nat : n = k.n  BY KeyFacts
<1>0. u \in Int  BY DEF Unit
<1>2. Pow(u, n) \in Int /\ 1 + n * m \in Int  BY <1>0, PowSteps
<1>3. (1 + n * m) * Pow(u, n) \in Int  BY <1>2
<1> QED  BY <1>0, <1>1, <1>2, <1>3 DEF Sealed

(* The product of two sealed numbers is the sum, sealed.                     *)
LEMMA SealedTimes ==
  ASSUME NEW k, IsKey(k), NEW a \in Int, NEW b \in Int, NEW u, Unit(k, u), NEW v, Unit(k, v)
  PROVE  Cong(Square(k), Sealed(k, a, u) * Sealed(k, b, v), Sealed(k, a + b, u * v))
<1>1. Sealed(k, a, u) * Sealed(k, b, v)
        = Sealed(k, a + b, u * v) + Square(k) * ((a * b) * Pow(u * v, k.n))
  <2>1. PICK n \in Int : n = k.n /\ Square(k) = n * n  BY KeyFacts
  <2>2. PICK x \in Int, y \in Int : x = Pow(u, k.n) /\ y = Pow(v, k.n)
    BY SealedIs
  <2>3. Pow(u * v, k.n) = x * y
    <3>1. u \in Int /\ v \in Int /\ k.n \in Nat  BY SealedIs, KeyFacts
    <3> QED  BY <2>2, <3>1, PowTimes
  <2>4. ((1 + n * a) * x) * ((1 + n * b) * y)
          = (1 + n * (a + b)) * (x * y) + (n * n) * ((a * b) * (x * y))
    OBVIOUS
  <2> QED  BY <2>1, <2>2, <2>3, <2>4 DEF Sealed
<1>2. Unit(k, u * v) /\ a + b \in Int  BY UnitTimes
<1>3. Sealed(k, a + b, u * v) \in Int /\ Pow(u * v, k.n) \in Int  BY <1>2, SealedIs
<1>4. Sealed(k, a, u) \in Int /\ Sealed(k, b, v) \in Int /\ Square(k) \in Nat \ {0}
  BY SealedIs, KeyFacts
<1>5. Sealed(k, a, u) * Sealed(k, b, v) \in Int /\ (a * b) * Pow(u * v, k.n) \in Int
  BY <1>3, <1>4
<1> QED  BY <1>1, <1>3, <1>4, <1>5, CongMultiple

(* The product of two ciphertexts holds the sum.                             *)
LEMMA ProductHolds ==
  ASSUME NEW k, IsKey(k), NEW c, NEW d, NEW a \in Int, NEW b \in Int,
         Holds(k, c, a), Holds(k, d, b)
  PROVE  Holds(k, c * d, a + b)
<1>1. PICK u : Unit(k, u) /\ Cong(Square(k), c, Sealed(k, a, u))  BY DEF Holds
<1>2. PICK v : Unit(k, v) /\ Cong(Square(k), d, Sealed(k, b, v))  BY DEF Holds
<1>3. c \in Int /\ d \in Int /\ c * d \in Int  BY DEF Holds
<1>4. Sealed(k, a, u) \in Int /\ Sealed(k, b, v) \in Int /\ Square(k) \in Nat \ {0}
  BY <1>1, <1>2, SealedIs, KeyFacts
<1>5. Cong(Square(k), c * d, Sealed(k, a, u) * Sealed(k, b, v))
  BY <1>1, <1>2, <1>3, <1>4, CongTimes
<1>6. Cong(Square(k), Sealed(k, a, u) * Sealed(k, b, v), Sealed(k, a + b, u * v))
  BY <1>1, <1>2, SealedTimes
<1>7. Cong(Square(k), c * d, Sealed(k, a + b, u * v))  BY <1>5, <1>6 DEF Cong
<1>8. Unit(k, u * v)  BY <1>1, <1>2, UnitTimes
<1> QED  BY <1>3, <1>7, <1>8 DEF Holds

(* What a number holds, all hold that are congruent to it modulo the square  *)
(* of n; and what it holds, it holds modulo n.                               *)
LEMMA HoldsCong ==
  ASSUME NEW k, IsKey(k), NEW c, NEW d \in Int, NEW a \in Int, NEW b \in Int, NEW z \in Int,
         Holds(k, c, a), Cong(Square(k), d, c), b = a + k.n * z
  PROVE  Holds(k, d, b)
<1>1. PICK u : Unit(k, u) /\ Cong(Square(k), c, Sealed(k, a, u))  BY DEF Holds
<1>2. Sealed(k, b, u) = Sealed(k, a, u) + Square(k) * (z * Pow(u, k.n))
  <2>1. PICK n \in Int : n = k.n /\ Square(k) = n * n  BY KeyFacts
  <2>2. PICK x \in Int : x = Pow(u, k.n)  BY <1>1, SealedIs
  <2>3. (1 + n * (a + n * z)) * x = (1 + n * a) * x + (n * n) * (z * x)  OBVIOUS
  <2> QED  BY <2>1, <2>2, <2>3 DEF Sealed
<1>3. Cong(Square(k), Sealed(k, a, u), Sealed(k, b, u))
  <2>1. Sealed(k, a, u) \in Int /\ Sealed(k, b, u) \in Int /\ Pow(u, k.n) \in Int
    BY <1>1, SealedIs
  <2>2. z * Pow(u, k.n) \in Int /\ Square(k) \in Nat \ {0}  BY <2>1, KeyFacts
  <2> QED  BY <1>2, <2>1, <2>2, CongMultiple
<1>4. Cong(Square(k), d, Sealed(k, b, u))  BY <1>1, <1>3 DEF Cong
<1> QED  BY <1>1, <1>4 DEF Holds

(* So the remainder of a ciphertext holds what it holds.                     *)
LEMMA HoldsMod ==
  ASSUME NEW k, IsKey(k), NEW c, NEW a \in Int, Holds(k, c, a)
  PROVE  Holds(k, c % Square(k), a) /\ c % Square(k) \in 0 .. Square(k) - 1
<1>1. c \in Int /\ Square(k) \in Nat \ {0} /\ k.n \in Nat  BY KeyFacts DEF Holds
<1>2. c % Square(k) \in 0 .. Square(k) - 1 /\ Cong(Square(k), c % Square(k), c)
  BY <1>1, CongMod
<1>4. c % Square(k) \in Int  BY <1>2
<1>3. 0 \in Int /\ a = a + k.n * 0  BY <1>1
<1> QED  BY <1>2, <1>3, <1>4, HoldsCong

(* The addition of ciphertexts (_raw_add).                                   *)
LEMMA RawAddHolds ==
  ASSUME NEW k, IsKey(k), NEW c, NEW d, NEW a \in Int, NEW b \in Int,
         Holds(k, c, a), Holds(k, d, b)
  PROVE  Holds(k, RawAdd(k, c, d), a + b) /\ RawAdd(k, c, d) \in 0 .. Square(k) - 1
<1>1. Holds(k, c * d, a + b) /\ a + b \in Int  BY ProductHolds
<1>2. /\ Holds(k, (c * d) % Square(k), a + b)
      /\ (c * d) % Square(k) \in 0 .. Square(k) - 1
  BY <1>1, HoldsMod
<1> QED  BY <1>2 DEF RawAdd, MulMod

(* The powers of a ciphertext hold the multiples.                            *)
LEMMA PowerHolds ==
  ASSUME NEW k, IsKey(k), NEW c, NEW a \in Int, Holds(k, c, a), NEW e \in Nat
  PROVE  /\ Holds(k, PowMod(c, e, Square(k)), a * e)
         /\ PowMod(c, e, Square(k)) \in 0 .. Square(k) - 1
<1> DEFINE S == {j \in Nat : Holds(k, Pow(c, j), a * j)}
<1>1. c \in Int  BY DEF Holds
<1>2. 0 \in S
  <2>1. Pow(c, 0) = 1 /\ a * 0 = 0  BY <1>1, PowSteps
  <2>2. Unit(k, 1)
    <3>1. \A p \in Nat : Prime(p) => 1 % p # 0
      <4>1. \A p \in Nat : p > 1 => 1 % p = 1  BY SmallMod
      <4> QED  BY <4>1 DEF Prime
    <3> QED  BY <3>1 DEF Unit, IsKey
  <2>3. Sealed(k, 0, 1) = 1
    <3>1. k.n \in Nat /\ 1 \in Nat \ {0}  BY KeyFacts
    <3>2. Pow(1, k.n) = 1  BY <3>1, PowPositive
    <3> QED  BY <3>1, <3>2 DEF Sealed
  <2>4. Cong(Square(k), 1, Sealed(k, 0, 1)) /\ 1 \in Int  BY <2>3 DEF Cong
  <2>5. Holds(k, 1, 0)  BY <2>2, <2>4 DEF Holds
  <2> QED  BY <2>1, <2>5
<1>3. ASSUME NEW j \in Nat, j \in S PROVE j + 1 \in S
  <2>1. Pow(c, j + 1) = c * Pow(c, j)  BY <1>1, PowSteps
  <2>2. a * (j + 1) = a + a * j /\ a * j \in Int  OBVIOUS
  <2>3. Holds(k, c * Pow(c, j), a + a * j)  BY <1>3, <2>2, ProductHolds
  <2> QED  BY <2>1, <2>2, <2>3
<1>4. Nat \subseteq S
  <2> HIDE DEF S
  <2> QED  BY <1>2, <1>3, Induction
<1>5. Holds(k, Pow(c, e), a * e)  BY <1>4
<1>6. Pow(c, e) \in Int /\ Square(k) \in Nat \ {0} /\ Square(k) \in Nat \ {0, 1}
  BY <1>1, PowSteps, KeyFacts
<1>7. PowMod(c, e, Square(k)) = Pow(c, e) % Square(k)  BY <1>1, <1>6, PowModIs
<1>8. Holds(k, Pow(c, e) % Square(k), a * e) /\ Pow(c, e) % Square(k) \in 0 .. Square(k) - 1
  <2>1. a * e \in Int  OBVIOUS
  <2> QED  BY <1>5, <2>1, HoldsMod
<1> QED  BY <1>7, <1>8

-----------------------------------------------------------------------------
(* What is congruent modulo a product is modulo its factors.                 *)
LEMMA CongFactor ==
  ASSUME NEW m \in Nat \ {0}, NEW d \in Nat \ {0}, NEW e \in Int, m = d * e,
         NEW a \in Int, NEW b \in Int, Cong(m, a, b)
  PROVE  Cong(d, a, b)
<1>0. a - b \in Int  OBVIOUS
<1>1. (a - b) % m = 0  BY CongDifference
<1>2. PICK z \in Int : a - b = m * z  BY <1>0, <1>1, ModZero
<1>3. m * z = d * (e * z) /\ e * z \in Int  OBVIOUS
<1>4. (a - b) % d = 0  BY <1>0, <1>2, <1>3, ModZero
<1> QED  BY <1>4, CongDifference

(* A prime that divides a prime is that prime.                               *)
LEMMA PrimeOfPrime ==
  ASSUME NEW p \in Nat, Prime(p), NEW d \in Nat, Prime(d), p % d = 0
  PROVE  d = p
<1>1. p > 1 /\ d > 1 /\ d \in Nat \ {0} /\ p \in Nat \ {0}  BY DEF Prime
<1>2. ~(d < p)
  <2>1. d < p => d \in 2 .. p - 1  BY <1>1
  <2>2. d \notin 2 .. p - 1  BY DEF Prime
  <2> QED  BY <2>1, <2>2
<1>3. ~(p < d)
  <2>1. p < d => p \in 0 .. d - 1  OBVIOUS
  <2> QED  BY <1>1, <2>1, SmallMod
<1> QED  BY <1>2, <1>3

(* The primes of a key do not divide each other.                             *)
LEMMA KeyPrimes ==
  ASSUME NEW k, IsKey(k)
  PROVE  /\ k.p \in Nat \ {0} /\ k.p > 1 /\ k.q \in Nat \ {0} /\ k.q > 1 /\ k.p # k.q
         /\ k.p % k.q # 0 /\ k.q % k.p # 0
<1>1. k.p \in Nat /\ Prime(k.p) /\ k.q \in Nat /\ Prime(k.q) /\ k.p < k.q  BY DEF IsKey
<1>2. k.p > 1 /\ k.q > 1  BY <1>1 DEF Prime
<1>3. k.p # k.q  BY <1>1
<1>4. k.p % k.q # 0 /\ k.q % k.p # 0  BY <1>1, <1>3, PrimeOfPrime
<1> QED  BY <1>1, <1>2, <1>3, <1>4

(* A prime that does not divide a number does not divide its powers.         *)
LEMMA PrimePow ==
  ASSUME NEW p \in Nat, Prime(p), NEW u \in Int, u % p # 0, NEW e \in Nat
  PROVE  Pow(u, e) % p # 0
<1> DEFINE S == {j \in Nat : Pow(u, j) % p # 0}
<1>1. 0 \in S
  <2>1. p > 1 /\ p \in Nat \ {0} /\ 1 \in 0 .. p - 1  BY DEF Prime
  <2>2. 1 % p = 1  BY <2>1, SmallMod
  <2>3. Pow(u, 0) = 1  BY PowSteps
  <2> QED  BY <2>2, <2>3
<1>2. ASSUME NEW j \in Nat, j \in S PROVE j + 1 \in S
  <2>1. Pow(u, j) \in Int /\ Pow(u, j + 1) = u * Pow(u, j)  BY PowSteps
  <2>2. Pow(u, j) % p # 0  BY <1>2
  <2>3. (u * Pow(u, j)) % p # 0  BY <2>1, <2>2, PrimeDivides
  <2> QED  BY <2>1, <2>3
<1>3. Nat \subseteq S
  <2> HIDE DEF S
  <2> QED  BY <1>1, <1>2, Induction
<1> QED  BY <1>3

(* Modulo a prime d of the key a ciphertext is a power of u.                 *)
LEMMA SealedFactor ==
  ASSUME NEW k, IsKey(k), NEW m \in Int, NEW u, Unit(k, u), NEW d \in Nat, Prime(d),
         NEW e \in Int, k.n = d * e, u % d # 0, NEW c \in Int,
         Cong(Square(k), c, Sealed(k, m, u))
  PROVE  c % d # 0
<1>1. PICK n \in Nat : n = k.n /\ n = d * e /\ Square(k) = n * n  BY KeyFacts
<1>2. d \in Nat \ {0} /\ Square(k) \in Nat \ {0} /\ u \in Int  BY KeyFacts DEF Prime, Unit
<1>3. Square(k) = d * (e * n) /\ e * n \in Int
  <2>1. (d * e) * n = d * (e * n) /\ e * n \in Int  OBVIOUS
  <2>2. n * n = (d * e) * n  BY <1>1
  <2> QED  BY <1>1, <2>1, <2>2
<1>4. PICK x \in Int : x = Pow(u, k.n)  BY SealedIs
<1>5. Sealed(k, m, u) = x + d * ((e * m) * x)
  <2>1. (1 + (d * e) * m) * x = x + d * ((e * m) * x)  OBVIOUS
  <2>2. (1 + n * m) * x = (1 + (d * e) * m) * x  BY <1>1
  <2> QED  BY <1>1, <1>4, <2>1, <2>2 DEF Sealed
<1>6. Cong(d, c, Sealed(k, m, u))  BY <1>2, <1>3, SealedIs, CongFactor
<1>7. Cong(d, Sealed(k, m, u), x)
  <2>1. (e * m) * x \in Int /\ Sealed(k, m, u) \in Int  BY SealedIs
  <2> QED  BY <1>2, <1>5, <2>1, CongMultiple
<1>8. x % d # 0  BY <1>1, <1>2, <1>4, PrimePow
<1> QED  BY <1>6, <1>7, <1>8 DEF Cong

(* So a ciphertext is a unit.                                                *)
LEMMA HoldsUnit ==
  ASSUME NEW k, IsKey(k), NEW c, NEW m \in Int, Holds(k, c, m)
  PROVE  Unit(k, c)
<1>1. PICK u : Unit(k, u) /\ Cong(Square(k), c, Sealed(k, m, u))  BY DEF Holds
<1>2. c \in Int  BY DEF Holds
<1>3. PICK p \in Nat, q \in Nat : /\ p = k.p /\ q = k.q /\ Prime(p) /\ Prime(q)
                                  /\ k.n = p * q /\ k.n = q * p
  BY DEF IsKey
<1>4. u % p # 0 /\ u % q # 0  BY <1>1, <1>3 DEF Unit
<1>5. c % p # 0  BY <1>1, <1>2, <1>3, <1>4, SealedFactor
<1>6. c % q # 0  BY <1>1, <1>2, <1>3, <1>4, SealedFactor
<1> QED  BY <1>2, <1>3, <1>5, <1>6 DEF Unit

(* No number above 1 divides a unit and the square of n.                     *)
LEMMA UnitCoprime ==
  ASSUME NEW k, IsKey(k), NEW u, Unit(k, u), NEW r \in Nat, NEW i \in Int, NEW j \in Int,
         NEW e \in Nat, u = r * i, Pow(k.n, e) = r * j
  PROVE  r = 1
<1>1. PICK n \in Nat : n = k.n /\ n \in Nat \ {0}  BY KeyFacts
<1>2. r # 0
  <2>1. Pow(n, e) \in Nat \ {0}  BY <1>1, PowPositive
  <2>2. r = 0 => r * j = 0  OBVIOUS
  <2> QED  BY <1>1, <2>1, <2>2
<1>3. ASSUME r > 1 PROVE FALSE
  <2>1. PICK d \in Nat : Prime(d) /\ r % d = 0  BY <1>3, PrimeDivisor
  <2>2. d \in Nat \ {0}  BY <2>1 DEF Prime
  <2>0. r \in Int  OBVIOUS
  <2>3. (r * i) % d = 0 /\ (r * j) % d = 0  BY <2>0, <2>1, <2>2, ModMultiple
  <2>4. k.n % d = 0
    <3>1. n % d # 0 => Pow(n, e) % d # 0  BY <2>1, PrimePow
    <3> QED  BY <1>1, <2>3, <3>1
  <2>5. PICK p \in Nat, q \in Nat : p = k.p /\ q = k.q /\ Prime(p) /\ Prime(q) /\ k.n = p * q
    BY DEF IsKey
  <2>6. p % d = 0 \/ q % d = 0
    <3>1. (p * q) % d = 0 /\ p \in Int /\ q \in Int  BY <2>4, <2>5
    <3> QED  BY <2>1, <3>1, PrimeDivides
  <2>7. d = p \/ d = q  BY <2>1, <2>5, <2>6, PrimeOfPrime
  <2> QED  BY <2>3, <2>5, <2>7 DEF Unit
<1> QED  BY <1>2, <1>3

(* Every unit has an inverse modulo the square of n.                         *)
LEMMA UnitInverse ==
  ASSUME NEW k, IsKey(k), NEW u, Unit(k, u)
  PROVE  \E v : Unit(k, v) /\ Cong(Square(k), u * v, 1)
<1>1. PICK s \in Nat : s = Square(k) /\ s \in Nat \ {0} /\ s = k.n * k.n  BY KeyFacts
<1>2. u \in Int  BY DEF Unit
<1>3. PICK w \in Nat : w = u % s /\ Cong(s, u, w)
  <2>1. u % s \in 0 .. s - 1 /\ Cong(s, u, u % s)  BY <1>1, <1>2, CongMod
  <2> QED  BY <2>1
<1>4. PICK r \in Nat, x \in Int, t \in Int, i \in Int, j \in Int :
        r = x * w + t * s /\ w = r * i /\ s = r * j
  <2>1. IsCombination(w, s, ExtendedEuclid(w, s))  BY ExtendedEuclidIs
  <2> QED  BY <2>1 DEF IsCombination
<1>5. r = 1
  <2>1. Pow(k.n, 2) = s
    <3>1. PICK n \in Int : n = k.n  BY KeyFacts
    <3>2. Pow(n, 0) = 1 /\ Pow(n, 0 + 1) = n * Pow(n, 0) /\ Pow(n, 1 + 1) = n * Pow(n, 1)
      BY PowSteps
    <3> QED  BY <1>1, <3>1, <3>2
  <2>2. PICK z \in Int : u = w + s * z
    <3>1. u - w \in Int /\ w \in Int  BY <1>2
    <3>2. (u - w) % s = 0  BY <1>1, <1>2, <1>3, <3>1, CongDifference
    <3>3. PICK z \in Int : u - w = s * z  BY <1>1, <3>1, <3>2, ModZero
    <3>4. s * z \in Int  OBVIOUS
    <3> QED  BY <1>2, <3>3, <3>4
  <2>3. u = r * (i + j * z) /\ i + j * z \in Int
    <3>1. r * (i + j * z) = r * i + (r * j) * z /\ i + j * z \in Int  OBVIOUS
    <3>2. s * z = (r * j) * z  BY <1>4
    <3> QED  BY <1>4, <2>2, <3>1, <3>2
  <2>4. 2 \in Nat  OBVIOUS
  <2>5. PICK y \in Int : u = r * y  BY <2>3
  <2>6. Pow(k.n, 2) = r * j  BY <1>4, <2>1
  <2> QED  BY <2>4, <2>5, <2>6, UnitCoprime
<1>6. Cong(s, w * x, 1)
  <2>1. x * w = w * x /\ t * s = s * t /\ w * x \in Int /\ s * t \in Int  OBVIOUS
  <2>2. 1 = w * x + s * t  BY <1>4, <1>5, <2>1
  <2>3. 1 \in Int  OBVIOUS
  <2> QED  BY <1>1, <2>1, <2>2, <2>3, CongMultiple
<1>7. Cong(s, u * x, 1)
  <2>1. w \in Int /\ Cong(s, x, x)  BY DEF Cong
  <2>2. Cong(s, u * x, w * x)  BY <1>1, <1>2, <1>3, <2>1, CongTimes
  <2> QED  BY <1>6, <2>2 DEF Cong
<1>8. ASSUME NEW d \in Nat, Prime(d), NEW e \in Int, s = d * e PROVE x % d # 0
  <2>1. d \in Nat \ {0} /\ d > 1 /\ 1 \in 0 .. d - 1  BY <1>8 DEF Prime
  <2>2. u * x \in Int /\ 1 \in Int  BY <1>2
  <2>3. Cong(d, u * x, 1)  BY <1>1, <1>7, <1>8, <2>1, <2>2, CongFactor
  <2>4. 1 % d = 1  BY <2>1, SmallMod
  <2>5. x % d = 0 => (u * x) % d = 0  BY <1>2, <2>1, ModMultiple
  <2> QED  BY <2>3, <2>4, <2>5 DEF Cong
<1>9. Unit(k, x)
  <2>1. PICK p \in Nat, q \in Nat : p = k.p /\ q = k.q /\ Prime(p) /\ Prime(q) /\ k.n = p * q
    BY DEF IsKey
  <2>2. (p * q) * (p * q) = p * (q * (p * q)) /\ (p * q) * (p * q) = q * (p * (p * q))
        /\ q * (p * q) \in Int /\ p * (p * q) \in Int
    OBVIOUS
  <2>3. s = p * (q * (p * q)) /\ s = q * (p * (p * q))  BY <1>1, <2>1, <2>2
  <2>4. x % p # 0  BY <1>8, <2>1, <2>2, <2>3
  <2>5. x % q # 0  BY <1>8, <2>1, <2>2, <2>3
  <2> QED  BY <2>1, <2>4, <2>5 DEF Unit
<1> QED  BY <1>1, <1>7, <1>9

-----------------------------------------------------------------------------
(* The inverse of a ciphertext holds the negative.                           *)
LEMMA InverseHolds ==
  ASSUME NEW k, IsKey(k), NEW c \in Nat, NEW m \in Int, Holds(k, c, m)
  PROVE  Holds(k, Invert(c, Square(k)), -m) /\ Invert(c, Square(k)) \in 0 .. Square(k) - 1
<1>1. PICK s \in Nat \ {0, 1} : s = Square(k) /\ s \in Nat \ {0}  BY KeyFacts
<1>2. PICK u : Unit(k, u) /\ Cong(s, c, Sealed(k, m, u))  BY <1>1 DEF Holds
<1>3. PICK v : Unit(k, v) /\ Cong(s, u * v, 1)  BY <1>1, <1>2, UnitInverse
<1>4. PICK b \in Int : b = Sealed(k, -m, v)
  <2>1. -m \in Int  OBVIOUS
  <2> QED  BY <1>3, <2>1, SealedIs
<1>5. PICK x \in Int : x = Sealed(k, m, u)  BY <1>2, SealedIs
<1>6. Cong(s, x * b, Sealed(k, 0, u * v))
  <2>1. -m \in Int /\ m + (-m) = 0  OBVIOUS
  <2> QED  BY <1>1, <1>2, <1>3, <1>4, <1>5, <2>1, SealedTimes
<1>7. Cong(s, Sealed(k, 0, u * v), 1)
  <2>0. u \in Int /\ v \in Int /\ k.n \in Nat  BY <1>2, <1>3, KeyFacts DEF Unit
  <2>1. u * v \in Int /\ k.n \in Nat /\ 1 \in Int /\ 1 \in Nat \ {0}  BY <2>0
  <2>2. Cong(s, Pow(u * v, k.n), Pow(1, k.n))  BY <1>1, <1>3, <2>1, CongPow
  <2>3. Pow(1, k.n) = 1  BY <2>1, PowPositive
  <2>4. Pow(u * v, k.n) \in Int  BY <2>1, PowSteps
  <2>5. Sealed(k, 0, u * v) = Pow(u * v, k.n)  BY <2>1, <2>4 DEF Sealed
  <2> QED  BY <2>2, <2>3, <2>5
<1>8. Cong(s, c * b, x * b)
  <2>1. Cong(s, b, b) /\ c \in Int  BY DEF Cong
  <2> QED  BY <1>1, <1>2, <1>5, <2>1, CongTimes
<1>9. Cong(s, c * b, 1)  BY <1>6, <1>7, <1>8 DEF Cong
<1>10. Invert(c, s) \in 0 .. s - 1 /\ Cong(s, Invert(c, s), b)  BY <1>9, InvertIs
<1>11. Invert(c, s) \in Int  BY <1>10
<1> QED  BY <1>1, <1>3, <1>4, <1>10, <1>11 DEF Holds

(* Multiplication by the residue e, small or large (_raw_mul).               *)
LEMMA RawMulHolds ==
  ASSUME NEW k, IsKey(k), NEW c \in Nat, NEW m \in Int, Holds(k, c, m), NEW e \in 0 .. k.n - 1
  PROVE  Holds(k, RawMul(k, c, e), m * e) /\ RawMul(k, c, e) \in 0 .. Square(k) - 1
<1>1. PICK n \in Nat : n = k.n  BY KeyFacts
<1>2. e \in Nat /\ n - e \in Nat  BY <1>1
<1>3. CASE k.n - MaxInt(k.n) <= e
  <2>1. Holds(k, Invert(c, Square(k)), -m) /\ -m \in Int  BY InverseHolds
  <2>2. /\ Holds(k, PowMod(Invert(c, Square(k)), n - e, Square(k)), (-m) * (n - e))
        /\ PowMod(Invert(c, Square(k)), n - e, Square(k)) \in 0 .. Square(k) - 1
    BY <1>2, <2>1, PowerHolds
  <2>3. RawMul(k, c, e) = PowMod(Invert(c, Square(k)), n - e, Square(k))
    BY <1>1, <1>3 DEF RawMul
  <2>4. (-m) * (n - e) \in Int /\ m * e \in Int /\ m * e = (-m) * (n - e) + n * m  OBVIOUS
  <2>5. PICK x \in Int, y \in Int : x = (-m) * (n - e) /\ y = m * e /\ y = x + k.n * m
    BY <1>1, <2>4
  <2>6. PICK d \in Int : d = RawMul(k, c, e) /\ Holds(k, d, x)
    BY <2>2, <2>3, <2>5 DEF Holds
  <2>7. Cong(Square(k), d, d)  BY DEF Cong
  <2>8. Holds(k, d, y)  BY <2>5, <2>6, <2>7, HoldsCong
  <2> QED  BY <2>2, <2>3, <2>5, <2>6, <2>8
<1>4. CASE ~(k.n - MaxInt(k.n) <= e)
  <2>1. RawMul(k, c, e) = PowMod(c, e, Square(k))  BY <1>4 DEF RawMul
  <2> QED  BY <1>2, <2>1, PowerHolds
<1> QED  BY <1>3, <1>4

(* The encryption of m, small or large, with a unit holds m (raw_encrypt).   *)
LEMMA RawEncryptHolds ==
  ASSUME NEW k, IsKey(k), NEW m \in 0 .. k.n - 1, NEW r, Unit(k, r)
  PROVE  Holds(k, RawEncrypt(k, m, r), m) /\ RawEncrypt(k, m, r) \in 0 .. Square(k) - 1
<1> DEFINE large == Invert((k.n * (k.n - m) + 1) % Square(k), Square(k))
           nude  == IF k.n - MaxInt(k.n) <= m THEN large ELSE (k.n * m + 1) % Square(k)
<1>1. PICK s \in Nat \ {0, 1} : s = Square(k) /\ s \in Nat \ {0} /\ s = k.n * k.n  BY KeyFacts
<1>2. PICK n \in Nat : n = k.n  BY KeyFacts
<1>3. n * m + 1 \in Int /\ 1 + n * m \in Int /\ n * m + 1 = 1 + n * m /\ m \in Int  BY <1>2
<1>4. large \in Int /\ Cong(s, large, 1 + n * m)
  <2>1. PICK x \in Int : x = n * (n - m) + 1  OBVIOUS
  <2>2. x % s \in 0 .. s - 1 /\ Cong(s, x % s, x)  BY <1>1, <2>1, CongMod
  <2>3. x % s \in Nat /\ x % s \in Int  BY <2>2
  <2>4. Cong(s, x * (1 + n * m), 1)
    <3>1. x * (1 + n * m) = (n * (n - m) + 1) * (1 + n * m)  BY <2>1
    <3>2. (n * (n - m) + 1) * (1 + n * m) = 1 + (n * n) * (1 + (n - m) * m)  OBVIOUS
    <3>3. x * (1 + n * m) = 1 + s * (1 + (n - m) * m)  BY <1>1, <1>2, <3>1, <3>2
    <3>4. x * (1 + n * m) \in Int /\ 1 + (n - m) * m \in Int /\ 1 \in Int  BY <1>3
    <3> QED  BY <1>1, <3>3, <3>4, CongMultiple
  <2>5. Cong(s, (x % s) * (1 + n * m), x * (1 + n * m))
    <3>1. Cong(s, 1 + n * m, 1 + n * m)  BY DEF Cong
    <3> QED  BY <1>1, <1>3, <2>2, <2>3, <3>1, CongTimes
  <2>6. Cong(s, (x % s) * (1 + n * m), 1)  BY <2>4, <2>5 DEF Cong
  <2>7. Invert(x % s, s) \in 0 .. s - 1 /\ Cong(s, Invert(x % s, s), 1 + n * m)
    BY <1>3, <2>3, <2>6, InvertIs
  <2>8. large = Invert(x % s, s)  BY <1>1, <1>2, <2>1
  <2> QED  BY <2>7, <2>8
<1>5. nude \in Int /\ Cong(s, nude, 1 + n * m)
  <2>1. (n * m + 1) % s \in Int /\ Cong(s, (n * m + 1) % s, 1 + n * m)
    BY <1>1, <1>3, CongMod
  <2> HIDE DEF large
  <2> QED  BY <1>1, <1>2, <1>4, <2>1
<1> HIDE DEF large
<1>6. PICK x \in Int : x = Pow(r, k.n) /\ r \in Int  BY <1>3, SealedIs
<1>7. PICK y \in Int : y = PowMod(r, k.n, Square(k)) /\ Cong(s, y, x)
  <2>1. PowMod(r, n, s) = Pow(r, n) % s  BY <1>6, PowModIs
  <2>2. x % s \in Int /\ Cong(s, x % s, x)  BY <1>1, CongMod
  <2> QED  BY <1>1, <1>2, <1>6, <2>1, <2>2
<1>8. RawEncrypt(k, m, r) = (nude * y) % s  BY <1>1, <1>7 DEF RawEncrypt, MulMod, large
<1> HIDE DEF nude
<1>9. Cong(s, nude * y, (1 + n * m) * x)  BY <1>1, <1>3, <1>5, <1>6, <1>7, CongTimes
<1>10. nude * y \in Int  BY <1>5
<1>11. /\ (nude * y) % s \in 0 .. s - 1 /\ (nude * y) % s \in Int
       /\ Cong(s, (nude * y) % s, nude * y)
  <2>1. PICK z \in Int : z = nude * y  BY <1>10
  <2>2. z % s \in 0 .. s - 1 /\ Cong(s, z % s, z)  BY <1>1, CongMod
  <2> QED  BY <2>1, <2>2
<1>12. Cong(s, RawEncrypt(k, m, r), Sealed(k, m, r))
  <2>1. Sealed(k, m, r) = (1 + n * m) * x  BY <1>2, <1>6 DEF Sealed
  <2> QED  BY <1>8, <1>9, <1>11, <2>1 DEF Cong
<1> QED  BY <1>1, <1>8, <1>11, <1>12 DEF Holds

-----------------------------------------------------------------------------
(* Modulo a prime every number it does not divide has an inverse.            *)
LEMMA PrimeInverse ==
  ASSUME NEW d \in Nat, Prime(d), NEW w \in Int, w % d # 0
  PROVE  \E b \in Int : Cong(d, w * b, 1)
<1>1. d \in Nat \ {0} /\ d > 1 /\ d - 2 \in Nat /\ (d - 2) + 1 = d - 1 /\ 1 \in 0 .. d - 1
  BY DEF Prime
<1>2. Pow(w, d - 1) % d = 1  BY Fermat
<1>3. Pow(w, (d - 2) + 1) = w * Pow(w, d - 2) /\ Pow(w, d - 2) \in Int  BY <1>1, PowSteps
<1>4. 1 % d = 1  BY <1>1, SmallMod
<1>5. Cong(d, w * Pow(w, d - 2), 1)  BY <1>1, <1>2, <1>3, <1>4 DEF Cong
<1> QED  BY <1>3, <1>5

(* The L function reads the second digit of a number whose first is 1.       *)
LEMMA LFunctionIs ==
  ASSUME NEW d \in Nat, d > 1, NEW y \in Int, NEW z \in Int, Cong(d * d, y, 1 + d * z)
  PROVE  LFunction(y % (d * d), d) = z % d
<1>1. PICK s \in Nat \ {0} : s = d * d
  <2>1. d * d > 0 /\ d * d \in Int  OBVIOUS
  <2> QED  BY <2>1
<1>2. PICK i \in Int, r \in 0 .. d - 1 : z = d * i + r /\ r = z % d
  <2>1. d \in Nat \ {0}  OBVIOUS
  <2>2. z \div d \in Int /\ z % d \in 0 .. d - 1 /\ z = d * (z \div d) + (z % d)
    BY <2>1, DivMod
  <2> QED  BY <2>2
<1>3. 1 + d * r \in 0 .. s - 1
  <2>1. r <= d - 1 /\ r >= 0  OBVIOUS
  <2>2. d * r <= d * (d - 1) /\ d * r >= 0  BY <2>1
  <2>3. d * (d - 1) = d * d - d  OBVIOUS
  <2> QED  BY <1>1, <2>2, <2>3
<1>4. Cong(s, 1 + d * z, 1 + d * r)
  <2>1. 1 + d * (d * i + r) = (1 + d * r) + (d * d) * i  OBVIOUS
  <2>2. 1 + d * z = 1 + d * (d * i + r)  BY <1>2
  <2>3. 1 + d * z \in Int /\ 1 + d * r \in Int  OBVIOUS
  <2> QED  BY <1>1, <2>1, <2>2, <2>3, CongMultiple
<1>5. Cong(s, y, 1 + d * r)  BY <1>1, <1>4 DEF Cong
<1>6. y % s = 1 + d * r  BY <1>3, <1>5, CongMod
<1>7. (y % s) - 1 = d * r + 0 /\ d * r \in Int /\ 0 \in 0 .. d - 1  BY <1>6
<1>8. ((y % s) - 1) \div d = r
  <2>1. (y % s) - 1 \in Int /\ r \in Int /\ d \in Nat \ {0}  BY <1>7
  <2> QED  BY <1>7, <2>1, DivUnique
<1> QED  BY <1>1, <1>2, <1>8 DEF LFunction

(* Modulo the square of a prime that divides n, the n-th powers to the power *)
(* of d - 1 are 1: the random number drops out of a ciphertext.              *)
LEMMA RandomDropsOut ==
  ASSUME NEW d \in Nat, Prime(d), NEW e \in Nat, NEW u \in Int, u % d # 0
  PROVE  Cong(d * d, Pow(Pow(u, d * e), d - 1), 1)
<1>1. d \in Nat \ {0} /\ d > 1 /\ d - 1 \in Nat /\ d * e \in Nat /\ 1 \in 0 .. d - 1
  BY DEF Prime
<1>2. PICK s \in Nat \ {0} : s = d * d
  <2>1. d * d > 0 /\ d * d \in Int  BY <1>1
  <2> QED  BY <2>1
<1>3. PICK x \in Int : x = Pow(u, d - 1)  BY <1>1, PowSteps
<1>4. Pow(Pow(u, d * e), d - 1) = Pow(x, d * e)
  <2>1. Pow(Pow(u, d * e), d - 1) = Pow(u, (d * e) * (d - 1))  BY <1>1, PowPow
  <2>2. Pow(Pow(u, d - 1), d * e) = Pow(u, (d - 1) * (d * e))  BY <1>1, PowPow
  <2>3. (d * e) * (d - 1) = (d - 1) * (d * e)  OBVIOUS
  <2> QED  BY <1>3, <2>1, <2>2, <2>3
<1>5. PICK t \in Int : x = 1 + d * t
  <2>1. x % d = 1 /\ 1 % d = 1  BY <1>1, <1>3, Fermat, SmallMod
  <2>2. Cong(d, x, 1) /\ x - 1 \in Int /\ 1 \in Int  BY <2>1 DEF Cong
  <2>3. (x - 1) % d = 0  BY <1>1, <2>2, CongDifference
  <2>4. PICK t \in Int : x - 1 = d * t  BY <1>1, <2>2, <2>3, ModZero
  <2>5. d * t \in Int  OBVIOUS
  <2> QED  BY <2>4, <2>5
<1>6. Cong(s, Pow(x, d * e), 1 + d * (t * (d * e)))  BY <1>1, <1>2, <1>5, BinomialMod
<1>7. Cong(s, 1 + d * (t * (d * e)), 1)
  <2>1. 1 + d * (t * (d * e)) = 1 + (d * d) * (t * e)  OBVIOUS
  <2>2. 1 + d * (t * (d * e)) \in Int /\ t * e \in Int /\ 1 \in Int  OBVIOUS
  <2> QED  BY <1>2, <2>1, <2>2, CongMultiple
<1> QED  BY <1>2, <1>4, <1>6, <1>7 DEF Cong

(* What decryption modulo a prime d of the key gives before the factor h.    *)
LEMMA DecryptPower ==
  ASSUME NEW k, IsKey(k), NEW m \in Int, NEW u, Unit(k, u), NEW d \in Nat, Prime(d),
         NEW e \in Nat, k.n = d * e, u % d # 0, NEW c \in Int,
         Cong(Square(k), c, Sealed(k, m, u))
  PROVE  LFunction(PowMod(c, d - 1, d * d), d) = ((e * (d - 1)) * m) % d
<1>1. d \in Nat \ {0} /\ d > 1 /\ d - 1 \in Nat  BY DEF Prime
<1>2. PICK s \in Nat \ {0, 1} : s = d * d /\ s \in Nat \ {0}
  <2>1. d * d > 1 /\ d * d \in Int  BY <1>1
  <2> QED  BY <2>1
<1>3. u \in Int /\ d * e \in Nat  BY DEF Unit
<1>4. PICK x \in Int : x = Pow(u, d * e)  BY <1>3, PowSteps
<1>5. PICK b \in Int : b = 1 + d * (e * m)  OBVIOUS
<1>6. Sealed(k, m, u) = b * x
  <2>1. (d * e) * m = d * (e * m)  OBVIOUS
  <2> QED  BY <1>4, <1>5, <2>1 DEF Sealed
<1>7. Cong(s, c, b * x)
  <2>1. Square(k) = s * (e * e) /\ e * e \in Int
    <3>1. (d * e) * (d * e) = (d * d) * (e * e) /\ e * e \in Int  OBVIOUS
    <3> QED  BY <1>2, <3>1 DEF Square
  <2>2. Square(k) \in Nat \ {0} /\ b * x \in Int  BY KeyFacts
  <2>3. Cong(Square(k), c, b * x)  BY <1>6
  <2> QED  BY <1>2, <2>1, <2>2, <2>3, CongFactor
<1>8. Cong(s, Pow(c, d - 1), Pow(b, d - 1) * Pow(x, d - 1))
  <2>1. b * x \in Int  OBVIOUS
  <2>2. Cong(s, Pow(c, d - 1), Pow(b * x, d - 1))  BY <1>1, <1>2, <1>7, <2>1, CongPow
  <2>3. Pow(b * x, d - 1) = Pow(b, d - 1) * Pow(x, d - 1)  BY <1>1, PowTimes
  <2> QED  BY <2>2, <2>3
<1>9. PICK z \in Int : z = (e * (d - 1)) * m /\ Cong(s, Pow(b, d - 1), 1 + d * z)
  <2>1. e * m \in Int  OBVIOUS
  <2>2. Cong(s, Pow(b, d - 1), 1 + d * ((e * m) * (d - 1)))
    BY <1>1, <1>2, <1>5, <2>1, BinomialMod
  <2>3. (e * m) * (d - 1) = (e * (d - 1)) * m /\ (e * (d - 1)) * m \in Int  OBVIOUS
  <2> QED  BY <2>2, <2>3
<1>10. Cong(s, Pow(x, d - 1), 1)  BY <1>2, <1>3, <1>4, RandomDropsOut
<1>11. Pow(b, d - 1) \in Int /\ Pow(x, d - 1) \in Int /\ Pow(c, d - 1) \in Int
       /\ 1 + d * z \in Int /\ 1 \in Int
  <2>1. PICK j \in Nat : j = d - 1  BY <1>1
  <2>2. Pow(b, j) \in Int /\ Pow(x, j) \in Int /\ Pow(c, j) \in Int  BY PowSteps
  <2> QED  BY <2>1, <2>2
<1>12. Cong(s, Pow(b, d - 1) * Pow(x, d - 1), (1 + d * z) * 1)
  BY <1>2, <1>9, <1>10, <1>11, CongTimes
<1>13. (1 + d * z) * 1 = 1 + d * z  BY <1>11
<1>14. Cong(s, Pow(c, d - 1), 1 + d * z)  BY <1>8, <1>12, <1>13 DEF Cong
<1>15. LFunction(Pow(c, d - 1) % s, d) = z % d  BY <1>1, <1>2, <1>11, <1>14, LFunctionIs
<1>16. PowMod(c, d - 1, s) = Pow(c, d - 1) % s  BY <1>1, <1>2, PowModIs
<1> QED  BY <1>2, <1>9, <1>15, <1>16

(* And what the factor h is made of: n + 1 holds 1.                          *)
LEMMA GeneratorPower ==
  ASSUME NEW k, IsKey(k), NEW d \in Nat, Prime(d), NEW e \in Nat, k.n = d * e
  PROVE  LFunction(PowMod(k.n + 1, d - 1, d * d), d) = (e * (d - 1)) % d
<1>1. PICK g \in Int, one \in Nat \ {0} : one = 1 /\ one \in Int /\ g = k.n + 1 /\ k.n \in Nat
  BY KeyFacts
<1>2. Sealed(k, one, one) = g
  <2>1. Pow(one, k.n) = 1  BY <1>1, PowPositive
  <2> QED  BY <1>1, <2>1 DEF Sealed
<1>3. Unit(k, one) /\ one % d # 0
  <2>1. \A p \in Nat : Prime(p) => 1 % p # 0
    <3>1. \A p \in Nat : p > 1 => 1 % p = 1  BY SmallMod
    <3> QED  BY <3>1 DEF Prime
  <2> QED  BY <1>1, <2>1 DEF Unit, IsKey
<1>4. Cong(Square(k), g, Sealed(k, one, one))  BY <1>2 DEF Cong
<1>5. LFunction(PowMod(g, d - 1, d * d), d) = ((e * (d - 1)) * one) % d
  BY <1>1, <1>3, <1>4, DecryptPower
<1>6. (e * (d - 1)) * one = e * (d - 1)
  <2>1. PICK j \in Int : j = e * (d - 1)  OBVIOUS
  <2>2. j * one = j  BY <1>1
  <2> QED  BY <2>1, <2>2
<1> QED  BY <1>1, <1>5, <1>6

(* decrypt to a prime of the key gives what is held modulo the prime.        *)
LEMMA DecryptToIs ==
  ASSUME NEW k, IsKey(k), NEW m \in Int, NEW u, Unit(k, u), NEW d \in Nat, Prime(d),
         NEW e \in Nat, k.n = d * e, u % d # 0, e % d # 0, NEW c \in Int,
         Cong(Square(k), c, Sealed(k, m, u))
  PROVE  DecryptTo(k, c, d) = m % d
<1>1. d \in Nat \ {0, 1} /\ d \in Nat \ {0} /\ d > 1 /\ d - 1 \in Nat /\ d - 1 \in 0 .. d - 1
  BY DEF Prime
<1>2. PICK f \in Int : f = e * (d - 1)  OBVIOUS
<1>3. f % d # 0
  <2>1. (d - 1) % d # 0  BY <1>1, SmallMod
  <2>2. e \in Int /\ d - 1 \in Int  OBVIOUS
  <2> QED  BY <1>2, <2>1, <2>2, PrimeDivides
<1>4. LFunction(PowMod(c, d - 1, d * d), d) = (f * m) % d  BY <1>2, DecryptPower
<1>5. LFunction(PowMod(k.n + 1, d - 1, d * d), d) = f % d  BY <1>2, GeneratorPower
<1>6. f % d \in 0 .. d - 1 /\ Cong(d, f % d, f)  BY <1>1, CongMod
<1>7. f % d \in Nat /\ f % d \in Int  BY <1>6
<1>8. PICK h \in Int : h = HFunction(k, d) /\ Cong(d, (f % d) * h, 1)
  <2>1. (f % d) % d # 0  BY <1>3, <1>6 DEF Cong
  <2>2. PICK b \in Int : Cong(d, (f % d) * b, 1)  BY <1>7, <2>1, PrimeInverse
  <2>3. Invert(f % d, d) \in 0 .. d - 1 /\ Cong(d, (f % d) * Invert(f % d, d), 1)
    BY <1>1, <1>7, <2>2, InvertIs
  <2>4. Invert(f % d, d) \in Int  BY <2>3
  <2> QED  BY <1>5, <2>3, <2>4 DEF HFunction
<1>9. Cong(d, f * h, 1)
  <2>1. Cong(d, h, h)  BY DEF Cong
  <2>2. Cong(d, (f % d) * h, f * h)  BY <1>1, <1>6, <1>7, <2>1, CongTimes
  <2> QED  BY <1>8, <2>2 DEF Cong
<1>10. (((f * m) % d) * h) % d = m % d
  <2>1. f * m \in Int /\ f * h \in Int /\ 1 \in Int  OBVIOUS
  <2>2. (((f * m) % d) * h) % d = ((f * m) * h) % d  BY <1>1, <2>1, ModTimes
  <2>3. Cong(d, (f * h) * m, 1 * m)
    <3>1. Cong(d, m, m)  BY DEF Cong
    <3> QED  BY <1>1, <1>9, <2>1, <3>1, CongTimes
  <2>4. (f * m) * h = (f * h) * m /\ 1 * m = m  OBVIOUS
  <2> QED  BY <2>2, <2>3, <2>4 DEF Cong
<1> QED  BY <1>4, <1>8, <1>10 DEF DecryptTo, MulMod

(* The Chinese remainder: the one residue modulo n with both remainders.     *)
LEMMA CrtIs ==
  ASSUME NEW k, IsKey(k), NEW m \in Int
  PROVE  Crt(k, m % k.p, m % k.q) = m % k.n
<1>1. PICK p \in Nat \ {0}, q \in Nat \ {0, 1} :
        /\ p = k.p /\ q = k.q /\ Prime(p) /\ Prime(q) /\ k.n = p * q /\ p % q # 0 /\ q % p # 0
        /\ q \in Nat \ {0} /\ p \in Nat /\ q \in Nat
  BY KeyPrimes DEF IsKey
<1>2. PICK a \in 0 .. p - 1, b \in 0 .. q - 1 : a = m % p /\ b = m % q  BY <1>1, DivMod
<1>3. PICK i \in Int : i = Invert(p, q) /\ Cong(q, p * i, 1)
  <2>1. p \in Int  OBVIOUS
  <2>2. PICK j \in Int : Cong(q, p * j, 1)  BY <1>1, <2>1, PrimeInverse
  <2>3. Invert(p, q) \in 0 .. q - 1 /\ Cong(q, p * Invert(p, q), 1)  BY <1>1, <2>2, InvertIs
  <2>4. Invert(p, q) \in Int  BY <2>3
  <2> QED  BY <2>3, <2>4
<1>4. PICK v \in Int : v = (b - a) * i  OBVIOUS
<1>5. PICK w \in 0 .. q - 1 : w = v % q /\ Cong(q, w, v)  BY <1>1, CongMod
<1>6. PICK x \in Int : x = a + w * p  OBVIOUS
<1>7. Crt(k, m % k.p, m % k.q) = x  BY <1>1, <1>2, <1>3, <1>4, <1>5, <1>6 DEF Crt, MulMod
<1>8. x \in 0 .. p * q - 1
  <2>1. w <= q - 1 /\ w >= 0 /\ a <= p - 1 /\ a >= 0  OBVIOUS
  <2>2. w * p <= (q - 1) * p /\ w * p >= 0  BY <2>1
  <2>3. (q - 1) * p = p * q - p  OBVIOUS
  <2> QED  BY <1>6, <2>1, <2>2, <2>3
<1>9. (x - m) % p = 0
  <2>1. x = a + p * w /\ a \in Int /\ w \in Int  BY <1>6
  <2>2. Cong(p, x, a)  BY <2>1, CongMultiple
  <2>3. Cong(p, a, m)  BY <1>1, <1>2, CongMod
  <2>4. Cong(p, x, m)  BY <2>2, <2>3 DEF Cong
  <2> QED  BY <2>4, CongDifference
<1>10. (x - m) % q = 0
  <2>1. Cong(q, w * p, b - a)
    <3>1. Cong(q, p, p) /\ w \in Int /\ p \in Int /\ b - a \in Int /\ p * i \in Int /\ 1 \in Int
      BY DEF Cong
    <3>2. Cong(q, w * p, v * p)  BY <1>1, <1>5, <3>1, CongTimes
    <3>3. Cong(q, b - a, b - a)  BY DEF Cong
    <3>4. Cong(q, (b - a) * (p * i), (b - a) * 1)  BY <1>1, <1>3, <3>1, <3>3, CongTimes
    <3>5. ((b - a) * i) * p = (b - a) * (p * i) /\ (b - a) * 1 = b - a  OBVIOUS
    <3>6. v * p = (b - a) * (p * i)  BY <1>4, <3>5
    <3> QED  BY <3>2, <3>4, <3>5, <3>6 DEF Cong
  <2>2. PICK z \in Int : w * p = (b - a) + q * z
    <3>1. w * p \in Int /\ b - a \in Int /\ w * p - (b - a) \in Int  OBVIOUS
    <3>2. (w * p - (b - a)) % q = 0  BY <1>1, <2>1, <3>1, CongDifference
    <3>3. PICK z \in Int : w * p - (b - a) = q * z  BY <1>1, <3>1, <3>2, ModZero
    <3>4. q * z \in Int  OBVIOUS
    <3> QED  BY <3>1, <3>3, <3>4
  <2>3. x = b + q * z /\ b \in Int  BY <1>6, <2>2
  <2>4. Cong(q, x, b)  BY <1>1, <2>3, CongMultiple
  <2>5. Cong(q, b, m)  BY <1>1, <1>2, CongMod
  <2>6. Cong(q, x, m)  BY <2>4, <2>5 DEF Cong
  <2> QED  BY <1>1, <2>6, CongDifference
<1>11. PICK y \in Int : x - m = p * q * y
  <2>1. x - m \in Int  OBVIOUS
  <2>2. PICK g \in Int : x - m = p * g  BY <1>9, <2>1, ModZero
  <2>3. (p * g) % q = 0 /\ p \in Int  BY <1>10, <2>2
  <2>4. g % q = 0
    <3>1. q \in Nat /\ Prime(q) /\ p % q # 0  BY <1>1
    <3> QED  BY <2>3, <3>1, PrimeDivides
  <2>5. PICK y \in Int : g = q * y  BY <1>1, <2>4, ModZero
  <2>6. p * (q * y) = p * q * y  OBVIOUS
  <2> QED  BY <2>2, <2>5, <2>6
<1>12. PICK n \in Nat \ {0} : n = k.n /\ n = p * q  BY <1>1, KeyFacts
<1>13. m = n * (-y) + x /\ -y \in Int /\ x \in 0 .. n - 1
  <2>1. (p * q) * (-y) = -(p * q * y) /\ p * q * y \in Int  OBVIOUS
  <2>2. n * (-y) = (p * q) * (-y)  BY <1>12
  <2> QED  BY <1>8, <1>11, <1>12, <2>1, <2>2
<1>14. m % n = x  BY <1>13, ModUnique
<1> QED  BY <1>7, <1>12, <1>14

(* Decryption is right: whatever the key, a number that holds m decrypts to  *)
(* the residue of m modulo n (raw_decrypt).                                  *)
THEOREM Decrypts ==
  ASSUME NEW k, IsKey(k), NEW c, NEW m \in Int, Holds(k, c, m)
  PROVE  RawDecrypt(k, c) = m % k.n
<1>1. PICK u : Unit(k, u) /\ Cong(Square(k), c, Sealed(k, m, u))  BY DEF Holds
<1>2. c \in Int  BY DEF Holds
<1>3. PICK p \in Nat, q \in Nat :
        /\ p = k.p /\ q = k.q /\ Prime(p) /\ Prime(q) /\ k.n = p * q /\ k.n = q * p
        /\ p % q # 0 /\ q % p # 0
  BY KeyPrimes DEF IsKey
<1>4. u % p # 0 /\ u % q # 0  BY <1>1, <1>3 DEF Unit
<1>5. DecryptTo(k, c, p) = m % p  BY <1>1, <1>2, <1>3, <1>4, DecryptToIs
<1>6. DecryptTo(k, c, q) = m % q  BY <1>1, <1>2, <1>3, <1>4, DecryptToIs
<1> QED  BY <1>3, <1>5, <1>6, CrtIs DEF RawDecrypt

(* A ciphertext and n have no common divisor, and it is not 0.               *)
LEMMA HoldsCoprime ==
  ASSUME NEW k, IsKey(k), NEW c \in Nat, NEW m \in Int, Holds(k, c, m)
  PROVE  c # 0 /\ Gcd(c, k.n) = 1
<1>1. Unit(k, c)  BY HoldsUnit
<1>2. c # 0
  <2>1. k.p \in Nat \ {0}  BY KeyPrimes
  <2>2. 0 % k.p = 0
    <3>1. 0 \in 0 .. k.p - 1  BY <2>1
    <3> QED  BY <2>1, <3>1, SmallMod
  <2> QED  BY <1>1, <2>2 DEF Unit
<1>3. PICK n \in Nat : n = k.n  BY KeyFacts
<1>4. PICK r \in Nat, s \in Int, t \in Int, i \in Int, j \in Int :
        ExtendedEuclid(c, n) = <<r, s, t>> /\ c = r * i /\ n = r * j
  <2>1. IsCombination(c, n, ExtendedEuclid(c, n))  BY ExtendedEuclidIs
  <2> QED  BY <2>1 DEF IsCombination
<1>5. Pow(k.n, 1) = r * j
  <2>1. n \in Int /\ Pow(n, 0) = 1 /\ Pow(n, 0 + 1) = n * Pow(n, 0)
    <3>1. n \in Int /\ 0 \in Nat  OBVIOUS
    <3> QED  BY <3>1, PowSteps
  <2> QED  BY <1>3, <1>4, <2>1
<1>6. r = 1
  <2>1. 1 \in Nat  OBVIOUS
  <2> QED  BY <1>1, <1>4, <1>5, <2>1, UnitCoprime
<1> QED  BY <1>2, <1>3, <1>4, <1>6 DEF Gcd

-----------------------------------------------------------------------------
(* The thirds of the residues do not overlap.                                *)
LEMMA Thirds ==
  ASSUME NEW m \in Nat \ 0 .. 2
  PROVE  MaxInt(m) \in Nat /\ 3 * MaxInt(m) < m
BY DEF MaxInt

(* The residues of numbers up to twice the range.                            *)
LEMMA SignedMod ==
  ASSUME NEW m \in Nat \ 0 .. 2, NEW x \in Int, Magnitude(x) <= 2 * MaxInt(m)
  PROVE  x % m = IF x < 0 THEN x + m ELSE x
<1>1. MaxInt(m) \in Nat /\ 3 * MaxInt(m) < m  BY Thirds
<1>2. CASE x >= 0
  <2>1. x \in 0 .. m - 1  BY <1>1, <1>2 DEF Magnitude
  <2> QED  BY <1>2, <2>1, SmallMod
<1>3. CASE x < 0
  <2>1. x \in -m .. -1  BY <1>1, <1>3 DEF Magnitude
  <2> QED  BY <1>3, <2>1, SmallMod
<1> QED  BY <1>2, <1>3

-----------------------------------------------------------------------------
(* Powers with a negative exponent, as powmod takes them.                    *)

\* x is b^s modulo m, if c is the inverse of b.
Exps(m, b, c, x, s) ==
  x \in Int /\ \E i, j \in Nat : s = i - j /\ Cong(m, x, Pow(b, i) * Pow(c, j))

Inverses(m, b, c) == m \in Nat \ {0, 1} /\ b \in Nat /\ c \in Int /\ Cong(m, b * c, 1)

(* A number that a prime does not divide has an inverse.                     *)
LEMMA HasInverse ==
  ASSUME NEW m \in Nat, Prime(m), NEW b \in Nat, b % m # 0
  PROVE  \E c \in Int : Inverses(m, b, c)
<1>1. m \in Nat \ {0, 1}  BY DEF Prime
<1>2. b \in Int  OBVIOUS
<1>3. PICK c \in Int : Cong(m, b * c, 1)  BY <1>2, PrimeInverse
<1> QED  BY <1>1, <1>3 DEF Inverses

(* The exponents of a product add up.                                        *)
LEMMA ExpsTimes ==
  ASSUME NEW m, NEW b, NEW c, Inverses(m, b, c), NEW x, NEW s \in Int, Exps(m, b, c, x, s),
         NEW y, NEW t \in Int, Exps(m, b, c, y, t)
  PROVE  Exps(m, b, c, x * y, s + t)
<1>0. m \in Nat \ {0} /\ b \in Int /\ c \in Int /\ x \in Int /\ y \in Int
  BY DEF Inverses, Exps
<1>1. PICK i \in Nat, j \in Nat : s = i - j /\ Cong(m, x, Pow(b, i) * Pow(c, j))  BY DEF Exps
<1>2. PICK k \in Nat, l \in Nat : t = k - l /\ Cong(m, y, Pow(b, k) * Pow(c, l))  BY DEF Exps
<1>3. PICK bi \in Int, cj \in Int : bi = Pow(b, i) /\ cj = Pow(c, j)  BY <1>0, PowSteps
<1>4. PICK bk \in Int, cl \in Int : bk = Pow(b, k) /\ cl = Pow(c, l)  BY <1>0, PowSteps
<1>5. Pow(b, i + k) = bi * bk /\ Pow(c, j + l) = cj * cl
  <2>1. Pow(b, i + k) = Pow(b, i) * Pow(b, k)  BY <1>0, PowAdd
  <2>2. Pow(c, j + l) = Pow(c, j) * Pow(c, l)  BY <1>0, PowAdd
  <2> QED  BY <1>3, <1>4, <2>1, <2>2
<1>6. PICK u \in Int, v \in Int : u = bi * cj /\ v = bk * cl  OBVIOUS
<1>7. Cong(m, x * y, u * v)
  <2>1. Cong(m, x, u) /\ Cong(m, y, v)  BY <1>1, <1>2, <1>3, <1>4, <1>6
  <2> QED  BY <1>0, <2>1, CongTimes
<1>8. u * v = (bi * bk) * (cj * cl)  BY <1>6
<1>9. Cong(m, x * y, Pow(b, i + k) * Pow(c, j + l))  BY <1>5, <1>7, <1>8
<1>10. x * y \in Int /\ i + k \in Nat /\ j + l \in Nat /\ s + t = (i + k) - (j + l)
  BY <1>0, <1>1, <1>2
<1> QED  BY <1>9, <1>10 DEF Exps

(* What is congruent is the same power.                                      *)
LEMMA ExpsCong ==
  ASSUME NEW m, NEW b, NEW c, Inverses(m, b, c), NEW x, NEW s, Exps(m, b, c, x, s),
         NEW y \in Int, Cong(m, y, x)
  PROVE  Exps(m, b, c, y, s)
<1>1. PICK i \in Nat, j \in Nat : s = i - j /\ Cong(m, x, Pow(b, i) * Pow(c, j))  BY DEF Exps
<1>2. Cong(m, y, Pow(b, i) * Pow(c, j))  BY <1>1 DEF Cong
<1> QED  BY <1>1, <1>2 DEF Exps

(* And the same power is congruent.                                          *)
LEMMA ExpsUnique ==
  ASSUME NEW m, NEW b, NEW c, Inverses(m, b, c), NEW x, NEW s, Exps(m, b, c, x, s),
         NEW y, Exps(m, b, c, y, s)
  PROVE  Cong(m, x, y)
<1>0. m \in Nat \ {0} /\ b \in Int /\ c \in Int /\ b * c \in Int /\ Cong(m, b * c, 1)
  BY DEF Inverses
<1>1. ASSUME NEW i \in Nat, NEW j \in Nat, NEW d \in Nat
      PROVE  Cong(m, Pow(b, i + d) * Pow(c, j + d), Pow(b, i) * Pow(c, j))
  <2>1. PICK bi \in Int, cj \in Int : bi = Pow(b, i) /\ cj = Pow(c, j)  BY <1>0, PowSteps
  <2>2. PICK bd \in Int, cd \in Int : bd = Pow(b, d) /\ cd = Pow(c, d)  BY <1>0, PowSteps
  <2>3. Pow(b, i + d) = bi * bd /\ Pow(c, j + d) = cj * cd
    <3>1. Pow(b, i + d) = Pow(b, i) * Pow(b, d)  BY <1>0, PowAdd
    <3>2. Pow(c, j + d) = Pow(c, j) * Pow(c, d)  BY <1>0, PowAdd
    <3> QED  BY <2>1, <2>2, <3>1, <3>2
  <2>4. Cong(m, bd * cd, 1)
    <3>1. Pow(b * c, d) = bd * cd  BY <1>0, <2>2, PowTimes
    <3>2. 1 \in Int /\ 1 \in Nat \ {0}  OBVIOUS
    <3>3. Cong(m, Pow(b * c, d), Pow(1, d))  BY <1>0, <3>2, CongPow
    <3>4. Pow(1, d) = 1  BY <3>2, PowPositive
    <3> QED  BY <3>1, <3>3, <3>4
  <2>5. PICK u \in Int : u = bi * cj  OBVIOUS
  <2>6. PICK v \in Int : v = bd * cd  OBVIOUS
  <2>7. Cong(m, u * v, u * 1)
    <3>1. Cong(m, u, u) /\ 1 \in Int  BY DEF Cong
    <3> QED  BY <1>0, <2>4, <2>6, <3>1, CongTimes
  <2>8. u * v = (bi * bd) * (cj * cd)  BY <2>5, <2>6
  <2>9. u * 1 = u  OBVIOUS
  <2> QED  BY <2>1, <2>3, <2>5, <2>7, <2>8, <2>9
<1>2. PICK i \in Nat, j \in Nat : s = i - j /\ Cong(m, x, Pow(b, i) * Pow(c, j))  BY DEF Exps
<1>3. PICK k \in Nat, l \in Nat : s = k - l /\ Cong(m, y, Pow(b, k) * Pow(c, l))  BY DEF Exps
<1>4. CASE i <= k
  <2>1. PICK d \in Nat : d = k - i  BY <1>4
  <2>2. k = i + d /\ l = j + d  BY <1>2, <1>3, <2>1
  <2>3. Cong(m, Pow(b, k) * Pow(c, l), Pow(b, i) * Pow(c, j))  BY <1>1, <2>2
  <2> QED  BY <1>2, <1>3, <2>3 DEF Cong
<1>5. CASE k <= i
  <2>1. PICK d \in Nat : d = i - k  BY <1>5
  <2>2. i = k + d /\ j = l + d  BY <1>2, <1>3, <2>1
  <2>3. Cong(m, Pow(b, i) * Pow(c, j), Pow(b, k) * Pow(c, l))  BY <1>1, <2>2
  <2> QED  BY <1>2, <1>3, <2>3 DEF Cong
<1> QED  BY <1>4, <1>5

(* 1 is the power with exponent 0.                                           *)
LEMMA ExpsOne ==
  ASSUME NEW m, NEW b, NEW c, Inverses(m, b, c)
  PROVE  Exps(m, b, c, 1, 0)
<1>1. b \in Int /\ c \in Int  BY DEF Inverses
<1>2. Pow(b, 0) = 1 /\ Pow(c, 0) = 1  BY <1>1, PowSteps
<1>3. Cong(m, 1, Pow(b, 0) * Pow(c, 0)) /\ 0 = 0 - 0 /\ 0 \in Nat /\ 1 \in Int
  BY <1>2 DEF Cong
<1> QED  BY <1>3 DEF Exps

(* powmod gives the power, also for a negative exponent (phe/util.py, and    *)
(* gmpy2 in privacy_utils.py).                                               *)
LEMMA PowModExps ==
  ASSUME NEW m, NEW b, NEW c, Inverses(m, b, c), NEW s \in Int
  PROVE  Exps(m, b, c, PowMod(b, s, m), s) /\ PowMod(b, s, m) \in 0 .. m - 1
<1>0. m \in Nat \ {0} /\ m \in Nat \ {0, 1} /\ b \in Nat /\ b \in Int /\ c \in Int
  BY DEF Inverses
<1>1. CASE s >= 0
  <2>1. PowMod(b, s, m) = Pow(b, s) % m  BY <1>0, <1>1, PowModIs
  <2>2. Pow(b, s) \in Int /\ Pow(c, 0) = 1  BY <1>0, <1>1, PowSteps
  <2>3. PowMod(b, s, m) \in 0 .. m - 1 /\ Cong(m, PowMod(b, s, m), Pow(b, s))
    <3>1. PICK v \in Int : v = Pow(b, s)  BY <2>2
    <3>2. v % m \in 0 .. m - 1 /\ Cong(m, v % m, v)  BY <1>0, CongMod
    <3> QED  BY <2>1, <3>1, <3>2
  <2>4. Pow(b, s) * 1 = Pow(b, s)  BY <2>2
  <2>5. Cong(m, PowMod(b, s, m), Pow(b, s) * Pow(c, 0))  BY <2>2, <2>3, <2>4
  <2>6. s \in Nat /\ 0 \in Nat /\ s = s - 0  BY <1>1
  <2> QED  BY <2>3, <2>5, <2>6 DEF Exps
<1>2. CASE s < 0
  <2>1. PICK e \in Nat : e = -s  BY <1>2
  <2>2. PICK i \in 0 .. m - 1 : i = Invert(b % m, m) /\ Cong(m, i, c)
    <3>1. b % m \in Nat /\ Cong(m, b % m, b)  BY <1>0, CongMod
    <3>2. Cong(m, (b % m) * c, b * c)
      <4>1. Cong(m, c, c) /\ b % m \in Int  BY <3>1 DEF Cong
      <4> QED  BY <1>0, <3>1, <4>1, CongTimes
    <3>3. Cong(m, (b % m) * c, 1)  BY <3>2 DEF Inverses, Cong
    <3> QED  BY <1>0, <3>1, <3>3, InvertIs
  <2>3. PowMod(b, s, m) \in 0 .. m - 1 /\ Cong(m, PowMod(b, s, m), Pow(c, e))
    <3>1. CASE b = 1
      <4>1. PowMod(b, s, m) = 1  BY <3>1 DEF PowMod
      <4>2. Cong(m, c, 1)
        <5>1. b * c = c  BY <1>0, <3>1
        <5> QED  BY <5>1 DEF Inverses
      <4>3. 1 \in Int /\ 1 \in Nat \ {0}  OBVIOUS
      <4>4. Cong(m, Pow(c, e), Pow(1, e)) /\ Pow(1, e) = 1
        BY <1>0, <4>2, <4>3, CongPow, PowPositive
      <4> QED  BY <1>0, <4>1, <4>4 DEF Cong
    <3>2. CASE b # 1
      <4>1. PowMod(b, s, m) = SquareAndMultiply(i, e, m)  BY <1>2, <2>1, <2>2, <3>2 DEF PowMod
      <4>2. i \in Int /\ Cong(m, Pow(i, e), Pow(c, e))  BY <1>0, <2>2, CongPow
      <4>3. SquareAndMultiply(i, e, m) = Pow(i, e) % m  BY <1>0, <4>2, SquareAndMultiplyIs
      <4>4. Pow(i, e) \in Int  BY <4>2, PowSteps
      <4>5. Pow(i, e) % m \in 0 .. m - 1 /\ Cong(m, Pow(i, e) % m, Pow(i, e))
        BY <1>0, <4>4, CongMod
      <4> QED  BY <4>1, <4>2, <4>3, <4>5 DEF Cong
    <3> QED  BY <3>1, <3>2
  <2>4. Pow(b, 0) = 1 /\ Pow(c, e) \in Int  BY <1>0, PowSteps
  <2>5. 1 * Pow(c, e) = Pow(c, e)  BY <2>4
  <2>6. Cong(m, PowMod(b, s, m), Pow(b, 0) * Pow(c, e))  BY <2>3, <2>4, <2>5
  <2>7. 0 \in Nat /\ s = 0 - e  BY <2>1
  <2> QED  BY <2>3, <2>6, <2>7 DEF Exps
<1> QED  BY <1>1, <1>2

-----------------------------------------------------------------------------
(* False witnesses of miller_rabin.                                          *)

\* u can be cancelled modulo n.
Cancels(n, u) == \A a, b \in Int : Cong(n, a * u, b * u) => Cong(n, a, b)

(* A set of remainders of which four translates do not meet holds at most a  *)
(* quarter of the remainders that are not 0.                                 *)
LEMMA FourTranslates ==
  ASSUME NEW n \in Nat \ {0, 1}, NEW L \in SUBSET (1 .. n - 1), NEW u \in [1 .. 4 -> Int],
         \A i \in 1 .. 4 : Cancels(n, u[i]),
         \A i, j \in 1 .. 4 : \A a, b \in L : Cong(n, a * u[i], b * u[j]) => i = j
  PROVE  IsFiniteSet(L) /\ 4 * Cardinality(L) <= n - 1
<1> DEFINE T == 1 .. n - 1
           P == L \X (1 .. 4)
           f == [x \in P |-> (x[1] * u[x[2]]) % n]
<1>0. n \in Nat \ {0} /\ n - 1 \in Nat /\ 1 \in Int /\ 4 \in Int /\ n - 1 \in Int  OBVIOUS
<1>1. IsFiniteSet(T) /\ Cardinality(T) = n - 1  BY <1>0, FS_Interval
<1>2. IsFiniteSet(1 .. 4) /\ Cardinality(1 .. 4) = 4
  <2>1. PICK four \in Int : four = 4  OBVIOUS
  <2>2. /\ IsFiniteSet(1 .. four)
        /\ Cardinality(1 .. four) = IF 1 > four THEN 0 ELSE four - 1 + 1
    BY <1>0, FS_Interval
  <2> QED  BY <2>1, <2>2
<1>3. IsFiniteSet(L) /\ Cardinality(L) \in Nat  BY <1>1, FS_Subset, FS_CardinalityType
<1>4. Cardinality(P) = 4 * Cardinality(L)
  <2>1. Cardinality(P) = Cardinality(L) * Cardinality(1 .. 4)  BY <1>2, <1>3, FS_Product
  <2> QED  BY <1>2, <1>3, <2>1
<1>5. ASSUME NEW a \in L, NEW i \in 1 .. 4
      PROVE  a \in Int /\ a \in 1 .. n - 1 /\ u[i] \in Int /\ a * u[i] \in Int
  OBVIOUS
<1>6. ASSUME NEW a \in L, NEW i \in 1 .. 4 PROVE (a * u[i]) % n \in T
  <2>1. (a * u[i]) % n \in 0 .. n - 1  BY <1>0, <1>5, CongMod
  <2>2. ASSUME (a * u[i]) % n = 0 PROVE FALSE
    <3>1. 0 * u[i] = 0 /\ 0 \in Int /\ a \in Int /\ 0 \in 0 .. n - 1  BY <1>0, <1>5
    <3>2. 0 % n = 0  BY <1>0, <3>1, SmallMod
    <3>3. Cong(n, a * u[i], 0 * u[i])  BY <2>2, <3>1, <3>2 DEF Cong
    <3>4. Cong(n, a, 0)  BY <3>1, <3>3 DEF Cancels
    <3>5. a % n = a
      <4>1. a \in 0 .. n - 1  BY <1>5
      <4> QED  BY <1>0, <3>1, <4>1, SmallMod
    <3> QED  BY <1>5, <3>2, <3>4, <3>5 DEF Cong
  <2> QED  BY <2>1, <2>2
<1>7. f \in [P -> T]
  <2> SUFFICES ASSUME NEW x \in P PROVE (x[1] * u[x[2]]) % n \in T
    BY Zenon
  <2>1. x[1] \in L /\ x[2] \in 1 .. 4  OBVIOUS
  <2> QED  BY <1>6, <2>1
<1>8. ASSUME NEW x \in P, NEW y \in P, f[x] = f[y] PROVE x = y
  <2>1. PICK a \in L, i \in 1 .. 4 : a = x[1] /\ i = x[2]  OBVIOUS
  <2>2. PICK b \in L, j \in 1 .. 4 : b = y[1] /\ j = y[2]  OBVIOUS
  <2>3. (a * u[i]) % n = (b * u[j]) % n  BY <1>8, <2>1, <2>2
  <2>4. Cong(n, a * u[i], b * u[j])  BY <2>3 DEF Cong
  <2>5. i = j  BY <2>4
  <2>6. Cong(n, a, b)
    <3>1. a \in Int /\ b \in Int  BY <1>5
    <3> QED  BY <2>4, <2>5, <3>1 DEF Cancels
  <2>7. a % n = a /\ b % n = b
    <3>1. a \in 0 .. n - 1 /\ b \in 0 .. n - 1 /\ a \in Int /\ b \in Int  BY <1>5
    <3> QED  BY <1>0, <3>1, SmallMod
  <2>8. x[1] = y[1] /\ x[2] = y[2]  BY <2>1, <2>2, <2>5, <2>6, <2>7 DEF Cong
  <2> QED
    <3> DEFINE K == 1 .. 4
    <3>1. x \in L \X K /\ y \in L \X K  OBVIOUS
    <3> HIDE DEF K
    <3> QED  BY <2>8, <3>1
<1>9. f \in Injection(P, T)
  <2> HIDE DEF f, P, T
  <2> QED  BY <1>7, <1>8, Zenon DEF Injection, IsInjective
<1>10. Cardinality(P) <= Cardinality(T)
  <2> HIDE DEF f, P, T
  <2> QED  BY <1>1, <1>9, FS_Injection
<1> QED  BY <1>1, <1>3, <1>4, <1>10

(* Modulo a prime what it does not divide can be cancelled.                  *)
LEMMA PrimeCancelsIt ==
  ASSUME NEW p \in Nat, Prime(p), NEW u \in Int, u % p # 0
  PROVE  Cancels(p, u)
<1> SUFFICES ASSUME NEW a \in Int, NEW b \in Int, Cong(p, a * u, b * u) PROVE Cong(p, a, b)
  BY DEF Cancels
<1>1. a * u = u * a /\ b * u = u * b  OBVIOUS
<1> QED  BY <1>1, PrimeCancels

(* So can what is congruent to 1.                                            *)
LEMMA OneCancels ==
  ASSUME NEW m \in Nat \ {0}, NEW u \in Int, Cong(m, u, 1)
  PROVE  Cancels(m, u)
<1> SUFFICES ASSUME NEW a \in Int, NEW b \in Int, Cong(m, a * u, b * u) PROVE Cong(m, a, b)
  BY DEF Cancels
<1>1. Cong(m, a, a) /\ Cong(m, b, b) /\ 1 \in Int  BY DEF Cong
<1>2. Cong(m, a * u, a * 1) /\ Cong(m, b * u, b * 1)  BY <1>1, CongTimes
<1>3. a * 1 = a /\ b * 1 = b  OBVIOUS
<1> QED  BY <1>2, <1>3 DEF Cong

(* So can the product of two that can.                                       *)
LEMMA ProductCancels ==
  ASSUME NEW n, NEW u \in Int, NEW v \in Int, Cancels(n, u), Cancels(n, v)
  PROVE  Cancels(n, u * v)
<1> SUFFICES ASSUME NEW a \in Int, NEW b \in Int, Cong(n, a * (u * v), b * (u * v))
             PROVE  Cong(n, a, b)
  BY DEF Cancels
<1>1. a * (u * v) = (a * u) * v /\ b * (u * v) = (b * u) * v /\ a * u \in Int /\ b * u \in Int
  OBVIOUS
<1>2. Cong(n, a * u, b * u)  BY <1>1 DEF Cancels
<1> QED  BY <1>2 DEF Cancels

(* The Chinese remainder of two residues, modulo a prime and a number that   *)
(* the prime does not divide.                                                *)
LEMMA Chinese ==
  ASSUME NEW p \in Nat, Prime(p), NEW m \in Nat \ {0}, m % p # 0,
         NEW a \in Int, NEW b \in Int
  PROVE  \E z \in Int : Cong(p, z, a) /\ Cong(m, z, b)
<1>0. p \in Nat \ {0}  BY DEF Prime
<1>1. PICK w \in Int : Cong(p, m * w, 1)
  <2>1. m \in Int  OBVIOUS
  <2> QED  BY <2>1, PrimeInverse
<1>2. PICK z \in Int : z = b + m * (w * (a - b))  OBVIOUS
<1>3. Cong(m, z, b)
  <2>1. w * (a - b) \in Int /\ m \in Nat \ {0}  OBVIOUS
  <2> QED  BY <1>2, <2>1, CongMultiple
<1>4. Cong(p, z, a)
  <2>1. m * w \in Int /\ a - b \in Int /\ 1 \in Int  OBVIOUS
  <2>2. (m * w - 1) % p = 0  BY <1>0, <1>1, <2>1, CongDifference
  <2>3. PICK k \in Int : m * w - 1 = p * k
    <3>1. m * w - 1 \in Int  OBVIOUS
    <3> QED  BY <1>0, <2>2, <3>1, ModZero
  <2>4. z = b + (m * w) * (a - b)  BY <1>2
  <2>5. m * w = 1 + p * k  BY <2>3
  <2>6. z = b + (1 + p * k) * (a - b)  BY <2>4, <2>5
  <2>7. z = a + p * (k * (a - b)) /\ k * (a - b) \in Int  BY <2>6
  <2> QED  BY <1>0, <2>7, CongMultiple
<1> QED  BY <1>3, <1>4

(* There is one only.                                                        *)
LEMMA ChineseUnique ==
  ASSUME NEW p \in Nat, Prime(p), NEW m \in Nat \ {0}, m % p # 0,
         NEW a \in Int, NEW b \in Int, Cong(p, a, b), Cong(m, a, b)
  PROVE  Cong(p * m, a, b)
<1>0. p \in Nat \ {0}  BY DEF Prime
<1>1. (a - b) % p = 0 /\ (a - b) % m = 0 /\ a - b \in Int
  <2>1. (a - b) % p = 0  BY <1>0, CongDifference
  <2>2. (a - b) % m = 0  BY CongDifference
  <2> QED  BY <2>1, <2>2
<1>2. PICK k \in Int : a - b = m * k  BY <1>1, ModZero
<1>3. k % p = 0
  <2>1. m \in Int /\ (m * k) % p = 0  BY <1>1, <1>2
  <2> QED  BY <2>1, PrimeDivides
<1>4. PICK j \in Int : k = p * j  BY <1>0, <1>3, ModZero
<1>5. a = b + (p * m) * j  BY <1>2, <1>4
<1>6. p * m \in Nat \ {0}
  <2>1. p * m > 0 /\ p * m \in Int  BY <1>0
  <2> QED  BY <2>1
<1> QED  BY <1>5, <1>6, CongMultiple

(* What can be cancelled modulo both can be modulo their product.            *)
LEMMA ChineseCancels ==
  ASSUME NEW p \in Nat, Prime(p), NEW m \in Nat \ {0}, m % p # 0, NEW u \in Int,
         Cancels(p, u), Cancels(m, u)
  PROVE  Cancels(p * m, u)
<1>0. p \in Nat \ {0}  BY DEF Prime
<1>1. p * m \in Nat \ {0}
  <2>1. p * m > 0 /\ p * m \in Int  BY <1>0
  <2> QED  BY <2>1
<1> SUFFICES ASSUME NEW a \in Int, NEW b \in Int, Cong(p * m, a * u, b * u)
             PROVE  Cong(p * m, a, b)
  BY DEF Cancels
<1>2. a * u \in Int /\ b * u \in Int /\ p \in Int /\ m \in Int /\ p * m = m * p  OBVIOUS
<1>3. PICK n \in Nat \ {0} : n = p * m  BY <1>1
<1>4. Cong(p, a * u, b * u) /\ Cong(m, a * u, b * u)
  BY <1>0, <1>2, <1>3, CongFactor
<1>5. Cong(p, a, b) /\ Cong(m, a, b)  BY <1>4 DEF Cancels
<1> QED  BY <1>5, ChineseUnique

-----------------------------------------------------------------------------
\* The value at x of the polynomial of degree k with leading coefficient 1 and
\* the coefficients c[1], ..., c[k] after it.
Horner(c, x, k) ==
  LET value[j \in Nat] == IF j = 0 THEN 1 ELSE x * value[j - 1] + c[j]
  IN  value[k]

(* The recursion of a polynomial.                                            *)
LEMMA HornerSteps ==
  ASSUME NEW c \in [Nat -> Int], NEW x \in Int
  PROVE  /\ Horner(c, x, 0) = 1
         /\ \A k \in Nat : /\ Horner(c, x, k) \in Int
                           /\ Horner(c, x, k + 1) = x * Horner(c, x, k) + c[k + 1]
<1> DEFINE Loop(g) == [j \in Nat |-> IF j = 0 THEN 1 ELSE x * g[j - 1] + c[j]]
           value == CHOOSE g : g = Loop(g)
<1>1. \A k : Horner(c, x, k) = value[k]  BY DEF Horner
<1>2. \E g : g = Loop(g)
  <2> DEFINE step == [k \in Nat |-> [v \in Int |-> x * v + c[k + 1]]]
  <2>1. step \in [Nat -> [Int -> Int]]  OBVIOUS
  <2> HIDE DEF step
  <2>2. PICK g : Iterates(g, Int, 1, step)
    <3>1. 1 \in Int  OBVIOUS
    <3> QED  BY <2>1, <3>1, Iterate, Zenon
  <2>3. ASSUME NEW k \in Nat \ {0} PROVE step[k - 1][g[k - 1]] = x * g[k - 1] + c[k]
    <3>1. k - 1 \in Nat /\ (k - 1) + 1 = k  OBVIOUS
    <3>2. g[k - 1] \in Int  BY <2>2, <3>1 DEF Iterates
    <3> QED  BY <3>1, <3>2 DEF step
  <2>4. g = Loop(g)  BY <2>2, <2>3 DEF Iterates
  <2> QED  BY <2>4
<1>3. value = Loop(value)  BY <1>2
<1> HIDE DEF value
<1>4. value[0] = 1  BY <1>3
<1>5. ASSUME NEW k \in Nat PROVE value[k + 1] = x * value[k] + c[k + 1]
  <2>1. k + 1 \in Nat /\ k + 1 # 0 /\ (k + 1) - 1 = k  OBVIOUS
  <2> QED  BY <1>3, <2>1
<1>6. \A k \in Nat : value[k] \in Int
  <2> DEFINE S == {k \in Nat : value[k] \in Int}
  <2>1. 0 \in S  BY <1>4
  <2>2. ASSUME NEW k \in Nat, k \in S PROVE k + 1 \in S
    <3>1. value[k] \in Int /\ c[k + 1] \in Int  BY <2>2
    <3> QED  BY <1>5, <3>1
  <2>3. Nat \subseteq S
    <3> HIDE DEF S
    <3> QED  BY <2>1, <2>2, Induction
  <2> QED  BY <2>3
<1> QED  BY <1>1, <1>4, <1>5, <1>6

(* The value at a aside, a polynomial is a multiple of x - a.                *)
LEMMA HornerDivides ==
  ASSUME NEW c \in [Nat -> Int], NEW a \in Int
  PROVE  \E b \in [Nat -> Int] : \A k \in Nat, x \in Int :
           Horner(c, x, k + 1) = (x - a) * Horner(b, x, k) + Horner(c, a, k + 1)
<1>1. PICK b \in [Nat -> Int] : \A k \in Nat : b[k] = Horner(c, a, k)
  <2>1. \A k \in Nat : Horner(c, a, k) \in Int  BY HornerSteps
  <2>2. [k \in Nat |-> Horner(c, a, k)] \in [Nat -> Int]  BY <2>1
  <2> QED  BY <2>2
<1>2. ASSUME NEW x \in Int
      PROVE  \A k \in Nat :
               Horner(c, x, k + 1) = (x - a) * Horner(b, x, k) + Horner(c, a, k + 1)
  <2> DEFINE S == {k \in Nat :
                Horner(c, x, k + 1) = (x - a) * Horner(b, x, k) + Horner(c, a, k + 1)}
  <2>1. 0 \in S
    <3>1. \A y \in Int : Horner(c, y, 0) = 1 /\ Horner(c, y, 0 + 1) = y * Horner(c, y, 0) + c[0 + 1]
      BY HornerSteps
    <3>3. Horner(b, x, 0) = 1  BY HornerSteps
    <3>2. c[0 + 1] \in Int  OBVIOUS
    <3> QED  BY <3>1, <3>2, <3>3
  <2>2. ASSUME NEW k \in Nat, k \in S PROVE k + 1 \in S
    <3>1. PICK l \in Nat : l = k + 1  OBVIOUS
    <3>2. PICK cx \in Int, ca \in Int, bx \in Int, e \in Int :
            cx = Horner(c, x, l) /\ ca = Horner(c, a, l) /\ bx = Horner(b, x, k) /\ e = c[l + 1]
      <4>1. \A g \in [Nat -> Int], y \in Int, i \in Nat : Horner(g, y, i) \in Int
        BY HornerSteps
      <4>2. c[l + 1] \in Int  OBVIOUS
      <4> QED  BY <4>1, <4>2
    <3>3. Horner(c, x, l + 1) = x * cx + e /\ Horner(c, a, l + 1) = a * ca + e
      <4>1. \A y \in Int : Horner(c, y, l + 1) = y * Horner(c, y, l) + c[l + 1]
        BY HornerSteps
      <4> QED  BY <3>2, <4>1
    <3>4. Horner(b, x, l) = x * bx + ca
      <4>1. Horner(b, x, k + 1) = x * Horner(b, x, k) + b[k + 1]  BY HornerSteps
      <4>2. b[l] = Horner(c, a, l)  BY <1>1
      <4> QED  BY <3>1, <3>2, <4>1, <4>2
    <3>5. cx = (x - a) * bx + ca  BY <2>2, <3>1, <3>2
    <3>6. x * cx + e = (x - a) * (x * bx + ca) + (a * ca + e)
      <4>1. x * cx = x * ((x - a) * bx) + x * ca  BY <3>5
      <4>2. x * ((x - a) * bx) = (x - a) * (x * bx)  OBVIOUS
      <4>3. (x - a) * (x * bx + ca) = (x - a) * (x * bx) + (x * ca - a * ca)  OBVIOUS
      <4> QED  BY <4>1, <4>2, <4>3
    <3>7. Horner(c, x, l + 1) = (x - a) * Horner(b, x, l) + Horner(c, a, l + 1)
      BY <3>3, <3>4, <3>6
    <3> QED  BY <3>1, <3>7
  <2>3. Nat \subseteq S
    <3> HIDE DEF S
    <3> QED  BY <2>1, <2>2, Induction
  <2> QED  BY <2>3
<1> QED  BY <1>1, <1>2

(* Modulo a prime not all of as many numbers as it has coefficients are      *)
(* roots of a polynomial.                                                    *)
LEMMA FewRoots ==
  ASSUME NEW q \in Nat, Prime(q), NEW m \in Nat, m + 1 <= q, NEW c \in [Nat -> Int]
  PROVE  \E x \in 1 .. m + 1 : Horner(c, x, m) % q # 0
<1>0. q \in Nat \ {0} /\ q > 1  BY DEF Prime
<1> DEFINE S == {k \in Nat : k + 1 <= q =>
                   \A b \in [Nat -> Int] : \E x \in 1 .. k + 1 : Horner(b, x, k) % q # 0}
<1>1. 0 \in S
  <2> SUFFICES ASSUME NEW b \in [Nat -> Int]
               PROVE  \E x \in 1 .. 0 + 1 : Horner(b, x, 0) % q # 0
    OBVIOUS
  <2>1. Horner(b, 1, 0) = 1  BY HornerSteps
  <2>2. 1 % q = 1
    <3>1. 1 \in 0 .. q - 1 /\ 1 \in Int  BY <1>0
    <3> QED  BY <1>0, <3>1, SmallMod
  <2>3. 1 \in 1 .. 0 + 1  OBVIOUS
  <2> QED  BY <2>1, <2>2, <2>3
<1>2. ASSUME NEW k \in Nat, k \in S PROVE k + 1 \in S
  <2> SUFFICES ASSUME (k + 1) + 1 <= q, NEW b \in [Nat -> Int],
                      \A x \in 1 .. (k + 1) + 1 : Horner(b, x, k + 1) % q = 0
               PROVE  FALSE
    OBVIOUS
  <2>1. PICK a \in Int : a = (k + 1) + 1  OBVIOUS
  <2>2. PICK d \in [Nat -> Int] : \A x \in Int :
          Horner(b, x, k + 1) = (x - a) * Horner(d, x, k) + Horner(b, a, k + 1)
    BY HornerDivides
  <2>3. PICK x \in 1 .. k + 1 : Horner(d, x, k) % q # 0
    <3>1. k + 1 <= q  OBVIOUS
    <3> QED  BY <1>2, <3>1
  <2>4. PICK bx \in Int, ba \in Int, dx \in Int :
          bx = Horner(b, x, k + 1) /\ ba = Horner(b, a, k + 1) /\ dx = Horner(d, x, k)
    <3>1. x \in Int /\ k + 1 \in Nat  OBVIOUS
    <3>2. Horner(b, x, k + 1) \in Int /\ Horner(b, a, k + 1) \in Int /\ Horner(d, x, k) \in Int
      BY <3>1, HornerSteps
    <3> QED  BY <3>2
  <2>5. bx % q = 0 /\ ba % q = 0  BY <2>1, <2>4
  <2>6. bx - ba = (x - a) * dx /\ x - a \in Int
    <3>1. bx = (x - a) * dx + ba  BY <2>2, <2>4
    <3>2. (x - a) * dx \in Int  BY <2>1
    <3> QED  BY <2>1, <3>1, <3>2
  <2>7. (bx - ba) % q = 0  BY <1>0, <2>4, <2>5, CongDifference DEF Cong
  <2>8. (x - a) % q # 0
    <3>1. x - a \in -q .. -1  BY <2>1
    <3>2. (x - a) % q = (x - a) + q  BY <1>0, <2>6, <3>1, SmallMod
    <3>3. (x - a) + q > 0  BY <2>1
    <3> QED  BY <3>2, <3>3
  <2>9. dx % q = 0  BY <2>6, <2>7, <2>8, PrimeDivides
  <2> QED  BY <2>3, <2>4, <2>9
<1>3. Nat \subseteq S
  <2> HIDE DEF S
  <2> QED  BY <1>1, <1>2, Induction
<1> QED  BY <1>3

(* So there is a number of which a power below the prime's is not 1.         *)
LEMMA PowerNotOne ==
  ASSUME NEW q \in Nat, Prime(q), NEW m \in Nat \ {0}, m + 1 < q
  PROVE  \E x \in 1 .. q - 1 : ~Cong(q, Pow(x, m), 1)
<1>0. q \in Nat \ {0} /\ q > 1  BY DEF Prime
<1>1. PICK c \in [Nat -> Int] : c[m] = -1 /\ \A k \in Nat \ {m} : c[k] = 0
  <2>1. [k \in Nat |-> IF k = m THEN -1 ELSE 0] \in [Nat -> Int]  OBVIOUS
  <2> QED  BY <2>1
<1>2. PICK x \in 1 .. m + 1 : Horner(c, x, m) % q # 0
  <2>1. m \in Nat /\ m + 1 <= q  OBVIOUS
  <2> QED  BY <2>1, FewRoots
<1>3. x \in Int  OBVIOUS
<1> DEFINE S == {k \in Nat : k < m => Horner(c, x, k) = Pow(x, k)}
<1>4. 0 \in S  BY <1>3, HornerSteps, PowSteps
<1>5. ASSUME NEW k \in Nat, k \in S PROVE k + 1 \in S
  <2> SUFFICES ASSUME k + 1 < m PROVE Horner(c, x, k + 1) = Pow(x, k + 1)
    OBVIOUS
  <2>1. Horner(c, x, k) = Pow(x, k) /\ c[k + 1] = 0  BY <1>1, <1>5
  <2>2. Horner(c, x, k + 1) = x * Horner(c, x, k) + c[k + 1]  BY <1>3, HornerSteps
  <2>3. Pow(x, k) \in Int /\ Pow(x, k + 1) = x * Pow(x, k)  BY <1>3, PowSteps
  <2> QED  BY <2>1, <2>2, <2>3
<1>6. Nat \subseteq S
  <2> HIDE DEF S
  <2> QED  BY <1>4, <1>5, Induction
<1>7. PICK k \in Nat : k + 1 = m
  <2>1. m - 1 \in Nat /\ (m - 1) + 1 = m  OBVIOUS
  <2> QED  BY <2>1
<1>8. Horner(c, x, k) = Pow(x, k)  BY <1>6, <1>7
<1>9. Horner(c, x, k + 1) = x * Horner(c, x, k) + c[k + 1]  BY <1>3, HornerSteps
<1>10. Pow(x, k) \in Int /\ Pow(x, k + 1) = x * Pow(x, k) /\ Pow(x, m) \in Int
  BY <1>3, PowSteps
<1>11. Horner(c, x, m) = Pow(x, m) - 1
  BY <1>1, <1>7, <1>8, <1>9, <1>10
<1>12. ~Cong(q, Pow(x, m), 1)
  <2>1. 1 \in Int /\ (Pow(x, m) - 1) % q # 0  BY <1>2, <1>11
  <2> QED  BY <1>0, <1>10, <2>1, CongDifference
<1>13. x \in 1 .. q - 1  OBVIOUS
<1> QED  BY <1>12, <1>13

-----------------------------------------------------------------------------
(* All powers of 1 are 1 and so are the even ones of -1.                     *)
LEMMA SignPow ==
  ASSUME NEW n \in Nat \ {0}, NEW x \in Int, NEW e \in Nat
  PROVE  /\ Cong(n, x, 1) => Cong(n, Pow(x, e), 1)
         /\ Cong(n, x, -1) => Cong(n, Pow(x, 2 * e), 1)
<1>0. 1 \in Int /\ -1 \in Int /\ 2 * e \in Nat /\ 2 \in Nat /\ 1 \in Nat \ {0}  OBVIOUS
<1>1. Pow(1, e) = 1  BY <1>0, PowPositive
<1>2. Pow(-1, 2 * e) = 1
  <2>1. PICK k \in Int : k = -1  OBVIOUS
  <2>2. Pow(k, 2) = 1
    <3>1. Pow(k, 0) = 1 /\ Pow(k, 0 + 1) = k * Pow(k, 0)
          /\ Pow(k, 1 + 1) = k * Pow(k, 1)
      BY PowSteps
    <3>2. Pow(k, 1) = -1  BY <2>1, <3>1
    <3>3. Pow(k, 2) = k * Pow(k, 1)  BY <3>1
    <3> QED  BY <2>1, <3>2, <3>3
  <2>3. Pow(Pow(k, 2), e) = Pow(k, 2 * e)  BY <1>0, PowPow
  <2> QED  BY <1>1, <2>1, <2>2, <2>3
<1>3. Cong(n, x, 1) => Cong(n, Pow(x, e), Pow(1, e))  BY <1>0, CongPow
<1>4. Cong(n, x, -1) => Cong(n, Pow(x, 2 * e), Pow(-1, 2 * e))  BY <1>0, CongPow
<1> QED  BY <1>1, <1>2, <1>3, <1>4

(* The odd powers of -1 are -1.                                              *)
LEMMA MinusOnePow ==
  ASSUME NEW d \in Nat, Odd(d)
  PROVE  Pow(-1, d) = -1
<1>0. -1 \in Int /\ 1 \in Nat \ {0}  OBVIOUS
<1>1. PICK k \in Nat : d = 2 * k + 1
  <2>1. d % 2 = 1  BY DEF Odd
  <2>2. d \div 2 \in Nat /\ d = 2 * (d \div 2) + 1  BY <2>1
  <2> QED  BY <2>2
<1>2. PICK x \in Int : x = -1  OBVIOUS
<1>3. Pow(x, 2 * k + 1) = x * Pow(x, 2 * k)
  <2>1. 2 * k \in Nat  OBVIOUS
  <2> QED  BY <2>1, PowSteps
<1>4. Pow(x, 2) = 1
  <2>1. /\ Pow(x, 0) = 1
        /\ Pow(x, 0 + 1) = x * Pow(x, 0)
        /\ Pow(x, 1 + 1) = x * Pow(x, 1)
    BY PowSteps
  <2>2. Pow(x, 1) = -1  BY <1>2, <2>1
  <2> QED  BY <1>2, <2>1, <2>2
<1>5. Pow(x, 2 * k) = Pow(Pow(x, 2), k)  BY PowPow
<1>6. Pow(1, k) = 1  BY <1>0, PowPositive
<1> QED  BY <1>1, <1>2, <1>3, <1>4, <1>5, <1>6

\* The power of all that pass is 1 or -1, and that of some number is -1.
SignExponent(n, e) ==
  /\ e \in Nat
  /\ \E f \in Nat : n - 1 = e * (2 * f)
  /\ \E a \in Int : Cong(n, Pow(a, e), -1)
  /\ \A a \in Int : Passes(n, a) => Cong(n, Pow(a, e), 1) \/ Cong(n, Pow(a, e), -1)

(* There is one for every odd number: the last of the squarings at which -1  *)
(* comes up.                                                                 *)
LEMMA SignExponentExists ==
  ASSUME NEW n \in Nat, n > 1, n % 2 # 0
  PROVE  \E e : SignExponent(n, e)
<1>0. n \in Nat \ {0, 1} /\ n \in Nat \ {0} /\ 2 \in Int /\ -1 \in Int  OBVIOUS
<1>1. PICK d \in Nat, r \in Nat : TwoAdic(n) = <<d, r>> /\ n - 1 = d * Pow(2, r) /\ Odd(d)
  BY <1>0, TwoAdicIs
<1>2. \A j \in Nat : Pow(2, j) \in Nat  BY PowGrows
<1>3. r # 0
  <2> SUFFICES ASSUME r = 0 PROVE FALSE
    OBVIOUS
  <2>1. Pow(2, 0) = 1  BY <1>0, PowSteps
  <2>2. n - 1 = d  BY <1>1, <2>1
  <2>3. d % 2 = 1  BY <1>1 DEF Odd
  <2> QED  BY <2>2, <2>3
<1> DEFINE E(j) == d * Pow(2, j)
           J == {j \in 0 .. r - 1 : \E a \in Int : Cong(n, Pow(a, E(j)), -1)}
<1>4. 0 \in J
  <2>1. E(0) = d
    <3>1. Pow(2, 0) = 1  BY <1>0, PowSteps
    <3> QED  BY <3>1
  <2>2. Pow(-1, d) = -1  BY <1>1, MinusOnePow
  <2>3. Cong(n, Pow(-1, E(0)), -1)  BY <2>1, <2>2 DEF Cong
  <2> HIDE DEF E
  <2> QED  BY <1>0, <1>3, <2>3
<1>5. PICK j \in J : \A i \in J : i <= j
  <2> DEFINE D == {z \in Nat : r - 1 - z \in J}
  <2>1. PICK z \in D : \A y \in D : z <= y
    <3>1. r - 1 \in D
      <4>1. r - 1 \in Nat /\ r - 1 - (r - 1) = 0  BY <1>3
      <4> HIDE DEF J
      <4> QED  BY <1>4, <4>1
    <3>2. D \in SUBSET Nat /\ D # {}  BY <3>1
    <3> HIDE DEF D
    <3> QED  BY <3>2, LeastNumber
  <2>2. ASSUME NEW i \in J PROVE i <= r - 1 - z
    <3>1. i \in 0 .. r - 1  OBVIOUS
    <3>2. PICK y \in Nat : y = r - 1 - i /\ r - 1 - y = i  BY <3>1
    <3>3. y \in D
      <4> HIDE DEF J
      <4> QED  BY <3>2
    <3>4. z <= y  BY <2>1, <3>3
    <3> HIDE DEF J, D
    <3> QED  BY <2>1, <3>1, <3>2, <3>4 DEF D
  <2>3. r - 1 - z \in J  BY <2>1
  <2> HIDE DEF J
  <2> QED  BY <2>2, <2>3
<1>6. j \in 0 .. r - 1 /\ j \in Nat /\ \E a \in Int : Cong(n, Pow(a, E(j)), -1)  OBVIOUS
<1>7. E(j) \in Nat  BY <1>2, <1>6
<1>8. \E f \in Nat : n - 1 = E(j) * (2 * f)
  <2>1. PICK k \in Nat : r = j + (k + 1)
    <3>1. r - 1 - j \in Nat /\ r = j + ((r - 1 - j) + 1)  BY <1>6
    <3> QED  BY <3>1
  <2>2. Pow(2, r) = Pow(2, j) * Pow(2, k + 1)  BY <1>0, <1>6, <2>1, PowAdd
  <2>3. PICK x \in Nat, y \in Nat : x = Pow(2, j) /\ y = Pow(2, k) /\ Pow(2, k + 1) = 2 * y
    BY <1>2, <1>6, PowGrows
  <2>4. n - 1 = d * (x * (2 * y))  BY <1>1, <2>2, <2>3
  <2>5. d * (x * (2 * y)) = (d * x) * (2 * y)  OBVIOUS
  <2> QED  BY <2>3, <2>4, <2>5
<1>9. ASSUME NEW a \in Int, Passes(n, a)
      PROVE  Cong(n, Pow(a, E(j)), 1) \/ Cong(n, Pow(a, E(j)), -1)
  <2>1. \/ Squared(n, a, d, 0) = 1
        \/ \E i \in 0 .. r - 1 : Squared(n, a, d, i) = n - 1
    BY <1>0, <1>1, <1>9, PassesIs
  <2>2. CASE Squared(n, a, d, 0) = 1
    <3>1. Pow(2, 0) = 1  BY <1>0, PowSteps
    <3>2. d * Pow(2, 0) = d  BY <3>1
    <3>3. Pow(a, d) % n = 1  BY <2>2, <3>2 DEF Squared
    <3>4. 1 % n = 1
      <4>1. 1 \in 0 .. n - 1 /\ 1 \in Int  BY <1>0
      <4> QED  BY <1>0, <4>1, SmallMod
    <3>5. Pow(a, d) \in Int /\ Cong(n, Pow(a, d), 1)  BY <3>3, <3>4, PowSteps DEF Cong
    <3>6. Pow(Pow(a, d), Pow(2, j)) = Pow(a, E(j))  BY <1>2, <1>6, PowPow
    <3>7. Cong(n, Pow(Pow(a, d), Pow(2, j)), 1)  BY <1>0, <1>2, <1>6, <3>5, SignPow
    <3> QED  BY <3>6, <3>7
  <2>3. ASSUME NEW i \in 0 .. r - 1, Squared(n, a, d, i) = n - 1
        PROVE  Cong(n, Pow(a, E(j)), 1) \/ Cong(n, Pow(a, E(j)), -1)
    <3>1. i \in Nat /\ E(i) \in Nat  BY <1>2
    <3>2. Pow(a, E(i)) \in Int  BY <3>1, PowSteps
    <3>3. Cong(n, Pow(a, E(i)), -1)
      <4>1. Pow(a, E(i)) % n = n - 1  BY <2>3 DEF Squared
      <4>2. PICK k \in Int : k = -1  OBVIOUS
      <4>3. k \in -n .. -1  BY <1>0, <4>2
      <4>4. k % n = k + n  BY <1>0, <4>3, SmallMod
      <4>5. (-1) % n = n - 1  BY <4>2, <4>4
      <4> QED  BY <4>1, <4>5 DEF Cong
    <3>4. i \in J  BY <3>3
    <3>5. i <= j
      <4> HIDE DEF J
      <4> QED  BY <1>5, <3>4
    <3>6. CASE i = j  BY <3>3, <3>6
    <3>7. CASE i < j
      <4>1. PICK k \in Nat : j = i + (k + 1)
        <5>1. j - i - 1 \in Nat /\ j = i + ((j - i - 1) + 1)  BY <1>6, <3>1, <3>7
        <5> QED  BY <5>1
      <4>2. Pow(2, j) = Pow(2, i) * Pow(2, k + 1)  BY <1>0, <3>1, <4>1, PowAdd
      <4>3. PICK x \in Nat, y \in Nat : x = Pow(2, i) /\ y = Pow(2, k) /\ Pow(2, k + 1) = 2 * y
        BY <1>2, <3>1, PowGrows
      <4>4. E(j) = E(i) * (2 * y)
        <5>1. d * (x * (2 * y)) = (d * x) * (2 * y)  OBVIOUS
        <5> QED  BY <4>2, <4>3, <5>1
      <4>5. 2 * y \in Nat  OBVIOUS
      <4>6. Pow(Pow(a, E(i)), 2 * y) = Pow(a, E(i) * (2 * y))
        <5> HIDE DEF E
        <5> QED  BY <3>1, <4>5, PowPow
      <4>7. Cong(n, Pow(Pow(a, E(i)), 2 * y), 1)
        <5> HIDE DEF E
        <5> QED  BY <1>0, <3>2, <3>3, SignPow
      <4> HIDE DEF E
      <4> QED  BY <4>4, <4>6, <4>7
    <3> QED  BY <1>6, <3>1, <3>5, <3>6, <3>7
  <2> QED  BY <2>1, <2>2, <2>3
<1>10. SignExponent(n, E(j))
  <2> HIDE DEF E, J
  <2> QED  BY <1>6, <1>7, <1>8, <1>9 DEF SignExponent
<1> QED  BY <1>10

(* 1 and -1 differ modulo everything but 1 and 2.                            *)
LEMMA SignsDiffer ==
  ASSUME NEW t \in Nat, t > 2, NEW x \in {1, -1}, NEW y \in {1, -1}, Cong(t, x, y)
  PROVE  x = y
<1>0. t \in Nat \ {0} /\ x \in Int /\ y \in Int  OBVIOUS
<1>1. (x - y) % t = 0  BY <1>0, CongDifference
<1>2. CASE x - y = 2
  <2>1. 2 \in 0 .. t - 1 /\ 2 \in Int  BY <1>0
  <2>2. 2 % t = 2  BY <1>0, <2>1, SmallMod
  <2> QED  BY <1>1, <1>2, <2>2
<1>3. CASE y - x = 2
  <2>1. (y - x) % t = 0  BY <1>0, CongDifference DEF Cong
  <2>2. 2 \in 0 .. t - 1 /\ 2 \in Int  BY <1>0
  <2>3. 2 % t = 2  BY <1>0, <2>2, SmallMod
  <2> QED  BY <1>3, <2>1, <2>3
<1> QED  BY <1>2, <1>3

(* Congruent products have congruent products of powers.                     *)
LEMMA PowersOfTranslates ==
  ASSUME NEW m \in Nat \ {0}, NEW e \in Nat,
         NEW a \in Int, NEW b \in Int, NEW u \in Int, NEW v \in Int, Cong(m, a * u, b * v),
         NEW ae \in Int, NEW be \in Int, NEW ue \in Int, NEW ve \in Int,
         Cong(m, Pow(a, e), ae), Cong(m, Pow(b, e), be),
         Cong(m, Pow(u, e), ue), Cong(m, Pow(v, e), ve)
  PROVE  Cong(m, ae * ue, be * ve)
<1>1. \A x \in {a, b, u, v} : Pow(x, e) \in Int  BY PowSteps
<1>2. a * u \in Int /\ b * v \in Int  OBVIOUS
<1>3. Cong(m, Pow(a * u, e), Pow(b * v, e))  BY <1>2, CongPow
<1>4. Pow(a * u, e) = Pow(a, e) * Pow(u, e) /\ Pow(b * v, e) = Pow(b, e) * Pow(v, e)
  BY PowTimes
<1>5. Cong(m, Pow(a, e) * Pow(u, e), ae * ue)  BY <1>1, CongTimes
<1>6. Cong(m, Pow(b, e) * Pow(v, e), be * ve)  BY <1>1, CongTimes
<1> QED  BY <1>3, <1>4, <1>5, <1>6 DEF Cong

(* The cofactor of a divisor.                                                *)
LEMMA Cofactor ==
  ASSUME NEW n \in Nat \ {0}, NEW d \in Nat \ {0}, n % d = 0
  PROVE  \E m \in Nat \ {0} : n = d * m
<1>1. PICK m \in Int : n = d * m
  <2>1. n \in Int  OBVIOUS
  <2> QED  BY <2>1, ModZero
<1>2. CASE m <= 0
  <2>1. d * m <= 0  BY <1>2
  <2> QED  BY <1>1, <2>1
<1> QED  BY <1>1, <1>2

(* When the square of a prime divides the number, so does the square of the  *)
(* cofactor s of the prime, and 1 + s * i has no power n - 1 but 1 + s * i   *)
(* times a number that the prime does not divide.                            *)
LEMMA SquareFactor ==
  ASSUME NEW p \in Nat, Prime(p), p > 3, NEW s \in Nat \ {0}, s % p = 0,
         NEW n \in Nat, n = p * s, NEW L \in SUBSET (1 .. n - 1),
         \A a \in L : Cong(n, Pow(a, n - 1), 1)
  PROVE  IsFiniteSet(L) /\ 4 * Cardinality(L) <= n - 1
<1>0. p \in Nat \ {0} /\ n \in Nat \ {0, 1} /\ n \in Nat \ {0} /\ n - 1 \in Nat /\ n \in Int
  <2>1. p * s >= p * 1  OBVIOUS
  <2> QED  BY <2>1
<1>1. PICK k \in Nat \ {0} : s = p * k
  <2>0. p \in Nat \ {0} /\ s \in Nat \ {0} /\ s % p = 0  BY <1>0
  <2>1. \E m \in Nat \ {0} : s = p * m  BY <2>0, Cofactor
  <2> QED  BY <2>1
<1>2. s * s = n * k /\ s * s \in Nat \ {0}
  <2>1. s * s = s * (p * k)  BY <1>1
  <2>2. s * (p * k) = (p * s) * k  OBVIOUS
  <2>3. s * s > 0 /\ s * s \in Int  OBVIOUS
  <2> QED  BY <2>1, <2>2, <2>3
<1> DEFINE u == [i \in 1 .. 4 |-> 1 + s * i]
<1>3. u \in [1 .. 4 -> Int]  OBVIOUS
<1>4. ASSUME NEW i \in 1 .. 4 PROVE Cancels(n, 1 + s * i)
  <2>1. PICK x \in Int, y \in Int : x = 1 + s * i /\ y = 1 - s * i  OBVIOUS
  <2>2. x * y = 1 + n * (-(k * (i * i)))
    <3>1. x * y = 1 - (s * s) * (i * i)  BY <2>1
    <3>2. (n * k) * (i * i) = n * (k * (i * i))  BY <1>0
    <3>3. n * (-(k * (i * i))) = -(n * (k * (i * i)))  BY <1>0
    <3> QED  BY <1>0, <1>2, <3>1, <3>2, <3>3
  <2>3. Cong(n, x * y, 1)
    <3>1. -(k * (i * i)) \in Int /\ x * y \in Int /\ 1 \in Int  OBVIOUS
    <3> QED  BY <1>0, <2>2, <3>1, CongMultiple
  <2>4. Cancels(n, x * y)
    <3>1. x * y \in Int  OBVIOUS
    <3> QED  BY <1>0, <2>3, <3>1, OneCancels
  <2>5. ASSUME NEW a \in Int, NEW b \in Int, Cong(n, a * x, b * x) PROVE Cong(n, a, b)
    <3>1. Cong(n, (a * x) * y, (b * x) * y)
      <4>1. a * x \in Int /\ b * x \in Int /\ Cong(n, y, y)  BY DEF Cong
      <4> QED  BY <1>0, <2>5, <4>1, CongTimes
    <3>2. (a * x) * y = a * (x * y) /\ (b * x) * y = b * (x * y)  OBVIOUS
    <3> QED  BY <2>4, <3>1, <3>2 DEF Cancels
  <2> QED  BY <2>1, <2>5 DEF Cancels
<1>5. ASSUME NEW i \in 1 .. 4
      PROVE  1 + s * i \in Int /\ 1 + s * (i * (n - 1)) \in Int
             /\ Cong(n, Pow(1 + s * i, n - 1), 1 + s * (i * (n - 1)))
  <2>1. 1 + s * i \in Int /\ i \in Int /\ 1 + s * (i * (n - 1)) \in Int  BY <1>0
  <2>2. Pow(1 + s * i, n - 1) \in Int  BY <1>0, <2>1, PowSteps
  <2>3. Cong(s * s, Pow(1 + s * i, n - 1), 1 + s * (i * (n - 1)))
    BY <1>0, <2>1, BinomialMod
  <2>4. PICK x \in Int, y \in Int, m \in Nat \ {0} :
          x = Pow(1 + s * i, n - 1) /\ y = 1 + s * (i * (n - 1)) /\ m = s * s
    BY <1>2, <2>1, <2>2
  <2>5. m = n * k /\ k \in Int /\ Cong(m, x, y)  BY <1>2, <2>3, <2>4
  <2>6. Cong(n, x, y)  BY <1>0, <2>5, CongFactor
  <2> QED  BY <2>1, <2>4, <2>6
<1>6. ASSUME NEW i \in 1 .. 4, NEW j \in 1 .. 4, NEW a \in L, NEW b \in L,
             Cong(n, a * (1 + s * i), b * (1 + s * j))
      PROVE  i = j
  <2>0. a \in Int /\ b \in Int /\ 1 \in Int /\ i \in Int /\ j \in Int  BY <1>0
  <2>1. PICK x \in Int, y \in Int, xe \in Int, ye \in Int :
          /\ x = 1 + s * i /\ y = 1 + s * j
          /\ xe = 1 + s * (i * (n - 1)) /\ ye = 1 + s * (j * (n - 1))
    BY <1>5
  <2>2. Cong(n, Pow(x, n - 1), xe) /\ Cong(n, Pow(y, n - 1), ye)  BY <1>5, <2>1
  <2>3. Cong(n, 1 * xe, 1 * ye)
    <3>1. Cong(n, a * x, b * y) /\ Cong(n, Pow(a, n - 1), 1) /\ Cong(n, Pow(b, n - 1), 1)
      BY <1>6, <2>1
    <3> HIDE DEF u
    <3> QED  BY <1>0, <2>0, <2>2, <3>1, PowersOfTranslates
  <2>4. (xe - ye) % n = 0
    <3>1. 1 * xe = xe /\ 1 * ye = ye  OBVIOUS
    <3>2. Cong(n, xe, ye)  BY <2>3, <3>1
    <3> QED  BY <1>0, <3>2, CongDifference
  <2>5. PICK c \in Int : xe - ye = n * c
    <3>1. xe - ye \in Int  OBVIOUS
    <3> QED  BY <1>0, <2>4, <3>1, ModZero
  <2>6. (n - 1) * (i - j) = p * c /\ (n - 1) * (i - j) \in Int
    <3>1. PICK z \in Int : z = (n - 1) * (i - j)  BY <1>0, <2>0
    <3>2. xe - ye = s * z
      <4>1. z = i * (n - 1) - j * (n - 1)  BY <1>0, <2>0, <3>1
      <4>2. PICK zi \in Int, zj \in Int : zi = i * (n - 1) /\ zj = j * (n - 1)
        BY <1>0, <2>0
      <4> QED  BY <2>1, <4>1, <4>2
    <3>3. s * z = s * (p * c)
      <4>1. (p * s) * c = s * (p * c)  OBVIOUS
      <4> QED  BY <2>5, <3>2, <4>1
    <3>4. z = p * c
      <4>1. p * c \in Int /\ s \in Int /\ s # 0  OBVIOUS
      <4> QED  BY <3>3, <4>1
    <3> QED  BY <3>1, <3>4
  <2>7. ((n - 1) * (i - j)) % p = 0  BY <1>0, <2>6, ModZero
  <2>8. (n - 1) % p # 0
    <3>1. SUFFICES ASSUME (n - 1) % p = 0 PROVE FALSE
      OBVIOUS
    <3>2. PICK d \in Int : n - 1 = p * d
      <4>1. n - 1 \in Int  BY <1>0
      <4> QED  BY <1>0, <3>1, <4>1, ModZero
    <3>3. p * (s - d) = 1  BY <3>2
    <3>4. PICK h \in Int : h = s - d /\ p * h = 1  BY <3>3
    <3>5. CASE h <= 0
      <4>1. p * h <= 0  BY <3>5
      <4> QED  BY <3>4, <4>1
    <3>6. CASE h >= 1
      <4>1. p * h >= p  BY <3>6
      <4> QED  BY <3>4, <4>1
    <3> QED  BY <3>5, <3>6
  <2>9. (i - j) % p = 0
    <3>1. n - 1 \in Int /\ i - j \in Int  BY <1>0, <2>0
    <3> QED  BY <2>7, <2>8, <3>1, PrimeDivides
  <2>10. CASE i > j
    <3>1. i - j \in 0 .. p - 1 /\ i - j \in Int  BY <2>10
    <3>2. (i - j) % p = i - j  BY <1>0, <3>1, SmallMod
    <3> QED  BY <2>9, <2>10, <3>2
  <2>11. CASE i < j
    <3>1. i - j \in -p .. -1 /\ i - j \in Int  BY <2>11
    <3>2. (i - j) % p = (i - j) + p  BY <1>0, <3>1, SmallMod
    <3>3. i - j >= -3  OBVIOUS
    <3> QED  BY <2>9, <3>1, <3>2, <3>3
  <2> QED  BY <2>0, <2>10, <2>11
<1>7. \A i \in 1 .. 4 : u[i] = 1 + s * i  OBVIOUS
<1> HIDE DEF u
<1>8. \A i \in 1 .. 4 : Cancels(n, u[i])  BY <1>4, <1>7
<1>9. \A i, j \in 1 .. 4 : \A a, b \in L : Cong(n, a * u[i], b * u[j]) => i = j
  BY <1>6, <1>7
<1>10. n \in Nat \ {0, 1} /\ L \in SUBSET (1 .. n - 1)  BY <1>0
<1> QED  BY <1>3, <1>8, <1>9, <1>10, FourTranslates

(* What is 1 modulo one factor and a0 modulo the other.                      *)
LEMMA Selector ==
  ASSUME NEW p \in Nat, Prime(p), NEW m \in Nat \ {0}, m % p # 0, NEW n \in Nat, n = p * m,
         NEW a0 \in Int, NEW e \in Nat \ {0}, Cong(n, Pow(a0, e), -1)
  PROVE  \E u \in Int : /\ Cong(m, u, 1)
                        /\ Cong(m, Pow(u, e), 1)
                        /\ Cong(p, Pow(u, e), -1)
                        /\ Cancels(n, u)
<1>0. p \in Nat \ {0} /\ p > 1 /\ 1 \in Int /\ -1 \in Int /\ m \in Int  BY DEF Prime
<1>1. n \in Nat \ {0}
  <2>1. p * m > 0 /\ p * m \in Int  BY <1>0
  <2> QED  BY <2>1
<1>2. PICK u \in Int : Cong(p, u, a0) /\ Cong(m, u, 1)  BY <1>0, Chinese
<1>3. Cong(m, Pow(u, e), 1)  BY <1>0, <1>2, SignPow
<1>4. Pow(a0, e) \in Int /\ Pow(u, e) \in Int  BY PowSteps
<1>5. Cong(p, Pow(u, e), -1)
  <2>1. Cong(p, Pow(a0, e), -1)  BY <1>0, <1>1, <1>4, CongFactor
  <2>2. Cong(p, Pow(u, e), Pow(a0, e))  BY <1>0, <1>2, CongPow
  <2> QED  BY <2>1, <2>2 DEF Cong
<1>6. u % p # 0
  <2> SUFFICES ASSUME u % p = 0 PROVE FALSE
    OBVIOUS
  <2>1. PICK k \in Nat : e = k + 1
    <3>1. e - 1 \in Nat /\ e = (e - 1) + 1  OBVIOUS
    <3> QED  BY <3>1
  <2>2. Pow(u, e) = u * Pow(u, k) /\ Pow(u, k) \in Int  BY <2>1, PowSteps
  <2>3. 0 % p = 0 /\ 0 \in Int
    <3>1. 0 \in 0 .. p - 1 /\ 0 \in Int  BY <1>0
    <3> QED  BY <1>0, <3>1, SmallMod
  <2>4. Cong(p, u, 0) /\ Cong(p, Pow(u, k), Pow(u, k))  BY <2>3 DEF Cong
  <2>5. Cong(p, u * Pow(u, k), 0 * Pow(u, k))  BY <1>0, <2>2, <2>3, <2>4, CongTimes
  <2>6. Pow(u, e) % p = 0
    <3>1. 0 * Pow(u, k) = 0  BY <2>2
    <3> QED  BY <2>2, <2>3, <2>5, <3>1 DEF Cong
  <2>7. PICK x \in Int : x = -1  OBVIOUS
  <2>8. x % p = x + p
    <3>1. x \in -p .. -1  BY <1>0, <2>7
    <3> QED  BY <1>0, <3>1, SmallMod
  <2> QED  BY <1>0, <1>5, <2>6, <2>7, <2>8 DEF Cong
<1>7. Cancels(p, u)  BY <1>6, PrimeCancelsIt
<1>8. Cancels(m, u)  BY <1>2, OneCancels
<1>9. Cancels(n, u)  BY <1>7, <1>8, ChineseCancels
<1> QED  BY <1>2, <1>3, <1>5, <1>9

(* The four translates 1, u, v and u * v by two numbers that cancel.         *)
LEMMA FourProducts ==
  ASSUME NEW n \in Nat \ {0, 1}, NEW L \in SUBSET (1 .. n - 1), NEW u \in Int, NEW v \in Int,
         Cancels(n, u), Cancels(n, v),
         \A a, b \in L : ~Cong(n, a, b * u) /\ ~Cong(n, a, b * v)
                         /\ ~Cong(n, a, b * (u * v)) /\ ~Cong(n, a * u, b * v)
  PROVE  IsFiniteSet(L) /\ 4 * Cardinality(L) <= n - 1
<1>0. n \in Nat \ {0} /\ 1 \in Int /\ n \in Int  OBVIOUS
<1>1. PICK w \in [1 .. 4 -> Int] : w[1] = 1 /\ w[2] = u /\ w[3] = v /\ w[4] = u * v
  <2>1. <<1, u, v, u * v>> \in [1 .. 4 -> Int]  OBVIOUS
  <2> QED  BY <2>1
<1>2. \A i \in 1 .. 4 : Cancels(n, w[i])
  <2>1. Cancels(n, 1)
    <3>1. Cong(n, 1, 1)  BY DEF Cong
    <3> QED  BY <1>0, <3>1, OneCancels
  <2>2. Cancels(n, u * v)  BY ProductCancels
  <2>3. \A i \in 1 .. 4 : i = 1 \/ i = 2 \/ i = 3 \/ i = 4  OBVIOUS
  <2> QED  BY <1>1, <2>1, <2>2, <2>3
<1>3. ASSUME NEW a \in L, NEW b \in L, NEW i \in 1 .. 4, NEW j \in 1 .. 4, i < j,
             Cong(n, a * w[i], b * w[j])
      PROVE  FALSE
  <2>0. a \in Int /\ b \in Int /\ a * 1 = a /\ u * v \in Int  BY <1>0
  <2>1. (i = 1 /\ j = 2) \/ (i = 1 /\ j = 3) \/ (i = 1 /\ j = 4)
        \/ (i = 2 /\ j = 3) \/ (i = 2 /\ j = 4) \/ (i = 3 /\ j = 4)
    BY <1>3
  <2>2. CASE i = 2 /\ j = 4
    <3>1. Cong(n, a * u, (b * v) * u)
      <4>1. b * (u * v) = (b * v) * u  BY <2>0
      <4> QED  BY <1>1, <1>3, <2>2, <4>1
    <3>2. b * v \in Int  BY <2>0
    <3>3. Cong(n, a, b * v)  BY <2>0, <3>1, <3>2 DEF Cancels
    <3> QED  BY <3>3
  <2>3. CASE i = 3 /\ j = 4
    <3>1. Cong(n, a * v, (b * u) * v)
      <4>1. b * (u * v) = (b * u) * v  BY <2>0
      <4> QED  BY <1>1, <1>3, <2>3, <4>1
    <3>2. b * u \in Int  BY <2>0
    <3>3. Cong(n, a, b * u)  BY <2>0, <3>1, <3>2 DEF Cancels
    <3> QED  BY <3>3
  <2> QED  BY <1>1, <1>3, <2>0, <2>1, <2>2, <2>3
<1>4. \A i, j \in 1 .. 4 : \A a, b \in L : Cong(n, a * w[i], b * w[j]) => i = j
  <2> SUFFICES ASSUME NEW i \in 1 .. 4, NEW j \in 1 .. 4, NEW a \in L, NEW b \in L,
                      Cong(n, a * w[i], b * w[j]), i # j
               PROVE  FALSE
    OBVIOUS
  <2>1. Cong(n, b * w[j], a * w[i])  BY DEF Cong
  <2>2. i < j \/ j < i  OBVIOUS
  <2> QED  BY <1>3, <2>1, <2>2
<1> QED  BY <1>2, <1>4, FourTranslates

(* Three factors with no common divisor: the power of each of the translates *)
(* has its own signs modulo the two primes, and always 1 modulo the rest.    *)
LEMMA ThreeFactors ==
  ASSUME NEW p \in Nat, Prime(p), p > 2, NEW q \in Nat, Prime(q), q > 2,
         NEW t \in Nat, t > 2, p # q, t % p # 0, t % q # 0, NEW n \in Nat, n = p * (q * t),
         NEW L \in SUBSET (1 .. n - 1), NEW e \in Nat \ {0},
         \E a \in Int : Cong(n, Pow(a, e), -1),
         \A a \in L : Cong(n, Pow(a, e), 1) \/ Cong(n, Pow(a, e), -1)
  PROVE  IsFiniteSet(L) /\ 4 * Cardinality(L) <= n - 1
<1>0. p \in Nat \ {0} /\ q \in Nat \ {0} /\ t \in Nat \ {0} /\ e \in Nat
      /\ p \in Int /\ q \in Int /\ t \in Int
  OBVIOUS
<1>1. /\ q * t \in Nat \ {0} /\ p * t \in Nat \ {0} /\ p * q \in Nat \ {0}
      /\ n \in Nat \ {0} /\ n \in Nat \ {0, 1} /\ n = q * (p * t) /\ n = t * (p * q)
      /\ q * t \in Int /\ p * t \in Int /\ p * q \in Int
  <2>1. \A x, y \in Nat \ {0} : x * y \in Nat /\ x * y > 0 /\ x * y >= x  OBVIOUS
  <2>2. q * t \in Nat \ {0} /\ p * t \in Nat \ {0} /\ p * q \in Nat \ {0}  BY <1>0, <2>1
  <2>3. n \in Nat /\ n >= p  BY <1>0, <2>1, <2>2
  <2>4. p * (q * t) = q * (p * t) /\ p * (q * t) = t * (p * q)  BY <1>0
  <2> QED  BY <2>2, <2>3, <2>4
<1>2. (q * t) % p # 0
  <2>1. q % p # 0  BY PrimeOfPrime
  <2> QED  BY <1>0, <2>1, PrimeDivides
<1>3. (p * t) % q # 0
  <2>1. p % q # 0  BY PrimeOfPrime
  <2> QED  BY <1>0, <2>1, PrimeDivides
<1>4. PICK a0 \in Int : Cong(n, Pow(a0, e), -1)  OBVIOUS
<1>5. PICK u \in Int : /\ Cong(q * t, u, 1) /\ Cong(q * t, Pow(u, e), 1)
                       /\ Cong(p, Pow(u, e), -1) /\ Cancels(n, u)
  BY <1>1, <1>2, <1>4, Selector
<1>6. PICK v \in Int : /\ Cong(p * t, v, 1) /\ Cong(p * t, Pow(v, e), 1)
                       /\ Cong(q, Pow(v, e), -1) /\ Cancels(n, v)
  BY <1>1, <1>3, <1>4, Selector
<1> DEFINE Sign == {1, -1}
<1>7. PICK s \in [L -> Sign] : \A a \in L : Cong(n, Pow(a, e), s[a])
  <2> DEFINE s == [a \in L |-> IF Cong(n, Pow(a, e), 1) THEN 1 ELSE -1]
  <2>1. s \in [L -> Sign] /\ \A a \in L : Cong(n, Pow(a, e), s[a])  OBVIOUS
  <2> QED  BY <2>1
<1>8. \A a \in L : /\ Cong(p, Pow(a, e), s[a]) /\ Cong(q, Pow(a, e), s[a])
                   /\ Cong(t, Pow(a, e), s[a]) /\ a \in Int /\ s[a] \in Int
  <2> SUFFICES ASSUME NEW a \in L
               PROVE  /\ Cong(p, Pow(a, e), s[a]) /\ Cong(q, Pow(a, e), s[a])
                      /\ Cong(t, Pow(a, e), s[a]) /\ a \in Int /\ s[a] \in Int
    OBVIOUS
  <2>1. a \in Int /\ s[a] \in Int  BY <1>1
  <2>2. PICK x \in Int, y \in Int : x = Pow(a, e) /\ y = s[a]  BY <1>0, <2>1, PowSteps
  <2>3. Cong(n, x, y)  BY <1>7, <2>2
  <2>4. Cong(p, x, y)  BY <1>0, <1>1, <2>3, CongFactor
  <2>5. Cong(q, x, y)  BY <1>0, <1>1, <2>3, CongFactor
  <2>6. Cong(t, x, y)  BY <1>0, <1>1, <2>3, CongFactor
  <2> QED  BY <2>1, <2>2, <2>4, <2>5, <2>6
<1>9. Cong(q, Pow(u, e), 1) /\ Cong(t, Pow(u, e), 1) /\ Pow(u, e) \in Int
  <2>1. Pow(u, e) \in Int /\ 1 \in Int /\ q * t = t * q  BY <1>0, PowSteps
  <2>2. PICK m \in Nat \ {0} : m = q * t  BY <1>1
  <2> QED  BY <1>0, <1>5, <2>1, <2>2, CongFactor
<1>10. Cong(p, Pow(v, e), 1) /\ Cong(t, Pow(v, e), 1) /\ Pow(v, e) \in Int
  <2>1. Pow(v, e) \in Int /\ 1 \in Int /\ p * t = t * p  BY <1>0, PowSteps
  <2>2. PICK m \in Nat \ {0} : m = p * t  BY <1>1
  <2> QED  BY <1>0, <1>6, <2>1, <2>2, CongFactor
<1>11. Pow(1, e) = 1 /\ Cong(p, 1, 1) /\ Cong(q, 1, 1) /\ Cong(t, 1, 1)
  <2>1. 1 \in Nat \ {0}  OBVIOUS
  <2> QED  BY <1>0, <2>1, PowPositive DEF Cong
<1>12. /\ u * v \in Int /\ Cong(p, Pow(u * v, e), -1) /\ Cong(q, Pow(u * v, e), -1)
       /\ Cong(t, Pow(u * v, e), 1)
  <2>1. PICK x \in Int, y \in Int, z \in Int : x = Pow(u, e) /\ y = Pow(v, e) /\ z = -1
    BY <1>9, <1>10
  <2>2. Pow(u * v, e) = x * y  BY <1>0, <2>1, PowTimes
  <2>3. Cong(p, x, z) /\ Cong(p, y, 1) /\ Cong(q, x, 1) /\ Cong(q, y, z)
        /\ Cong(t, x, 1) /\ Cong(t, y, 1) /\ 1 \in Int
    BY <1>5, <1>6, <1>9, <1>10, <2>1
  <2>4. Cong(p, x * y, z * 1) /\ Cong(q, x * y, 1 * z) /\ Cong(t, x * y, 1 * 1)
    BY <1>0, <2>3, CongTimes
  <2>5. z * 1 = -1 /\ 1 * z = -1 /\ 1 * 1 = 1  BY <2>1
  <2> QED  BY <2>2, <2>4, <2>5
<1>13. ASSUME NEW a \in L, NEW b \in L, NEW x \in Int, NEW y \in Int, Cong(n, a * x, b * y),
              NEW xp \in Sign, NEW yp \in Sign, NEW xq \in Sign, NEW yq \in Sign,
              Cong(p, Pow(x, e), xp), Cong(q, Pow(x, e), xq), Cong(t, Pow(x, e), 1),
              Cong(p, Pow(y, e), yp), Cong(q, Pow(y, e), yq), Cong(t, Pow(y, e), 1)
       PROVE  xp = yp /\ xq = yq
  <2>0. /\ a \in Int /\ b \in Int /\ a * x \in Int /\ b * y \in Int /\ 1 \in Int
        /\ s[a] \in Int /\ s[b] \in Int /\ s[a] \in Sign /\ s[b] \in Sign
        /\ xp \in Int /\ yp \in Int /\ xq \in Int /\ yq \in Int
    BY <1>1
  <2>1. PICK sa \in Int, sb \in Int : sa = s[a] /\ sb = s[b]  BY <2>0
  <2>2. /\ Cong(p, Pow(a, e), sa) /\ Cong(q, Pow(a, e), sa) /\ Cong(t, Pow(a, e), sa)
        /\ Cong(p, Pow(b, e), sb) /\ Cong(q, Pow(b, e), sb) /\ Cong(t, Pow(b, e), sb)
    BY <1>8, <2>1
  <2>3. Cong(p, a * x, b * y) /\ Cong(q, a * x, b * y) /\ Cong(t, a * x, b * y)
    <3>1. Cong(p, a * x, b * y)  BY <1>0, <1>1, <1>13, <2>0, CongFactor
    <3>2. Cong(q, a * x, b * y)  BY <1>0, <1>1, <1>13, <2>0, CongFactor
    <3>3. Cong(t, a * x, b * y)  BY <1>0, <1>1, <1>13, <2>0, CongFactor
    <3> QED  BY <3>1, <3>2, <3>3
  <2> HIDE DEF Sign
  <2>4. sa = sb
    <3>1. Cong(t, sa * 1, sb * 1)
      BY <1>0, <1>13, <2>0, <2>2, <2>3, PowersOfTranslates
    <3>2. sa * 1 = sa /\ sb * 1 = sb /\ sa \in {1, -1} /\ sb \in {1, -1}
      BY <2>0, <2>1 DEF Sign
    <3> QED  BY <3>1, <3>2, SignsDiffer
  <2>5. sa \in {1, -1} /\ xp \in {1, -1} /\ yp \in {1, -1} /\ xq \in {1, -1} /\ yq \in {1, -1}
    BY <2>0, <2>1 DEF Sign
  <2>6. \A x1, x2 \in {1, -1} :
          /\ sa * x1 \in {1, -1} /\ sa * x2 \in {1, -1}
          /\ sa * x1 = sa * x2 => x1 = x2
    BY <2>5
  <2>7. xp = yp
    <3>1. Cong(p, sa * xp, sb * yp)
      BY <1>0, <1>13, <2>0, <2>2, <2>3, PowersOfTranslates
    <3>2. sa * xp = sa * yp
      <4>1. PICK d \in {1, -1}, g \in {1, -1} : d = sa * xp /\ g = sa * yp  BY <2>5, <2>6
      <4>2. Cong(p, d, g)  BY <2>4, <3>1, <4>1
      <4> QED  BY <4>1, <4>2, SignsDiffer
    <3> QED  BY <2>5, <2>6, <3>2
  <2>8. xq = yq
    <3>1. Cong(q, sa * xq, sb * yq)
      BY <1>0, <1>13, <2>0, <2>2, <2>3, PowersOfTranslates
    <3>2. sa * xq = sa * yq
      <4>1. PICK d \in {1, -1}, g \in {1, -1} : d = sa * xq /\ g = sa * yq  BY <2>5, <2>6
      <4>2. Cong(q, d, g)  BY <2>4, <3>1, <4>1
      <4> QED  BY <4>1, <4>2, SignsDiffer
    <3> QED  BY <2>5, <2>6, <3>2
  <2> QED  BY <2>7, <2>8
<1>14. ASSUME NEW a \in L, NEW b \in L
       PROVE  ~Cong(n, a, b * u) /\ ~Cong(n, a, b * v)
              /\ ~Cong(n, a, b * (u * v)) /\ ~Cong(n, a * u, b * v)
  <2>0. a * 1 = a /\ 1 \in Int /\ 1 \in Sign /\ -1 \in Sign /\ 1 # -1  BY <1>8
  <2>1. PICK minus \in Sign : minus = -1  BY <2>0
  <2> HIDE DEF Sign
  <2>2. ASSUME Cong(n, a * 1, b * u) PROVE FALSE
    <3>1. 1 = minus /\ 1 = 1  BY <1>5, <1>9, <1>11, <1>13, <2>0, <2>1, <2>2
    <3> QED  BY <2>0, <2>1, <3>1
  <2>3. ASSUME Cong(n, a * 1, b * v) PROVE FALSE
    <3>1. 1 = 1 /\ 1 = minus  BY <1>6, <1>10, <1>11, <1>13, <2>0, <2>1, <2>3
    <3> QED  BY <2>0, <2>1, <3>1
  <2>4. ASSUME Cong(n, a * 1, b * (u * v)) PROVE FALSE
    <3>1. 1 = minus /\ 1 = minus  BY <1>11, <1>12, <1>13, <2>0, <2>1, <2>4
    <3> QED  BY <2>0, <2>1, <3>1
  <2>5. ASSUME Cong(n, a * u, b * v) PROVE FALSE
    <3>1. minus = 1 /\ 1 = minus  BY <1>5, <1>6, <1>9, <1>10, <1>13, <2>0, <2>1, <2>5
    <3> QED  BY <2>0, <2>1, <3>1
  <2> QED  BY <2>0, <2>2, <2>3, <2>4, <2>5
<1> QED  BY <1>1, <1>5, <1>6, <1>14, FourProducts

(* All that pass have 1 as their power of n - 1.                             *)
LEMMA RootOfOne ==
  ASSUME NEW n \in Nat, n > 1, NEW e, SignExponent(n, e), NEW a \in Int,
         Cong(n, Pow(a, e), 1) \/ Cong(n, Pow(a, e), -1)
  PROVE  Cong(n, Pow(a, n - 1), 1)
<1>0. n \in Nat \ {0} /\ e \in Nat  BY DEF SignExponent
<1>1. PICK f \in Nat : n - 1 = e * (2 * f)  BY DEF SignExponent
<1>2. Pow(a, e) \in Int /\ 2 * f \in Nat  BY <1>0, PowSteps
<1>3. Pow(Pow(a, e), 2 * f) = Pow(a, n - 1)  BY <1>0, <1>1, <1>2, PowPow
<1>4. Cong(n, Pow(Pow(a, e), 2 * f), 1)
  <2>1. Cong(n, Pow(a, e), 1) => Cong(n, Pow(Pow(a, e), 2 * f), 1)  BY <1>0, <1>2, SignPow
  <2>2. Cong(n, Pow(a, e), -1) => Cong(n, Pow(Pow(a, e), 2 * f), 1)  BY <1>0, <1>2, SignPow
  <2> QED  BY <2>1, <2>2
<1> QED  BY <1>3, <1>4

(* Two primes: the larger tells apart, by the power of n - 1, a number whose *)
(* power of p - 1 is not 1 from all that pass, and the signs tell the rest.  *)
LEMMA TwoFactors ==
  ASSUME NEW p \in Nat, Prime(p), p > 2, NEW q \in Nat, Prime(q), p < q, NEW n \in Nat, n = p * q,
         NEW L \in SUBSET (1 .. n - 1), NEW e \in Nat \ {0},
         \E a \in Int : Cong(n, Pow(a, e), -1),
         \A a \in L : Cong(n, Pow(a, e), 1) \/ Cong(n, Pow(a, e), -1),
         \A a \in L : Cong(n, Pow(a, n - 1), 1)
  PROVE  IsFiniteSet(L) /\ 4 * Cardinality(L) <= n - 1
<1>0. p \in Nat \ {0} /\ q \in Nat \ {0} /\ e \in Nat /\ p \in Int /\ q \in Int
      /\ p - 1 \in Nat \ {0} /\ (p - 1) + 1 < q /\ q > 2 /\ 1 \in Int /\ -1 \in Int
  OBVIOUS
<1>1. /\ n \in Nat \ {0} /\ n \in Nat \ {0, 1} /\ n = q * p /\ n - 1 \in Nat
      /\ n - 1 = (q - 1) * p + (p - 1) /\ q - 1 \in Nat /\ (q - 1) * p \in Nat
  <2>1. p * q >= q /\ p * q \in Nat /\ p * q = q * p  BY <1>0
  <2>2. q - 1 \in Nat /\ (q - 1) * p = q * p - p  BY <1>0
  <2>3. (q - 1) * p \in Nat  BY <1>0, <2>2
  <2> QED  BY <1>0, <2>1, <2>2, <2>3
<1>2. p % q # 0 /\ q % p # 0  BY PrimeOfPrime
<1>3. PICK a0 \in Int : Cong(n, Pow(a0, e), -1)  OBVIOUS
<1>4. PICK u \in Int : /\ Cong(q, u, 1) /\ Cong(q, Pow(u, e), 1)
                       /\ Cong(p, Pow(u, e), -1) /\ Cancels(n, u)
  BY <1>0, <1>2, <1>3, Selector
<1>5. PICK v0 \in 1 .. q - 1 : ~Cong(q, Pow(v0, p - 1), 1)  BY <1>0, PowerNotOne
<1>6. v0 \in Int /\ v0 % q # 0
  <2>1. v0 \in 0 .. q - 1 /\ v0 \in Int /\ v0 # 0  OBVIOUS
  <2> QED  BY <1>0, <2>1, SmallMod
<1>7. PICK v \in Int : Cong(p, v, 1) /\ Cong(q, v, v0)
  <2>1. \E z \in Int : Cong(q, z, v0) /\ Cong(p, z, 1)  BY <1>0, <1>2, <1>6, Chinese
  <2> QED  BY <2>1
<1>8. Cancels(n, v)
  <2>1. v % q # 0  BY <1>6, <1>7 DEF Cong
  <2>2. Cancels(q, v)  BY <2>1, PrimeCancelsIt
  <2>3. Cancels(p, v)  BY <1>0, <1>7, OneCancels
  <2> QED  BY <1>0, <1>1, <1>2, <2>2, <2>3, ChineseCancels
<1>9. PICK c \in Int : c = Pow(v, n - 1) /\ ~Cong(q, c, 1)
  <2>1. Pow(v, n - 1) \in Int  BY <1>1, PowSteps
  <2>2. Cong(q, Pow(v, n - 1), Pow(v0, n - 1))  BY <1>0, <1>1, <1>6, <1>7, CongPow
  <2>3. Pow(v0, n - 1) = Pow(v0, (q - 1) * p) * Pow(v0, p - 1)
    <3>1. PICK x \in Nat, y \in Nat : x = (q - 1) * p /\ y = p - 1  BY <1>0, <1>1
    <3>2. n - 1 = x + y  BY <1>1, <3>1
    <3>3. Pow(v0, x + y) = Pow(v0, x) * Pow(v0, y)  BY <1>6, PowAdd
    <3> QED  BY <3>1, <3>2, <3>3
  <2>4. Pow(v0, (q - 1) * p) = Pow(Pow(v0, q - 1), p)  BY <1>0, <1>1, <1>6, PowPow
  <2>5. Cong(q, Pow(v0, q - 1), 1)
    <3>1. Pow(v0, q - 1) % q = 1  BY <1>6, Fermat
    <3>2. 1 \in 0 .. q - 1  BY <1>0
    <3>3. 1 % q = 1  BY <1>0, <3>2, SmallMod
    <3> QED  BY <3>1, <3>3 DEF Cong
  <2>6. PICK x \in Int, y \in Int : x = Pow(Pow(v0, q - 1), p) /\ y = Pow(v0, p - 1)
    <3>1. Pow(v0, q - 1) \in Int /\ p - 1 \in Nat  BY <1>0, <1>1, <1>6, PowSteps
    <3> QED  BY <1>6, <3>1, PowSteps
  <2>7. Cong(q, x, 1)
    <3>1. Pow(v0, q - 1) \in Int  BY <1>1, <1>6, PowSteps
    <3> QED  BY <1>0, <2>5, <2>6, <3>1, SignPow
  <2>8. Cong(q, x * y, 1 * y)
    <3>1. Cong(q, y, y)  BY DEF Cong
    <3> QED  BY <1>0, <2>7, <3>1, CongTimes
  <2>9. Cong(q, Pow(v, n - 1), y)
    <3>1. Pow(v0, n - 1) = x * y /\ 1 * y = y  BY <2>3, <2>4, <2>6
    <3> QED  BY <2>2, <2>8, <3>1 DEF Cong
  <2> QED  BY <1>5, <2>1, <2>6, <2>9 DEF Cong
<1>10. /\ Cong(q, Pow(v, n - 1), c) /\ Cong(q, Pow(u, n - 1), 1)
       /\ Pow(1, n - 1) = 1 /\ Cong(q, Pow(1, n - 1), 1) /\ Pow(1, e) = 1
  <2>1. 1 \in Nat \ {0}  OBVIOUS
  <2>2. Pow(1, n - 1) = 1 /\ Pow(1, e) = 1  BY <1>0, <1>1, <2>1, PowPositive
  <2>3. Cong(q, Pow(u, n - 1), 1)  BY <1>0, <1>1, <1>4, SignPow
  <2> QED  BY <1>9, <2>2, <2>3 DEF Cong
<1>11. Cong(q, Pow(u * v, n - 1), c) /\ u * v \in Int
  <2>1. PICK x \in Int : x = Pow(u, n - 1)  BY <1>1, PowSteps
  <2>2. Pow(u * v, n - 1) = x * c  BY <1>1, <1>9, <2>1, PowTimes
  <2>3. Cong(q, x * c, 1 * c)
    <3>1. Cong(q, c, c) /\ Cong(q, x, 1)  BY <1>10, <2>1 DEF Cong
    <3> QED  BY <1>0, <3>1, CongTimes
  <2> QED  BY <2>2, <2>3
<1>12. ASSUME NEW a \in L, NEW b \in L, NEW x \in Int, NEW y \in Int, Cong(n, a * x, b * y),
              Cong(q, Pow(x, n - 1), 1), Cong(q, Pow(y, n - 1), c)
       PROVE  FALSE
  <2>1. a \in Int /\ b \in Int /\ a * x \in Int /\ b * y \in Int  BY <1>1
  <2>2. PICK ae \in Int, be \in Int : ae = Pow(a, n - 1) /\ be = Pow(b, n - 1)
    BY <1>1, <2>1, PowSteps
  <2>3. Cong(n, ae, 1) /\ Cong(n, be, 1)  BY <2>2
  <2>4. Cong(q, ae, 1) /\ Cong(q, be, 1)  BY <1>0, <1>1, <2>3, CongFactor
  <2>5. Cong(q, a * x, b * y)  BY <1>0, <1>1, <1>12, <2>1, CongFactor
  <2>6. PICK k \in Nat, xe \in Int, ye \in Int :
          k = n - 1 /\ xe = Pow(x, n - 1) /\ ye = Pow(y, n - 1)
    BY <1>1, PowSteps
  <2>7. Cong(q, Pow(a * x, k), Pow(b * y, k))  BY <1>0, <2>1, <2>5, CongPow
  <2>8. Pow(a * x, k) = ae * xe /\ Pow(b * y, k) = be * ye
    <3>1. Pow(a, k) = ae /\ Pow(x, k) = xe /\ Pow(b, k) = be /\ Pow(y, k) = ye
      BY <2>2, <2>6
    <3>2. Pow(a * x, k) = Pow(a, k) * Pow(x, k)  BY <2>1, PowTimes
    <3>3. Pow(b * y, k) = Pow(b, k) * Pow(y, k)  BY <2>1, PowTimes
    <3> QED  BY <3>1, <3>2, <3>3
  <2>9. Cong(q, ae * xe, 1 * 1) /\ Cong(q, be * ye, 1 * c)
    <3>1. Cong(q, xe, 1) /\ Cong(q, ye, c)  BY <1>12, <2>6
    <3> QED  BY <1>0, <2>4, <3>1, CongTimes
  <2>10. 1 * 1 = 1 /\ 1 * c = c  OBVIOUS
  <2> QED  BY <1>9, <2>7, <2>8, <2>9, <2>10 DEF Cong
<1>13. ASSUME NEW a \in L, NEW b \in L, Cong(n, a * 1, b * u) PROVE FALSE
  <2>1. a \in Int /\ b \in Int /\ a * 1 \in Int /\ b * u \in Int  BY <1>1
  <2>2. PICK d \in {1, -1}, g \in {1, -1} : Cong(n, Pow(a, e), d) /\ Cong(n, Pow(b, e), g)
    OBVIOUS
  <2>3. PICK ae \in Int, be \in Int : ae = Pow(a, e) /\ be = Pow(b, e)
    BY <1>0, <2>1, PowSteps
  <2>4. Cong(n, ae, d) /\ Cong(n, be, g) /\ d \in Int /\ g \in Int  BY <2>2, <2>3
  <2>5. Cong(q, ae, d) /\ Cong(q, be, g) /\ Cong(q, a * 1, b * u)
    BY <1>0, <1>1, <1>13, <2>1, <2>4, CongFactor
  <2>6. Cong(p, ae, d) /\ Cong(p, be, g) /\ Cong(p, a * 1, b * u)
    BY <1>0, <1>1, <1>13, <2>1, <2>4, CongFactor
  <2>7. PICK minus \in Int : minus = -1  OBVIOUS
  <2>8. Cong(q, d * 1, g * 1)
    <3>1. Cong(q, Pow(1, e), 1)  BY <1>10 DEF Cong
    <3> QED  BY <1>0, <1>4, <2>1, <2>3, <2>4, <2>5, <3>1, PowersOfTranslates
  <2>9. Cong(p, d * 1, g * minus)
    <3>1. Cong(p, Pow(1, e), 1)  BY <1>10 DEF Cong
    <3>2. Cong(p, Pow(a, e), d) /\ Cong(p, Pow(b, e), g) /\ Cong(p, Pow(u, e), minus)
          /\ p \in Nat \ {0} /\ e \in Nat /\ 1 \in Int
      BY <1>0, <1>4, <2>3, <2>6, <2>7
    <3> QED  BY <2>1, <2>4, <2>6, <3>1, <3>2, PowersOfTranslates
  <2>10. d = g
    <3>1. d * 1 = d /\ g * 1 = g  BY <2>4
    <3> QED  BY <1>0, <2>8, <3>1, SignsDiffer
  <2>11. d * 1 = g * minus
    <3>1. d * 1 \in {1, -1} /\ g * minus \in {1, -1}  BY <2>7
    <3> QED  BY <2>9, <3>1, SignsDiffer
  <2> QED  BY <2>4, <2>7, <2>10, <2>11
<1>14. ASSUME NEW a \in L, NEW b \in L
       PROVE  ~Cong(n, a, b * u) /\ ~Cong(n, a, b * v)
              /\ ~Cong(n, a, b * (u * v)) /\ ~Cong(n, a * u, b * v)
  <2>1. a * 1 = a  BY <1>1
  <2> QED  BY <1>0, <1>10, <1>11, <1>12, <1>13, <2>1
<1> QED  BY <1>1, <1>4, <1>8, <1>14, FourProducts

(* A composite number that 2 and 3 do not divide: at most a quarter of the   *)
(* numbers below it are false witnesses of its primality.                    *)
THEOREM FewLiars ==
  ASSUME NEW n \in Nat, n > 1, ~Prime(n), n % 2 # 0, n % 3 # 0
  PROVE  LET L == {a \in 1 .. n - 1 : Passes(n, a)}
         IN  IsFiniteSet(L) /\ 4 * Cardinality(L) <= n - 1
<1> DEFINE L == {a \in 1 .. n - 1 : Passes(n, a)}
<1>0. n \in Nat \ {0} /\ n \in Nat \ {0, 1} /\ n \in Int  OBVIOUS
<1>1. PICK e : SignExponent(n, e)  BY SignExponentExists
<1>2. e \in Nat \ {0}
  <2>1. e \in Nat /\ \E f \in Nat : n - 1 = e * (2 * f)  BY <1>1 DEF SignExponent
  <2> QED  BY <2>1
<1>3. /\ \E a \in Int : Cong(n, Pow(a, e), -1)
      /\ \A a \in L : Cong(n, Pow(a, e), 1) \/ Cong(n, Pow(a, e), -1)
  BY <1>1 DEF SignExponent
<1>4. \A a \in L : Cong(n, Pow(a, n - 1), 1)
  <2> SUFFICES ASSUME NEW a \in L PROVE Cong(n, Pow(a, n - 1), 1)
    OBVIOUS
  <2>1. a \in Int  OBVIOUS
  <2> QED  BY <1>1, <1>3, <2>1, RootOfOne
<1>5. L \in SUBSET (1 .. n - 1)  OBVIOUS
<1> DEFINE Few == IsFiniteSet(L) /\ 4 * Cardinality(L) <= n - 1
<1> SUFFICES Few
  OBVIOUS
<1> HIDE DEF L
<1>6. \A d \in Nat : Prime(d) /\ n % d = 0 => d \in Nat \ {0} /\ d > 3
  <2> SUFFICES ASSUME NEW d \in Nat, Prime(d), n % d = 0 PROVE d \in Nat \ {0} /\ d > 3
    OBVIOUS
  <2>1. d > 1  BY DEF Prime
  <2>2. d # 2 /\ d # 3  OBVIOUS
  <2> QED  BY <2>1, <2>2
<1>7. PICK p \in Nat : Prime(p) /\ n % p = 0  BY PrimeDivisor
<1>8. p \in Nat \ {0} /\ p > 3  BY <1>6, <1>7
<1>9. PICK m \in Nat \ {0} : n = p * m  BY <1>0, <1>7, <1>8, Cofactor
<1>10. m # 1 /\ m > 1
  <2>1. p * 1 = p  BY <1>8
  <2> QED  BY <1>7, <1>9, <2>1
<1>11. CASE m % p = 0
  <2>1. Few  BY <1>4, <1>5, <1>7, <1>8, <1>9, <1>11, SquareFactor
  <2> QED  BY <2>1
<1>12. CASE m % p # 0 /\ Prime(m)
  <2>1. m # p
    <3>1. p % p = 0
      <4>1. p = p * 1 /\ p \in Int /\ 1 \in Int  BY <1>8
      <4> QED  BY <1>8, <4>1, ModZero
    <3> QED  BY <1>12, <3>1
  <2>2. n % m = 0
    <3>1. n = m * p /\ p \in Int  BY <1>9
    <3> QED  BY <1>0, <1>9, <3>1, ModZero
  <2>3. m \in Nat /\ m > 3  BY <1>6, <1>12, <2>2
  <2>4. CASE p < m
    <3>1. Prime(p) /\ p > 2 /\ Prime(m) /\ m \in Nat  BY <1>7, <1>8, <1>12, <2>3
    <3>2. Few  BY <1>2, <1>3, <1>4, <1>5, <1>9, <2>4, <3>1, TwoFactors
    <3> QED  BY <3>2
  <2>5. CASE m < p
    <3>1. Prime(p) /\ m > 2 /\ Prime(m) /\ m \in Nat /\ n = m * p
      BY <1>7, <1>9, <1>12, <2>3
    <3>2. Few  BY <1>2, <1>3, <1>4, <1>5, <2>5, <3>1, TwoFactors
    <3> QED  BY <3>2
  <2> QED  BY <1>8, <2>1, <2>3, <2>4, <2>5
<1>13. CASE m % p # 0 /\ ~Prime(m)
  <2>1. PICK q \in Nat : Prime(q) /\ m % q = 0
    <3>1. m \in Nat  OBVIOUS
    <3> QED  BY <1>10, <3>1, PrimeDivisor
  <2>2. q \in Nat \ {0}  BY <2>1 DEF Prime
  <2>3. PICK t \in Nat \ {0} : m = q * t
    <3>1. m % q = 0  BY <2>1
    <3>2. \E t \in Nat \ {0} : m = q * t  BY <2>2, <3>1, Cofactor
    <3> QED  BY <3>2
  <2>4. n = q * (p * t) /\ n = t * (p * q) /\ n = p * (q * t) /\ p * t \in Int /\ p * q \in Int
    BY <1>8, <1>9, <2>2, <2>3
  <2>5. n % q = 0 /\ n % t = 0  BY <1>0, <2>2, <2>4, ModZero
  <2>6. q > 3  BY <1>6, <2>1, <2>5
  <2>7. t > 2
    <3>1. t # 1
      <4>1. q * 1 = q  BY <2>2
      <4> QED  BY <1>13, <2>1, <2>3, <4>1
    <3>2. t # 2  BY <2>5
    <3> QED  BY <3>1, <3>2
  <2>8. t % p # 0
    <3> SUFFICES ASSUME t % p = 0 PROVE FALSE
      OBVIOUS
    <3>1. PICK k \in Int : t = p * k
      <4>1. t \in Int  OBVIOUS
      <4> QED  BY <1>8, <4>1, ModZero
    <3>2. m = p * (q * k) /\ q * k \in Int /\ m \in Int  BY <1>8, <2>2, <2>3, <3>1
    <3> QED  BY <1>8, <1>13, <3>2, ModZero
  <2>9. p # q  BY <1>13, <2>1
  <2>10. CASE t % q = 0
    <3>1. PICK s \in Nat \ {0} : s = p * t
      <4>1. p * t \in Nat /\ p * t > 0  BY <1>8
      <4> QED  BY <4>1
    <3>2. s % q = 0
      <4>1. PICK k \in Int : t = q * k
        <5>1. t \in Int  OBVIOUS
        <5> QED  BY <2>2, <2>10, <5>1, ModZero
      <4>2. s = q * (p * k) /\ p * k \in Int /\ s \in Int  BY <1>8, <2>2, <3>1, <4>1
      <4> QED  BY <2>2, <4>2, ModZero
    <3>3. n = q * s  BY <2>4, <3>1
    <3>4. Prime(q)  BY <2>1
    <3>5. Few  BY <1>4, <1>5, <2>6, <3>2, <3>3, <3>4, SquareFactor
    <3> QED  BY <3>5
  <2>11. CASE t % q # 0
    <3>1. p > 2 /\ q > 2 /\ t \in Nat /\ Prime(p) /\ Prime(q) /\ n = p * (q * t)
      BY <1>7, <1>8, <2>1, <2>4, <2>6
    <3>2. Few  BY <1>2, <1>3, <1>5, <2>7, <2>8, <2>9, <2>11, <3>1, ThreeFactors
    <3> QED  BY <3>2
  <2> QED  BY <2>10, <2>11
<1> QED  BY <1>11, <1>12, <1>13

(* 1 and -1 pass for every odd number.                                       *)
LEMMA SignsPass ==
  ASSUME NEW n \in Nat, n > 2, n % 2 # 0
  PROVE  Passes(n, 1) /\ Passes(n, n - 1)
<1>0. n \in Nat \ {0, 1} /\ n \in Nat \ {0} /\ 1 \in Int /\ n - 1 \in Int /\ 2 \in Int
  OBVIOUS
<1>1. PICK d \in Nat, r \in Nat : TwoAdic(n) = <<d, r>> /\ n - 1 = d * Pow(2, r) /\ Odd(d)
  BY <1>0, TwoAdicIs
<1>2. Pow(2, 0) = 1 /\ d * Pow(2, 0) = d
  <2>1. Pow(2, 0) = 1  BY <1>0, PowSteps
  <2> QED  BY <2>1
<1>3. 0 \in 0 .. r - 1
  <2> SUFFICES ASSUME r = 0 PROVE FALSE
    OBVIOUS
  <2>1. n - 1 = d  BY <1>1, <1>2
  <2>2. d % 2 = 1  BY <1>1 DEF Odd
  <2> QED  BY <2>1, <2>2
<1>4. Passes(n, 1)
  <2>1. Pow(1, d) = 1
    <3>1. 1 \in Nat \ {0}  OBVIOUS
    <3> QED  BY <3>1, PowPositive
  <2>2. 1 % n = 1
    <3>1. 1 \in 0 .. n - 1  BY <1>0
    <3> QED  BY <1>0, <3>1, SmallMod
  <2>3. Squared(n, 1, d, 0) = 1  BY <1>2, <2>1, <2>2 DEF Squared
  <2> QED  BY <1>0, <1>1, <2>3, PassesIs
<1>5. Passes(n, n - 1)
  <2>1. PICK x \in Int, y \in Int : x = -1 /\ y = n - 1  BY <1>0
  <2>2. Cong(n, y, x)
    <3>1. y = x + n * 1  BY <2>1
    <3> QED  BY <1>0, <3>1, CongMultiple
  <2>3. Cong(n, Pow(y, d), Pow(x, d))  BY <1>0, <2>2, CongPow
  <2>4. Pow(x, d) = x  BY <1>1, <2>1, MinusOnePow
  <2>5. x % n = n - 1
    <3>1. x \in -n .. -1  BY <1>0, <2>1
    <3>2. x % n = x + n  BY <1>0, <3>1, SmallMod
    <3> QED  BY <2>1, <3>2
  <2>6. Squared(n, y, d, 0) = n - 1  BY <1>2, <2>3, <2>4, <2>5 DEF Squared, Cong
  <2>7. \E j \in 0 .. r - 1 : Squared(n, y, d, j) = n - 1  BY <1>3, <2>6
  <2>8. Passes(n, y)  BY <1>0, <1>1, <2>7, PassesIs
  <2> QED  BY <2>1, <2>8
<1> QED  BY <1>4, <1>5

(* Of the witnesses miller_rabin draws from, which leave out the two that    *)
(* always pass, less than a quarter are false (phe/util.py, miller_rabin).   *)
THEOREM FewFalseWitnesses ==
  ASSUME NEW n \in Nat, n > 3, ~Prime(n), n % 2 # 0, n % 3 # 0
  PROVE  4 * Cardinality({a \in Witnesses(n) : Passes(n, a)}) < Cardinality(Witnesses(n))
<1> DEFINE L == {a \in 1 .. n - 1 : Passes(n, a)}
           F == {a \in Witnesses(n) : Passes(n, a)}
<1>1. IsFiniteSet(L) /\ 4 * Cardinality(L) <= n - 1  BY FewLiars
<1>2. 1 \in L /\ n - 1 \in L /\ n - 1 # 1  BY SignsPass
<1>3. F \in SUBSET L /\ 1 \notin F /\ n - 1 \notin F  BY DEF Witnesses
<1>4. Cardinality(Witnesses(n)) = n - 3
  <2>1. PICK b \in Int, c \in Int : b = 2 /\ c = n - 2 /\ c >= b  OBVIOUS
  <2>2. Cardinality(b .. c) = IF b > c THEN 0 ELSE c - b + 1  BY FS_Interval
  <2>3. Cardinality(b .. c) = n - 3  BY <2>1, <2>2
  <2> QED  BY <2>1, <2>3 DEF Witnesses
<1> HIDE DEF L, F
<1>5. IsFiniteSet(F) /\ Cardinality(F) \in Nat /\ Cardinality(L) \in Nat
  BY <1>1, <1>3, FS_Subset, FS_CardinalityType
<1>6. Cardinality(F) + 2 <= Cardinality(L)
  <2> DEFINE G == F \cup {1}
  <2>1. IsFiniteSet(G) /\ Cardinality(G) = Cardinality(F) + 1  BY <1>3, <1>5, FS_AddElement
  <2>2. n - 1 \notin G /\ G \cup {n - 1} \in SUBSET L  BY <1>2, <1>3
  <2> HIDE DEF G
  <2>3. Cardinality(G \cup {n - 1}) = Cardinality(G) + 1  BY <2>1, <2>2, FS_AddElement
  <2>4. Cardinality(G \cup {n - 1}) <= Cardinality(L)  BY <1>1, <2>2, FS_Subset
  <2> QED  BY <1>5, <2>1, <2>3, <2>4
<1>7. 4 * Cardinality(F) < n - 3  BY <1>1, <1>5, <1>6
<1> QED  BY <1>4, <1>7 DEF F
=============================================================================
