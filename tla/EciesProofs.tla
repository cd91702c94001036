----------------------------- MODULE EciesProofs ----------------------------
(***************************************************************************)
(* Double and add computes multiples of a point, so both sides of an       *)
(* exchange compute the same key and no other client does: every layer of  *)
(* a message can come off, and only its owner gets the text back, for      *)
(* every curve whose points are a group, every number of clients, layers   *)
(* and random numbers (ECIES.py).                                          *)
(***************************************************************************)
EXTENDS Ecies, ArithmeticProofs

-----------------------------------------------------------------------------
(* Multiples of the generator.                                               *)

\* k * g, by adding g k times.
Multiple[k \in Nat] == IF k = 0 THEN None ELSE PointAdd(Multiple[k - 1], curve.g)

(* Every number has one.                                                     *)
LEMMA MultipleIs ==
  /\ Multiple \in [Nat -> Points] /\ Multiple[0] = None
  /\ \A k \in Nat : Multiple[k + 1] = PointAdd(Multiple[k], curve.g)
<1> DEFINE step == [k \in Nat |-> [pt \in Points |-> PointAdd(pt, curve.g)]]
           Is(f) == f = [k \in Nat |-> IF k = 0 THEN None ELSE PointAdd(f[k - 1], curve.g)]
<1>1. None \in Points  BY DEF Points
<1>2. curve.g \in Points  BY CurveAssumption, Zenon
<1>3. step \in [Nat -> [Points -> Points]]
  <2>1. \A pt \in Points : PointAdd(pt, curve.g) \in Points
    BY <1>2, GroupAssumption, Zenon
  <2> QED  BY <2>1
<1>4. PICK f : Iterates(f, Points, None, step)
  <2> HIDE DEF step
  <2> QED  BY <1>1, <1>3, Iterate, Zenon
<1>5. f \in [Nat -> Points]  BY <1>4 DEF Iterates
<1>6. \A k \in Nat : f[k] = IF k = 0 THEN None ELSE PointAdd(f[k - 1], curve.g)
  <2> SUFFICES ASSUME NEW k \in Nat
               PROVE  f[k] = IF k = 0 THEN None ELSE PointAdd(f[k - 1], curve.g)
    OBVIOUS
  <2>1. f[k] = IF k = 0 THEN None ELSE step[k - 1][f[k - 1]]
    <3> HIDE DEF step
    <3> QED  BY <1>4 DEF Iterates
  <2>2. CASE k = 0  BY <2>1, <2>2
  <2>3. CASE k # 0
    <3>1. k - 1 \in Nat /\ f[k - 1] \in Points  BY <1>5, <2>3
    <3> QED  BY <2>1, <2>3, <3>1
  <2> QED  BY <2>2, <2>3
<1>7. Is(f)
  <2>1. f = [k \in Nat |-> f[k]]  BY <1>5
  <2> QED  BY <1>6, <2>1
<1>8. Is(Multiple)
  <2>1. Multiple = CHOOSE h : Is(h)  BY DEF Multiple
  <2> HIDE DEF Is
  <2> QED  BY <1>7, <2>1, Zenon
<1>9. ASSUME NEW k \in Nat
      PROVE  Multiple[k] = IF k = 0 THEN None ELSE PointAdd(Multiple[k - 1], curve.g)
  BY <1>8
<1> DEFINE S == {k \in Nat : Multiple[k] \in Points}
<1>10. 0 \in S
  <2>1. Multiple[0] = None  BY <1>9
  <2> QED  BY <1>1, <2>1
<1>11. ASSUME NEW k \in Nat PROVE Multiple[k + 1] = PointAdd(Multiple[k], curve.g)
  <2>1. k + 1 \in Nat /\ k + 1 # 0 /\ (k + 1) - 1 = k  OBVIOUS
  <2>2. Multiple[k + 1] = PointAdd(Multiple[(k + 1) - 1], curve.g)  BY <1>9, <2>1
  <2> QED  BY <2>1, <2>2
<1>12. ASSUME NEW k \in Nat, k \in S PROVE k + 1 \in S
  <2>1. PointAdd(Multiple[k], curve.g) \in Points
    <3>1. Multiple[k] \in Points  BY <1>12
    <3> QED  BY <1>2, <3>1, GroupAssumption, Zenon
  <2> QED  BY <1>11, <2>1
<1>13. Nat \subseteq S
  <2> HIDE DEF S
  <2> QED  BY <1>10, <1>12, Induction
<1>14. Multiple \in [Nat -> Points]
  <2>1. DOMAIN Multiple = Nat /\ Multiple = [k \in Nat |-> Multiple[k]]  BY <1>8
  <2> QED  BY <1>13, <2>1
<1>15. Multiple[0] = None  BY <1>9
<1> QED  BY <1>11, <1>14, <1>15

(* The point at infinity is the zero of the group.                           *)
LEMMA NoneAdds ==
  ASSUME NEW pt
  PROVE  PointAdd(None, pt) = pt /\ PointAdd(pt, None) = pt
BY DEF PointAdd

(* The first multiple.                                                       *)
LEMMA MultipleOne == Multiple[1] = curve.g
<1>1. Multiple[0 + 1] = PointAdd(Multiple[0], curve.g)  BY MultipleIs
<1>2. Multiple[0] = None  BY MultipleIs
<1>3. 0 + 1 = 1  OBVIOUS
<1> QED  BY <1>1, <1>2, <1>3, NoneAdds

(* Multiples add up.                                                         *)
LEMMA MultipleAdd ==
  ASSUME NEW i \in Nat, NEW j \in Nat
  PROVE  Multiple[i + j] = PointAdd(Multiple[i], Multiple[j])
<1> DEFINE S == {k \in Nat : Multiple[i + k] = PointAdd(Multiple[i], Multiple[k])}
<1>1. 0 \in S
  <2>1. Multiple[0] = None /\ i + 0 = i  BY MultipleIs
  <2>2. PointAdd(Multiple[i], None) = Multiple[i]  BY NoneAdds
  <2> QED  BY <2>1, <2>2
<1>2. ASSUME NEW k \in Nat, k \in S PROVE k + 1 \in S
  <2>1. PICK l \in Nat : l = i + k  OBVIOUS
  <2>2. Multiple[l + 1] = PointAdd(Multiple[l], curve.g)  BY MultipleIs
  <2>3. Multiple[k + 1] = PointAdd(Multiple[k], curve.g)  BY MultipleIs
  <2>4. Multiple[l] = PointAdd(Multiple[i], Multiple[k])  BY <1>2, <2>1
  <2>5. Multiple[i] \in Points /\ Multiple[k] \in Points  BY MultipleIs
  <2>6. curve.g \in Points  BY CurveAssumption, Zenon
  <2>7. PointAdd(PointAdd(Multiple[i], Multiple[k]), curve.g) =
          PointAdd(Multiple[i], PointAdd(Multiple[k], curve.g))
    <3>1. PICK a, b, g : a = Multiple[i] /\ b = Multiple[k] /\ g = curve.g
      OBVIOUS
    <3>2. a \in Points /\ b \in Points /\ g \in Points  BY <2>5, <2>6, <3>1
    <3>3. PointAdd(PointAdd(a, b), g) = PointAdd(a, PointAdd(b, g))
      BY <3>2, GroupAssumption, ZenonT(30)
    <3> QED  BY <3>1, <3>3
  <2>8. Multiple[l + 1] = PointAdd(Multiple[i], Multiple[k + 1])
    BY <2>2, <2>3, <2>4, <2>7, Zenon
  <2>9. i + (k + 1) = l + 1 /\ k + 1 \in Nat  BY <2>1
  <2> QED  BY <2>8, <2>9
<1>3. Nat \subseteq S
  <2> HIDE DEF S
  <2> QED  BY <1>1, <1>2, Induction
<1> QED  BY <1>3

-----------------------------------------------------------------------------
(* Double and add.                                                           *)

\* The variables of scalar_mult.
Loops == [k : Nat, result : Points, addend : Points]

\* What one turn of its loop makes of them.
Doubled(v) ==
  [k      |-> v.k \div 2,
   result |-> IF Odd(v.k) THEN PointAdd(v.result, v.addend) ELSE v.result,
   addend |-> PointAdd(v.addend, v.addend)]

\* The loop.
IsLoop(f) == f = [v \in Loops |-> IF v.k = 0 THEN v.result ELSE f[Doubled(v)]]

(* A turn halves k.                                                          *)
LEMMA DoubledIs ==
  ASSUME NEW v \in Loops, v.k # 0
  PROVE  /\ Doubled(v) \in Loops /\ Doubled(v).k < v.k
         /\ v.k = 2 * Doubled(v).k + (IF Odd(v.k) THEN 1 ELSE 0)
<1>1. v.k \in Nat \ {0} /\ v.result \in Points /\ v.addend \in Points  BY DEF Loops
<1>2. /\ v.k \div 2 \in Nat /\ v.k \div 2 < v.k
      /\ v.k = 2 * (v.k \div 2) + (IF Odd(v.k) THEN 1 ELSE 0)
  BY <1>1 DEF Odd
<1>3. PointAdd(v.result, v.addend) \in Points /\ PointAdd(v.addend, v.addend) \in Points
  BY <1>1, GroupAssumption, Zenon
<1> QED  BY <1>1, <1>2, <1>3 DEF Doubled, Loops

(* The loop ends, so it is a function.                                       *)
LEMMA LoopExists == \E f : IsLoop(f)
<1> DEFINE stop == {v \in Loops : v.k = 0}
           next == [v \in Loops |-> IF v.k = 0 THEN v ELSE Doubled(v)]
           out == [v \in Loops |-> v.result]
           measure == [v \in Loops |-> v.k]
<1>1. next \in [Loops -> Loops]  BY DoubledIs
<1>2. out \in [Loops -> Points] /\ measure \in [Loops -> Nat]  BY DEF Loops
<1>3. stop \in SUBSET Loops  OBVIOUS
<1>4. \A v \in Loops \ stop : measure[next[v]] < measure[v]  BY DoubledIs
<1>5. \A v \in Loops : /\ v \in stop <=> v.k = 0
                       /\ out[v] = v.result
                       /\ v.k # 0 => next[v] = Doubled(v)
  OBVIOUS
<1> HIDE DEF stop, next, out, measure
<1>6. PICK f : Recurses(f, Loops, stop, next, out)
  BY <1>1, <1>2, <1>3, <1>4, Recursion, Zenon
<1>7. IsLoop(f)  BY <1>5, <1>6 DEF Recurses, IsLoop
<1> QED  BY <1>7

\* Result and addend are multiples of g, and what the loop promises of them.
Stands(v, i, j) == v.result = Multiple[i] /\ v.addend = Multiple[j]

(* From i * g and j * g the loop computes (i + k * j) * g.                   *)
LEMMA LoopIs ==
  ASSUME NEW loop, IsLoop(loop), NEW v \in Loops, NEW i \in Nat, NEW j \in Nat,
         Stands(v, i, j)
  PROVE  loop[v] = Multiple[i + v.k * j]
<1> DEFINE Good(w) == \A a, b \in Nat : Stands(w, a, b) => loop[w] = Multiple[a + w.k * b]
           Bad == {l \in Nat : \E w \in Loops : w.k = l /\ ~Good(w)}
<1>1. Bad = {}
  <2> SUFFICES ASSUME Bad # {} PROVE FALSE
    OBVIOUS
  <2>1. PICK l \in Bad : \A m \in Bad : l <= m
    <3>1. Bad \in SUBSET Nat  OBVIOUS
    <3> HIDE DEF Bad
    <3> QED  BY <3>1, LeastNumber
  <2>2. PICK w \in Loops : w.k = l /\ ~Good(w)  BY <2>1
  <2>3. PICK a \in Nat, b \in Nat : Stands(w, a, b) /\ loop[w] # Multiple[a + w.k * b]
    BY <2>2
  <2>4. CASE l = 0
    <3>1. loop[w] = w.result  BY <2>2, <2>4 DEF IsLoop
    <3>2. a + w.k * b = a  BY <2>2, <2>4
    <3> QED  BY <2>3, <3>1, <3>2 DEF Stands
  <2>5. CASE l # 0
    <3>1. PICK x : x = Doubled(w)  OBVIOUS
    <3>2. /\ x \in Loops /\ x.k < l /\ w.k # 0
          /\ l = 2 * x.k + (IF Odd(w.k) THEN 1 ELSE 0)
      BY <2>2, <2>5, <3>1, DoubledIs
    <3>3. x.k \in Nat /\ x.k \notin Bad
      <4>1. x.k \in Nat  BY <3>2 DEF Loops
      <4> QED  BY <2>1, <3>2, <4>1
    <3>4. Good(x)  BY <3>2, <3>3
    <3>5. loop[w] = loop[x]  BY <2>2, <3>1, <3>2 DEF IsLoop
    <3>6. PICK c \in Nat : c = b + b  OBVIOUS
    <3>7. x.addend = Multiple[c]
      <4>1. x.addend = PointAdd(w.addend, w.addend)  BY <3>1 DEF Doubled
      <4> QED  BY <2>3, <3>6, <4>1, MultipleAdd DEF Stands
    <3>8. CASE Odd(w.k)
      <4>1. x.result = PointAdd(w.result, w.addend)  BY <3>1, <3>8 DEF Doubled
      <4>2. PICK d \in Nat : d = a + b  OBVIOUS
      <4>3. x.result = Multiple[d]  BY <2>3, <4>1, <4>2, MultipleAdd DEF Stands
      <4>4. loop[x] = Multiple[d + x.k * c]  BY <3>4, <3>7, <4>3 DEF Stands
      <4>5. d + x.k * c = a + w.k * b
        <5>1. PICK y \in Nat : y = x.k  BY <3>3
        <5>2. w.k = 2 * y + 1  BY <2>2, <3>2, <3>8, <5>1
        <5>3. (a + b) + y * (b + b) = a + (2 * y + 1) * b  OBVIOUS
        <5> QED  BY <3>6, <4>2, <5>1, <5>2, <5>3
      <4> QED  BY <2>3, <3>5, <4>4, <4>5
    <3>9. CASE ~Odd(w.k)
      <4>1. x.result = Multiple[a]  BY <2>3, <3>1, <3>9 DEF Doubled, Stands
      <4>2. loop[x] = Multiple[a + x.k * c]  BY <3>4, <3>7, <4>1 DEF Stands
      <4>3. a + x.k * c = a + w.k * b
        <5>1. PICK y \in Nat : y = x.k  BY <3>3
        <5>2. w.k = 2 * y  BY <2>2, <3>2, <3>9, <5>1
        <5>3. a + y * (b + b) = a + (2 * y) * b  OBVIOUS
        <5> QED  BY <3>6, <5>1, <5>2, <5>3
      <4> QED  BY <2>3, <3>5, <4>2, <4>3
    <3> QED  BY <3>8, <3>9
  <2> QED  BY <2>4, <2>5
<1>2. v.k \in Nat  BY DEF Loops
<1>3. Good(v)  BY <1>1, <1>2
<1> QED  BY <1>3

(* So scalar_mult computes multiples of multiples, where it runs the loop.   *)
LEMMA ScalarRuns ==
  ASSUME NEW k \in Nat, k % curve.n # 0, NEW i \in Nat, Multiple[i] # None
  PROVE  ScalarMult(k, Multiple[i]) = Multiple[k * i]
<1> DEFINE pt == Multiple[i]
           loop == CHOOSE f : f = [v \in [k : Nat, result : Points, addend : Points] |->
                     IF v.k = 0 THEN v.result
                     ELSE f[[k      |-> v.k \div 2,
                             result |-> IF Odd(v.k) THEN PointAdd(v.result, v.addend) ELSE v.result,
                             addend |-> PointAdd(v.addend, v.addend)]]]
           start == [k |-> k, result |-> None, addend |-> pt]
<1>1. ScalarMult(k, pt) = loop[start]
  <2>1. ScalarMult(k, pt) =
          IF k % curve.n = 0 \/ pt = None THEN None
          ELSE IF k < 0 THEN loop[[k |-> -k, result |-> None, addend |-> PointNeg(pt)]]
          ELSE loop[start]
    BY Zenon DEF ScalarMult
  <2>2. ~(k < 0) /\ k % curve.n # 0 /\ pt # None  OBVIOUS
  <2> HIDE DEF loop, start, pt
  <2> QED  BY <2>1, <2>2
<1>2. IsLoop(loop)
  <2>1. loop = CHOOSE f : IsLoop(f)  BY Zenon DEF IsLoop, Loops, Doubled
  <2> HIDE DEF loop
  <2> QED  BY <2>1, LoopExists, Zenon
<1>3. pt \in Points /\ None \in Points  BY MultipleIs DEF Points
<1>4. start \in Loops /\ start.k = k /\ Stands(start, 0, i)
  BY <1>3, MultipleIs DEF Loops, Stands
<1> HIDE DEF loop, start, pt
<1>5. loop[start] = Multiple[0 + start.k * i]  BY <1>2, <1>4, LoopIs
<1>6. 0 + start.k * i = k * i  BY <1>4
<1> QED  BY <1>1, <1>5, <1>6 DEF pt

-----------------------------------------------------------------------------
(* The order of the generator.                                               *)

(* It is n: n * g is the point at infinity, and no smaller multiple is.      *)
LEMMA Order ==
  /\ curve.n \in Nat \ {0, 1} /\ Prime(curve.n)
  /\ Multiple[curve.n] = None
  /\ \A k \in 1 .. curve.n - 1 : Multiple[k] # None
<1>1. PICK n \in Nat \ {0, 1} : n = curve.n /\ Prime(n)
  <2>1. PICK n \in Nat : n = curve.n /\ Prime(n)  BY CurveAssumption, Zenon
  <2>2. n > 1  BY <2>1 DEF Prime
  <2> QED  BY <2>1, <2>2
<1>2. ASSUME NEW k \in 1 .. n - 1 PROVE ScalarMult(k, curve.g) = Multiple[k]
  <2>1. k \in Nat /\ k \in 0 .. n - 1 /\ k # 0 /\ n \in Nat \ {0} /\ k * 1 = k  OBVIOUS
  <2>2. k % n = k  BY <2>1, SmallMod
  <2>3. Multiple[1] # None  BY MultipleOne, CurveAssumption, Zenon
  <2>4. ScalarMult(k, Multiple[1]) = Multiple[k * 1]
    BY <1>1, <2>1, <2>2, <2>3, ScalarRuns
  <2> QED  BY <2>1, <2>4, MultipleOne
<1>3. \A k \in 1 .. n - 1 : Multiple[k] # None
  <2>1. \A k \in 1 .. n - 1 : ScalarMult(k, curve.g) # None
    BY <1>1, CurveAssumption, Zenon
  <2> QED  BY <1>2, <2>1
<1>4. Multiple[n] = None
  <2>1. n - 1 \in 1 .. n - 1 /\ n - 1 \in Nat /\ (n - 1) + 1 = n  OBVIOUS
  <2>2. ScalarMult(n - 1, curve.g) = Multiple[n - 1]  BY <1>2, <2>1
  <2>3. PointAdd(ScalarMult(n - 1, curve.g), curve.g) = None
    BY <1>1, CurveAssumption, Zenon
  <2>4. Multiple[(n - 1) + 1] = PointAdd(Multiple[n - 1], curve.g)  BY <2>1, MultipleIs
  <2> QED  BY <2>1, <2>2, <2>3, <2>4
<1> QED  BY <1>1, <1>3, <1>4

(* A multiple depends on the remainder alone.                                *)
LEMMA MultipleMod ==
  ASSUME NEW k \in Nat
  PROVE  Multiple[k] = Multiple[k % curve.n]
<1>1. PICK n \in Nat \ {0, 1} : n = curve.n /\ Multiple[n] = None  BY Order
<1> DEFINE S == {q \in Nat : \A r \in Nat : Multiple[n * q + r] = Multiple[r]}
<1>2. 0 \in S
  <2>1. \A r \in Nat : n * 0 + r = r  OBVIOUS
  <2> QED  BY <2>1
<1>3. ASSUME NEW q \in Nat, q \in S PROVE q + 1 \in S
  <2> SUFFICES ASSUME NEW r \in Nat PROVE Multiple[n * (q + 1) + r] = Multiple[r]
    OBVIOUS
  <2>1. PICK m \in Nat : m = n * q + r
    <3>1. n * q \in Nat  OBVIOUS
    <3> QED  BY <3>1
  <2>2. n * (q + 1) + r = n + m  BY <2>1
  <2>3. Multiple[n + m] = PointAdd(Multiple[n], Multiple[m])  BY MultipleAdd
  <2>4. PointAdd(None, Multiple[m]) = Multiple[m]  BY NoneAdds
  <2>5. Multiple[m] = Multiple[r]  BY <1>3, <2>1
  <2> QED  BY <1>1, <2>2, <2>3, <2>4, <2>5
<1>4. Nat \subseteq S
  <2> HIDE DEF S
  <2> QED  BY <1>2, <1>3, Induction
<1>5. PICK q \in Nat, r \in Nat : k = n * q + r /\ r = k % n
  <2>1. k \div n \in Nat /\ k % n \in Nat
    <3>1. k % n \in 0 .. n - 1 /\ k \div n \in Int  BY DivMod
    <3> QED  BY <3>1
  <2>2. k = n * (k \div n) + (k % n)  BY DivMod
  <2> QED  BY <2>1, <2>2
<1>6. Multiple[n * q + r] = Multiple[r]  BY <1>4, <1>5
<1> QED  BY <1>1, <1>5, <1>6

(* It is the point at infinity exactly for the multiples of n.               *)
LEMMA NoneIff ==
  ASSUME NEW k \in Nat
  PROVE  Multiple[k] = None <=> k % curve.n = 0
<1>1. PICK n \in Nat \ {0, 1} : n = curve.n  BY Order
<1>2. PICK r \in 0 .. n - 1 : r = k % n  BY DivMod
<1>3. Multiple[k] = Multiple[r]  BY <1>1, <1>2, MultipleMod
<1>4. r # 0 => Multiple[r] # None  BY <1>1, Order
<1>5. Multiple[0] = None  BY MultipleIs
<1> QED  BY <1>1, <1>2, <1>3, <1>4, <1>5

(* Double and add computes multiples of multiples (scalar_mult).             *)
THEOREM ScalarMultIs ==
  ASSUME NEW k \in Nat, NEW i \in Nat
  PROVE  ScalarMult(k, Multiple[i]) = Multiple[k * i]
<1>1. PICK n \in Nat \ {0, 1} : n = curve.n  BY Order
<1>2. CASE k % n # 0 /\ Multiple[i] # None  BY <1>1, <1>2, ScalarRuns
<1>3. CASE k % n = 0 \/ Multiple[i] = None
  <2>1. ScalarMult(k, Multiple[i]) = None  BY <1>1, <1>3, Zenon DEF ScalarMult
  <2>2. k % n = 0 \/ i % n = 0  BY <1>1, <1>3, NoneIff
  <2>3. (k * i) % n = 0
    <3>1. n \in Nat \ {0} /\ k \in Int /\ i \in Int  OBVIOUS
    <3> QED  BY <2>2, <3>1, ModMultiple
  <2>4. k * i \in Nat  OBVIOUS
  <2> QED  BY <1>1, <2>1, <2>3, <2>4, NoneIff
<1> QED  BY <1>2, <1>3

-----------------------------------------------------------------------------
(* Keys: abscissas of points.                                                *)

(* Points with the same abscissa are equal or opposite.                      *)
LEMMA SameAbscissa ==
  ASSUME NEW i \in Nat, NEW j \in Nat, Multiple[i] # None, Multiple[j] # None,
         Multiple[i][1] = Multiple[j][1]
  PROVE  Multiple[i] = Multiple[j] \/ (i + j) % curve.n = 0
<1>1. Multiple[i] \in Points /\ Multiple[j] \in Points  BY MultipleIs
<1>2. CASE Multiple[i][2] = Multiple[j][2]
  <2>1. /\ Multiple[i] = <<Multiple[i][1], Multiple[i][2]>>
        /\ Multiple[j] = <<Multiple[j][1], Multiple[j][2]>>
    BY <1>1 DEF Points
  <2> QED  BY <1>2, <2>1
<1>3. CASE Multiple[i][2] # Multiple[j][2]
  <2>1. PointAdd(Multiple[i], Multiple[j]) = None  BY <1>3 DEF PointAdd
  <2>2. i + j \in Nat  OBVIOUS
  <2>3. Multiple[i + j] = None  BY <2>1, MultipleAdd
  <2> QED  BY <2>2, <2>3, NoneIff
<1> QED  BY <1>2, <1>3

(* Equal multiples have equal remainders.                                    *)
LEMMA MultipleInjective ==
  ASSUME NEW i \in Nat, NEW j \in Nat, Multiple[i] = Multiple[j]
  PROVE  (i - j) % curve.n = 0
<1>1. PICK n \in Nat \ {0, 1} : n = curve.n  BY Order
<1>2. PICK r \in 0 .. n - 1 : r = j % n
  <2>1. n \in Nat \ {0} /\ j \in Int  OBVIOUS
  <2>2. j % n \in 0 .. n - 1  BY <2>1, DivMod
  <2> QED  BY <2>2
<1>3. PICK m \in Nat : m = n - r  OBVIOUS
<1>4. (j + m) % n = 0
  <2>1. PICK q \in Int : j = n * q + r
    <3>1. j \div n \in Int /\ j = n * (j \div n) + (j % n)  BY DivMod
    <3> QED  BY <1>2, <3>1
  <2>2. j + m = n * (q + 1)
    <3>1. n * (q + 1) = n * q + n  OBVIOUS
    <3>2. n * q \in Int  OBVIOUS
    <3> QED  BY <1>3, <2>1, <3>1, <3>2
  <2>3. n \in Nat \ {0} /\ j + m \in Int /\ q + 1 \in Int  OBVIOUS
  <2> QED  BY <2>2, <2>3, ModZero
<1>5. Multiple[j + m] = None
  <2>1. j + m \in Nat  OBVIOUS
  <2> QED  BY <1>1, <1>4, <2>1, NoneIff
<1>6. Multiple[i + m] = None
  <2>1. Multiple[i + m] = PointAdd(Multiple[i], Multiple[m])  BY MultipleAdd
  <2>2. Multiple[j + m] = PointAdd(Multiple[j], Multiple[m])  BY MultipleAdd
  <2> QED  BY <1>5, <2>1, <2>2
<1>7. (i + m) % n = 0
  <2>1. i + m \in Nat  OBVIOUS
  <2> QED  BY <1>1, <1>6, <2>1, NoneIff
<1>8. PICK a \in Int, b \in Int : i + m = n * a /\ j + m = n * b
  <2>1. n \in Nat \ {0} /\ i + m \in Int /\ j + m \in Int  OBVIOUS
  <2> QED  BY <1>4, <1>7, <2>1, ModZero
<1>9. i - j = n * (a - b)
  <2>1. n * (a - b) = n * a - n * b /\ n * a \in Int /\ n * b \in Int  OBVIOUS
  <2> QED  BY <1>8, <2>1
<1>10. (i - j) % n = 0
  <2>1. n \in Nat \ {0} /\ i - j \in Int /\ a - b \in Int  OBVIOUS
  <2> QED  BY <1>9, <2>1, ModZero
<1> QED  BY <1>1, <1>10

(* No two clients compute the same key, unless theirs are equal or opposite. *)
LEMMA KeysDiffer ==
  ASSUME NEW r \in Nat, r % curve.n # 0,
         NEW d \in 1 .. curve.n - 1, NEW e \in 1 .. curve.n - 1,
         Multiple[r * d][1] = Multiple[r * e][1]
  PROVE  d = e \/ d = curve.n - e
<1>1. PICK n \in Nat \ {0, 1} : n = curve.n /\ Prime(n)  BY Order
<1>2. d \in 1 .. n - 1 /\ e \in 1 .. n - 1 /\ n \in Nat \ {0} /\ r \in Int /\ r % n # 0
  BY <1>1
<1>3. ASSUME NEW x \in Int, (r * x) % n = 0 PROVE x % n = 0
  BY <1>1, <1>2, <1>3, PrimeDivides
<1>4. d % n # 0 /\ e % n # 0
  <2>1. d \in 0 .. n - 1 /\ e \in 0 .. n - 1 /\ d \in Int /\ e \in Int /\ d # 0 /\ e # 0
    BY <1>2
  <2>2. d % n = d /\ e % n = e  BY <1>2, <2>1, SmallMod
  <2> QED  BY <2>1, <2>2
<1>5. r * d \in Nat /\ r * e \in Nat /\ d \in Int /\ e \in Int  BY <1>2
<1>6. Multiple[r * d] # None /\ Multiple[r * e] # None
  <2>1. (r * d) % n # 0 /\ (r * e) % n # 0  BY <1>3, <1>4, <1>5
  <2> QED  BY <1>1, <1>5, <2>1, NoneIff
<1>7. Multiple[r * d] = Multiple[r * e] \/ (r * d + r * e) % n = 0
  BY <1>1, <1>5, <1>6, SameAbscissa
<1>8. CASE Multiple[r * d] = Multiple[r * e]
  <2>1. (r * d - r * e) % n = 0  BY <1>1, <1>5, <1>8, MultipleInjective
  <2>2. r * d - r * e = r * (d - e) /\ d - e \in Int  BY <1>5
  <2>3. (d - e) % n = 0  BY <1>3, <2>1, <2>2
  <2>4. d - e \in 0 .. n - 1 \/ (d - e \in -n .. -1 /\ d - e # -n)  BY <1>2
  <2>5. d - e = 0  BY <1>2, <2>2, <2>3, <2>4, SmallMod
  <2> QED  BY <1>2, <2>5
<1>9. CASE (r * d + r * e) % n = 0
  <2>1. r * d + r * e = r * (d + e) /\ d + e \in Int  BY <1>5
  <2>2. (d + e) % n = 0  BY <1>3, <1>9, <2>1
  <2>3. PICK x \in Int : x = d + e - n  BY <1>2
  <2>4. (d + e) + n * (-1) = x  BY <1>2, <2>3
  <2>5. x % n = 0
    <3>1. PICK y \in Int : y = d + e  BY <2>1
    <3>2. n \in Nat \ {0} /\ -1 \in Int  BY <1>2
    <3>3. (y + n * (-1)) % n = y % n  BY <3>2, ModShift
    <3> QED  BY <2>2, <2>4, <3>1, <3>3
  <2>6. x \in 0 .. n - 1 \/ (x \in -n .. -1 /\ x # -n)  BY <1>2, <2>3
  <2>7. x = 0  BY <1>2, <2>5, <2>6, SmallMod
  <2> QED  BY <1>1, <1>2, <2>3, <2>7
<1> QED  BY <1>7, <1>8, <1>9

-----------------------------------------------------------------------------
(* A message on its way.                                                     *)

\* The layer has the point r * g, and the key its owner computes from it.
LayerIs(point, key, owner, r) ==
  /\ r \in Nat /\ r % curve.n # 0
  /\ point = Multiple[r] /\ key = Multiple[r * dA[owner]][1]

\* Every layer is one, for some r.
LayersInv ==
  \A i \in 1 .. Len(layers) : \E r : LayerIs(R[i], text.keys[i], layers[i], r)

KeysInv ==
  /\ dA \in [Clients -> PrivateKeys]
  /\ \A c, d \in Clients : c # d => dA[c] \notin {dA[d], curve.n - dA[d]}

MessageInv ==
  /\ layers \in Seq(Clients) /\ by \in Clients /\ raised \in BOOLEAN
  /\ R \in Seq(Points \ {None}) /\ Len(R) = Len(layers)
  /\ text.keys \in Seq(0 .. curve.p - 1) /\ Len(text.keys) = Len(layers)

TextInv ==
  /\ text = [form |-> text.form, pads |-> text.pads, keys |-> text.keys,
             garbled |-> text.garbled]
  /\ \/ text.form = "str" /\ text.pads = 0 /\ layers = << >>
     \/ text.form = "bytes" /\ text.pads = 1
  /\ text.garbled \in BOOLEAN

IInv == KeysInv /\ MessageInv /\ TextInv /\ LayersInv

(* A private key is a number that n does not divide.                         *)
LEMMA PrivateKey ==
  ASSUME KeysInv, NEW c \in Clients
  PROVE  /\ dA[c] \in 1 .. curve.n - 1 /\ dA[c] \in Nat
         /\ \A r \in Nat : r % curve.n # 0 => /\ r * dA[c] \in Nat
                                              /\ (r * dA[c]) % curve.n # 0
                                              /\ Multiple[r * dA[c]] # None
<1>1. PICK n \in Nat \ {0, 1} : n = curve.n /\ Prime(n)  BY Order
<1>2. PICK d \in 1 .. n - 1 : d = dA[c]
  <2>1. dA[c] \in PrivateKeys  BY DEF KeysInv
  <2> QED  BY <1>1, <2>1, RandomAssumption
<1>3. d \in Nat /\ d % n # 0
  <2>1. d \in 0 .. n - 1 /\ d \in Int /\ d # 0 /\ n \in Nat \ {0}  OBVIOUS
  <2> QED  BY <2>1, SmallMod
<1>4. ASSUME NEW r \in Nat, r % n # 0
      PROVE  r * d \in Nat /\ (r * d) % n # 0 /\ Multiple[r * d] # None
  <2>1. r * d \in Nat  BY <1>3
  <2>2. (r * d) % n # 0
    <3>1. r \in Int /\ d \in Int  BY <1>3
    <3> QED  BY <1>1, <1>3, <1>4, <3>1, PrimeDivides
  <2> QED  BY <1>1, <2>1, <2>2, NoneIff
<1> QED  BY <1>1, <1>2, <1>3, <1>4

(* A public key is the multiple of the private one.                          *)
LEMMA PublicKeyIs ==
  ASSUME KeysInv, NEW c \in Clients
  PROVE  PublicKey(dA[c]) = Multiple[dA[c]]
<1>1. PICK d \in Nat : d = dA[c]  BY PrivateKey
<1>2. ScalarMult(d, Multiple[1]) = Multiple[d * 1]  BY ScalarMultIs
<1>3. d * 1 = d  OBVIOUS
<1> QED  BY <1>1, <1>2, <1>3, MultipleOne DEF PublicKey

(* What encrypt computes from a random number.                               *)
LEMMA ExchangedIs ==
  ASSUME KeysInv, NEW c \in Clients, NEW r \in Nat
  PROVE  /\ Exchanged(c, r).S = Multiple[r * dA[c]] /\ Exchanged(c, r).rG = Multiple[r]
         /\ Exchanged(c, r).S # None => r % curve.n # 0
<1>1. PICK d \in Nat : d = dA[c]  BY PrivateKey
<1>2. ScalarMult(r, Multiple[d]) = Multiple[r * d]  BY ScalarMultIs
<1>3. ScalarMult(r, Multiple[1]) = Multiple[r]
  <2>1. ScalarMult(r, Multiple[1]) = Multiple[r * 1]  BY ScalarMultIs
  <2>2. r * 1 = r  OBVIOUS
  <2> QED  BY <2>1, <2>2
<1>4. Exchanged(c, r).S = Multiple[r * d] /\ Exchanged(c, r).rG = Multiple[r]
  BY <1>1, <1>2, <1>3, PublicKeyIs, MultipleOne DEF Exchanged
<1>5. ASSUME Multiple[r * d] # None PROVE r % curve.n # 0
  <2>1. PICK n \in Nat \ {0, 1} : n = curve.n  BY Order
  <2> SUFFICES ASSUME r % n = 0 PROVE FALSE
    BY <2>1
  <2>2. n \in Nat \ {0} /\ r \in Int /\ d \in Int /\ r * d \in Nat  OBVIOUS
  <2>3. (r * d) % n = 0  BY <2>2, ModMultiple
  <2> QED  BY <1>5, <2>1, <2>2, <2>3, NoneIff
<1> QED  BY <1>1, <1>4, <1>5

(* What decrypt computes from a layer's point: the layer's key, for its      *)
(* owner and for nobody else.                                                *)
LEMMA ComputedIs ==
  ASSUME KeysInv, NEW c \in Clients, NEW d \in Clients, NEW point, NEW key, NEW r,
         LayerIs(point, key, d, r)
  PROVE  /\ ScalarMult(dA[c], point) # None
         /\ SharedKey(ScalarMult(dA[c], point)) = key <=> c = d
<1>1. PICK x \in Nat, y \in Nat : x = dA[c] /\ y = dA[d]  BY PrivateKey
<1>2. r \in Nat /\ r % curve.n # 0 /\ point = Multiple[r] /\ key = Multiple[r * y][1]
  BY <1>1 DEF LayerIs
<1>3. ScalarMult(x, point) = Multiple[r * x]
  <2>1. ScalarMult(x, Multiple[r]) = Multiple[x * r]  BY <1>2, ScalarMultIs
  <2>2. x * r = r * x  BY <1>2
  <2> QED  BY <1>2, <2>1, <2>2
<1>4. Multiple[r * x] # None  BY <1>1, <1>2, PrivateKey
<1>5. ASSUME Multiple[r * x][1] = Multiple[r * y][1] PROVE c = d
  <2>1. x \in 1 .. curve.n - 1 /\ y \in 1 .. curve.n - 1  BY <1>1, PrivateKey
  <2>2. x = y \/ x = curve.n - y  BY <1>2, <1>5, <2>1, KeysDiffer
  <2> QED  BY <1>1, <2>2 DEF KeysInv
<1> QED  BY <1>1, <1>2, <1>3, <1>4, <1>5 DEF SharedKey

(* A key is an abscissa.                                                     *)
LEMMA KeyRange ==
  ASSUME NEW k \in Nat, Multiple[k] # None
  PROVE  Multiple[k][1] \in 0 .. curve.p - 1
<1>1. Multiple[k] \in Points  BY MultipleIs
<1> QED  BY <1>1 DEF Points

-----------------------------------------------------------------------------
(* The invariant is inductive.                                               *)

(* It holds at the beginning.                                                *)
LEMMA InitHolds == Init => IInv
<1> SUFFICES ASSUME Init PROVE IInv
  OBVIOUS
<1>1. KeysInv  BY DEF Init, KeysInv
<1>2. MessageInv
  <2>1. /\ layers = << >> /\ R = << >> /\ text.keys = << >>
        /\ by \in Clients /\ raised \in BOOLEAN
    BY DEF Init
  <2>2. /\ << >> \in Seq(Clients) /\ << >> \in Seq(Points \ {None})
        /\ << >> \in Seq(0 .. curve.p - 1)
    OBVIOUS
  <2> QED  BY <2>1, <2>2 DEF MessageInv
<1>3. TextInv  BY DEF Init, TextInv
<1>4. LayersInv  BY DEF Init, LayersInv
<1> QED  BY <1>1, <1>2, <1>3, <1>4 DEF IInv

\* A text, and what becomes of it when a layer is put on and taken off.
TextOf(form, pads, keys, garbled) ==
  [form |-> form, pads |-> pads, keys |-> keys, garbled |-> garbled]

PutOn(t, keys) == [t EXCEPT !.form = "bytes", !.keys = keys]

TakenOff(t, keys, garbled) ==
  [t EXCEPT !.form = "bytes", !.keys = keys, !.garbled = garbled]

(* What becomes of it.                                                       *)
LEMMA TextChanges ==
  ASSUME NEW form, NEW pads, NEW keys, NEW garbled, NEW others, NEW g, NEW t,
         t = TextOf(form, pads, keys, garbled)
  PROVE  /\ PutOn(t, others) = TextOf("bytes", pads, others, garbled)
         /\ TakenOff(t, others, g) = TextOf("bytes", pads, others, g)
<1>1. PutOn(t, others) = TextOf("bytes", pads, others, garbled)
  <2>1. PICK u : u = PutOn(t, others)  OBVIOUS
  <2>2. /\ u.form = "bytes" /\ u.pads = pads /\ u.keys = others /\ u.garbled = garbled
        /\ u = [form |-> u.form, pads |-> u.pads, keys |-> u.keys, garbled |-> u.garbled]
    BY <2>1 DEF TextOf, PutOn
  <2> QED  BY <2>1, <2>2 DEF TextOf
<1>2. TakenOff(t, others, g) = TextOf("bytes", pads, others, g)
  <2>1. PICK u : u = TakenOff(t, others, g)  OBVIOUS
  <2>2. /\ u.form = "bytes" /\ u.pads = pads /\ u.keys = others /\ u.garbled = g
        /\ u = [form |-> u.form, pads |-> u.pads, keys |-> u.keys, garbled |-> u.garbled]
    BY <2>1 DEF TextOf, TakenOff
  <2> QED  BY <2>1, <2>2 DEF TextOf
<1> QED  BY <1>1, <1>2

(* A new layer: the key is the one that its owner will compute.              *)
LEMMA EncryptKeeps ==
  ASSUME IInv, NEW c \in Clients, NEW r \in Randoms, Encrypt(c, r)
  PROVE  IInv'
<1>0. KeysInv /\ MessageInv /\ TextInv /\ LayersInv  BY DEF IInv
<1>1. dA' = dA /\ by' = by /\ raised \in BOOLEAN  BY <1>0 DEF Encrypt, MessageInv
<1>2. KeysInv'  BY <1>0, <1>1 DEF KeysInv
<1>3. r \in Nat  BY RandomAssumption
<1>4. PICK x : x = Exchanged(c, r)  OBVIOUS
<1>5. CASE raised' = TRUE /\ UNCHANGED <<R, text, layers>>
  <2>1. MessageInv'  BY <1>0, <1>1, <1>5 DEF MessageInv
  <2>2. TextInv'  BY <1>0, <1>5 DEF TextInv
  <2>3. LayersInv'  BY <1>0, <1>1, <1>5 DEF LayersInv, LayerIs
  <2> QED  BY <1>2, <2>1, <2>2, <2>3 DEF IInv
<1>6. CASE /\ x.S # None /\ R' = Append(R, x.rG) /\ layers' = Append(layers, c)
           /\ text' = [Padded(text) EXCEPT !.form = "bytes",
                                           !.keys = Append(@, SharedKey(x.S))]
           /\ UNCHANGED raised
  <2>1. /\ x.S = Multiple[r * dA[c]] /\ x.rG = Multiple[r] /\ r % curve.n # 0
    BY <1>0, <1>3, <1>4, <1>6, ExchangedIs
  <2>2. x.rG \in Points \ {None}
    <3>1. Multiple[r] \in Points  BY <1>3, MultipleIs
    <3>2. Multiple[r] # None  BY <1>3, <2>1, NoneIff
    <3> QED  BY <2>1, <3>1, <3>2
  <2>3. PICK key : key = SharedKey(x.S)  OBVIOUS
  <2>4. key = Multiple[r * dA[c]][1] /\ key \in 0 .. curve.p - 1
    <3>1. r * dA[c] \in Nat  BY <1>0, <1>3, <2>1, PrivateKey
    <3> QED  BY <1>6, <2>1, <2>3, <3>1, KeyRange DEF SharedKey
  <2>5. LayerIs(x.rG, key, c, r)  BY <1>3, <2>1, <2>4 DEF LayerIs
  <2>6. PICK keys, garbled :
          /\ text' = TextOf("bytes", 1, keys, garbled)
          /\ keys = Append(text.keys, key) /\ garbled = text.garbled
    <3>1. PICK form, pads, keys, garbled :
            /\ text = TextOf(form, pads, keys, garbled)
            /\ (form = "str" /\ pads = 0) \/ (form = "bytes" /\ pads = 1)
      BY <1>0 DEF TextInv, TextOf
    <3>2. text.keys = keys /\ text.garbled = garbled  BY <3>1 DEF TextOf
    <3>3. PICK t : t = Padded(text)  OBVIOUS
    <3>4. t = TextOf(form, 1, keys, garbled)
      <4>1. CASE form = "str" /\ pads = 0
        <5>1. pads + 1 = 1  BY <4>1
        <5> QED  BY <3>1, <3>3, <4>1, <5>1 DEF Padded, TextOf
      <4>2. CASE form = "bytes" /\ pads = 1  BY <3>1, <3>3, <4>2 DEF Padded, TextOf
      <4> QED  BY <3>1, <4>1, <4>2
    <3>5. t.keys = keys  BY <3>4 DEF TextOf
    <3>6. text' = PutOn(t, Append(t.keys, key))
      BY <1>6, <2>3, <3>3, Zenon DEF PutOn
    <3>7. PICK more : more = Append(keys, key)  OBVIOUS
    <3>8. text' = PutOn(t, more)  BY <3>5, <3>6, <3>7
    <3>9. PutOn(t, more) = TextOf("bytes", 1, more, garbled)  BY <3>4, TextChanges
    <3> QED  BY <3>2, <3>7, <3>8, <3>9
  <2>10. /\ text'.keys = Append(text.keys, key) /\ text'.form = "bytes"
         /\ text'.garbled = text.garbled /\ text'.pads = 1
         /\ text' = TextOf(text'.form, text'.pads, text'.keys, text'.garbled)
    BY <2>6 DEF TextOf
  <2>7. TextInv'  BY <1>0, <2>10 DEF TextInv, TextOf
  <2>8. MessageInv'
    <3>1. layers' \in Seq(Clients) /\ Len(layers') = Len(layers) + 1
      BY <1>0, <1>6 DEF MessageInv
    <3>2. R' \in Seq(Points \ {None}) /\ Len(R') = Len(layers) + 1
      BY <1>0, <1>6, <2>2 DEF MessageInv
    <3>3. text'.keys \in Seq(0 .. curve.p - 1) /\ Len(text'.keys) = Len(layers) + 1
      BY <1>0, <2>4, <2>10 DEF MessageInv
    <3>4. by' \in Clients /\ raised' \in BOOLEAN  BY <1>0, <1>1, <1>6 DEF MessageInv
    <3> QED  BY <3>1, <3>2, <3>3, <3>4 DEF MessageInv
  <2>9. LayersInv'
    <3> SUFFICES ASSUME NEW i \in 1 .. Len(layers')
                 PROVE  \E s : LayerIs(R[i], text.keys[i], layers[i], s)'
      BY DEF LayersInv
    <3>1. /\ Len(layers) \in Nat /\ Len(R) = Len(layers) /\ Len(text.keys) = Len(layers)
          /\ layers \in Seq(Clients) /\ R \in Seq(Points \ {None})
          /\ text.keys \in Seq(0 .. curve.p - 1)
      BY <1>0 DEF MessageInv
    <3>2. CASE i \in 1 .. Len(layers)
      <4>1. R'[i] = R[i] /\ layers'[i] = layers[i] /\ text'.keys[i] = text.keys[i]
        BY <1>6, <2>10, <3>1, <3>2
      <4>2. PICK s : LayerIs(R[i], text.keys[i], layers[i], s)
        BY <1>0, <3>2 DEF LayersInv
      <4>3. LayerIs(R[i], text.keys[i], layers[i], s)'
        BY <1>1, <4>1, <4>2 DEF LayerIs
      <4> QED  BY <4>3
    <3>3. CASE i = Len(layers) + 1
      <4>1. R'[i] = x.rG /\ text'.keys[i] = key  BY <1>6, <2>10, <3>1, <3>3
      <4>2. layers'[i] = c  BY <1>6, <3>1, <3>3
      <4>3. LayerIs(R[i], text.keys[i], layers[i], r)'
        BY <1>1, <2>5, <4>1, <4>2 DEF LayerIs
      <4> QED  BY <4>3
    <3>4. Len(layers') = Len(layers) + 1  BY <1>6, <3>1
    <3> QED  BY <3>1, <3>2, <3>3, <3>4
  <2> QED  BY <1>2, <2>7, <2>8, <2>9 DEF IInv
<1> QED  BY <1>4, <1>5, <1>6 DEF Encrypt

(* A layer less: it is the text's outermost one, and its key was computed    *)
(* exactly by its owner.                                                     *)
LEMMA DecryptDoes ==
  ASSUME IInv, NEW c \in Clients, Decrypt(c), R # << >>
  PROVE  /\ Len(layers) \in Nat \ {0} /\ layers' = SubSeq(layers, 1, Len(layers) - 1)
         /\ R' = SubSeq(R, 1, Len(layers) - 1)
         /\ by' = c /\ UNCHANGED <<dA, raised>>
         /\ \E less, garbled :
              /\ text' = TextOf("bytes", 1, less, garbled)
              /\ less = SubSeq(text.keys, 1, Len(layers) - 1)
              /\ garbled \in BOOLEAN
              /\ ~garbled <=> ~text.garbled /\ layers[Len(layers)] = c
<1>0. KeysInv /\ MessageInv /\ TextInv /\ LayersInv  BY DEF IInv
<1>1. /\ layers \in Seq(Clients) /\ R \in Seq(Points \ {None})
      /\ text.keys \in Seq(0 .. curve.p - 1)
      /\ Len(R) = Len(layers) /\ Len(text.keys) = Len(layers)
  BY <1>0 DEF MessageInv
<1>2. Len(layers) \in Nat \ {0}  BY <1>1
<1>3. PICK n : n = Len(layers) /\ n \in Nat \ {0}  BY <1>2
<1>4. PICK S : S = ScalarMult(dA[c], R[n])  OBVIOUS
<1>5. /\ text' = [text EXCEPT !.form = "bytes", !.keys = Front(@),
                              !.garbled = @ \/ SharedKey(S) # Last(text.keys)]
      /\ R' = Front(R) /\ layers' = Front(layers) /\ by' = c
      /\ UNCHANGED <<dA, raised>>
  <2>1. Outermost(R) = R[n]  BY <1>1, <1>3 DEF Outermost, Last
  <2> QED  BY <1>4, <2>1 DEF Decrypt
<1>6. layers' = SubSeq(layers, 1, n - 1) /\ R' = SubSeq(R, 1, n - 1)
  BY <1>1, <1>3, <1>5 DEF Front
<1>7. SharedKey(S) = text.keys[n] <=> layers[n] = c
  <2>1. n \in 1 .. Len(layers) /\ layers[n] \in Clients  BY <1>1, <1>3
  <2>2. PICK r : LayerIs(R[n], text.keys[n], layers[n], r)  BY <1>0, <2>1 DEF LayersInv
  <2>3. SharedKey(ScalarMult(dA[c], R[n])) = text.keys[n] <=> c = layers[n]
    BY <1>0, <2>1, <2>2, ComputedIs
  <2> QED  BY <1>4, <2>3
<1>8. PICK less, garbled : /\ less = SubSeq(text.keys, 1, n - 1)
                           /\ garbled = (text.garbled \/ SharedKey(S) # text.keys[n])
  OBVIOUS
<1>9. /\ garbled \in BOOLEAN /\ ~garbled <=> ~text.garbled /\ layers[n] = c
  BY <1>0, <1>7, <1>8 DEF TextInv
<1>10. text' = TakenOff(text, less, garbled)
  <2>1. text' = TakenOff(text, Front(text.keys),
                         text.garbled \/ SharedKey(S) # Last(text.keys))
    BY <1>5, Zenon DEF TakenOff
  <2>2. Front(text.keys) = less /\ Last(text.keys) = text.keys[n]
    BY <1>1, <1>3, <1>8 DEF Front, Last
  <2> QED  BY <1>8, <2>1, <2>2
<1>11. PICK form, keys, old : text = TextOf(form, 1, keys, old)
  <2>1. text.pads = 1  BY <1>0, <1>2 DEF TextInv
  <2> QED  BY <1>0, <2>1 DEF TextInv, TextOf
<1>12. TakenOff(text, less, garbled) = TextOf("bytes", 1, less, garbled)
  BY <1>11, TextChanges
<1> QED  BY <1>2, <1>3, <1>5, <1>6, <1>8, <1>9, <1>10, <1>12

(* What remains is as it was.                                                *)
LEMMA DecryptKeeps ==
  ASSUME IInv, NEW c \in Clients, Decrypt(c)
  PROVE  IInv'
<1>0. KeysInv /\ MessageInv /\ TextInv /\ LayersInv  BY DEF IInv
<1>1. dA' = dA  BY DEF Decrypt
<1>2. KeysInv'  BY <1>0, <1>1 DEF KeysInv
<1>3. CASE R = << >>
  <2>1. raised' = TRUE /\ UNCHANGED <<R, text, layers, by>>  BY <1>3 DEF Decrypt
  <2>2. MessageInv'  BY <1>0, <2>1 DEF MessageInv
  <2>3. TextInv'  BY <1>0, <2>1 DEF TextInv
  <2>4. LayersInv'  BY <1>0, <1>1, <2>1 DEF LayersInv, LayerIs
  <2> QED  BY <1>2, <2>2, <2>3, <2>4 DEF IInv
<1>4. CASE R # << >>
  <2>1. /\ layers \in Seq(Clients) /\ R \in Seq(Points \ {None})
        /\ text.keys \in Seq(0 .. curve.p - 1) /\ raised \in BOOLEAN
        /\ Len(R) = Len(layers) /\ Len(text.keys) = Len(layers)
    BY <1>0 DEF MessageInv
  <2>2. PICK n, less, garbled :
          /\ n \in Nat /\ Len(layers) = n + 1 /\ layers' = SubSeq(layers, 1, n)
          /\ R' = SubSeq(R, 1, n) /\ by' = c /\ UNCHANGED <<dA, raised>>
          /\ text' = TextOf("bytes", 1, less, garbled)
          /\ less = SubSeq(text.keys, 1, n) /\ garbled \in BOOLEAN
    <3>1. Len(layers) - 1 \in Nat /\ Len(layers) = (Len(layers) - 1) + 1
      BY <1>4, DecryptDoes
    <3> QED  BY <1>4, <3>1, DecryptDoes
  <2>3. text'.keys = less /\ text'.form = "bytes" /\ text'.pads = 1
        /\ text'.garbled = garbled
        /\ text' = TextOf(text'.form, text'.pads, text'.keys, text'.garbled)
    BY <2>2 DEF TextOf
  <2>4. MessageInv'
    <3>1. layers' \in Seq(Clients) /\ Len(layers') = n  BY <2>1, <2>2
    <3>2. R' \in Seq(Points \ {None}) /\ Len(R') = n  BY <2>1, <2>2
    <3>3. less \in Seq(0 .. curve.p - 1) /\ Len(less) = n
      <4>1. PICK K : K = 0 .. curve.p - 1  OBVIOUS
      <4>2. text.keys \in Seq(K) /\ Len(text.keys) = n + 1  BY <2>1, <2>2, <4>1
      <4>3. less \in Seq(K) /\ Len(less) = n  BY <2>2, <4>2
      <4> QED  BY <4>1, <4>3
    <3>4. by' \in Clients /\ raised' \in BOOLEAN  BY <2>1, <2>2
    <3> QED  BY <2>3, <3>1, <3>2, <3>3, <3>4 DEF MessageInv
  <2>5. TextInv'  BY <2>2, <2>3 DEF TextInv, TextOf
  <2>6. LayersInv'
    <3> SUFFICES ASSUME NEW i \in 1 .. Len(layers')
                 PROVE  \E s : LayerIs(R[i], text.keys[i], layers[i], s)'
      BY DEF LayersInv
    <3>1. i \in 1 .. n /\ i \in 1 .. Len(layers)  BY <2>1, <2>2
    <3>2. R'[i] = R[i] /\ layers'[i] = layers[i] /\ text'.keys[i] = text.keys[i]
      <4>1. R'[i] = R[i]  BY <2>1, <2>2, <3>1
      <4>2. layers'[i] = layers[i]  BY <2>1, <2>2, <3>1
      <4>3. text'.keys[i] = text.keys[i]
        <5>1. PICK keys : keys = text.keys /\ less = SubSeq(keys, 1, n)  BY <2>2
        <5>2. keys \in Seq(0 .. curve.p - 1) /\ Len(keys) = n + 1  BY <2>1, <2>2, <5>1
        <5>3. less[i] = keys[i]  BY <2>2, <3>1, <5>1, <5>2
        <5> QED  BY <2>3, <5>1, <5>3
      <4> QED  BY <4>1, <4>2, <4>3
    <3>3. PICK s : LayerIs(R[i], text.keys[i], layers[i], s)
      BY <1>0, <3>1 DEF LayersInv
    <3>4. LayerIs(R[i], text.keys[i], layers[i], s)'
      BY <1>1, <3>2, <3>3 DEF LayerIs
    <3> QED  BY <3>4
  <2> QED  BY <1>2, <2>4, <2>5, <2>6 DEF IInv
<1> QED  BY <1>3, <1>4

(* So every step keeps it.                                                   *)
LEMMA StepKeeps == IInv /\ [Next]_vars => IInv'
<1> SUFFICES ASSUME IInv, [Next]_vars PROVE IInv'
  OBVIOUS
<1>1. ASSUME NEW c \in Clients, Decrypt(c) PROVE IInv'  BY <1>1, DecryptKeeps
<1>2. ASSUME NEW c \in Clients, NEW r \in Randoms, Encrypt(c, r) PROVE IInv'
  BY <1>2, EncryptKeeps
<1>3. CASE UNCHANGED vars
  BY <1>3 DEF vars, IInv, KeysInv, MessageInv, TextInv, LayersInv, LayerIs
<1> QED  BY <1>1, <1>2, <1>3 DEF Next

(* It always holds.                                                          *)
LEMMA Invariant == Spec => []IInv
BY InitHolds, StepKeeps, PTL DEF Spec

-----------------------------------------------------------------------------
(* The variables have their types, and every layer's point is on the curve.  *)
THEOREM TypesCorrect == Spec => []TypeOK
<1>1. IInv => TypeOK
  BY DEF IInv, KeysInv, MessageInv, TextInv, TypeOK
<1> QED  BY <1>1, Invariant, PTL

(* Every layer that encrypt put on can be taken off: its owner computes the  *)
(* key it was put on with from the point that was sent along, and never the  *)
(* point at infinity (Message.encrypt, Message.decrypt).                     *)
THEOREM LayersDoComeOff == Spec => []LayersCanComeOff
<1>1. ASSUME IInv PROVE LayersCanComeOff
  <2>0. KeysInv /\ MessageInv /\ TextInv /\ LayersInv  BY <1>1 DEF IInv
  <2>1. /\ layers \in Seq(Clients) /\ R \in Seq(Points \ {None}) /\ Len(R) = Len(layers)
    BY <2>0 DEF MessageInv
  <2>2. ASSUME NEW i \in DOMAIN R
        PROVE  LET S == ScalarMult(dA[layers[i]], R[i])
               IN  R[i] # None /\ S # None /\ SharedKey(S) = text.keys[i]
    <3>1. i \in 1 .. Len(layers) /\ R[i] # None /\ layers[i] \in Clients  BY <2>1
    <3>2. PICK r : LayerIs(R[i], text.keys[i], layers[i], r)  BY <2>0, <3>1 DEF LayersInv
    <3> QED  BY <2>0, <3>1, <3>2, ComputedIs
  <2>3. text.pads = (IF text.form = "bytes" THEN 1 ELSE 0)  BY <2>0 DEF TextInv
  <2> QED  BY <2>1, <2>2, <2>3 DEF LayersCanComeOff
<1> QED  BY <1>1, Invariant, PTL

(* Onion encryption is what the mask shuffling takes it to be: the layers    *)
(* come off with the keys of their owners, in the reverse order, and whoever *)
(* else takes one off gets a text that is lost (Shuffle, Onion).             *)
THEOREM MessagesAreOnions == Spec => Implements
<1>1. Init => O!Init  BY DEF Init, O!Init
<1>2. IInv /\ [Next]_vars => [O!Next]_<<layers, ~text.garbled, by>>
  <2> SUFFICES ASSUME IInv, [Next]_vars
               PROVE  O!Next \/ UNCHANGED <<layers, ~text.garbled, by>>
    OBVIOUS
  <2>1. ASSUME NEW c \in Clients, NEW r \in Randoms, Encrypt(c, r)
        PROVE  O!Next \/ UNCHANGED <<layers, ~text.garbled, by>>
    <3>1. by' = by  BY <2>1 DEF Encrypt
    <3>2. CASE UNCHANGED <<R, text, layers>>  BY <3>1, <3>2
    <3>3. CASE layers' = Append(layers, c) /\ text'.garbled = text.garbled
      <4>1. O!Encrypt(c)  BY <3>1, <3>3 DEF O!Encrypt
      <4> QED  BY <4>1 DEF O!Next
    <3>4. PICK x : x = Exchanged(c, r)  OBVIOUS
    <3>5. ASSUME text' = [Padded(text) EXCEPT !.form = "bytes",
                                              !.keys = Append(@, SharedKey(x.S))]
          PROVE  text'.garbled = text.garbled
      <4>1. PICK form, pads, keys, garbled : text = TextOf(form, pads, keys, garbled)
        BY DEF IInv, TextInv, TextOf
      <4>2. PICK t, more : t = Padded(text) /\ text' = PutOn(t, more)
        BY <3>5, Zenon DEF PutOn
      <4>3. PICK a, b : t = TextOf(a, b, keys, garbled)
        BY <4>1, <4>2 DEF Padded, TextOf
      <4>4. text' = TextOf("bytes", b, more, garbled)  BY <4>2, <4>3, TextChanges
      <4> QED  BY <4>1, <4>4 DEF TextOf
    <3> QED  BY <2>1, <3>2, <3>3, <3>4, <3>5 DEF Encrypt
  <2>2. ASSUME NEW c \in Clients, Decrypt(c)
        PROVE  O!Next \/ UNCHANGED <<layers, ~text.garbled, by>>
    <3>1. CASE R = << >>  BY <2>2, <3>1 DEF Decrypt
    <3>2. CASE R # << >>
      <4>1. PICK less, garbled :
              /\ Len(layers) \in Nat \ {0} /\ by' = c
              /\ layers' = SubSeq(layers, 1, Len(layers) - 1)
              /\ text' = TextOf("bytes", 1, less, garbled) /\ garbled \in BOOLEAN
              /\ ~garbled <=> ~text.garbled /\ layers[Len(layers)] = c
        BY <2>2, <3>2, DecryptDoes
      <4>2. text'.garbled = garbled  BY <4>1 DEF TextOf
      <4>3. layers # << >>  BY <4>1
      <4>4. O!Decrypt(c)  BY <4>1, <4>2, <4>3 DEF O!Decrypt
      <4> QED  BY <4>4 DEF O!Next
    <3> QED  BY <3>1, <3>2
  <2>3. CASE UNCHANGED vars  BY <2>3 DEF vars
  <2> QED  BY <2>1, <2>2, <2>3 DEF Next
<1> QED  BY <1>1, <1>2, Invariant, PTL DEF Spec, O!Spec, Implements
=============================================================================
