-------------------------------- MODULE Curve -------------------------------
(***************************************************************************)
(* The elliptic curve arithmetic of ECIES.py.  A point is a pair, or None. *)
(***************************************************************************)
EXTENDS NumberTheory

CONSTANT curve  \* [p, a, b, g, n]: secp256k1 in the code

None == << >>

\* The doubled y of a point is never 0: the group has odd order.
InverseMod(k, p) == IF k < 0 THEN p - Invert(-k, p) ELSE Invert(k, p)

IsOnCurve(pt) ==
  \/ pt = None
  \/ (pt[2] * pt[2] - pt[1] * pt[1] * pt[1] - curve.a * pt[1] - curve.b) % curve.p = 0

PointNeg(pt) == IF pt = None THEN None ELSE <<pt[1], (-pt[2]) % curve.p>>

\* The point on the line of some slope through p1 and another of abscissa x2,
\* mirrored.  (The code leaves the slope unreduced, to the same end.)
Third(slope, p1, x2) ==
  LET m  == slope % curve.p
      x3 == m * m - p1[1] - x2
      y3 == p1[2] + m * (x3 - p1[1])
  IN  <<x3 % curve.p, (-y3) % curve.p>>

PointAdd(p1, p2) ==
  IF p1 = None THEN p2
  ELSE IF p2 = None THEN p1
  ELSE IF p1[1] = p2[1] /\ p1[2] # p2[2] THEN None
  ELSE IF p1[1] = p2[1]
       THEN Third((3 * p1[1] * p1[1] + curve.a) * InverseMod(2 * p1[2], curve.p), p1, p2[1])
       ELSE Third((p1[2] - p2[2]) * InverseMod(p1[1] - p2[1], curve.p), p1, p2[1])

\* What the functions assert their arguments and results to be.
Points == {None} \cup {pt \in (0 .. curve.p - 1) \X (0 .. curve.p - 1) : IsOnCurve(pt)}

\* Double and add.
ScalarMult(k, pt) ==
  LET loop[v \in [k : Nat, result : Points, addend : Points]] ==
        IF v.k = 0 THEN v.result
        ELSE loop[[k      |-> v.k \div 2,
                   result |-> IF Odd(v.k) THEN PointAdd(v.result, v.addend) ELSE v.result,
                   addend |-> PointAdd(v.addend, v.addend)]]
  IN  IF k % curve.n = 0 \/ pt = None THEN None
      ELSE IF k < 0 THEN loop[[k |-> -k, result |-> None, addend |-> PointNeg(pt)]]
      ELSE loop[[k |-> k, result |-> None, addend |-> pt]]

\* make_keypair: the public key of a private one.
PublicKey(private_key) == ScalarMult(private_key, curve.g)
=============================================================================
