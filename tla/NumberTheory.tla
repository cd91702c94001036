---------------------------- MODULE NumberTheory ----------------------------
(***************************************************************************)
(* The integer helpers of the Paillier library (phe/util.py).  GMP's       *)
(* powmod, invert, isqrt and next_prime are modelled by what the pure      *)
(* Python code beside them computes, or, where that code is random, by all *)
(* it may compute.  Python's and TLA+'s % agree: the result has the sign   *)
(* of the (positive) modulus.                                              *)
(***************************************************************************)
EXTENDS Integers

Odd(x) == x % 2 = 1

\* b ** e for e >= 0.  (^ is not used: the provers know nothing of it.)
Pow(b, e) ==
  LET pow[k \in Nat] == IF k = 0 THEN 1 ELSE b * pow[k - 1]
  IN  pow[e]

\* int.bit_length of x >= 0.
BitLength(x) ==
  CHOOSE k \in 0 .. x : x < Pow(2, k) /\ \A j \in 0 .. k - 1 : Pow(2, j) <= x

\* The variables of extended_euclidean_algorithm.
EuclidState == [r0 : Nat, r1 : Nat, s0 : Int, s1 : Int, t0 : Int, t1 : Int]

\* r, s and t with r = s * a + t * b, and r the gcd of a and b.
ExtendedEuclid(a, b) ==
  LET loop[v \in EuclidState] ==
        IF v.r1 = 0 THEN <<v.r0, v.s0, v.t0>>
        ELSE loop[[r0 |-> v.r1, r1 |-> v.r0 - (v.r0 \div v.r1) * v.r1,
                   s0 |-> v.s1, s1 |-> v.s0 - (v.r0 \div v.r1) * v.s1,
                   t0 |-> v.t1, t1 |-> v.t0 - (v.r0 \div v.r1) * v.t1]]
  IN  loop[[r0 |-> a, r1 |-> b, s0 |-> 1, s1 |-> 0, t0 |-> 0, t1 |-> 1]]

Gcd(a, b) == ExtendedEuclid(a, b)[1]

\* Mutant of Invert: the coefficient of b is returned.
InvertSwapped(a, b) == ExtendedEuclid(a, b)[3] % b

\* invert raises unless Gcd(a, b) = 1.
Invert(a, b) == ExtendedEuclid(a, b)[2] % b

\* x ** e % c by repeated squaring, for e >= 0.
SquareAndMultiply(x, e, c) ==
  LET pow[k \in Nat] == [y \in Int |->
        IF k = 0 THEN 1
        ELSE IF Odd(k) THEN (y * pow[k - 1][y]) % c
        ELSE pow[k \div 2][(y * y) % c]]
  IN  pow[e][x]

\* A negative exponent takes the inverse.
PowMod(a, b, c) ==
  IF a = 1 THEN 1
  ELSE IF b < 0 THEN SquareAndMultiply(Invert(a % c, c), -b, c)
  ELSE SquareAndMultiply(a % c, b, c)

MulMod(a, b, c) == (a * b) % c

\* Mutant of CMod: the remainder of %.
FMod(a, c) == a % c

\* gmpy2.c_mod: the remainder that is not positive.
CMod(a, c) == -((-a) % c)

\* improved_i_sqrt: the greatest power of 2 that is not too large, halved from
\* above, and then the bits below it; root[k] is what the first k of them give.
ISqrt(n) ==
  LET half == BitLength(n) \div 2
      i    == CHOOSE j \in 0 .. half : /\ Pow(2, 2 * j) <= n
                                     /\ \A l \in j + 1 .. half : Pow(2, 2 * l) > n
      root[k \in 0 .. i] ==
        IF k = 0 THEN Pow(2, i)
        ELSE LET m == root[k - 1] + Pow(2, i - k)
             IN  IF m * m <= n THEN m ELSE root[k - 1]
  IN  IF n = 0 THEN 0 ELSE root[i]

-----------------------------------------------------------------------------
\* d and r with n - 1 = d * 2 ** r and d odd: n - 1 is halved r times.
TwoAdic(n) ==
  LET halved[k \in Nat] == IF k = 0 THEN n - 1 ELSE halved[k - 1] \div 2
      r == CHOOSE k \in 0 .. n - 1 : Odd(halved[k]) /\ \A j \in 0 .. k - 1 : ~Odd(halved[j])
  IN  <<halved[r], r>>

\* Mutant of Passes: a square root of 1 other than -1 goes unnoticed.
PassesFermat(n, a) == PowMod(a, n - 1, n) = 1

\* One round of miller_rabin: n passes for the witness a if a ** d is 1, or it
\* is n - 1 after fewer than r squarings.
Passes(n, a) ==
  LET d == TwoAdic(n)[1]
      r == TwoAdic(n)[2]
      square == [y \in Int |-> (y * y) % n]
      x[j \in Nat] == IF j = 0 THEN PowMod(a, d, n) ELSE square[x[j - 1]]
  IN  x[0] = 1 \/ \E j \in 0 .. r - 1 : x[j] = n - 1

Witnesses(n) == 2 .. n - 2

Prime(n) == n > 1 /\ \A d \in 2 .. n - 1 : n % d # 0

\* gmpy2.next_prime: the least prime above r.
NextPrime(r) ==
  LET next[k \in Nat] == IF Prime(k) THEN k ELSE next[k + 1]
  IN  next[r + 1]
=============================================================================
