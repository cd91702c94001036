---------------------------- MODULE RawPaillier ----------------------------
(***************************************************************************)
(* Paillier encryption of residues (phe/paillier.py, the raw operations of *)
(* PaillierPublicKey, PaillierPrivateKey and EncryptedNumber).  A key k    *)
(* has the fields n, p and q with n = p * q and p < q, the order the       *)
(* constructor puts them in.                                               *)
(***************************************************************************)
EXTENDS NumberTheory

Magnitude(x) == IF x < 0 THEN -x ELSE x

\* PaillierPublicKey.max_int: a third of the residues are positive, a third
\* negative, and those between are for detecting overflows.
MaxInt(n) == n \div 3 - 1

InRange(n, x) == Magnitude(x) <= MaxInt(n)

Square(k) == k.n * k.n

\* Mutant of RawEncrypt: the inverse of large plaintexts is forgotten.
RawEncryptNegated(k, m, r) ==
  LET nude == IF k.n - MaxInt(k.n) <= m THEN (k.n * (k.n - m) + 1) % Square(k)
              ELSE (k.n * m + 1) % Square(k)
  IN  MulMod(nude, PowMod(r, k.n, Square(k)), Square(k))

\* g = n + 1, so g^m = n * m + 1; for a large m by the inverse of g^(n - m).
RawEncrypt(k, m, r) ==
  LET nude == IF k.n - MaxInt(k.n) <= m
              THEN Invert((k.n * (k.n - m) + 1) % Square(k), Square(k))
              ELSE (k.n * m + 1) % Square(k)
  IN  MulMod(nude, PowMod(r, k.n, Square(k)), Square(k))

LFunction(x, d) == (x - 1) \div d

HFunction(k, d) == Invert(LFunction(PowMod(k.n + 1, d - 1, d * d), d), d)

\* Mutant of Crt: the product is not reduced.
CrtUnreduced(k, mp, mq) == mp + (mq - mp) * Invert(k.p, k.q) * k.p

Crt(k, mp, mq) == mp + MulMod(mq - mp, Invert(k.p, k.q), k.q) * k.p

DecryptTo(k, c, d) == MulMod(LFunction(PowMod(c, d - 1, d * d), d), HFunction(k, d), d)

RawDecrypt(k, c) == Crt(k, DecryptTo(k, c, k.p), DecryptTo(k, c, k.q))

RawAdd(k, c1, c2) == MulMod(c1, c2, Square(k))

RawMul(k, c, m) ==
  IF k.n - MaxInt(k.n) <= m THEN PowMod(Invert(c, Square(k)), k.n - m, Square(k))
  ELSE PowMod(c, m, Square(k))

\* Mutant of FromTotient: (p + q)^2 - (p - q)^2 is taken for p * q.
FromTotientShort(n, phi) ==
  LET sum  == n - phi + 1
      diff == ISqrt(sum * sum - n)
      low  == (sum - diff) \div 2
  IN  <<low, sum - low>>

\* The primes of n from its totient phi (from_totient).
FromTotient(n, phi) ==
  LET sum  == n - phi + 1
      diff == ISqrt(sum * sum - n * 4)
      low  == (sum - diff) \div 2
  IN  <<low, sum - low>>
=============================================================================
