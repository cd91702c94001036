------------------------------ MODULE Encoding ------------------------------
(***************************************************************************)
(* Numbers as residues for Paillier encryption (phe/encoding.py,           *)
(* EncodedNumber): an int or a float becomes an integer mantissa at some   *)
(* exponent of BASE, and a negative mantissa is wrapped around the modulus *)
(* n.  A number is <<num, exp>> standing for num * 2^exp, an int or a      *)
(* float as isFloat says.                                                  *)
(***************************************************************************)
EXTENDS RawPaillier

CONSTANTS LOG2_BASE,           \* 4 in the code: BASE is 16
          FLOAT_MANTISSA_BITS  \* of a Python float: 53

ASSUME EncodingAssumption ==
  LOG2_BASE \in Nat \ {0} /\ FLOAT_MANTISSA_BITS \in Nat \ {0}

BASE == Pow(2, LOG2_BASE)

-----------------------------------------------------------------------------
\* math.frexp(scalar)[1], and from it the exponent at which nothing is lost.
BinFltExponent(x) == IF x.num = 0 THEN 0 ELSE BitLength(Magnitude(x.num)) + x.exp

PrecExponent(x) ==
  IF x.isFloat THEN (BinFltExponent(x) - FLOAT_MANTISSA_BITS) \div LOG2_BASE ELSE 0

\* round of the fraction a / d: to the nearest integer, to the even one of two.
Round(a, d) ==
  LET q == a \div d
      r == a % d
  IN  IF 2 * r < d \/ (2 * r = d /\ ~Odd(q)) THEN q ELSE q + 1

\* Mutant of IntRep: the fraction is cut, not rounded.
IntRepCut(x, e) ==
  LET shift == x.exp - LOG2_BASE * e
  IN  IF shift >= 0 THEN x.num * Pow(2, shift) ELSE x.num \div Pow(2, -shift)

IntRep(x, e) ==
  LET shift == x.exp - LOG2_BASE * e
  IN  IF shift >= 0 THEN x.num * Pow(2, shift) ELSE Round(x.num, Pow(2, -shift))

\* encode raises for an integer out of range.
Encodable(n, x, e) == InRange(n, IntRep(x, e))

\* Negative numbers are wrapped by adding n.
Encode(n, x, e) == [encoding |-> IntRep(x, e) % n, exponent |-> e]

\* Mutant of Decode: what is not positive is taken for negative.
DecodeAll(n, encoding) ==
  IF encoding <= MaxInt(n) THEN <<encoding>> ELSE <<encoding - n>>

\* The mantissa an encoding stands for, as a sequence of one integer, or none
\* when decode raises OverflowError.
Overflow == << >>
Decode(n, encoding) ==
  IF encoding <= MaxInt(n) THEN <<encoding>>
  ELSE IF encoding >= n - MaxInt(n) THEN <<encoding - n>>
  ELSE Overflow

\* The modulus wraps the product without a warning.
DecreaseExponentTo(n, en, e) ==
  [encoding |-> (en.encoding * Pow(BASE, en.exponent - e)) % n, exponent |-> e]
=============================================================================
