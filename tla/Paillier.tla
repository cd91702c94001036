------------------------------ MODULE Paillier ------------------------------
(***************************************************************************)
(* The Paillier library (phe/paillier.py): a key pair is generated, prime  *)
(* by prime, and then one EncryptedNumber goes through any sequence of the *)
(* operations the class has, with all arithmetic done on the ciphertext as *)
(* the code does it.  An operation that raises leaves the number as it     *)
(* was.                                                                    *)
(***************************************************************************)
EXTENDS Encoding, Sequences, FiniteSets

CONSTANTS
  NLengths,    \* the key sizes asked for
  HaveGmp,     \* whether gmpy2 may be installed, may be missing
  TableMax,    \* how far first_primes goes
  MRRounds,    \* mr_rounds, 25 in the code
  MaxN,        \* bound: keys above are generated but not used
  Obfuscators, \* what get_random_lt_n may draw
  Numbers,     \* the operands, ints and floats
  Precisions,  \* the exponents a given precision may ask for
  MinExponent, MaxExact \* bounds on an exponent and on a number's integer

ASSUME KeyAssumption ==
  /\ NLengths \subseteq Nat \ 0 .. 3 /\ HaveGmp \subseteq BOOLEAN
  /\ TableMax \in Nat \ 0 .. 2 /\ MRRounds \in Nat \ {0} /\ MaxN \in Nat
  /\ Obfuscators \subseteq Nat \ {0}

ASSUME OperandAssumption ==
  /\ \A x \in Numbers : x.num \in Int /\ x.exp \in Int /\ x.isFloat \in BOOLEAN
  /\ \A x \in Numbers : IF x.isFloat THEN BitLength(Magnitude(x.num)) <= FLOAT_MANTISSA_BITS
                         ELSE x.exp = 0
  /\ \A x \in Numbers : x.exp >= LOG2_BASE * MinExponent
  /\ Precisions \subseteq Int
  /\ MinExponent \in Int /\ MinExponent <= 0 /\ MaxExact \in Nat

VARIABLES
  n_length, gmp,
  found,      \* the primes found so far
  candidate,  \* the number is_prime is looking at, 0 if none
  rounds,     \* how many rounds of miller_rabin it has passed
  n, p, q,    \* the keys, 0 until they are there
  number,     \* the EncryptedNumber: << >> before the first
  value, safe,\* the number it should stand for, in units of BASE ^ MinExponent,
              \* and was the last operation one on integers in range
  derived     \* could its ciphertext be computed from an earlier one

keyVars == <<n_length, gmp, found, candidate, rounds, n, p, q>>
vars    == <<keyVars, number, value, safe, derived>>

-----------------------------------------------------------------------------
(* Key generation.                                                           *)

FirstPrimes == {d \in 2 .. TableMax : Prime(d)}

\* getprimeover(n_length // 2): the numbers it may start from.
Starts == Pow(2, n_length \div 2 - 1) .. Pow(2, n_length \div 2) - 1

Init ==
  /\ n_length \in NLengths /\ gmp \in HaveGmp
  /\ found = << >> /\ candidate = 0 /\ rounds = 0
  /\ n = 0 /\ p = 0 /\ q = 0
  /\ number = << >> /\ value = 0 /\ safe = TRUE /\ derived = FALSE

\* A prime is returned: the first is p, and the second q unless it is p again.
\* The keys are made when n has as many bits as asked for, in ascending order,
\* else the search begins anew.
Return(prime) ==
  LET product == IF found = << >> THEN 0 ELSE found[1] * prime
  IN  /\ candidate' = 0 /\ rounds' = 0
      /\ \/ /\ found = << >>
            /\ found' = <<prime>> /\ UNCHANGED <<n, p, q>>
         \/ /\ found = <<prime>>
            /\ UNCHANGED <<found, n, p, q>>
         \/ /\ found # << >> /\ found # <<prime>>
            /\ found' = << >>
            /\ IF BitLength(product) = n_length
               THEN /\ n' = product
                    /\ p' = IF prime < found[1] THEN prime ELSE found[1]
                    /\ q' = IF prime < found[1] THEN found[1] ELSE prime
               ELSE UNCHANGED <<n, p, q>>
      /\ UNCHANGED <<n_length, gmp, number, value, safe, derived>>

DrawPrime ==
  /\ n = 0 /\ gmp
  /\ \E r \in Starts : Return(NextPrime(r))

\* Without GMP: an odd number to start from.
DrawCandidate ==
  /\ n = 0 /\ ~gmp /\ candidate = 0
  /\ \E r \in Starts : candidate' = IF Odd(r) THEN r ELSE r + 1
  /\ UNCHANGED <<n_length, gmp, found, rounds, n, p, q, number, value, safe, derived>>

NextCandidate ==
  /\ candidate' = candidate + 2
  /\ rounds' = 0
  /\ UNCHANGED <<n_length, gmp, found, n, p, q, number, value, safe, derived>>

\* Mutant of InTable: numbers up to the end of the table are tested for
\* divisors like all others.
InTableNone == FALSE

InTable == candidate <= TableMax

Divisible == \E d \in FirstPrimes : candidate % d = 0

\* is_prime before the first random witness.
TestCandidate ==
  /\ candidate # 0 /\ rounds = 0
  /\ \/ InTable /\ candidate \in FirstPrimes /\ Return(candidate)
     \/ InTable /\ candidate \notin FirstPrimes /\ NextCandidate
     \/ ~InTable /\ Divisible /\ NextCandidate

\* One round of miller_rabin with a random witness.
MillerRabinRound ==
  /\ candidate # 0 /\ ~InTable /\ ~Divisible
  /\ \E a \in Witnesses(candidate) :
       \/ ~Passes(candidate, a) /\ NextCandidate
       \/ Passes(candidate, a) /\ rounds + 1 = MRRounds /\ Return(candidate)
       \/ /\ Passes(candidate, a) /\ rounds + 1 < MRRounds
          /\ rounds' = rounds + 1
          /\ UNCHANGED <<n_length, gmp, found, candidate, n, p, q, number, value,
                         safe, derived>>

Key     == [n |-> n, p |-> p, q |-> q]
NSquare == n * n

-----------------------------------------------------------------------------
(* Operations of EncryptedNumber.  Each gives a new object that has not been *)
(* obfuscated.                                                               *)

Fresh(c, e) == [ciphertext |-> c, exponent |-> e, obfuscated |-> FALSE]

Obfuscated(a, r) ==
  [a EXCEPT !.ciphertext = MulMod(@, PowMod(r, n, NSquare), NSquare),
            !.obfuscated = TRUE]

\* Mutant of Times: the flag of the operand is kept.
TimesKeepsFlag(a, en) ==
  [a EXCEPT !.ciphertext = RawMul(Key, @, en.encoding), !.exponent = @ + en.exponent]

\* __mul__ by an encoded number.
Times(a, en) == Fresh(RawMul(Key, a.ciphertext, en.encoding), a.exponent + en.exponent)

\* Lowering multiplies by a power of BASE, which has to be encodable itself.
CanLower(a, e) == e <= a.exponent /\ Pow(BASE, a.exponent - e) <= MaxInt(n)

LowerTo(a, e) ==
  [Times(a, [encoding |-> Pow(BASE, a.exponent - e), exponent |-> 0])
     EXCEPT !.exponent = e]

\* _add_encrypted, the exponents being equal.
Plus(a, b) == Fresh(RawAdd(Key, a.ciphertext, b.ciphertext), a.exponent)

\* The encryption of an encoded number; _add_encoded does not obfuscate its.
EncryptEncoded(en, r) == Fresh(RawEncrypt(Key, en.encoding, r), en.exponent)

-----------------------------------------------------------------------------
(* What the user does.                                                       *)

Usable == n # 0 /\ n <= MaxN

\* The integer that stands for v at exponent e.
IntegerAt(v, e) == v \div Pow(BASE, e - MinExponent)

\* What an operand is worth, and what its encoding at exponent e is.
ValueOf(x)    == x.num * Pow(2, x.exp - LOG2_BASE * MinExponent)
Worth(x, e)   == IntRep(x, e) * Pow(BASE, e - MinExponent)
Product(v, x) == (v * ValueOf(x)) \div Pow(BASE, -MinExponent)

\* An operation gives a new number, which should stand for v + w.
Yields(new, v, w) ==
  /\ new.exponent >= MinExponent
  /\ Magnitude(IntegerAt(v + w, new.exponent)) <= MaxExact
  /\ number' = <<new>>
  /\ value' = v + w
  /\ safe' = (/\ InRange(n, IntegerAt(v, new.exponent))
              /\ InRange(n, IntegerAt(w, new.exponent)))
  /\ UNCHANGED keyVars

\* encrypt with a random obfuscator, or with one the caller knows (r_value).
Encrypt(x, e, r) ==
  /\ Usable /\ e >= MinExponent /\ Encodable(n, x, e)
  /\ LET en == Encode(n, x, e)
     IN  \/ Yields(Obfuscated(EncryptEncoded(en, 1), r), 0, Worth(x, e)) /\ derived' = FALSE
         \/ Yields(EncryptEncoded(en, r), 0, Worth(x, e)) /\ derived' = TRUE

Least(d, e) == IF d <= e THEN d ELSE e

\* Mutant of AddScalar: the number is not lowered to the scalar's exponent.
AddScalarUnaligned(a, x) ==
  LET e == Least(a.exponent, PrecExponent(x))
  IN  /\ Encodable(n, x, e) /\ CanLower(a, e)
      /\ Yields(Plus(a, EncryptEncoded(Encode(n, x, e), 1)), value, ValueOf(x))

\* _add_scalar: encoded at the number's exponent, or below if its precision
\* needs it; then the number is lowered.
AddScalar(a, x) ==
  LET e == Least(a.exponent, PrecExponent(x))
  IN  /\ Encodable(n, x, e) /\ CanLower(a, e)
      /\ Yields(Plus(LowerTo(a, e), EncryptEncoded(Encode(n, x, e), 1)), value, ValueOf(x))

\* _add_encoded with a number encoded at its own exponent: the encoding is
\* lowered without a check.
AddEncoded(a, x) ==
  LET e   == PrecExponent(x)
      low == Least(a.exponent, e)
      en  == DecreaseExponentTo(n, Encode(n, x, e), low)
  IN  /\ Encodable(n, x, e) /\ CanLower(a, low)
      /\ Yields(Plus(LowerTo(a, low), EncryptEncoded(en, 1)), value, ValueOf(x))

\* _add_encrypted with another encrypted number; sign -1 is __sub__, which
\* multiplies it by -1 first.
AddEncrypted(a, x, sign, r) ==
  LET e     == PrecExponent(x)
      low   == Least(a.exponent, e)
      other == Obfuscated(EncryptEncoded(Encode(n, x, e), 1), r)
      b     == IF sign = 1 THEN other
               ELSE Times(other, [encoding |-> sign % n, exponent |-> 0])
  IN  /\ Encodable(n, x, e)
      /\ CanLower(a, low) /\ CanLower(b, low)
      /\ Yields(Plus(LowerTo(a, low), LowerTo(b, low)), value, sign * ValueOf(x))

\* Neither the product nor the lowered number is checked to be in range.
MulScalar(a, x) ==
  LET e == PrecExponent(x)
  IN  Encodable(n, x, e) /\ Yields(Times(a, Encode(n, x, e)), Product(value, x), 0)

\* __rsub__: a scalar minus the number.
SubtractFrom(a, x) ==
  LET b == Times(a, [encoding |-> -1 % n, exponent |-> 0])
      e == Least(b.exponent, PrecExponent(x))
  IN  /\ Encodable(n, x, e) /\ CanLower(b, e)
      /\ Yields(Plus(LowerTo(b, e), EncryptEncoded(Encode(n, x, e), 1)), -value, ValueOf(x))

DecreaseExponent(a, e) == CanLower(a, e) /\ Yields(LowerTo(a, e), value, 0)

\* obfuscate, which ciphertext() calls on a number that is not yet.
Obfuscate(a, r) ==
  /\ number' = <<Obfuscated(a, r)>>
  /\ derived' = FALSE
  /\ UNCHANGED <<keyVars, value, safe>>

Operate(a) ==
  \/ \E x \in Numbers : AddScalar(a, x) \/ AddEncoded(a, x) \/ MulScalar(a, x)
                        \/ SubtractFrom(a, x)
  \/ \E x \in Numbers, sign \in {1, -1}, r \in Obfuscators : AddEncrypted(a, x, sign, r)
  \/ \E e \in MinExponent .. a.exponent : DecreaseExponent(a, e)

Next ==
  \/ DrawPrime \/ DrawCandidate \/ TestCandidate \/ MillerRabinRound
  \/ \E x \in Numbers, r \in Obfuscators :
       \E e \in Precisions \cup {PrecExponent(x)} : Encrypt(x, e, r)
  \/ number # << >> /\ Operate(number[1]) /\ derived' = TRUE
  \/ \E r \in Obfuscators : number # << >> /\ Obfuscate(number[1], r)

Spec == Init /\ [][Next]_vars

-----------------------------------------------------------------------------
TypeOK ==
  /\ n_length \in NLengths /\ gmp \in HaveGmp
  /\ found \in Seq(Nat \ {0, 1}) /\ Len(found) <= 1
  /\ candidate \in Nat /\ rounds \in 0 .. MRRounds - 1
  /\ n = p * q /\ (n # 0 => 1 < p /\ p < q /\ BitLength(n) = n_length)
  /\ number # << >> =>
       /\ number[1].ciphertext \in 1 .. NSquare - 1
       /\ Gcd(number[1].ciphertext, n) = 1
       /\ number[1].exponent \in Int /\ number[1].obfuscated \in BOOLEAN
  /\ value \in Int
  /\ safe \in BOOLEAN /\ derived \in BOOLEAN

(* The search for a prime never goes past one (getprimeover, is_prime).      *)
PrimesNotPassedOver ==
  [][candidate' = candidate + 2 => ~Prime(candidate)]_vars

(* phe/util.py, miller_rabin: a composite passes a round with a probability  *)
(* of less than a quarter, whatever composite is_prime runs it on.           *)
LiarsAreFew ==
  candidate > TableMax /\ ~Divisible /\ ~Prime(candidate) =>
    LET liars == {a \in Witnesses(candidate) : Passes(candidate, a)}
    IN  4 * Cardinality(liars) < Cardinality(Witnesses(candidate))

(* from_totient finds the primes of every key, as the constructor orders     *)
(* them, from its totient.                                                   *)
TotientGivesKey == n # 0 => FromTotient(n, (p - 1) * (q - 1)) = <<p, q>>

Plain == IF number = << >> THEN 0 ELSE RawDecrypt(Key, number[1].ciphertext)
Exact == IF number = << >> THEN 0 ELSE IntegerAt(value, number[1].exponent)

SR == INSTANCE SignedResidue WITH
        Factors <- -Pow(BASE, -MinExponent) .. Pow(BASE, -MinExponent) \cup
                   {IntRep(x, PrecExponent(x)) : x \in Numbers},
        plain <- Plain,
        exact <- Exact

(* Whatever is done to an encrypted number under a good key, in any order,   *)
(* with the operands and random numbers given: it decrypts to the residue of *)
(* the integer it stands for.                                                *)
Implements == SR!Spec

(* The sum of two numbers in range is read back right or decode raises.      *)
(* Products and aligned exponents may overflow without being noticed.        *)
OverflowDetected == SR!OverflowDetected

(* ciphertext() gives out what is flagged without obfuscating it: nothing    *)
(* flagged may be the outcome of an operation others could repeat.           *)
ExportsObfuscated ==
  number # << >> => (number[1].obfuscated => ~derived)

\* The distance of what is encoded from x, in units of 2^y.
EncodingError(x, e, y) ==
  Magnitude(x.num * Pow(2, x.exp - y) - IntRep(x, e) * Pow(2, LOG2_BASE * e - y))

(* encode: floats and ints lose nothing at the exponent chosen for them, and *)
(* with a precision no more than it (encrypt's docstring); decode is its     *)
(* inverse on every mantissa.                                                *)
EncodeFaithful ==
  Usable /\ number = << >> =>
    \A x \in Numbers : \A e \in Precisions \cup {PrecExponent(x)} :
      LET y == Least(x.exp, LOG2_BASE * e)
          unit == Pow(2, LOG2_BASE * e - y)
      IN  /\ e = PrecExponent(x) => EncodingError(x, e, y) = 0
          /\ 2 * EncodingError(x, e, y) <= unit
          /\ Encodable(n, x, e) =>
               Decode(n, Encode(n, x, e).encoding) = <<IntRep(x, e)>>
=============================================================================
