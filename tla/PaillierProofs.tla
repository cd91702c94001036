--------------------------- MODULE PaillierProofs ---------------------------
(***************************************************************************)
(* The Paillier library (phe/paillier.py), for every key size, operand,    *)
(* base and bound: what ciphertext() gives out has been obfuscated, keys   *)
(* have their primes in order and the search passes no prime over, and an  *)
(* encrypted number decrypts to what it stands for, so that Paillier       *)
(* implements SignedResidue.                                               *)
(***************************************************************************)
EXTENDS Paillier, ArithmeticProofs

(* No number but a new one, an encrypted one or an obfuscated one has the    *)
(* flag: sums, products and lowered numbers have not.                        *)
LEMMA NotFlagged ==
  ASSUME NEW a, NEW b, NEW c, NEW e, NEW en
  PROVE  /\ Fresh(c, e).obfuscated = FALSE
         /\ Plus(a, b).obfuscated = FALSE
         /\ Times(a, en).obfuscated = FALSE
         /\ LowerTo(a, e).obfuscated = FALSE
         /\ EncryptEncoded(en, c).obfuscated = FALSE
<1>1. \A x, y : Fresh(x, y).obfuscated = FALSE  BY DEF Fresh
<1>2. \A x, y : Times(x, y).obfuscated = FALSE  BY <1>1 DEF Times
<1>3. LowerTo(a, e).obfuscated = FALSE
  <2> DEFINE t == Times(a, [encoding |-> Pow(BASE, a.exponent - e), exponent |-> 0])
  <2>1. t.obfuscated = FALSE  BY <1>2
  <2>2. LowerTo(a, e) = [t EXCEPT !.exponent = e]  BY DEF LowerTo
  <2>3. "obfuscated" \in DOMAIN t /\ "obfuscated" # "exponent"
    BY DEF Times, Fresh
  <2> HIDE DEF t
  <2> QED  BY <2>1, <2>2, <2>3
<1> QED  BY <1>1, <1>2, <1>3 DEF Plus, EncryptEncoded

(* An operation that yields a number without the flag keeps the property.    *)
LEMMA YieldKeeps ==
  ASSUME NEW made, NEW v, NEW w, Yields(made, v, w), made.obfuscated = FALSE
  PROVE  ExportsObfuscated'
BY DEF Yields, ExportsObfuscated

(* So every operation of the class keeps it.                                 *)
LEMMA OperateKeeps ==
  ASSUME NEW a, Operate(a)
  PROVE  ExportsObfuscated'
<1>1. ASSUME NEW x \in Numbers, AddScalar(a, x) PROVE ExportsObfuscated'
  BY <1>1, NotFlagged, YieldKeeps DEF AddScalar
<1>2. ASSUME NEW x \in Numbers, AddEncoded(a, x) PROVE ExportsObfuscated'
  BY <1>2, NotFlagged, YieldKeeps DEF AddEncoded
<1>3. ASSUME NEW x \in Numbers, MulScalar(a, x) PROVE ExportsObfuscated'
  BY <1>3, NotFlagged, YieldKeeps DEF MulScalar
<1>4. ASSUME NEW x \in Numbers, SubtractFrom(a, x) PROVE ExportsObfuscated'
  BY <1>4, NotFlagged, YieldKeeps DEF SubtractFrom
<1>5. ASSUME NEW x \in Numbers, NEW sign \in {1, -1}, NEW r \in Obfuscators,
             AddEncrypted(a, x, sign, r)
      PROVE  ExportsObfuscated'
  BY <1>5, NotFlagged, YieldKeeps DEF AddEncrypted
<1>6. ASSUME NEW e, DecreaseExponent(a, e) PROVE ExportsObfuscated'
  BY <1>6, NotFlagged, YieldKeeps DEF DecreaseExponent
<1> QED  BY <1>1, <1>2, <1>3, <1>4, <1>5, <1>6 DEF Operate

(* Key generation leaves the number alone.                                   *)
LEMMA KeyStepsKeep ==
  ASSUME DrawPrime \/ DrawCandidate \/ TestCandidate \/ MillerRabinRound
  PROVE  UNCHANGED <<number, derived>>
<1>1. ASSUME NEW prime, Return(prime) PROVE UNCHANGED <<number, derived>>
  BY <1>1 DEF Return
<1>2. NextCandidate => UNCHANGED <<number, derived>>  BY DEF NextCandidate
<1>3. CASE DrawPrime  BY <1>1, <1>3 DEF DrawPrime
<1>4. CASE DrawCandidate  BY <1>4 DEF DrawCandidate
<1>5. CASE TestCandidate  BY <1>1, <1>2, <1>5 DEF TestCandidate
<1>6. CASE MillerRabinRound  BY <1>1, <1>2, <1>6 DEF MillerRabinRound
<1> QED  BY <1>3, <1>4, <1>5, <1>6

(* Every step keeps the property.                                            *)
LEMMA StepKeeps == ExportsObfuscated /\ [Next]_vars => ExportsObfuscated'
<1> SUFFICES ASSUME ExportsObfuscated, [Next]_vars PROVE ExportsObfuscated'
  OBVIOUS
<1>1. CASE DrawPrime \/ DrawCandidate \/ TestCandidate \/ MillerRabinRound
  BY <1>1, KeyStepsKeep DEF ExportsObfuscated
<1>2. ASSUME NEW x \in Numbers, NEW r \in Obfuscators, NEW e, Encrypt(x, e, r)
      PROVE  ExportsObfuscated'
  <2>1. derived' = FALSE => ExportsObfuscated'  BY DEF ExportsObfuscated
  <2> QED  BY <1>2, <2>1, NotFlagged, YieldKeeps DEF Encrypt
<1>3. CASE Operate(number[1])  BY <1>3, OperateKeeps
<1>4. ASSUME NEW r \in Obfuscators, Obfuscate(number[1], r) PROVE ExportsObfuscated'
  BY <1>4 DEF Obfuscate, ExportsObfuscated
<1>5. CASE UNCHANGED vars  BY <1>5 DEF vars, ExportsObfuscated
<1> QED  BY <1>1, <1>2, <1>3, <1>4, <1>5 DEF Next

(* ciphertext() gives out what is flagged without obfuscating it: nothing    *)
(* that others could compute from an earlier ciphertext is ever flagged,     *)
(* whatever the key and the operands (phe/paillier.py, EncryptedNumber).     *)
THEOREM Exported == Spec => []ExportsObfuscated
<1>1. Init => ExportsObfuscated  BY DEF Init, ExportsObfuscated
<1> QED  BY <1>1, StepKeeps, PTL DEF Spec

-----------------------------------------------------------------------------
(* Key generation: what has been found are numbers above 1, primes if GMP    *)
(* found them, and a key has its primes in ascending order.                  *)
Chosen(d) == d \in Nat /\ d > 1 /\ (gmp => Prime(d))

KeyInv ==
  /\ n_length \in NLengths /\ gmp \in HaveGmp
  /\ candidate \in Nat /\ (candidate # 0 => ~gmp)
  /\ found = << >> \/ \E d : Chosen(d) /\ found = <<d>>
  /\ n # 0 => Chosen(p) /\ Chosen(q) /\ p < q /\ n = p * q

(* Whichever prime is returned: the key, if it is made, is made of primes in *)
(* ascending order.                                                          *)
LEMMA ReturnKeeps ==
  ASSUME KeyInv, NEW prime, Chosen(prime), Return(prime)
  PROVE  KeyInv'
<1>1. /\ candidate' = 0 /\ UNCHANGED <<n_length, gmp>>
      /\ prime \in Nat /\ prime > 1 /\ (gmp => Prime(prime))
  BY DEF Return, Chosen
<1>2. CASE found = << >>
  <2>1. found' = <<prime>> /\ UNCHANGED <<n, p, q>>
    <3>1. found # <<prime>>  BY <1>2
    <3> QED  BY <1>2, <3>1 DEF Return
  <2> QED  BY <1>1, <2>1 DEF KeyInv, Chosen
<1>3. ASSUME NEW d, Chosen(d), found = <<d>>, d = prime
      PROVE  KeyInv'
  <2>1. UNCHANGED <<found, n, p, q>>
    <3>1. found # << >> /\ found = <<prime>>  BY <1>3
    <3> QED  BY <3>1 DEF Return
  <2> QED  BY <1>1, <2>1 DEF KeyInv, Chosen
<1>4. ASSUME NEW d, Chosen(d), found = <<d>>, d # prime
      PROVE  KeyInv'
  <2>1. found # << >> /\ found # <<prime>> /\ found[1] = d  BY <1>4
  <2>2. found' = << >>  BY <2>1 DEF Return
  <2>3. \/ UNCHANGED <<n, p, q>>
        \/ /\ n' = d * prime
           /\ p' = IF prime < d THEN prime ELSE d
           /\ q' = IF prime < d THEN d ELSE prime
    <3>1. \/ UNCHANGED <<n, p, q>>
          \/ /\ n' = found[1] * prime
             /\ p' = IF prime < found[1] THEN prime ELSE found[1]
             /\ q' = IF prime < found[1] THEN found[1] ELSE prime
      BY <2>1 DEF Return
    <3> QED  BY <2>1, <3>1
  <2>4. d \in Nat /\ d > 1 /\ (gmp => Prime(d))  BY <1>4 DEF Chosen
  <2>5. CASE UNCHANGED <<n, p, q>>  BY <1>1, <2>2, <2>5 DEF KeyInv, Chosen
  <2>6. CASE prime < d /\ n' = d * prime /\ p' = prime /\ q' = d
    <3>1. d * prime = prime * d  BY <1>1, <2>4
    <3> QED  BY <1>1, <2>2, <2>4, <2>6, <3>1 DEF KeyInv, Chosen
  <2>7. CASE ~(prime < d) /\ n' = d * prime /\ p' = d /\ q' = prime
    <3>1. d < prime  BY <1>1, <1>4, <2>4, <2>7
    <3> QED  BY <1>1, <2>2, <2>4, <2>7, <3>1 DEF KeyInv, Chosen
  <2> QED  BY <2>3, <2>5, <2>6, <2>7
<1> QED  BY <1>2, <1>3, <1>4 DEF KeyInv

(* The numbers the search may start from.                                    *)
LEMMA StartsAre ==
  ASSUME n_length \in NLengths
  PROVE  Starts \subseteq Nat
<1>1. n_length \div 2 - 1 \in Nat  BY KeyAssumption
<1>2. Pow(2, n_length \div 2 - 1) \in Nat  BY <1>1, PowGrows
<1> QED  BY <1>2 DEF Starts

(* Nothing but key generation touches the key.                               *)
LEMMA OperationsKeepKey ==
  ASSUME Next
  PROVE  DrawPrime \/ DrawCandidate \/ TestCandidate \/ MillerRabinRound \/ UNCHANGED keyVars
<1>1. ASSUME NEW made, NEW v, NEW w, Yields(made, v, w) PROVE UNCHANGED keyVars
  BY <1>1 DEF Yields
<1>2. ASSUME NEW x, NEW e, NEW r, Encrypt(x, e, r) PROVE UNCHANGED keyVars
  BY <1>1, <1>2 DEF Encrypt
<1>3. ASSUME NEW a, Operate(a) PROVE UNCHANGED keyVars
  BY <1>1, <1>3 DEF Operate, AddScalar, AddEncoded, MulScalar, SubtractFrom, AddEncrypted,
                    DecreaseExponent
<1>4. ASSUME NEW a, NEW r, Obfuscate(a, r) PROVE UNCHANGED keyVars
  BY <1>4 DEF Obfuscate
<1> QED  BY <1>2, <1>3, <1>4 DEF Next

(* The search for a key keeps the invariant.                                 *)
LEMMA KeyStep == KeyInv /\ [Next]_vars => KeyInv'
<1> SUFFICES ASSUME KeyInv, [Next]_vars PROVE KeyInv'
  OBVIOUS
<1>1. ASSUME UNCHANGED keyVars PROVE KeyInv'
  BY <1>1 DEF KeyInv, Chosen, keyVars
<1>2. CASE DrawPrime
  <2>1. PICK r \in Starts : Return(NextPrime(r)) /\ gmp  BY <1>2 DEF DrawPrime
  <2>2. r \in Nat  BY StartsAre DEF KeyInv
  <2>3. Chosen(NextPrime(r))
    <3>1. NextPrime(r) \in Nat /\ Prime(NextPrime(r))  BY <2>2, NextPrimeIs
    <3> QED  BY <3>1 DEF Chosen, Prime
  <2> QED  BY <2>1, <2>3, ReturnKeeps
<1>3. CASE DrawCandidate
  <2>1. candidate' \in Nat /\ ~gmp /\ UNCHANGED <<n_length, gmp, found, n, p, q>>
    <3>1. Starts \subseteq Nat  BY StartsAre DEF KeyInv
    <3> QED  BY <1>3, <3>1 DEF DrawCandidate
  <2> QED  BY <2>1 DEF KeyInv, Chosen
<1>4. ASSUME candidate # 0, NextCandidate PROVE KeyInv'
  BY <1>4 DEF KeyInv, Chosen, NextCandidate
<1>5. ASSUME candidate > 1, Return(candidate) PROVE KeyInv'
  <2>1. Chosen(candidate)  BY <1>5 DEF KeyInv, Chosen
  <2> QED  BY <1>5, <2>1, ReturnKeeps
<1>6. CASE TestCandidate
  BY <1>4, <1>5, <1>6 DEF TestCandidate, FirstPrimes, KeyInv
<1>7. CASE MillerRabinRound
  <2>1. candidate # 0 /\ candidate > 1
    BY <1>7, KeyAssumption DEF MillerRabinRound, InTable, KeyInv
  <2>2. ASSUME UNCHANGED <<n_length, gmp, found, candidate, n, p, q>> PROVE KeyInv'
    BY <2>2 DEF KeyInv, Chosen
  <2> QED  BY <1>4, <1>5, <1>7, <2>1, <2>2 DEF MillerRabinRound
<1>8. CASE UNCHANGED vars
  <2>1. UNCHANGED keyVars  BY <1>8 DEF vars
  <2> QED  BY <1>1, <2>1
<1> QED  BY <1>1, <1>2, <1>3, <1>6, <1>7, <1>8, OperationsKeepKey

(* So every key has its primes in ascending order, and if GMP is there they  *)
(* are primes (phe/paillier.py, generate_paillier_keypair).                  *)
THEOREM KeysInOrder == Spec => []KeyInv
<1>1. Init => KeyInv  BY DEF Init, KeyInv
<1> QED  BY <1>1, KeyStep, PTL DEF Spec

(* The primes of a key are found from its totient (phe/paillier.py,          *)
(* PaillierPrivateKey.from_totient), whatever the size of the key.           *)
THEOREM TotientDoes == Spec => []TotientGivesKey
<1>1. KeyInv => TotientGivesKey
  <2> SUFFICES ASSUME KeyInv, n # 0
               PROVE  FromTotient(n, (p - 1) * (q - 1)) = <<p, q>>
    BY DEF TotientGivesKey
  <2>1. p \in Nat /\ q \in Nat /\ p < q /\ n = p * q  BY DEF KeyInv, Chosen
  <2>2. n - (p - 1) * (q - 1) + 1 = p + q  BY <2>1
  <2>3. (p + q) * (p + q) - n * 4 = (q - p) * (q - p)  BY <2>1
  <2>4. ISqrt((q - p) * (q - p)) = q - p  
    <3>1. q - p \in Nat  BY <2>1
    <3> QED  BY <3>1, ISqrtSquare
  <2>5. ((p + q) - (q - p)) \div 2 = p  BY <2>1
  <2>6. (p + q) - p = q  BY <2>1
  <2> QED  BY <2>2, <2>3, <2>4, <2>5, <2>6 DEF FromTotient
<1> QED  BY <1>1, KeysInOrder, PTL

(* The search for a prime never passes one (phe/util.py, getprimeover and    *)
(* is_prime): what the table, the trial divisions and the rounds of          *)
(* miller_rabin refuse is composite, whatever the witnesses drawn.           *)
THEOREM PrimesKept == Spec => PrimesNotPassedOver
<1>1. ASSUME KeyInv, [Next]_vars
      PROVE  [candidate' = candidate + 2 => ~Prime(candidate)]_vars
  <2> SUFFICES ASSUME Next, candidate' = candidate + 2, Prime(candidate) PROVE FALSE
    BY <1>1
  <2>1. candidate \in Nat /\ candidate > 1  BY <1>1 DEF KeyInv, Prime
  <2>2. ASSUME NEW prime, Return(prime) PROVE FALSE
    BY <2>1, <2>2 DEF Return
  <2>3. ~DrawPrime  BY <2>2 DEF DrawPrime
  <2>4. ~DrawCandidate  BY <2>1 DEF DrawCandidate
  <2>5. ~Divisible \/ InTable
    <3> SUFFICES ASSUME NEW d \in FirstPrimes, candidate % d = 0, ~InTable PROVE FALSE
      BY DEF Divisible
    <3>1. d \in 2 .. candidate - 1  BY <2>1, KeyAssumption DEF FirstPrimes, InTable
    <3> QED  BY <3>1 DEF Prime
  <2>6. InTable => candidate \in FirstPrimes
    BY <2>1, KeyAssumption DEF InTable, FirstPrimes
  <2>7. ~TestCandidate  BY <2>2, <2>5, <2>6 DEF TestCandidate
  <2>8. ASSUME NEW a \in Witnesses(candidate) PROVE Passes(candidate, a)
    <3>1. a \in 0 .. candidate - 1 /\ a # 0 /\ a \in Int /\ candidate \in Nat \ {0}
      BY <2>1, <2>8 DEF Witnesses
    <3>2. a % candidate # 0  BY <3>1, SmallMod
    <3> QED  BY <2>1, <3>1, <3>2, PrimesPass
  <2>9. ~MillerRabinRound
    <3>1. candidate' # candidate  BY <2>1
    <3> QED  BY <2>2, <2>8, <3>1 DEF MillerRabinRound
  <2>10. candidate' = candidate  BY <2>3, <2>4, <2>7, <2>9, OperationsKeepKey DEF keyVars
  <2> QED  BY <2>1, <2>10
<1> QED  BY <1>1, KeysInOrder, PTL DEF Spec, PrimesNotPassedOver

(* A round of miller_rabin lets a composite pass for less than a quarter of  *)
(* the witnesses it draws from (phe/util.py, miller_rabin), whatever number  *)
(* the search is looking at and however small the table of primes.           *)
THEOREM WitnessesSeldomLie == Spec => []LiarsAreFew
<1>1. ASSUME KeyInv PROVE LiarsAreFew
  <2> SUFFICES ASSUME candidate > TableMax, ~Divisible, ~Prime(candidate)
               PROVE  4 * Cardinality({a \in Witnesses(candidate) : Passes(candidate, a)})
                        < Cardinality(Witnesses(candidate))
    BY DEF LiarsAreFew
  <2>1. candidate \in Nat /\ TableMax \in Nat /\ TableMax >= 3
    BY <1>1, KeyAssumption DEF KeyInv
  <2>2. 2 \in FirstPrimes /\ 3 \in FirstPrimes
    <3>1. Prime(2)  BY DEF Prime
    <3>2. Prime(3)
      <4>1. 3 % 2 = 1  OBVIOUS
      <4>2. \A d \in 2 .. 3 - 1 : d = 2  OBVIOUS
      <4> QED  BY <4>1, <4>2 DEF Prime
    <3> QED  BY <2>1, <3>1, <3>2 DEF FirstPrimes
  <2>3. candidate % 2 # 0 /\ candidate % 3 # 0  BY <2>2 DEF Divisible
  <2>4. candidate > 3  BY <2>1
  <2> QED  BY <2>1, <2>3, <2>4, FewFalseWitnesses
<1> QED  BY <1>1, KeysInOrder, PTL

-----------------------------------------------------------------------------
(* What is proved of the numbers: powers of BASE, and operands at an         *)
(* exponent.                                                                 *)
Scale(e) == Pow(BASE, e - MinExponent)

(* BASE is a power of 2, and so are its powers.                              *)
LEMMA BaseIs ==
  ASSUME NEW k \in Nat
  PROVE  /\ BASE \in Nat \ {0} /\ Pow(BASE, k) \in Nat \ {0}
         /\ Pow(BASE, k) = Pow(2, LOG2_BASE * k)
<1>1. LOG2_BASE \in Nat  BY EncodingAssumption
<1>2. BASE \in Nat \ {0}  BY <1>1, PowPositive DEF BASE
<1>3. Pow(BASE, k) = Pow(2, LOG2_BASE * k)  BY <1>1, PowPow DEF BASE
<1> QED  BY <1>2, <1>3, PowPositive

(* The unit at an exponent is a multiple of that at a lower one.             *)
LEMMA ScaleIs ==
  ASSUME NEW e \in Int, NEW l \in Int, l >= MinExponent, l <= e
  PROVE  /\ Scale(e) \in Nat \ {0} /\ Scale(l) \in Nat \ {0}
         /\ Pow(BASE, e - l) \in Nat \ {0}
         /\ Scale(e) = Pow(BASE, e - l) * Scale(l)
<1>1. MinExponent \in Int  BY OperandAssumption
<1>2. PICK i \in Int : i = e - l  OBVIOUS
<1>3. PICK j \in Int : j = l - MinExponent  BY <1>1
<1>4. i \in Nat /\ j \in Nat /\ e - MinExponent = i + j  BY <1>1, <1>2, <1>3
<1>5. BASE \in Int /\ Pow(BASE, i) \in Nat \ {0} /\ Pow(BASE, j) \in Nat \ {0}
      /\ Pow(BASE, i + j) \in Nat \ {0}
  <2>1. i + j \in Nat  BY <1>4
  <2> QED  BY <1>4, <2>1, BaseIs
<1>6. Pow(BASE, i + j) = Pow(BASE, i) * Pow(BASE, j)  BY <1>4, <1>5, PowAdd
<1> QED  BY <1>2, <1>3, <1>4, <1>5, <1>6 DEF Scale

(* A number that is so many units is read as so many.                        *)
LEMMA IntegerAtIs ==
  ASSUME NEW z \in Int, NEW e \in Int, e >= MinExponent
  PROVE  IntegerAt(z * Scale(e), e) = z
<1>1. Scale(e) \in Nat \ {0}  BY ScaleIs
<1>2. PICK s \in Nat \ {0} : s = Scale(e)  BY <1>1
<1>3. z * s = s * z + 0 /\ z * s \in Int /\ 0 \in 0 .. s - 1  BY <1>2
<1>4. (z * s) \div s = z  BY <1>2, <1>3, DivUnique
<1> QED  BY <1>2, <1>4 DEF IntegerAt, Scale

(* The integer a number is rounded to.                                       *)
LEMMA RoundIs ==
  ASSUME NEW a \in Int, NEW d \in Nat \ {0}
  PROVE  /\ Round(a, d) \in Int
         /\ 2 * Magnitude(a - d * Round(a, d)) <= d
         /\ a = 0 => Round(a, d) = 0
<1>1. PICK b \in Int : b = a \div d  BY DivMod
<1>2. PICK r \in 0 .. d - 1 : r = a % d  BY DivMod
<1>3. a = d * b + r  BY <1>1, <1>2, DivMod
<1>4. PICK m \in Int : m = d * b  BY <1>1
<1>5. d * (b + 1) = m + d  BY <1>4
<1>6. Round(a, d) = b \/ Round(a, d) = b + 1  BY <1>1, <1>2 DEF Round
<1>7. Round(a, d) = b => 2 * r <= d  BY <1>1, <1>2 DEF Round
<1>8. Round(a, d) # b => 2 * r >= d  BY <1>1, <1>2 DEF Round
<1>9. CASE Round(a, d) = b
  <2>1. a - d * Round(a, d) = r  BY <1>3, <1>4, <1>9
  <2>2. a = 0 => b = 0
    <3>1. a = 0 => m = -r  BY <1>3, <1>4
    <3> QED  BY <1>1, <1>2, SmallMod, DivUnique
  <2> QED  BY <1>7, <1>9, <2>1, <2>2 DEF Magnitude
<1>10. CASE Round(a, d) = b + 1 /\ Round(a, d) # b
  <2>1. a - d * Round(a, d) = r - d  BY <1>3, <1>4, <1>5, <1>10
  <2>2. a # 0
    <3>1. a = 0 => 0 % d = 0
      <4>1. 0 \in Int /\ 0 \in 0 .. d - 1  OBVIOUS
      <4> QED  BY <4>1, SmallMod
    <3> QED  BY <1>2, <1>8, <1>10, <3>1
  <2> QED  BY <1>8, <1>10, <2>1, <2>2 DEF Magnitude
<1> QED  BY <1>6, <1>9, <1>10

(* Every exponent gives an integer, and nothing is lost at the exponent      *)
(* chosen for an operand or below it (encode): it is a multiple of the unit. *)
LEMMA IntRepIs ==
  ASSUME NEW x \in Numbers, NEW e \in Int
  PROVE  /\ IntRep(x, e) \in Int /\ PrecExponent(x) \in Int
         /\ x.num = 0 => IntRep(x, e) = 0
         /\ x.num # 0 /\ e <= PrecExponent(x) =>
              /\ x.exp - LOG2_BASE * e \in Nat
              /\ IntRep(x, e) = x.num * Pow(2, x.exp - LOG2_BASE * e)
<1>1. x.num \in Int /\ x.exp \in Int /\ x.isFloat \in BOOLEAN
      /\ (IF x.isFloat THEN BitLength(Magnitude(x.num)) <= FLOAT_MANTISSA_BITS
                       ELSE x.exp = 0)
  BY OperandAssumption
<1>2. LOG2_BASE \in Nat \ {0} /\ FLOAT_MANTISSA_BITS \in Nat \ {0}  BY EncodingAssumption
<1>3. PICK i \in Int : i = LOG2_BASE * e  BY <1>2
<1>4. PICK s \in Int : s = x.exp - i  BY <1>1
<1>5. ASSUME s >= 0 PROVE IntRep(x, e) \in Int /\ (x.num = 0 => IntRep(x, e) = 0)
  <2>1. Pow(2, s) \in Nat  BY <1>5, PowGrows
  <2>2. IntRep(x, e) = x.num * Pow(2, s)  BY <1>3, <1>4, <1>5 DEF IntRep
  <2>3. x.num * Pow(2, s) \in Int  BY <1>1, <2>1
  <2>4. x.num = 0 => x.num * Pow(2, s) = 0  BY <2>1
  <2> QED  BY <2>2, <2>3, <2>4
<1>6. ASSUME s < 0 PROVE IntRep(x, e) \in Int /\ (x.num = 0 => IntRep(x, e) = 0)
  <2>1. -s \in Nat  BY <1>6
  <2>2. Pow(2, -s) \in Nat \ {0}  BY <2>1, PowPositive
  <2>3. IntRep(x, e) = Round(x.num, Pow(2, -s))  BY <1>3, <1>4, <1>6 DEF IntRep
  <2> QED  BY <1>1, <2>2, <2>3, RoundIs
<1>7. PICK b \in Nat : b = BitLength(Magnitude(x.num))
  <2>1. Magnitude(x.num) \in Nat  BY <1>1 DEF Magnitude
  <2>2. BitLength(Magnitude(x.num)) \in 0 .. Magnitude(x.num)  BY <2>1, BitLengthIs
  <2> QED  BY <2>1, <2>2
<1>8. BinFltExponent(x) \in Int /\ (x.num # 0 => BinFltExponent(x) = b + x.exp)
  BY <1>1, <1>7 DEF BinFltExponent
<1>9. PICK f \in Int : f = BinFltExponent(x) - FLOAT_MANTISSA_BITS  BY <1>2, <1>8
<1>10. PICK g \in Int : g = f \div LOG2_BASE  BY <1>2, <1>9, DivMod
<1>11. PrecExponent(x) = IF x.isFloat THEN g ELSE 0  BY <1>9, <1>10 DEF PrecExponent
<1>12. PrecExponent(x) \in Int  BY <1>1, <1>10, <1>11
<1>13. ASSUME x.num # 0, e <= PrecExponent(x) PROVE s \in Nat
  <2>1. CASE x.isFloat
    <3>1. e <= g  BY <1>11, <1>13, <2>1
    <3>2. f = LOG2_BASE * g + (f % LOG2_BASE) /\ f % LOG2_BASE \in 0 .. LOG2_BASE - 1
      BY <1>2, <1>9, <1>10, DivMod
    <3>3. LOG2_BASE * g <= f  BY <1>2, <1>9, <3>2
    <3>4. i <= LOG2_BASE * g  BY <1>2, <1>3, <3>1
    <3>5. f <= x.exp  BY <1>1, <1>2, <1>7, <1>8, <1>9, <1>13, <2>1
    <3>6. LOG2_BASE * g \in Int  BY <1>2
    <3> QED  BY <1>1, <1>4, <3>3, <3>4, <3>5, <3>6
  <2>2. CASE ~x.isFloat
    <3>1. e <= 0 /\ x.exp = 0  BY <1>1, <1>11, <1>13, <2>2
    <3>2. i <= 0  BY <1>2, <1>3, <3>1
    <3> QED  BY <1>4, <3>1, <3>2
  <2> QED  BY <1>1, <2>1, <2>2
<1> QED  BY <1>3, <1>4, <1>5, <1>6, <1>12, <1>13 DEF IntRep

(* An operand at its exponent or below it, brought to a common unit: j and i *)
(* are how far the exponents e and l are above it.                           *)
LEMMA IntRepAligns ==
  ASSUME NEW x \in Numbers, NEW e \in Int, NEW l \in Int, NEW i \in Nat, NEW j \in Nat,
         e <= PrecExponent(x), l <= PrecExponent(x), e - j = l - i
  PROVE  IntRep(x, e) * Pow(BASE, j) = IntRep(x, l) * Pow(BASE, i)
<1>1. /\ IntRep(x, e) \in Int /\ IntRep(x, l) \in Int
      /\ Pow(BASE, j) = Pow(2, LOG2_BASE * j) /\ Pow(BASE, j) \in Nat
      /\ Pow(BASE, i) = Pow(2, LOG2_BASE * i) /\ Pow(BASE, i) \in Nat
  BY IntRepIs, BaseIs
<1>2. CASE x.num = 0
  <2>1. IntRep(x, e) = 0 /\ IntRep(x, l) = 0  BY <1>2, IntRepIs
  <2> QED  BY <1>1, <2>1
<1>3. CASE x.num # 0
  <2>1. x.num \in Int /\ x.exp \in Int  BY OperandAssumption
  <2>2. LOG2_BASE \in Nat  BY EncodingAssumption
  <2>3. PICK s \in Nat : s = x.exp - LOG2_BASE * e /\ IntRep(x, e) = x.num * Pow(2, s)
    BY <1>3, IntRepIs
  <2>4. PICK t \in Nat : t = x.exp - LOG2_BASE * l /\ IntRep(x, l) = x.num * Pow(2, t)
    BY <1>3, IntRepIs
  <2>5. PICK u \in Nat : u = LOG2_BASE * j  BY <2>2
  <2>6. PICK v \in Nat : v = LOG2_BASE * i  BY <2>2
  <2>7. s + u = t + v
    <3>1. LOG2_BASE * (e - j) = LOG2_BASE * (l - i)  OBVIOUS
    <3>2. LOG2_BASE * (e - j) = LOG2_BASE * e - u  BY <2>2, <2>5
    <3>3. LOG2_BASE * (l - i) = LOG2_BASE * l - v  BY <2>2, <2>6
    <3>4. LOG2_BASE * e \in Int /\ LOG2_BASE * l \in Int  BY <2>2
    <3> QED  BY <2>1, <2>3, <2>4, <3>1, <3>2, <3>3, <3>4
  <2>8. Pow(2, s) * Pow(2, u) = Pow(2, t) * Pow(2, v)
    <3>1. 2 \in Int  OBVIOUS
    <3>2. Pow(2, s + u) = Pow(2, s) * Pow(2, u)  BY <3>1, PowAdd
    <3>3. Pow(2, t + v) = Pow(2, t) * Pow(2, v)  BY <3>1, PowAdd
    <3> QED  BY <2>7, <3>2, <3>3
  <2>9. /\ Pow(2, s) \in Nat /\ Pow(2, u) \in Nat /\ Pow(2, t) \in Nat /\ Pow(2, v) \in Nat
    BY PowGrows
  <2>10. (x.num * Pow(2, s)) * Pow(2, u) = x.num * (Pow(2, s) * Pow(2, u))  BY <2>1, <2>9
  <2>11. (x.num * Pow(2, t)) * Pow(2, v) = x.num * (Pow(2, t) * Pow(2, v))  BY <2>1, <2>9
  <2> QED  BY <1>1, <2>3, <2>4, <2>5, <2>6, <2>8, <2>10, <2>11
<1> QED  BY <1>2, <1>3

(* What an operand is worth, in units of BASE ^ MinExponent; its exponent    *)
(* may be lower.                                                             *)
LEMMA ValueOfIs ==
  ASSUME NEW x \in Numbers, NEW e \in Int, NEW i \in Nat, NEW j \in Nat,
         e <= PrecExponent(x), MinExponent - j = e - i
  PROVE  ValueOf(x) \in Int /\ ValueOf(x) * Pow(BASE, j) = IntRep(x, e) * Pow(BASE, i)
<1>1. /\ IntRep(x, e) \in Int
      /\ Pow(BASE, j) = Pow(2, LOG2_BASE * j) /\ Pow(BASE, j) \in Nat
      /\ Pow(BASE, i) = Pow(2, LOG2_BASE * i) /\ Pow(BASE, i) \in Nat
  BY IntRepIs, BaseIs
<1>2. x.num \in Int /\ x.exp \in Int /\ x.exp >= LOG2_BASE * MinExponent
      /\ MinExponent \in Int
  BY OperandAssumption
<1>3. LOG2_BASE \in Nat  BY EncodingAssumption
<1>4. LOG2_BASE * MinExponent \in Int  BY <1>2, <1>3
<1>5. PICK t \in Nat : t = x.exp - LOG2_BASE * MinExponent  BY <1>2, <1>4
<1>6. Pow(2, t) \in Nat /\ ValueOf(x) = x.num * Pow(2, t)  BY <1>5, PowGrows DEF ValueOf
<1>7. CASE x.num = 0
  <2>1. IntRep(x, e) = 0 /\ ValueOf(x) = 0  BY <1>6, <1>7, IntRepIs
  <2> QED  BY <1>1, <2>1
<1>8. CASE x.num # 0
  <2>3. PICK s \in Nat : s = x.exp - LOG2_BASE * e /\ IntRep(x, e) = x.num * Pow(2, s)
    BY <1>8, IntRepIs
  <2>5. PICK u \in Nat : u = LOG2_BASE * i  BY <1>3
  <2>6. PICK v \in Nat : v = LOG2_BASE * j  BY <1>3
  <2>7. s + u = t + v
    <3>1. LOG2_BASE * (MinExponent - j) = LOG2_BASE * (e - i)  OBVIOUS
    <3>2. LOG2_BASE * (e - i) = LOG2_BASE * e - u  BY <1>3, <2>5
    <3>3. LOG2_BASE * (MinExponent - j) = LOG2_BASE * MinExponent - v  BY <1>2, <1>3, <2>6
    <3>4. LOG2_BASE * e \in Int  BY <1>3
    <3> QED  BY <1>2, <1>4, <1>5, <2>3, <3>1, <3>2, <3>3, <3>4
  <2>8. Pow(2, s) * Pow(2, u) = Pow(2, t) * Pow(2, v)
    <3>1. 2 \in Int  OBVIOUS
    <3>2. Pow(2, s + u) = Pow(2, s) * Pow(2, u)  BY <3>1, PowAdd
    <3>3. Pow(2, t + v) = Pow(2, t) * Pow(2, v)  BY <3>1, PowAdd
    <3> QED  BY <2>7, <3>2, <3>3
  <2>9. /\ Pow(2, s) \in Nat /\ Pow(2, u) \in Nat /\ Pow(2, v) \in Nat
    BY PowGrows
  <2>10. (x.num * Pow(2, s)) * Pow(2, u) = x.num * (Pow(2, s) * Pow(2, u))  BY <1>2, <2>9
  <2>11. (x.num * Pow(2, t)) * Pow(2, v) = x.num * (Pow(2, t) * Pow(2, v))
    BY <1>2, <1>6, <2>9
  <2>12. x.num * Pow(2, t) \in Int  BY <1>2, <1>6
  <2> QED  BY <1>1, <1>6, <2>3, <2>5, <2>6, <2>8, <2>10, <2>11, <2>12
<1> QED  BY <1>7, <1>8

-----------------------------------------------------------------------------
(* Encrypted numbers: a is at exponent e, and its ciphertext holds z.        *)
Cipher(a, z, e) ==
  /\ a \in [ciphertext : 0 .. NSquare - 1, exponent : Int, obfuscated : BOOLEAN]
  /\ a.exponent = e /\ Holds(Key, a.ciphertext, z)

(* The key in the fields of RawPaillier.                                     *)
LEMMA KeyIs ==
  ASSUME IsKey(Key)
  PROVE  /\ Key.n = n /\ n \in Nat \ 0 .. 2 /\ n # 0 /\ Square(Key) = NSquare
         /\ NSquare \in Nat \ {0} /\ MaxInt(n) \in Nat /\ MaxInt(n) < n
         /\ Unit(Key, 1)
<1>1. Key.n = n /\ Key.p = p /\ Key.q = q /\ Square(Key) = NSquare
  BY DEF Key, Square, NSquare
<1>2. n \in Nat \ 0 .. 2 /\ NSquare \in Nat \ {0}  BY <1>1, KeyFacts
<1>3. MaxInt(n) \in Nat /\ 3 * MaxInt(n) < n  BY <1>2, Thirds
<1>4. \A d \in Nat : d > 1 => 1 % d # 0
  <2> SUFFICES ASSUME NEW d \in Nat, d > 1 PROVE 1 % d # 0
    OBVIOUS
  <2>1. PICK o \in Int : o = 1  OBVIOUS
  <2>2. d \in Nat \ {0} /\ o \in 0 .. d - 1  BY <2>1
  <2>3. o % d = o  BY <2>2, SmallMod
  <2> QED  BY <2>1, <2>3
<1>5. p \in Nat /\ p > 1 /\ q \in Nat /\ q > 1  BY <1>1 DEF IsKey, Prime
<1> QED  BY <1>1, <1>2, <1>3, <1>4, <1>5 DEF Unit

(* A new number from a ciphertext.                                           *)
LEMMA FreshIs ==
  ASSUME IsKey(Key), NEW c \in 0 .. Square(Key) - 1, NEW z \in Int, NEW e \in Int,
         Holds(Key, c, z)
  PROVE  Cipher(Fresh(c, e), z, e)
<1>1. NSquare = Square(Key)  BY KeyIs
<1> QED  BY <1>1 DEF Fresh, Cipher

(* What a ciphertext holds is only known modulo n.                           *)
LEMMA CipherShifts ==
  ASSUME IsKey(Key), NEW a, NEW e \in Int, NEW y \in Int, NEW z \in Int, NEW i \in Int,
         Cipher(a, y, e), z = y + n * i
  PROVE  Cipher(a, z, e)
<1>1. Key.n = n /\ Square(Key) = NSquare /\ NSquare \in Nat  BY KeyIs
<1>2. a.ciphertext \in Int /\ Holds(Key, a.ciphertext, y)  BY <1>1 DEF Cipher
<1>3. Cong(Square(Key), a.ciphertext, a.ciphertext)  BY DEF Cong
<1>4. z = y + Key.n * i  BY <1>1
<1>5. Holds(Key, a.ciphertext, z)  BY <1>2, <1>3, <1>4, HoldsCong
<1> QED  BY <1>5 DEF Cipher

(* __mul__ by the encoding of w.                                             *)
LEMMA TimesIs ==
  ASSUME IsKey(Key), NEW a, NEW e \in Int, NEW z \in Int, Cipher(a, z, e),
         NEW en, NEW w \in Int, en.encoding = w % n, en.exponent \in Int
  PROVE  Cipher(Times(a, en), z * w, e + en.exponent)
<1>1. /\ Key.n = n /\ n \in Nat \ {0} /\ Square(Key) = NSquare /\ NSquare \in Nat
  BY KeyIs
<1>2. a.ciphertext \in Nat /\ Holds(Key, a.ciphertext, z) /\ a.exponent = e
  BY <1>1 DEF Cipher
<1>3. PICK i \in Int : i = w \div n  BY <1>1, DivMod
<1>4. PICK v \in 0 .. n - 1 : v = w % n  BY <1>1, DivMod
<1>5. w = n * i + v  BY <1>1, <1>3, <1>4, DivMod
<1>6. v \in 0 .. Key.n - 1  BY <1>1, <1>4
<1>7. /\ Holds(Key, RawMul(Key, a.ciphertext, v), z * v)
      /\ RawMul(Key, a.ciphertext, v) \in 0 .. Square(Key) - 1
  BY <1>2, <1>6, RawMulHolds
<1>8. z * v \in Int /\ e + en.exponent \in Int  BY <1>4
<1>9. Times(a, en) = Fresh(RawMul(Key, a.ciphertext, v), e + en.exponent)
  BY <1>2, <1>4 DEF Times
<1>10. Cipher(Times(a, en), z * v, e + en.exponent)  BY <1>7, <1>8, <1>9, FreshIs
<1>11. z * w = z * v + n * (z * i)  BY <1>1, <1>4, <1>5
<1>12. z * w \in Int /\ z * i \in Int  OBVIOUS
<1> QED  BY <1>8, <1>10, <1>11, <1>12, CipherShifts

(* decrease_exponent_to multiplies by a power of BASE.                       *)
LEMMA LowerToIs ==
  ASSUME IsKey(Key), NEW a, NEW e \in Int, NEW z \in Int, Cipher(a, z, e),
         NEW l \in Int, CanLower(a, l)
  PROVE  l <= e /\ Cipher(LowerTo(a, l), z * Pow(BASE, e - l), l)
<1>1. /\ n \in Nat \ {0} /\ NSquare \in Nat /\ MaxInt(n) \in Nat /\ MaxInt(n) < n
  BY KeyIs
<1>2. a.exponent = e  BY DEF Cipher
<1>3. l <= e /\ Pow(BASE, e - l) <= MaxInt(n)  BY <1>2 DEF CanLower
<1>4. e - l \in Nat  BY <1>3
<1>5. PICK w \in Nat : w = Pow(BASE, e - l)  BY <1>4, BaseIs
<1>6. w \in 0 .. n - 1  BY <1>1, <1>3, <1>5
<1>7. w % n = w  BY <1>1, <1>6, SmallMod
<1> DEFINE en == [encoding |-> w, exponent |-> 0]
<1>8. en.encoding = w % n /\ en.exponent \in Int /\ e + en.exponent = e  BY <1>7
<1>9. Times(a, en).exponent \in Int /\ LowerTo(a, l) = [Times(a, en) EXCEPT !.exponent = l]
  BY <1>2, <1>5, <1>8 DEF LowerTo, Times, Fresh
<1> HIDE DEF en
<1>10. Cipher(Times(a, en), z * w, e)  BY <1>8, TimesIs
<1>11. Cipher(LowerTo(a, l), z * w, l)  BY <1>9, <1>10 DEF Cipher
<1> QED  BY <1>3, <1>5, <1>11

(* _add_encrypted.                                                           *)
LEMMA PlusIs ==
  ASSUME IsKey(Key), NEW e \in Int, NEW a, NEW y \in Int, Cipher(a, y, e),
         NEW b, NEW z \in Int, Cipher(b, z, e)
  PROVE  Cipher(Plus(a, b), y + z, e)
<1>1. a.exponent = e /\ Holds(Key, a.ciphertext, y) /\ Holds(Key, b.ciphertext, z)
  BY DEF Cipher
<1>2. /\ Holds(Key, RawAdd(Key, a.ciphertext, b.ciphertext), y + z)
      /\ RawAdd(Key, a.ciphertext, b.ciphertext) \in 0 .. Square(Key) - 1
  BY <1>1, RawAddHolds
<1>3. y + z \in Int  OBVIOUS
<1>4. Plus(a, b) = Fresh(RawAdd(Key, a.ciphertext, b.ciphertext), e)  BY <1>1 DEF Plus
<1> QED  BY <1>2, <1>3, <1>4, FreshIs

(* The encryption of the encoding of w.                                      *)
LEMMA EncryptEncodedIs ==
  ASSUME IsKey(Key), NEW r, Unit(Key, r),
         NEW en, NEW w \in Int, en.encoding = w % n, en.exponent \in Int
  PROVE  Cipher(EncryptEncoded(en, r), w, en.exponent)
<1>1. /\ Key.n = n /\ n \in Nat \ {0} /\ Square(Key) = NSquare /\ NSquare \in Nat
  BY KeyIs
<1>3. PICK i \in Int : i = w \div n  BY <1>1, DivMod
<1>4. PICK v \in 0 .. n - 1 : v = w % n  BY <1>1, DivMod
<1>5. w = v + n * i
  <2>1. w = n * i + v  BY <1>1, <1>3, <1>4, DivMod
  <2> QED  BY <1>1, <2>1
<1>6. v \in 0 .. Key.n - 1  BY <1>1, <1>4
<1>7. Holds(Key, RawEncrypt(Key, v, r), v) /\ RawEncrypt(Key, v, r) \in 0 .. Square(Key) - 1
  BY <1>6, RawEncryptHolds
<1>8. EncryptEncoded(en, r) = Fresh(RawEncrypt(Key, v, r), en.exponent)
  BY <1>4 DEF EncryptEncoded
<1>9. Cipher(EncryptEncoded(en, r), v, en.exponent)
  <2>1. v \in Int  BY <1>1
  <2> QED  BY <1>7, <1>8, <2>1, FreshIs
<1> QED  BY <1>5, <1>9, CipherShifts

(* obfuscate multiplies by what holds 0.                                     *)
LEMMA ObfuscatedIs ==
  ASSUME IsKey(Key), NEW a, NEW e \in Int, NEW z \in Int, Cipher(a, z, e),
         NEW r, Unit(Key, r)
  PROVE  Cipher(Obfuscated(a, r), z, e) /\ Obfuscated(a, r).obfuscated = TRUE
<1>1. /\ Key.n = n /\ n \in Nat \ {0} /\ Square(Key) = NSquare /\ NSquare \in Nat \ {0, 1}
  BY KeyIs, KeyFacts
<1>2. r \in Int /\ Pow(r, n) \in Int  BY <1>1, PowSteps DEF Unit
<1>3. PICK x \in Int : x = PowMod(r, n, NSquare) /\ x = Pow(r, n) % NSquare
  <2>1. n \in Nat  BY <1>1
  <2>2. PowMod(r, n, NSquare) = Pow(r, n) % NSquare  BY <1>1, <1>2, <2>1, PowModIs
  <2> QED  BY <1>1, <1>2, <2>2, DivMod
<1>4. Sealed(Key, 0, r) = Pow(r, n)
  <2>1. (1 + n * 0) * Pow(r, n) = Pow(r, n)  BY <1>1, <1>2
  <2> QED  BY <1>1, <2>1 DEF Sealed
<1>5. Cong(Square(Key), x, Sealed(Key, 0, r))  BY <1>1, <1>2, <1>3, <1>4, CongMod
<1>6. Holds(Key, x, 0)  BY <1>5 DEF Holds
<1>7. Holds(Key, a.ciphertext, z) /\ a.exponent = e  BY DEF Cipher
<1>8. PICK o \in Int : o = 0  OBVIOUS
<1>9. /\ Holds(Key, RawAdd(Key, a.ciphertext, x), z + o)
      /\ RawAdd(Key, a.ciphertext, x) \in 0 .. Square(Key) - 1
  BY <1>6, <1>7, <1>8, RawAddHolds
<1>10. z + o = z  BY <1>8
<1>11. MulMod(a.ciphertext, x, NSquare) = RawAdd(Key, a.ciphertext, x)
  BY <1>1 DEF RawAdd
<1>12. Obfuscated(a, r) = [a EXCEPT !.ciphertext = RawAdd(Key, a.ciphertext, x),
                                    !.obfuscated = TRUE]
  BY <1>3, <1>11 DEF Obfuscated, Cipher
<1> QED  BY <1>1, <1>7, <1>9, <1>10, <1>12 DEF Cipher

-----------------------------------------------------------------------------
(* What an operation makes of a number at exponent o that holds z: it        *)
(* multiplies by a factor f, adds y, and keeps account of both in value.  If *)
(* no exponent is above 0, the factor is among those Implements allows.      *)
LowOperands ==
  (\A x \in Numbers : PrecExponent(x) <= 0) /\ (\A e \in Precisions : e <= 0)

FactorsAllowed ==
  -Pow(BASE, -MinExponent) .. Pow(BASE, -MinExponent) \cup
    {IntRep(x, PrecExponent(x)) : x \in Numbers}

Outcome(z, o) ==
  \E f \in Int, y \in Int, e \in Int : \E made :
    /\ e >= MinExponent /\ Cipher(made, z * f + y, e)
    /\ Yields(made, (z * f) * Scale(e), y * Scale(e))
    /\ LowOperands /\ o <= 0 => f \in FactorsAllowed /\ e <= 0

(* How an outcome is shown.                                                  *)
LEMMA OutcomeIs ==
  ASSUME NEW z \in Int, NEW o \in Int, NEW f \in Int, NEW y \in Int, NEW e \in Int, NEW made,
         NEW h \in Int, h = z * f + y, Cipher(made, h, e),
         NEW v, v = (z * f) * Scale(e), NEW w, w = y * Scale(e), Yields(made, v, w),
         LowOperands /\ o <= 0 => f \in FactorsAllowed /\ e <= 0
  PROVE  Outcome(z, o)
<1>1. e >= MinExponent  BY DEF Cipher, Yields
<1> QED  BY <1>1 DEF Outcome

(* Lowering from an exponent that is not above 0 multiplies by no more than  *)
(* Implements allows.                                                        *)
LEMMA LowFactors ==
  ASSUME NEW o \in Int, NEW l \in Int, l >= MinExponent, l <= o, o <= 0, NEW s \in {1, -1}
  PROVE  s * Pow(BASE, o - l) \in FactorsAllowed /\ 0 \in FactorsAllowed
<1>1. MinExponent \in Int /\ BASE \in Int  BY OperandAssumption, BaseIs
<1>2. PICK i \in Nat : i = o - l  OBVIOUS
<1>3. PICK j \in Nat : j = -MinExponent - i  BY <1>1, <1>2
<1>4. -MinExponent = i + j  BY <1>1, <1>2, <1>3
<1>5. PICK c \in Nat \ {0} : c = Pow(BASE, i)  BY BaseIs
<1>6. PICK d \in Nat \ {0} : d = Pow(BASE, j)  BY BaseIs
<1>7. Pow(BASE, -MinExponent) = c * d
  <2>1. Pow(BASE, i + j) = Pow(BASE, i) * Pow(BASE, j)  BY <1>1, PowAdd
  <2> QED  BY <1>4, <1>5, <1>6, <2>1
<1>8. c <= c * d /\ c * d \in Nat
  <2>1. d = 1 + (d - 1) /\ d - 1 \in Nat  BY <1>6
  <2>2. c * d = c + c * (d - 1) /\ c * (d - 1) \in Nat  BY <2>1
  <2> QED  BY <2>2
<1>9. s * c \in -(c * d) .. c * d /\ 0 \in -(c * d) .. c * d  BY <1>8
<1> QED  BY <1>2, <1>5, <1>7, <1>9 DEF FactorsAllowed

(* The lower of two exponents.                                               *)
LEMMA LeastIs ==
  ASSUME NEW d \in Int, NEW e \in Int
  PROVE  Least(d, e) \in Int /\ Least(d, e) <= d /\ Least(d, e) <= e
BY DEF Least

(* A lowered number still stands for the same.                               *)
LEMMA LoweredValue ==
  ASSUME NEW z \in Int, NEW o \in Int, NEW l \in Int, l >= MinExponent, l <= o
  PROVE  z * Scale(o) = (z * Pow(BASE, o - l)) * Scale(l)
<1>1. Scale(o) = Pow(BASE, o - l) * Scale(l) /\ Pow(BASE, o - l) \in Int /\ Scale(l) \in Int
  BY ScaleIs
<1> QED  BY <1>1

(* What an operand is worth at an exponent that is not above its own.        *)
LEMMA OperandWorth ==
  ASSUME NEW x \in Numbers, NEW l \in Int, l >= MinExponent, l <= PrecExponent(x)
  PROVE  ValueOf(x) \in Int /\ ValueOf(x) = IntRep(x, l) * Scale(l)
<1>1. MinExponent \in Int /\ BASE \in Int  BY OperandAssumption, BaseIs
<1>2. PICK i \in Nat : i = l - MinExponent  BY <1>1
<1>3. PICK o \in Nat : o = 0  OBVIOUS
<1>4. MinExponent - o = l - i  BY <1>1, <1>2, <1>3
<1>5. ValueOf(x) \in Int /\ ValueOf(x) * Pow(BASE, o) = IntRep(x, l) * Pow(BASE, i)
  BY <1>4, ValueOfIs
<1>6. Pow(BASE, o) = 1  BY <1>1, <1>3, PowSteps
<1> QED  BY <1>2, <1>5, <1>6 DEF Scale

(* The sum of a lowered number and an operand at the same exponent, however  *)
(* that was encrypted; s is -1 if the number was negated before.             *)
LEMMA SumOutcome ==
  ASSUME IsKey(Key), NEW z \in Int, NEW o \in Int, NEW s \in {1, -1},
         NEW a, Cipher(a, z * s, o), NEW l \in Int, CanLower(a, l),
         NEW b, NEW y \in Int, Cipher(b, y, l),
         NEW w, l >= MinExponent => w = y * Scale(l),
         NEW v, v = (z * s) * Scale(o), Yields(Plus(LowerTo(a, l), b), v, w)
  PROVE  Outcome(z, o)
<1>1. z * s \in Int  OBVIOUS
<1>2. l <= o /\ Cipher(LowerTo(a, l), (z * s) * Pow(BASE, o - l), l)  BY <1>1, LowerToIs
<1>3. o - l \in Nat  BY <1>2
<1>4. PICK c \in Int : c = Pow(BASE, o - l)  BY <1>3, BaseIs
<1>5. PICK f \in Int : f = s * c  BY <1>4
<1>6. PICK h \in Int : h = z * f  BY <1>5
<1>7. (z * s) * c = h  BY <1>4, <1>5, <1>6
<1>8. Cipher(LowerTo(a, l), h, l)  BY <1>2, <1>4, <1>7
<1>9. h + y \in Int /\ Cipher(Plus(LowerTo(a, l), b), h + y, l)  BY <1>8, PlusIs
<1>10. l >= MinExponent  BY <1>9 DEF Yields, Cipher
<1>11. v = (z * f) * Scale(l)
  <2>1. v = ((z * s) * c) * Scale(l)  BY <1>1, <1>2, <1>4, <1>10, LoweredValue
  <2> QED  BY <1>6, <1>7, <2>1
<1>12. LowOperands /\ o <= 0 => f \in FactorsAllowed /\ l <= 0
  <2>1. o <= 0 => s * Pow(BASE, o - l) \in FactorsAllowed  BY <1>2, <1>10, LowFactors
  <2>2. o <= 0 => l <= 0  BY <1>2
  <2> QED  BY <1>4, <1>5, <2>1, <2>2
<1>13. w = y * Scale(l)  BY <1>10
<1>14. h + y = z * f + y  BY <1>6
<1> QED  BY <1>9, <1>11, <1>12, <1>13, <1>14, OutcomeIs

(* __add__ with a scalar.                                                    *)
LEMMA AddScalarIs ==
  ASSUME IsKey(Key), NEW z \in Int, NEW o \in Int, NEW a, Cipher(a, z, o),
         value = z * Scale(o), NEW x \in Numbers, AddScalar(a, x)
  PROVE  Outcome(z, o)
<1>1. PrecExponent(x) \in Int  BY IntRepIs
<1>2. a.exponent = o  BY DEF Cipher
<1>3. PICK l \in Int : l = Least(o, PrecExponent(x)) /\ l <= PrecExponent(x)
  BY <1>1, LeastIs
<1>4. PICK y \in Int : y = IntRep(x, l)  BY IntRepIs
<1>5. PICK en : en = Encode(n, x, l)  OBVIOUS
<1>6. en.encoding = y % n /\ en.exponent = l  BY <1>4, <1>5 DEF Encode
<1>7. CanLower(a, l) /\ Yields(Plus(LowerTo(a, l), EncryptEncoded(en, 1)), value, ValueOf(x))
  BY <1>2, <1>3, <1>5 DEF AddScalar
<1>8. Cipher(EncryptEncoded(en, 1), y, l)
  <2>1. Unit(Key, 1)  BY KeyIs
  <2> QED  BY <1>6, <2>1, EncryptEncodedIs
<1>9. l >= MinExponent => ValueOf(x) = y * Scale(l)  BY <1>3, <1>4, OperandWorth
<1>10. PICK s \in {1, -1} : s = 1  OBVIOUS
<1>11. z * s = z  BY <1>10
<1>12. Cipher(a, z * s, o) /\ value = (z * s) * Scale(o)  BY <1>11
<1> QED  BY <1>7, <1>8, <1>9, <1>12, SumOutcome

(* __add__ with an EncodedNumber.                                            *)
LEMMA AddEncodedIs ==
  ASSUME IsKey(Key), NEW z \in Int, NEW o \in Int, NEW a, Cipher(a, z, o),
         value = z * Scale(o), NEW x \in Numbers, AddEncoded(a, x)
  PROVE  Outcome(z, o)
<1>0. n \in Nat \ {0}  BY KeyIs
<1>1. PICK e \in Int : e = PrecExponent(x)  BY IntRepIs
<1>2. a.exponent = o  BY DEF Cipher
<1>3. PICK l \in Int : l = Least(o, e) /\ l <= e  BY LeastIs
<1>4. PICK y \in Int : y = IntRep(x, l)  BY IntRepIs
<1>5. PICK en : en = DecreaseExponentTo(n, Encode(n, x, e), l)  OBVIOUS
<1>6. en.encoding = y % n /\ en.exponent = l
  <2>1. PICK j \in Nat : j = e - l  BY <1>3
  <2>2. PICK c \in Int : c = Pow(BASE, j)  BY <2>1, BaseIs
  <2>3. PICK w \in Int : w = IntRep(x, e)  BY IntRepIs
  <2>4. en.encoding = ((w % n) * c) % n /\ en.exponent = l
    BY <1>5, <2>1, <2>2, <2>3 DEF DecreaseExponentTo, Encode
  <2>5. ((w % n) * c) % n = (w * c) % n  BY <1>0, ModTimes
  <2>6. PICK i \in Nat : i = 0  OBVIOUS
  <2>7. e - j = l - i  BY <2>1, <2>6
  <2>8. IntRep(x, e) * Pow(BASE, j) = IntRep(x, l) * Pow(BASE, i)
    BY <1>1, <1>3, <2>7, IntRepAligns
  <2>9. Pow(BASE, i) = 1
    <3>1. BASE \in Int  BY <2>1, BaseIs
    <3> QED  BY <2>6, <3>1, PowSteps
  <2>10. w * c = y  BY <1>4, <2>2, <2>3, <2>8, <2>9
  <2> QED  BY <2>4, <2>5, <2>10
<1>7. CanLower(a, l) /\ Yields(Plus(LowerTo(a, l), EncryptEncoded(en, 1)), value, ValueOf(x))
  BY <1>1, <1>2, <1>3, <1>5 DEF AddEncoded
<1>8. Cipher(EncryptEncoded(en, 1), y, l)
  <2>1. Unit(Key, 1)  BY KeyIs
  <2> QED  BY <1>6, <2>1, EncryptEncodedIs
<1>9. l >= MinExponent => ValueOf(x) = y * Scale(l)  BY <1>1, <1>3, <1>4, OperandWorth
<1>10. PICK s \in {1, -1} : s = 1  OBVIOUS
<1>11. z * s = z  BY <1>10
<1>12. Cipher(a, z * s, o) /\ value = (z * s) * Scale(o)  BY <1>11
<1> QED  BY <1>7, <1>8, <1>9, <1>12, SumOutcome

(* __rsub__.                                                                 *)
LEMMA SubtractFromIs ==
  ASSUME IsKey(Key), NEW z \in Int, NEW o \in Int, o >= MinExponent, NEW a, Cipher(a, z, o),
         value = z * Scale(o), NEW x \in Numbers, SubtractFrom(a, x)
  PROVE  Outcome(z, o)
<1>1. PrecExponent(x) \in Int  BY IntRepIs
<1>2. PICK s \in {1, -1} : s = -1  OBVIOUS
<1>3. PICK b : b = Times(a, [encoding |-> s % n, exponent |-> 0])  OBVIOUS
<1>4. Cipher(b, z * s, o)
  <2>1. PICK g : g = [encoding |-> s % n, exponent |-> 0]  OBVIOUS
  <2>2. g.encoding = s % n /\ g.exponent \in Int /\ o + g.exponent = o /\ s \in Int  BY <2>1
  <2>3. Cipher(Times(a, g), z * s, o + g.exponent)  BY <2>2, TimesIs
  <2> QED  BY <1>3, <2>1, <2>2, <2>3
<1>5. b.exponent = o  BY <1>4 DEF Cipher
<1>6. PICK l \in Int : l = Least(o, PrecExponent(x)) /\ l <= PrecExponent(x)
  BY <1>1, LeastIs
<1>7. PICK y \in Int : y = IntRep(x, l)  BY IntRepIs
<1>8. PICK en : en = Encode(n, x, l)  OBVIOUS
<1>9. en.encoding = y % n /\ en.exponent = l  BY <1>7, <1>8 DEF Encode
<1>10. CanLower(b, l) /\ Yields(Plus(LowerTo(b, l), EncryptEncoded(en, 1)), -value, ValueOf(x))
  BY <1>2, <1>3, <1>5, <1>6, <1>8 DEF SubtractFrom
<1>11. Cipher(EncryptEncoded(en, 1), y, l)
  <2>1. Unit(Key, 1)  BY KeyIs
  <2> QED  BY <1>9, <2>1, EncryptEncodedIs
<1>12. l >= MinExponent => ValueOf(x) = y * Scale(l)  BY <1>6, <1>7, OperandWorth
<1>13. -value = (z * s) * Scale(o)
  <2>1. Scale(o) \in Int  BY ScaleIs
  <2> QED  BY <1>2, <2>1
<1> QED  BY <1>4, <1>10, <1>11, <1>12, <1>13, SumOutcome

(* _add_encrypted, and __sub__ with sign -1.                                 *)
LEMMA AddEncryptedIs ==
  ASSUME IsKey(Key), NEW z \in Int, NEW o \in Int, NEW a, Cipher(a, z, o),
         value = z * Scale(o), NEW x \in Numbers, NEW sign \in {1, -1}, NEW r, Unit(Key, r),
         AddEncrypted(a, x, sign, r)
  PROVE  Outcome(z, o)
<1>1. PICK e \in Int : e = PrecExponent(x)  BY IntRepIs
<1>2. a.exponent = o  BY DEF Cipher
<1>3. PICK l \in Int : l = Least(o, e) /\ l <= e  BY LeastIs
<1>4. PICK w \in Int : w = IntRep(x, e)  BY IntRepIs
<1>5. PICK other : other = Obfuscated(EncryptEncoded(Encode(n, x, e), 1), r)  OBVIOUS
<1>6. Cipher(other, w, e)
  <2>1. PICK en : en = Encode(n, x, e)  OBVIOUS
  <2>2. en.encoding = w % n /\ en.exponent = e  BY <1>4, <2>1 DEF Encode
  <2>3. Unit(Key, 1)  BY KeyIs
  <2>4. Cipher(EncryptEncoded(en, 1), w, e)  BY <2>2, <2>3, EncryptEncodedIs
  <2> QED  BY <1>5, <2>1, <2>4, ObfuscatedIs
<1>7. PICK b : b = IF sign = 1 THEN other
                   ELSE Times(other, [encoding |-> sign % n, exponent |-> 0])
  OBVIOUS
<1>8. w * sign \in Int /\ Cipher(b, w * sign, e)
  <2>1. CASE sign = 1
    <3>1. w * sign = w  BY <2>1
    <3> QED  BY <1>6, <1>7, <2>1, <3>1
  <2>2. CASE sign # 1
    <3>1. PICK g : g = [encoding |-> sign % n, exponent |-> 0]  OBVIOUS
    <3>2. g.encoding = sign % n /\ g.exponent \in Int /\ e + g.exponent = e /\ sign \in Int
      BY <3>1
    <3>3. Cipher(Times(other, g), w * sign, e + g.exponent)  BY <1>6, <3>2, TimesIs
    <3> QED  BY <1>7, <2>2, <3>1, <3>2, <3>3
  <2> QED  BY <2>1, <2>2
<1>9. b.exponent = e  BY <1>8 DEF Cipher
<1>10. /\ CanLower(a, l) /\ CanLower(b, l)
       /\ Yields(Plus(LowerTo(a, l), LowerTo(b, l)), value, sign * ValueOf(x))
  BY <1>1, <1>2, <1>3, <1>5, <1>7 DEF AddEncrypted
<1>11. PICK j \in Nat : j = e - l  BY <1>3
<1>12. PICK c \in Int : c = Pow(BASE, j)  BY BaseIs
<1>13. PICK y \in Int : y = (w * sign) * c  OBVIOUS
<1>14. Cipher(LowerTo(b, l), y, l)
  <2>1. Cipher(LowerTo(b, l), (w * sign) * Pow(BASE, e - l), l)
    BY <1>8, <1>10, LowerToIs
  <2> QED  BY <1>11, <1>12, <1>13, <2>1
<1>15. l >= MinExponent => sign * ValueOf(x) = y * Scale(l)
  <2> SUFFICES ASSUME l >= MinExponent PROVE sign * ValueOf(x) = y * Scale(l)
    OBVIOUS
  <2>1. ValueOf(x) = w * Scale(e)
    <3>1. e >= MinExponent  BY <1>3, OperandAssumption
    <3> QED  BY <1>1, <1>4, <3>1, OperandWorth
  <2>2. Scale(e) = c * Scale(l) /\ Scale(l) \in Int  BY <1>3, <1>11, <1>12, ScaleIs
  <2>3. PICK t \in Int : t = Scale(l)  BY <2>2
  <2>4. sign * (w * (c * t)) = ((w * sign) * c) * t  OBVIOUS
  <2> QED  BY <1>13, <2>1, <2>2, <2>3, <2>4
<1>16. PICK s \in {1, -1} : s = 1  OBVIOUS
<1>17. z * s = z  BY <1>16
<1>18. Cipher(a, z * s, o) /\ value = (z * s) * Scale(o)  BY <1>17
<1> QED  BY <1>10, <1>14, <1>15, <1>18, SumOutcome

(* What the product of a number and an operand is worth.                     *)
LEMMA ProductIs ==
  ASSUME NEW z \in Int, NEW o \in Int, o >= MinExponent, NEW x \in Numbers,
         NEW h \in Int, h = o + PrecExponent(x), h >= MinExponent
  PROVE  Product(z * Scale(o), x) = (z * IntRep(x, PrecExponent(x))) * Scale(h)
<1>1. MinExponent \in Int /\ MinExponent <= 0  BY OperandAssumption
<1>2. PICK e \in Int : e = PrecExponent(x)  BY IntRepIs
<1>3. PICK w \in Int : w = IntRep(x, e)  BY <1>2, IntRepIs
<1>4. PICK j \in Nat : j = o - MinExponent  BY <1>1
<1>5. PICK m \in Nat : m = -MinExponent  BY <1>1
<1>6. PICK i \in Nat : i = h - MinExponent  BY <1>1
<1>7. PICK k \in Nat : k = i + m  OBVIOUS
<1>8. MinExponent - j = e - k  BY <1>1, <1>2, <1>4, <1>5, <1>6, <1>7
<1>9. ValueOf(x) \in Int /\ ValueOf(x) * Pow(BASE, j) = w * Pow(BASE, k)
  BY <1>2, <1>3, <1>8, ValueOfIs
<1>10. PICK v \in Int : v = ValueOf(x)  BY <1>9
<1>11. PICK c \in Nat \ {0} : c = Pow(BASE, j)  BY BaseIs
<1>12. PICK d \in Nat \ {0} : d = Pow(BASE, i)  BY BaseIs
<1>13. PICK b \in Nat \ {0} : b = Pow(BASE, m)  BY BaseIs
<1>14. Pow(BASE, k) = d * b
  <2>1. BASE \in Int  BY <1>5, BaseIs
  <2>2. Pow(BASE, i + m) = Pow(BASE, i) * Pow(BASE, m)  BY <2>1, PowAdd
  <2> QED  BY <1>7, <1>12, <1>13, <2>2
<1>15. v * c = w * (d * b)  BY <1>9, <1>10, <1>11, <1>14
<1>16. PICK y \in Int : y = (z * w) * d  OBVIOUS
<1>17. (z * c) * v = b * y + 0
  <2>1. (z * c) * v = z * (v * c)  OBVIOUS
  <2>2. z * (w * (d * b)) = b * ((z * w) * d)  OBVIOUS
  <2>3. b * y \in Int  OBVIOUS
  <2> QED  BY <1>15, <1>16, <2>1, <2>2, <2>3
<1>18. ((z * c) * v) \div b = y
  <2>1. 0 \in 0 .. b - 1 /\ (z * c) * v \in Int  OBVIOUS
  <2> QED  BY <1>17, <2>1, DivUnique
<1>19. Scale(o) = c /\ Scale(h) = d  BY <1>4, <1>6, <1>11, <1>12 DEF Scale
<1> QED  BY <1>2, <1>3, <1>5, <1>10, <1>13, <1>16, <1>18, <1>19 DEF Product

(* __mul__ with a scalar.                                                    *)
LEMMA MulScalarIs ==
  ASSUME IsKey(Key), NEW z \in Int, NEW o \in Int, o >= MinExponent, NEW a, Cipher(a, z, o),
         value = z * Scale(o), NEW x \in Numbers, MulScalar(a, x)
  PROVE  Outcome(z, o)
<1>1. PICK e \in Int : e = PrecExponent(x)  BY IntRepIs
<1>2. PICK f \in Int : f = IntRep(x, e)  BY IntRepIs
<1>3. PICK en : en = Encode(n, x, e)  OBVIOUS
<1>4. en.encoding = f % n /\ en.exponent = e  BY <1>2, <1>3 DEF Encode
<1>5. PICK h \in Int : h = o + e  OBVIOUS
<1>6. Cipher(Times(a, en), z * f, h)  BY <1>4, <1>5, TimesIs
<1>7. Yields(Times(a, en), Product(value, x), 0)  BY <1>1, <1>3 DEF MulScalar
<1>8. h >= MinExponent  BY <1>6, <1>7 DEF Cipher, Yields
<1>9. Product(value, x) = (z * f) * Scale(h)  BY <1>1, <1>2, <1>5, <1>8, ProductIs
<1>10. PICK y \in Int : y = 0  OBVIOUS
<1>11. 0 = y * Scale(h)
  <2>1. Scale(h) \in Int  BY <1>8, ScaleIs
  <2> QED  BY <1>10, <2>1
<1>12. z * f \in Int /\ z * f = z * f + y  BY <1>10
<1>13. LowOperands /\ o <= 0 => f \in FactorsAllowed /\ h <= 0
  BY <1>1, <1>2, <1>5 DEF LowOperands, FactorsAllowed
<1> QED  BY <1>6, <1>7, <1>9, <1>11, <1>12, <1>13, OutcomeIs

(* decrease_exponent_to.                                                     *)
LEMMA DecreaseExponentIs ==
  ASSUME IsKey(Key), NEW z \in Int, NEW o \in Int, NEW a, Cipher(a, z, o),
         value = z * Scale(o), NEW l \in Int, DecreaseExponent(a, l)
  PROVE  Outcome(z, o)
<1>1. CanLower(a, l) /\ Yields(LowerTo(a, l), value, 0)  BY DEF DecreaseExponent
<1>2. l <= o /\ Cipher(LowerTo(a, l), z * Pow(BASE, o - l), l)  BY <1>1, LowerToIs
<1>3. o - l \in Nat  BY <1>2
<1>4. PICK f \in Int : f = Pow(BASE, o - l)  BY <1>3, BaseIs
<1>5. l >= MinExponent  BY <1>1, <1>2 DEF Cipher, Yields
<1>6. value = (z * f) * Scale(l)  BY <1>2, <1>4, <1>5, LoweredValue
<1>7. PICK y \in Int : y = 0  OBVIOUS
<1>8. 0 = y * Scale(l)
  <2>1. Scale(l) \in Int  BY <1>5, ScaleIs
  <2> QED  BY <1>7, <2>1
<1>9. z * f \in Int /\ z * f = z * f + y  BY <1>7
<1>10. LowOperands /\ o <= 0 => f \in FactorsAllowed /\ l <= 0
  <2>1. PICK s \in {1, -1} : s = 1  OBVIOUS
  <2>2. o <= 0 => s * f \in FactorsAllowed  BY <1>2, <1>4, <1>5, LowFactors
  <2>3. s * f = f  BY <2>1
  <2> QED  BY <1>2, <2>2, <2>3
<1> QED  BY <1>1, <1>2, <1>4, <1>6, <1>8, <1>9, <1>10, OutcomeIs

(* encrypt: a new number, whatever there was before.                         *)
LEMMA EncryptIs ==
  ASSUME IsKey(Key), NEW z \in Int, NEW o \in Int, o <= 0, NEW x \in Numbers,
         NEW e \in Precisions \cup {PrecExponent(x)}, NEW r, Unit(Key, r), Encrypt(x, e, r)
  PROVE  Outcome(z, o)
<1>1. e \in Int  BY IntRepIs, OperandAssumption
<1>2. PICK y \in Int : y = IntRep(x, e)  BY <1>1, IntRepIs
<1>3. PICK en : en = Encode(n, x, e)  OBVIOUS
<1>4. en.encoding = y % n /\ en.exponent = e  BY <1>2, <1>3 DEF Encode
<1>5. Unit(Key, 1)  BY KeyIs
<1>6. Cipher(EncryptEncoded(en, r), y, e)  BY <1>1, <1>4, EncryptEncodedIs
<1>7. Cipher(EncryptEncoded(en, 1), y, e)  BY <1>1, <1>4, <1>5, EncryptEncodedIs
<1>8. Cipher(Obfuscated(EncryptEncoded(en, 1), r), y, e)  BY <1>1, <1>7, ObfuscatedIs
<1>9. e >= MinExponent /\ \E made : Cipher(made, y, e) /\ Yields(made, 0, Worth(x, e))
  BY <1>3, <1>6, <1>8 DEF Encrypt
<1>10. PICK made : Cipher(made, y, e) /\ Yields(made, 0, Worth(x, e))  BY <1>9
<1>11. PICK f \in Int : f = 0  OBVIOUS
<1>12. y = z * f + y  BY <1>11
<1>13. 0 = (z * f) * Scale(e)
  <2>1. Scale(e) \in Int  BY <1>1, <1>9, ScaleIs
  <2> QED  BY <1>11, <2>1
<1>14. Worth(x, e) = y * Scale(e)  BY <1>2 DEF Worth, Scale
<1>15. LowOperands /\ o <= 0 => f \in FactorsAllowed /\ e <= 0
  <2>1. 0 \in FactorsAllowed
    <3>1. MinExponent \in Int /\ MinExponent >= MinExponent /\ MinExponent <= 0 /\ 1 \in {1, -1}
      BY OperandAssumption
    <3> QED  BY <3>1, LowFactors
  <2> QED  BY <1>11, <2>1 DEF LowOperands
<1> QED  BY <1>1, <1>10, <1>12, <1>13, <1>14, <1>15, OutcomeIs

(* Every operation on a number.                                              *)
LEMMA OperateIs ==
  ASSUME IsKey(Key), \A r \in Obfuscators : Unit(Key, r),
         NEW z \in Int, NEW o \in Int, o >= MinExponent, NEW a, Cipher(a, z, o),
         value = z * Scale(o), Operate(a)
  PROVE  Outcome(z, o)
<1>1. ASSUME NEW x \in Numbers,
             AddScalar(a, x) \/ AddEncoded(a, x) \/ MulScalar(a, x) \/ SubtractFrom(a, x)
      PROVE  Outcome(z, o)
  BY <1>1, AddScalarIs, AddEncodedIs, MulScalarIs, SubtractFromIs
<1>2. ASSUME NEW x \in Numbers, NEW sign \in {1, -1}, NEW r \in Obfuscators,
             AddEncrypted(a, x, sign, r)
      PROVE  Outcome(z, o)
  BY <1>2, AddEncryptedIs
<1>3. ASSUME NEW e \in MinExponent .. a.exponent, DecreaseExponent(a, e)
      PROVE  Outcome(z, o)
  <2>1. e \in Int  BY OperandAssumption DEF Cipher
  <2> QED  BY <1>3, <2>1, DecreaseExponentIs
<1> QED  BY <1>1, <1>2, <1>3 DEF Operate

-----------------------------------------------------------------------------
(* The rest of the search: there is nothing but the search before the key is *)
(* there, and no search after.                                               *)
SearchInv ==
  /\ rounds \in 0 .. MRRounds - 1
  /\ n = 0 => p = 0 /\ q = 0 /\ number = << >> /\ value = 0 /\ safe = TRUE
  /\ n # 0 => candidate = 0 /\ BitLength(n) = n_length
  /\ safe \in BOOLEAN /\ derived \in BOOLEAN

(* A prime is returned.                                                      *)
LEMMA ReturnKeepsSearch ==
  ASSUME KeyInv, SearchInv, n = 0, NEW prime, Chosen(prime), Return(prime)
  PROVE  SearchInv'
<1>1. /\ candidate' = 0 /\ rounds' = 0 /\ 0 \in 0 .. MRRounds - 1
      /\ UNCHANGED <<n_length, number, value, safe, derived>>
  BY KeyAssumption DEF Return
<1>2. CASE UNCHANGED <<n, p, q>>  BY <1>1, <1>2 DEF SearchInv
<1>3. CASE ~UNCHANGED <<n, p, q>>
  <2>1. found # << >> /\ n' = found[1] * prime /\ BitLength(n') = n_length
    BY <1>3 DEF Return
  <2>2. PICK d \in Nat : d > 1 /\ found[1] = d  BY <2>1 DEF KeyInv, Chosen
  <2>3. d * prime # 0  BY <2>2 DEF Chosen
  <2>4. n' # 0  BY <2>1, <2>2, <2>3
  <2> QED  BY <1>1, <2>1, <2>4 DEF SearchInv
<1> QED  BY <1>2, <1>3

(* Every step keeps it.                                                      *)
LEMMA SearchStep == KeyInv /\ SearchInv /\ [Next]_vars => SearchInv'
<1> SUFFICES ASSUME KeyInv, SearchInv, [Next]_vars PROVE SearchInv'
  OBVIOUS
<1>1. candidate # 0 => n = 0  BY DEF SearchInv
<1>2. CASE DrawPrime
  <2>1. PICK r \in Starts : Return(NextPrime(r)) /\ n = 0  BY <1>2 DEF DrawPrime
  <2>2. r \in Nat  BY StartsAre DEF KeyInv
  <2>3. Chosen(NextPrime(r))
    <3>1. NextPrime(r) \in Nat /\ Prime(NextPrime(r))  BY <2>2, NextPrimeIs
    <3> QED  BY <3>1 DEF Chosen, Prime
  <2> QED  BY <2>1, <2>3, ReturnKeepsSearch
<1>3. CASE DrawCandidate  BY <1>3 DEF DrawCandidate, SearchInv
<1>4. ASSUME n = 0, NextCandidate PROVE SearchInv'
  <2>1. 0 \in 0 .. MRRounds - 1  BY KeyAssumption
  <2> QED  BY <1>4, <2>1 DEF SearchInv, NextCandidate
<1>5. ASSUME n = 0, candidate > 1, ~gmp, Return(candidate) PROVE SearchInv'
  <2>1. Chosen(candidate)  BY <1>5 DEF KeyInv, Chosen
  <2> QED  BY <1>5, <2>1, ReturnKeepsSearch
<1>6. CASE TestCandidate
  BY <1>1, <1>4, <1>5, <1>6 DEF TestCandidate, FirstPrimes, KeyInv
<1>7. CASE MillerRabinRound
  <2>1. candidate # 0 /\ candidate > 1
    BY <1>7, KeyAssumption DEF MillerRabinRound, InTable, KeyInv
  <2>2. ASSUME rounds + 1 < MRRounds, rounds' = rounds + 1,
               UNCHANGED <<n_length, gmp, found, candidate, n, p, q, number, value, safe, derived>>
        PROVE  SearchInv'
    <3>1. rounds' \in 0 .. MRRounds - 1  BY <2>2, KeyAssumption DEF SearchInv
    <3> QED  BY <2>2, <3>1 DEF SearchInv
  <2> QED  BY <1>1, <1>4, <1>5, <1>7, <2>1, <2>2 DEF MillerRabinRound, KeyInv
<1>8. ASSUME NEW made, NEW v, NEW w, Yields(made, v, w), n # 0, derived' \in BOOLEAN
      PROVE  SearchInv'
  <2>1. safe' \in BOOLEAN /\ UNCHANGED <<n_length, candidate, rounds, n>>
    BY <1>8 DEF Yields, keyVars, InRange
  <2> QED  BY <1>8, <2>1 DEF SearchInv
<1>9. ASSUME NEW x, NEW e, NEW r, Encrypt(x, e, r) PROVE SearchInv'
  BY <1>8, <1>9 DEF Encrypt, Usable
<1>10. ASSUME number # << >>, NEW a, Operate(a), derived' = TRUE PROVE SearchInv'
  <2>1. n # 0  BY <1>10 DEF SearchInv
  <2> QED  BY <1>8, <1>10, <2>1 DEF Operate, AddScalar, AddEncoded, MulScalar, SubtractFrom,
                                     AddEncrypted, DecreaseExponent
<1>11. ASSUME number # << >>, NEW a, NEW r, Obfuscate(a, r) PROVE SearchInv'
  <2>1. n # 0  BY <1>11 DEF SearchInv
  <2> QED  BY <1>11, <2>1 DEF Obfuscate, keyVars, SearchInv
<1>12. CASE UNCHANGED vars  BY <1>12 DEF vars, keyVars, SearchInv
<1> QED  BY <1>2, <1>3, <1>6, <1>7, <1>9, <1>10, <1>11, <1>12 DEF Next

-----------------------------------------------------------------------------
(* What the random choices may spoil: without GMP a composite may pass all   *)
(* rounds of miller_rabin, and an obfuscator may have a factor in common     *)
(* with the key.  The theorems below are about the runs where neither        *)
(* happens.                                                                  *)
GoodKey ==
  Usable => /\ ~gmp => Prime(p) /\ Prime(q)
            /\ \A r \in Obfuscators : Unit(Key, r)

(* Then a key is a key.                                                      *)
LEMMA GoodKeyIs ==
  ASSUME KeyInv, GoodKey, Usable
  PROVE  IsKey(Key) /\ \A r \in Obfuscators : Unit(Key, r)
BY DEF KeyInv, Chosen, GoodKey, Usable, IsKey, Key

(* The number holds the integer that the value kept beside it stands for,    *)
(* and if it was made of integers in range, that is at most twice the range. *)
Follows(a, z, o) ==
  /\ z \in Int /\ o \in Int /\ o >= MinExponent
  /\ Usable /\ IsKey(Key) /\ Cipher(a, z, o) /\ value = z * Scale(o)
  /\ safe => Magnitude(z) <= 2 * MaxInt(n)
  /\ LowOperands => o <= 0

NumberInv ==
  \/ number = << >> /\ value = 0
  \/ \E a, z, o : number = <<a>> /\ Follows(a, z, o)

(* The number and its value are read right.                                  *)
LEMMA FollowsReads ==
  ASSUME NEW a, NEW z, NEW o, number = <<a>>, Follows(a, z, o)
  PROVE  Plain = z % n /\ Exact = z
<1>1. /\ number # << >> /\ number[1] = a /\ a.exponent = o /\ Key.n = n
      /\ z \in Int /\ IsKey(Key) /\ Holds(Key, a.ciphertext, z)
  BY KeyIs DEF Follows, Cipher
<1>2. RawDecrypt(Key, a.ciphertext) = z % n  BY <1>1, Decrypts
<1>3. IntegerAt(value, o) = z  BY IntegerAtIs DEF Follows
<1> QED  BY <1>1, <1>2, <1>3 DEF Plain, Exact

(* An outcome is a new number that follows its value, and a step of the      *)
(* abstract specification.                                                   *)
LEMMA OutcomeGives ==
  ASSUME Usable, IsKey(Key), NEW z \in Int, NEW o \in Int, LowOperands => o <= 0,
         Outcome(z, o)
  PROVE  \E f \in Int, y \in Int : \E a, e :
           /\ number' = <<a>> /\ Follows(a, z * f + y, e)'
           /\ LowOperands => f \in FactorsAllowed
           /\ safe' = (InRange(n, z * f) /\ InRange(n, y))
           /\ UNCHANGED keyVars
<1>1. PICK f, y, e, a :
        /\ f \in Int /\ y \in Int /\ e \in Int
        /\ e >= MinExponent /\ Cipher(a, z * f + y, e)
        /\ Yields(a, (z * f) * Scale(e), y * Scale(e))
        /\ LowOperands /\ o <= 0 => f \in FactorsAllowed /\ e <= 0
  BY DEF Outcome
<1>2. f \in Int  BY <1>1
<1>3. y \in Int  BY <1>1
<1>4. PICK g \in Int : g = z * f  BY <1>2
<1>5. PICK h \in Int : h = g + y  BY <1>3
<1>6. PICK s \in Int : s = Scale(e)  BY <1>1, ScaleIs
<1>7. a.exponent = e  BY <1>1 DEF Cipher
<1>8. number' = <<a>> /\ value' = g * s + y * s /\ UNCHANGED keyVars
  BY <1>1, <1>4, <1>6 DEF Yields
<1>9. value' = h * s  BY <1>3, <1>5, <1>8
<1>10. safe' = (InRange(n, g) /\ InRange(n, y))
  <2>1. IntegerAt(g * s, e) = g /\ IntegerAt(y * s, e) = y  BY <1>1, <1>6, IntegerAtIs
  <2> QED  BY <1>1, <1>4, <1>6, <1>7, <2>1 DEF Yields
<1>11. safe' => Magnitude(h) <= 2 * MaxInt(n)
  <2> SUFFICES ASSUME safe' PROVE Magnitude(h) <= 2 * MaxInt(n)
    OBVIOUS
  <2>1. PICK m \in Nat : m = MaxInt(n)  BY KeyIs
  <2>2. InRange(n, g) /\ InRange(n, y)  BY <1>10
  <2>3. Magnitude(g) <= m /\ Magnitude(y) <= m  BY <2>1, <2>2 DEF InRange
  <2> QED  BY <1>3, <1>5, <2>1, <2>3 DEF Magnitude
<1>12. /\ n' = n /\ Key' = Key /\ NSquare' = NSquare
  BY <1>8 DEF keyVars, Key, NSquare
<1>13. Cipher(a, h, e)'
  <2>1. Cipher(a, h, e)  BY <1>1, <1>4, <1>5
  <2> QED  BY <1>12, <2>1 DEF Cipher
<1>14. Follows(a, h, e)'
  BY <1>1, <1>6, <1>9, <1>11, <1>12, <1>13 DEF Follows, Usable
<1> QED  BY <1>1, <1>4, <1>5, <1>8, <1>10, <1>14

(* Key generation leaves the numbers alone, and there are none yet.          *)
LEMMA SearchOrOperation ==
  ASSUME KeyInv, SearchInv, [Next]_vars
  PROVE  \/ n = 0 /\ number = << >> /\ UNCHANGED <<number, value, safe>>
         \/ n # 0 /\ UNCHANGED keyVars
<1>1. candidate # 0 => n = 0  BY DEF SearchInv
<1>2. n = 0 => number = << >>  BY DEF SearchInv
<1>3. ASSUME NEW prime, Return(prime) PROVE UNCHANGED <<number, value, safe>>
  BY <1>3 DEF Return
<1>4. NextCandidate => UNCHANGED <<number, value, safe>>  BY DEF NextCandidate
<1>5. CASE DrawPrime  BY <1>2, <1>3, <1>5 DEF DrawPrime
<1>6. CASE DrawCandidate  BY <1>2, <1>6 DEF DrawCandidate
<1>7. CASE TestCandidate  BY <1>1, <1>2, <1>3, <1>4, <1>7 DEF TestCandidate
<1>8. CASE MillerRabinRound  BY <1>1, <1>2, <1>3, <1>4, <1>8 DEF MillerRabinRound
<1>9. ASSUME NEW x, NEW e, NEW r, Encrypt(x, e, r) PROVE n # 0  BY <1>9 DEF Encrypt, Usable
<1>10. CASE Next /\ n # 0 /\ UNCHANGED keyVars  BY <1>10
<1>11. CASE UNCHANGED vars  BY <1>2, <1>11 DEF vars
<1> QED  BY <1>2, <1>5, <1>6, <1>7, <1>8, <1>9, <1>10, <1>11, OperationsKeepKey DEF Next

(* A step with a key multiplies the number by a factor and adds a summand,   *)
(* or leaves what it holds as it is.                                         *)
Combined ==
  \E z \in Int, f \in Int, y \in Int : \E a, e :
    /\ z = Exact /\ number' = <<a>> /\ Follows(a, z * f + y, e)'
    /\ LowOperands => f \in FactorsAllowed
    /\ safe' = (InRange(n, z * f) /\ InRange(n, y))

Kept ==
  /\ safe' = safe
  /\ \/ UNCHANGED <<number, value>>
     \/ \E a, b, z, o : /\ number = <<a>> /\ Follows(a, z, o)
                        /\ number' = <<b>> /\ Follows(b, z, o)'

(* So does every step with a key that is a key.                              *)
LEMMA StepCombines ==
  ASSUME KeyInv, SearchInv, GoodKey, NumberInv, [Next]_vars, n # 0
  PROVE  UNCHANGED keyVars /\ (Combined \/ Kept)
<1>1. UNCHANGED keyVars  BY SearchOrOperation
<1>2. Usable => IsKey(Key) /\ \A r \in Obfuscators : Unit(Key, r)  BY GoodKeyIs
<1>3. Key' = Key /\ NSquare' = NSquare /\ n' = n  BY <1>1 DEF keyVars, Key, NSquare
<1>4. PICK z \in Int : z = Exact
  <2>1. CASE number = << >>  BY <2>1 DEF Exact
  <2>2. ASSUME NEW a, NEW z, NEW o, number = <<a>>, Follows(a, z, o) PROVE Exact \in Int
    BY <2>2, FollowsReads DEF Follows
  <2> QED  BY <2>1, <2>2 DEF NumberInv
<1>5. ASSUME NEW o \in Int, LowOperands => o <= 0, Usable, Outcome(z, o) PROVE Combined
  <2>1. \E f \in Int, y \in Int : \E a, e :
          /\ number' = <<a>> /\ Follows(a, z * f + y, e)'
          /\ LowOperands => f \in FactorsAllowed
          /\ safe' = (InRange(n, z * f) /\ InRange(n, y))
    BY <1>2, <1>5, OutcomeGives
  <2> QED  BY <1>4, <2>1 DEF Combined
<1>6. ASSUME NEW x \in Numbers, NEW r \in Obfuscators,
             NEW e \in Precisions \cup {PrecExponent(x)}, Encrypt(x, e, r)
      PROVE  Combined
  <2>1. PICK o \in Int : o = 0  OBVIOUS
  <2>2. Usable  BY <1>6 DEF Encrypt
  <2>3. Outcome(z, o)  BY <1>2, <1>6, <2>1, <2>2, EncryptIs
  <2> QED  BY <1>5, <2>1, <2>2, <2>3
<1>7. ASSUME NEW a, NEW y, NEW o, number = <<a>>, Follows(a, y, o), Operate(a)
      PROVE  Combined
  <2>1. y = z  BY <1>4, <1>7, FollowsReads
  <2>2. Outcome(z, o)  BY <1>2, <1>7, <2>1, OperateIs DEF Follows
  <2> QED  BY <1>5, <1>7, <2>2 DEF Follows
<1>8. ASSUME NEW a, NEW y, NEW o, number = <<a>>, Follows(a, y, o),
             NEW r \in Obfuscators, Obfuscate(a, r)
      PROVE  Kept
  <2>1. PICK b : b = Obfuscated(a, r)  OBVIOUS
  <2>2. Cipher(b, y, o)  BY <1>2, <1>7, <1>8, <2>1, ObfuscatedIs DEF Follows
  <2>3. number' = <<b>> /\ UNCHANGED <<value, safe>>  BY <1>8, <2>1 DEF Obfuscate
  <2>4. Cipher(b, y, o)'  BY <1>3, <2>2 DEF Cipher
  <2>5. Follows(b, y, o)'  BY <1>3, <1>8, <2>3, <2>4 DEF Follows, Usable
  <2> QED  BY <1>8, <2>3, <2>5 DEF Kept
<1>9. CASE UNCHANGED vars  BY <1>9 DEF vars, Kept
<1>10. ASSUME number # << >>, Operate(number[1]) PROVE Combined
  <2>1. PICK a, y, o : number = <<a>> /\ Follows(a, y, o)  BY <1>10 DEF NumberInv
  <2>2. number[1] = a  BY <2>1
  <2> QED  BY <1>7, <1>10, <2>1, <2>2
<1>11. ASSUME NEW r \in Obfuscators, number # << >>, Obfuscate(number[1], r)
       PROVE  Kept
  <2>1. PICK a, y, o : number = <<a>> /\ Follows(a, y, o)  BY <1>11 DEF NumberInv
  <2>2. number[1] = a  BY <2>1
  <2> QED  BY <1>8, <1>11, <2>1, <2>2
<1>12. CASE DrawPrime \/ DrawCandidate  BY <1>12 DEF DrawPrime, DrawCandidate
<1>13. CASE TestCandidate \/ MillerRabinRound
  BY <1>13 DEF TestCandidate, MillerRabinRound, SearchInv
<1> QED  BY <1>1, <1>6, <1>9, <1>10, <1>11, <1>12, <1>13 DEF Next

(* The invariant is inductive.                                               *)
LEMMA NumberStep ==
  KeyInv /\ SearchInv /\ GoodKey /\ NumberInv /\ [Next]_vars => NumberInv'
<1> SUFFICES ASSUME KeyInv, SearchInv, GoodKey, NumberInv, [Next]_vars
             PROVE  NumberInv'
  OBVIOUS
<1>1. CASE n = 0
  <2>1. number' = << >> /\ value' = 0  BY <1>1, SearchOrOperation DEF SearchInv
  <2> QED  BY <2>1 DEF NumberInv
<1>2. CASE n # 0 /\ Combined  BY <1>2 DEF NumberInv, Combined
<1>3. CASE n # 0 /\ Kept
  <2>1. CASE UNCHANGED <<number, value>>
    <3>1. n' = n /\ Key' = Key /\ NSquare' = NSquare
      BY <1>3, SearchOrOperation DEF keyVars, Key, NSquare
    <3>2. safe' = safe  BY <1>3 DEF Kept
    <3>3. CASE number = << >> /\ value = 0  BY <2>1, <3>3 DEF NumberInv
    <3>4. ASSUME NEW a, NEW z, NEW o, number = <<a>>, Follows(a, z, o)
          PROVE  NumberInv'
      <4>1. Cipher(a, z, o)'  BY <3>1, <3>4 DEF Follows, Cipher
      <4>2. Follows(a, z, o)'  BY <2>1, <3>1, <3>2, <3>4, <4>1 DEF Follows, Usable
      <4> QED  BY <2>1, <3>4, <4>2 DEF NumberInv
    <3> QED  BY <3>3, <3>4 DEF NumberInv
  <2>2. ASSUME NEW b, NEW z, NEW o, number' = <<b>>, Follows(b, z, o)' PROVE NumberInv'
    BY <2>2 DEF NumberInv
  <2> QED  BY <1>3, <2>1, <2>2 DEF Kept
<1> QED  BY <1>1, <1>2, <1>3, StepCombines

(* As long as the key is a key, the number follows its value.                *)
LEMMA Invariant == Spec /\ []GoodKey => [](KeyInv /\ SearchInv /\ NumberInv)
<1>1. Init => SearchInv /\ NumberInv
  <2>1. 0 \in 0 .. MRRounds - 1  BY KeyAssumption
  <2> QED  BY <2>1 DEF Init, SearchInv, NumberInv
<1> QED  BY <1>1, KeysInOrder, SearchStep, NumberStep, PTL DEF Spec

-----------------------------------------------------------------------------
(* What the abstract number promises (SignedResidue).                        *)

(* decode gives back an integer in range, and of one up to twice the range   *)
(* nothing else.                                                             *)
LEMMA DecodeResidue ==
  ASSUME NEW m \in Nat \ 0 .. 2, NEW x \in Int, Magnitude(x) <= 2 * MaxInt(m)
  PROVE  /\ InRange(m, x) => Decode(m, x % m) = <<x>>
         /\ ~InRange(m, x) => Decode(m, x % m) = Overflow
<1>1. MaxInt(m) \in Nat /\ 3 * MaxInt(m) < m  BY Thirds
<1>2. CASE x >= 0
  <2>1. x % m = x  BY <1>2, SignedMod
  <2> QED  BY <1>1, <1>2, <2>1 DEF Magnitude, InRange, Decode
<1>3. CASE x < 0
  <2>1. x % m = x + m  BY <1>3, SignedMod
  <2>2. Magnitude(x) = -x  BY <1>3 DEF Magnitude
  <2>3. x + m - m = x  OBVIOUS
  <2> QED  BY <1>1, <1>3, <2>1, <2>2, <2>3 DEF InRange, Decode
<1> QED  BY <1>2, <1>3

(* decode is the inverse of encode on every number encode does not refuse    *)
(* (phe/encoding.py, encode and decode).                                     *)
THEOREM DecodesEncoded ==
  ASSUME NEW m \in Nat \ 0 .. 2, NEW x, NEW e, IntRep(x, e) \in Int, Encodable(m, x, e)
  PROVE  Decode(m, Encode(m, x, e).encoding) = <<IntRep(x, e)>>
<1>1. MaxInt(m) \in Nat  BY Thirds
<1>2. InRange(m, IntRep(x, e)) /\ Magnitude(IntRep(x, e)) <= 2 * MaxInt(m)
  BY <1>1 DEF Encodable, InRange, Magnitude
<1>3. Decode(m, IntRep(x, e) % m) = <<IntRep(x, e)>>  BY <1>2, DecodeResidue
<1> QED  BY <1>3 DEF Encode

(* The abstract specification, with any integer as a factor.                 *)
SRAll == INSTANCE SignedResidue WITH
           Factors <- Int, plain <- Plain, exact <- Exact

(* Decoding is the same in every instance.                                   *)
LEMMA DecodeIs ==
  ASSUME NEW m, NEW c
  PROVE  /\ SRAll!Decode(m, c) = Decode(m, c) /\ SR!Decode(m, c) = Decode(m, c)
         /\ SRAll!Overflow = Overflow /\ SR!Overflow = Overflow
         /\ SRAll!InRange(m, c) = InRange(m, c) /\ SRAll!MaxInt(m) = MaxInt(m)
         /\ SRAll!Magnitude(c) = Magnitude(c)
BY DEF SRAll!Decode, SR!Decode, Decode, SRAll!Overflow, SR!Overflow, Overflow,
       SRAll!MaxInt, SR!MaxInt, MaxInt, SRAll!InRange, InRange, SRAll!Magnitude, Magnitude

(* The invariant of the abstract number is inductive.                        *)
LEMMA AbstractInit == SRAll!Init => SRAll!IInv
BY DEF SRAll!Init, SRAll!IInv, SRAll!TypeOK, SRAll!ResidueFollows

(* A new key: there is no number yet, and 0 is its own residue.              *)
LEMMA AbstractGenerates ==
  ASSUME SRAll!IInv, SRAll!Generate
  PROVE  SRAll!IInv'
<1>1. n' \in Nat \ 0 .. 2  BY DEF SRAll!Generate
<1>2. Plain' = 0 /\ Exact' = 0 /\ safe' \in BOOLEAN
  BY DEF SRAll!IInv, SRAll!TypeOK, SRAll!Generate
<1>3. 0 % n' = 0
  <2> DEFINE m == n'
  <2>1. m \in Nat \ {0}  BY <1>1
  <2> HIDE DEF m
  <2>2. 0 \in Int /\ 0 \in 0 .. m - 1  BY <2>1
  <2>3. 0 % m = 0  BY <2>1, <2>2, SmallMod
  <2> QED  BY <2>3 DEF m
<1>4. Magnitude(Exact') <= 2 * MaxInt(n')  BY <1>1, <1>2, Thirds DEF Magnitude
<1>5. SRAll!TypeOK'  BY <1>1, <1>2 DEF SRAll!TypeOK
<1>6. SRAll!ResidueFollows'  BY <1>2, <1>3 DEF SRAll!ResidueFollows
<1> QED  BY <1>4, <1>5, <1>6 DEF SRAll!IInv, SRAll!Magnitude, SRAll!MaxInt, Magnitude, MaxInt

(* Every operation keeps number and residue together, and the sum of two     *)
(* numbers in range is at most twice as large.                               *)
LEMMA AbstractCombines ==
  ASSUME SRAll!IInv, NEW f \in Int, NEW v, SRAll!Combine(f, v)
  PROVE  SRAll!IInv'
<1>1. /\ n \in Nat \ 0 .. 2 /\ n' = n /\ n # 0
      /\ f \in Int /\ v \in Int
      /\ Exact \in Int /\ Plain = Exact % n
  BY DEF SRAll!Combine, SRAll!IInv, SRAll!TypeOK, SRAll!ResidueFollows
<1>2. Exact' = Exact * f + v /\ Plain' = (Plain * f + v) % n  BY DEF SRAll!Combine
<1>3. Exact * f \in Int /\ Exact' \in Int  BY <1>1, <1>2
<1>4. Plain' = Exact' % n'  BY <1>1, <1>2, ModAffine
<1>5. Plain' \in 0 .. n' - 1  BY <1>1, <1>3, <1>4, DivMod
<1>6. safe' \in BOOLEAN /\ (safe' => InRange(n, Exact * f) /\ InRange(n, v))
  BY DEF SRAll!Combine, SRAll!InRange, SRAll!Magnitude, SRAll!MaxInt, InRange, Magnitude, MaxInt
<1>7. safe' => Magnitude(Exact') <= 2 * MaxInt(n')
  <2>1. MaxInt(n) \in Nat  BY <1>1, Thirds
  <2> QED  BY <1>1, <1>2, <1>3, <1>6, <2>1 DEF InRange, Magnitude
<1>8. SRAll!TypeOK'  BY <1>1, <1>3, <1>5, <1>6 DEF SRAll!TypeOK
<1>9. SRAll!ResidueFollows'  BY <1>4 DEF SRAll!ResidueFollows
<1> QED  BY <1>7, <1>8, <1>9 DEF SRAll!IInv, SRAll!Magnitude, SRAll!MaxInt, Magnitude, MaxInt

(* So does every step.                                                       *)
LEMMA AbstractKeeps == SRAll!IInv /\ [SRAll!Next]_SRAll!vars => SRAll!IInv'
<1> SUFFICES ASSUME SRAll!IInv, [SRAll!Next]_SRAll!vars PROVE SRAll!IInv'
  OBVIOUS
<1>1. CASE SRAll!Generate  BY <1>1, AbstractGenerates
<1>2. CASE \E f \in Int : SRAll!Combine(f, Exact' - Exact * f)
  <2>1. PICK f \in Int : SRAll!Combine(f, Exact' - Exact * f)  BY <1>2
  <2> QED  BY <2>1, AbstractCombines
<1>3. CASE UNCHANGED SRAll!vars
  BY <1>3 DEF SRAll!vars, SRAll!IInv, SRAll!TypeOK, SRAll!ResidueFollows
<1> QED  BY <1>1, <1>2, <1>3 DEF SRAll!Next

(* The invariant always holds, whatever the key and the operands.            *)
THEOREM AbstractInvariant == SRAll!Spec => []SRAll!IInv
BY AbstractInit, AbstractKeeps, PTL DEF SRAll!Spec

(* The ciphertext always holds the residue of the integer it stands for,     *)
(* whatever was added to it and multiplied with it.                          *)
THEOREM ResidueFollowed == SRAll!Spec => []SRAll!ResidueFollows
<1>1. SRAll!IInv => SRAll!ResidueFollows  BY DEF SRAll!IInv
<1> QED  BY <1>1, AbstractInvariant, PTL

(* A number in range is read back as it is, even if it was out of range in   *)
(* between.                                                                  *)
THEOREM ReadsExactly == SRAll!Spec => []SRAll!ReadExactly
<1>1. SRAll!IInv => SRAll!ReadExactly
  <2> SUFFICES ASSUME SRAll!IInv, n # 0, InRange(n, Exact)
               PROVE  Decode(n, Plain) = <<Exact>>
    BY DecodeIs DEF SRAll!ReadExactly
  <2>1. n \in Nat \ 0 .. 2 /\ Exact \in Int /\ Plain = Exact % n
    BY DEF SRAll!IInv, SRAll!TypeOK, SRAll!ResidueFollows
  <2>2. Magnitude(Exact) <= 2 * MaxInt(n)
    <3>1. MaxInt(n) \in Nat  BY <2>1, Thirds
    <3> QED  BY <2>1, <3>1 DEF InRange, Magnitude
  <2> QED  BY <2>1, <2>2, DecodeResidue
<1> QED  BY <1>1, AbstractInvariant, PTL

(* The sum of two numbers in range is read back as it is or decode raises    *)
(* OverflowError (phe/encoding.py, decode): it is never read as another.     *)
THEOREM OverflowsDetected == SRAll!Spec => []SRAll!OverflowDetected
<1>1. SRAll!IInv => SRAll!OverflowDetected
  <2> SUFFICES ASSUME SRAll!IInv, n # 0, safe
               PROVE  Decode(n, Plain) \in {<<Exact>>, Overflow}
    BY DecodeIs DEF SRAll!OverflowDetected
  <2>1. n \in Nat \ 0 .. 2 /\ Exact \in Int /\ Plain = Exact % n
    BY DEF SRAll!IInv, SRAll!TypeOK, SRAll!ResidueFollows
  <2>2. Magnitude(Exact) <= 2 * MaxInt(n)
    BY DEF SRAll!IInv, SRAll!Magnitude, SRAll!MaxInt, Magnitude, MaxInt
  <2> QED  BY <2>1, <2>2, DecodeResidue
<1> QED  BY <1>1, AbstractInvariant, PTL

-----------------------------------------------------------------------------
(* A key is large enough for residues of three kinds.                        *)
LEMMA KeySize ==
  ASSUME KeyInv, n # 0
  PROVE  n \in Nat \ 0 .. 2
<1>1. /\ p \in Nat /\ q \in Nat /\ p > 1 /\ q > p /\ n = p * q
  BY DEF KeyInv, Chosen
<1>2. PICK i \in Nat : p = i + 1 /\ i > 0  BY <1>1
<1>3. n = i * q + q /\ i * q \in Nat  BY <1>1, <1>2
<1> QED  BY <1>1, <1>3

(* What is read, in the state before a step and in the one after it.         *)
ReadsRight ==
  \A a, z, o : number = <<a>> /\ Follows(a, z, o) => Plain = z % n /\ Exact = z

(* It is always read right...                                                *)
LEMMA ReadsAre == ReadsRight
BY FollowsReads DEF ReadsRight

(* ...and so in the next state.                                              *)
LEMMA ReadsNext == ReadsRight'
BY ReadsAre, PTL

(* Nor is the key of the next state smaller than that.                       *)
KeySized == KeyInv /\ n # 0 => n \in Nat \ 0 .. 2

(* Nothing is assumed for it, so it holds in the next state too.             *)
LEMMA KeySizeNext == KeySized'
<1>1. KeySized  BY KeySize DEF KeySized
<1> QED  BY <1>1, PTL

(* A number that follows its value, or none, is read as a residue of it.     *)
LEMMA ResidueRead ==
  ASSUME KeyInv, NumberInv, n # 0
  PROVE  n \in Nat \ 0 .. 2 /\ Exact \in Int /\ Plain = Exact % n
<1>1. n \in Nat \ 0 .. 2  BY KeySize
<1>2. CASE number = << >>
  <2>1. Plain = 0 /\ Exact = 0  BY <1>2 DEF Plain, Exact
  <2>2. PICK o \in Int : o = 0  OBVIOUS
  <2>3. n \in Nat \ {0} /\ o \in 0 .. n - 1  BY <1>1, <2>2
  <2>4. o % n = o  BY <2>3, SmallMod
  <2> QED  BY <1>1, <2>1, <2>2, <2>4
<1>3. ASSUME NEW a, NEW z, NEW o, number = <<a>>, Follows(a, z, o)
      PROVE  Exact \in Int /\ Plain = Exact % n
  <2>1. Plain = z % n /\ Exact = z  BY <1>3, FollowsReads
  <2>2. z \in Int  BY <1>3 DEF Follows
  <2> QED  BY <2>1, <2>2
<1> QED  BY <1>1, <1>2, <1>3 DEF NumberInv

(* A step as the abstract specification sees it.                             *)
Multiplied(f, y) ==
  /\ n # 0 /\ f \in Int /\ y \in Int /\ Exact \in Int
  /\ Exact' = Exact * f + y /\ Plain' = (Plain * f + y) % n
  /\ safe' = (InRange(n, Exact * f) /\ InRange(n, y))
  /\ n' = n

AbstractStep ==
  \/ n = 0 /\ n' \in Nat \ 0 .. 2 /\ UNCHANGED <<Plain, Exact, safe>>
  \/ \E f, y : Multiplied(f, y) /\ (LowOperands => f \in FactorsAllowed)
  \/ UNCHANGED <<n, Plain, Exact, safe>>

(* Every step is one of these.                                               *)
LEMMA StepIsAbstract ==
  ASSUME KeyInv, KeyInv', SearchInv, GoodKey, NumberInv, NumberInv', [Next]_vars
  PROVE  AbstractStep
<1>1. CASE n = 0
  <2>1. number = << >> /\ number' = << >> /\ safe' = safe
    BY <1>1, SearchOrOperation
  <2>2. UNCHANGED <<Plain, Exact, safe>>  BY <2>1 DEF Plain, Exact
  <2>3. CASE n' = 0  BY <1>1, <2>2, <2>3 DEF AbstractStep
  <2>4. CASE n' # 0
    <3>1. n' \in Nat \ 0 .. 2  BY <2>4, KeySizeNext DEF KeySized
    <3> QED  BY <1>1, <2>2, <3>1 DEF AbstractStep
  <2> QED  BY <2>3, <2>4
<1>2. CASE n # 0
  <2>1. UNCHANGED keyVars /\ (Combined \/ Kept)  BY <1>2, StepCombines
  <2>2. n' = n /\ Key' = Key /\ n \in Nat \ 0 .. 2 /\ Exact \in Int /\ Plain = Exact % n
    BY <1>2, <2>1, ResidueRead DEF keyVars, Key
  <2>3. ASSUME Combined PROVE AbstractStep
    <3>1. PICK z, f, y, a, e :
            /\ z \in Int /\ f \in Int /\ y \in Int
            /\ z = Exact /\ number' = <<a>> /\ Follows(a, z * f + y, e)'
            /\ LowOperands => f \in FactorsAllowed
            /\ safe' = (InRange(n, z * f) /\ InRange(n, y))
      BY <2>3 DEF Combined
    <3>2. Plain' = (z * f + y) % n' /\ Exact' = z * f + y
      BY <3>1, ReadsNext DEF ReadsRight
    <3>3. ((z % n) * f + y) % n = (z * f + y) % n
      <4>1. n \in Nat \ {0}  BY <2>2
      <4>2. z \in Int /\ f \in Int /\ y \in Int  BY <3>1
      <4> QED  BY <4>1, <4>2, ModAffine
    <3>4. Multiplied(f, y)  BY <1>2, <2>2, <3>1, <3>2, <3>3 DEF Multiplied
    <3> QED  BY <3>1, <3>4 DEF AbstractStep
  <2>4. ASSUME Kept PROVE AbstractStep
    <3>1. safe' = safe  BY <2>4 DEF Kept
    <3>2. CASE UNCHANGED <<number, value>>
      BY <2>2, <3>1, <3>2 DEF AbstractStep, Plain, Exact, IntegerAt
    <3>3. ASSUME NEW a, NEW b, NEW z, NEW o, number = <<a>>, Follows(a, z, o),
                 number' = <<b>>, Follows(b, z, o)'
          PROVE  AbstractStep
      <4>1. Plain = z % n /\ Exact = z  BY <3>3, FollowsReads
      <4>2. Plain' = z % n' /\ Exact' = z  BY <3>3, ReadsNext DEF ReadsRight
      <4> QED  BY <2>2, <3>1, <4>1, <4>2 DEF AbstractStep
    <3> QED  BY <2>4, <3>2, <3>3 DEF Kept
  <2> QED  BY <2>1, <2>3, <2>4
<1> QED  BY <1>1, <1>2

(* The start, with neither key nor number.                                   *)
LEMMA InitIsAbstract ==
  ASSUME Init
  PROVE  n = 0 /\ Plain = 0 /\ Exact = 0 /\ safe = TRUE
BY DEF Init, Plain, Exact

(* Whatever is done to an encrypted number, with whatever keys, operands and *)
(* random numbers: it decrypts to the residue of the integer it stands for   *)
(* (phe/paillier.py, EncryptedNumber), as long as the key is a key.          *)
THEOREM FollowsAbstract == Spec /\ []GoodKey => SRAll!Spec
<1>1. Init => SRAll!Init  BY InitIsAbstract DEF SRAll!Init
<1>2. AbstractStep => [SRAll!Next]_SRAll!vars
  <2>1. CASE n = 0 /\ n' \in Nat \ 0 .. 2 /\ UNCHANGED <<Plain, Exact, safe>>
    BY <2>1 DEF SRAll!Next, SRAll!Generate
  <2>2. ASSUME NEW f, NEW y, Multiplied(f, y) PROVE SRAll!Next
    <3>1. \A x : SRAll!InRange(n, x) = InRange(n, x)
      BY DEF SRAll!InRange, InRange, SRAll!Magnitude, Magnitude, SRAll!MaxInt, MaxInt
    <3>2. f \in Int /\ y \in Int /\ Exact \in Int /\ Exact' = Exact * f + y
      BY <2>2 DEF Multiplied
    <3>3. Exact' - Exact * f = y  BY <3>2
    <3>4. SRAll!Combine(f, y)  BY <2>2, <3>1 DEF Multiplied, SRAll!Combine
    <3>5. SRAll!Combine(f, Exact' - Exact * f)  BY <3>3, <3>4
    <3> QED  BY <3>2, <3>5 DEF SRAll!Next
  <2>3. CASE UNCHANGED <<n, Plain, Exact, safe>>  BY <2>3 DEF SRAll!vars
  <2> QED  BY <2>1, <2>2, <2>3 DEF AbstractStep
<1> QED  BY <1>1, <1>2, Invariant, StepIsAbstract, PTL DEF Spec, SRAll!Spec

(* The run's abstract specification has finitely many factors, those of      *)
(* exponents that are not above 0: with such operands it is implemented, for *)
(* every base, mantissa, key and obfuscator.                                 *)
THEOREM ImplementsResidue == LowOperands => (Spec /\ []GoodKey => Implements)
<1> SUFFICES ASSUME LowOperands PROVE Spec /\ []GoodKey => Implements
  OBVIOUS
<1>1. Init => SR!Init  BY InitIsAbstract DEF SR!Init
<1>2. AbstractStep => [SR!Next]_SR!vars
  <2>1. CASE n = 0 /\ n' \in Nat \ 0 .. 2 /\ UNCHANGED <<Plain, Exact, safe>>
    BY <2>1 DEF SR!Next, SR!Generate
  <2>2. ASSUME NEW f \in FactorsAllowed, NEW y, Multiplied(f, y) PROVE SR!Next
    <3>1. \A x : SR!InRange(n, x) = InRange(n, x)
      BY DEF SR!InRange, InRange, SR!Magnitude, Magnitude, SR!MaxInt, MaxInt
    <3>2. f \in Int /\ y \in Int /\ Exact \in Int /\ Exact' = Exact * f + y
      BY <2>2 DEF Multiplied
    <3>3. Exact' - Exact * f = y  BY <3>2
    <3>4. SR!Combine(f, y)  BY <2>2, <3>1 DEF Multiplied, SR!Combine
    <3>5. SR!Combine(f, Exact' - Exact * f)  BY <3>3, <3>4
    <3> QED  BY <2>2, <3>5 DEF SR!Next, FactorsAllowed
  <2>3. CASE UNCHANGED <<n, Plain, Exact, safe>>  BY <2>3 DEF SR!vars
  <2> QED  BY <2>1, <2>2, <2>3 DEF AbstractStep
<1> QED  BY <1>1, <1>2, Invariant, StepIsAbstract, PTL DEF Spec, SR!Spec, Implements

(* The sum of two numbers in range is read back as it is or decode raises    *)
(* (phe/encoding.py, decode), whatever was added, whatever the exponents     *)
(* aligned.                                                                  *)
THEOREM OverflowsNoticed == Spec /\ []GoodKey => []OverflowDetected
<1>1. SRAll!OverflowDetected => OverflowDetected
  BY DecodeIs DEF OverflowDetected, SR!OverflowDetected, SRAll!OverflowDetected
<1>2. SRAll!Spec => []SRAll!OverflowDetected
  BY OverflowsDetected
<1> QED  BY <1>1, <1>2, FollowsAbstract, PTL

(* A number in range is decrypted and decoded to what it stands for, after   *)
(* any sequence of operations, even if it was out of range in between.       *)
THEOREM ReadBack ==
  Spec /\ []GoodKey =>
    [](n # 0 /\ InRange(n, Exact) => Decode(n, Plain) = <<Exact>>)
<1>1. SRAll!ReadExactly => (n # 0 /\ InRange(n, Exact) => Decode(n, Plain) = <<Exact>>)
  BY DecodeIs DEF SRAll!ReadExactly
<1>2. SRAll!Spec => []SRAll!ReadExactly
  BY ReadsExactly
<1> QED  BY <1>1, <1>2, FollowsAbstract, PTL

(* The variables have their types, and every ciphertext is a residue modulo  *)
(* the square of n without a factor in common with it.                       *)
THEOREM TypesCorrect == Spec /\ []GoodKey => []TypeOK
<1>1. ASSUME KeyInv, SearchInv, NumberInv PROVE TypeOK
  <2>1. /\ n_length \in NLengths /\ candidate \in Nat /\ rounds \in 0 .. MRRounds - 1
        /\ safe \in BOOLEAN /\ derived \in BOOLEAN
    BY <1>1 DEF KeyInv, SearchInv
  <2>2. found \in Seq(Nat \ {0, 1}) /\ Len(found) <= 1
    <3>1. CASE found = << >>  BY <3>1
    <3>2. ASSUME NEW d, Chosen(d), found = <<d>>
          PROVE  found \in Seq(Nat \ {0, 1}) /\ Len(found) <= 1
      <4>1. d \in Nat \ {0, 1}  BY <3>2 DEF Chosen
      <4> QED  BY <3>2, <4>1
    <3> QED  BY <1>1, <3>1, <3>2 DEF KeyInv
  <2>3. n = p * q /\ (n # 0 => 1 < p /\ p < q /\ BitLength(n) = n_length)
    <3>1. CASE n = 0
      <4>1. p = 0 /\ q = 0  BY <1>1, <3>1 DEF SearchInv
      <4> QED  BY <3>1, <4>1
    <3>2. CASE n # 0  BY <1>1, <3>2 DEF KeyInv, SearchInv, Chosen
    <3> QED  BY <3>1, <3>2
  <2>4. ASSUME NEW a, NEW z, NEW o, number = <<a>>, Follows(a, z, o)
        PROVE  /\ number[1].ciphertext \in 1 .. NSquare - 1
               /\ Gcd(number[1].ciphertext, n) = 1
               /\ number[1].exponent \in Int /\ number[1].obfuscated \in BOOLEAN
               /\ value \in Int
    <3>1. number[1] = a /\ IsKey(Key) /\ z \in Int /\ Cipher(a, z, o)
      BY <2>4 DEF Follows
    <3>2. NSquare \in Nat \ {0} /\ Key.n = n  BY <3>1, KeyIs
    <3>3. a.ciphertext \in 0 .. NSquare - 1 /\ Holds(Key, a.ciphertext, z)
          /\ a.exponent \in Int /\ a.obfuscated \in BOOLEAN
      BY <3>1 DEF Cipher
    <3>4. a.ciphertext \in Nat  BY <3>2, <3>3
    <3>5. a.ciphertext # 0 /\ Gcd(a.ciphertext, n) = 1
      BY <3>1, <3>2, <3>3, <3>4, HoldsCoprime
    <3>6. value \in Int
      <4>1. Scale(o) \in Int /\ value = z * Scale(o)  BY <2>4, ScaleIs DEF Follows
      <4> QED  BY <3>1, <4>1
    <3> QED  BY <3>1, <3>2, <3>3, <3>5, <3>6
  <2>5. /\ number # << >> =>
             /\ number[1].ciphertext \in 1 .. NSquare - 1
             /\ Gcd(number[1].ciphertext, n) = 1
             /\ number[1].exponent \in Int /\ number[1].obfuscated \in BOOLEAN
        /\ value \in Int
    BY <1>1, <2>4 DEF NumberInv
  <2>6. gmp \in HaveGmp  BY <1>1 DEF KeyInv
  <2> QED  BY <2>1, <2>2, <2>3, <2>5, <2>6 DEF TypeOK
<1> QED  BY <1>1, Invariant, PTL

-----------------------------------------------------------------------------
(* Encoding.  An operand as an integer at an exponent, in units of 2 ^ y     *)
(* with y the lower of the two exponents.                                    *)
LEMMA EncodingErrorIs ==
  ASSUME NEW x \in Numbers, NEW e \in Int, NEW y, y = Least(x.exp, LOG2_BASE * e)
  PROVE  /\ e = PrecExponent(x) => EncodingError(x, e, y) = 0
         /\ 2 * EncodingError(x, e, y) <= Pow(2, LOG2_BASE * e - y)
<1>1. x.num \in Int /\ x.exp \in Int  BY OperandAssumption
<1>2. LOG2_BASE \in Nat  BY EncodingAssumption
<1>3. PICK i \in Int : i = LOG2_BASE * e  BY <1>2
<1>4. PICK w \in Int : w = IntRep(x, e)  BY IntRepIs
<1>5. Pow(2, 0) = 1  BY PowSteps
<1>6. CASE x.exp >= i
  <2>1. y = i /\ LOG2_BASE * e - y = 0  BY <1>1, <1>3, <1>6 DEF Least
  <2>2. PICK c \in Nat : c = Pow(2, x.exp - i)
    <3>1. x.exp - i \in Nat  BY <1>1, <1>6
    <3> QED  BY <3>1, PowGrows
  <2>3. w = x.num * c  BY <1>1, <1>3, <1>4, <1>6, <2>2 DEF IntRep
  <2>4. EncodingError(x, e, y) = Magnitude(x.num * c - w * 1)
    BY <1>4, <1>5, <2>1, <2>2 DEF EncodingError
  <2>5. x.num * c - w * 1 = 0  BY <1>1, <2>3
  <2> QED  BY <1>5, <2>1, <2>4, <2>5 DEF Magnitude
<1>7. CASE x.exp < i
  <2>1. y = x.exp /\ x.exp - y = 0  BY <1>1, <1>3, <1>7 DEF Least
  <2>2. i - y \in Nat /\ -(x.exp - i) = i - y  BY <1>1, <1>7, <2>1
  <2>3. PICK d \in Nat \ {0} : d = Pow(2, i - y)  BY <2>2, PowPositive
  <2>4. w = Round(x.num, d)
    <3>1. ~(x.exp - i >= 0)  BY <1>1, <1>7
    <3>2. IntRep(x, e) = Round(x.num, Pow(2, -(x.exp - i)))  BY <1>3, <3>1 DEF IntRep
    <3> QED  BY <1>4, <2>2, <2>3, <3>2
  <2>5. PICK g \in Int : g = x.num - d * w  BY <1>1
  <2>6. EncodingError(x, e, y) = Magnitude(g)
    <3>1. EncodingError(x, e, y) = Magnitude(x.num * 1 - w * d)
      BY <1>3, <1>4, <1>5, <2>1, <2>3 DEF EncodingError
    <3>2. x.num * 1 - w * d = g  BY <1>1, <2>5
    <3> QED  BY <3>1, <3>2
  <2>7. 2 * Magnitude(g) <= d  BY <1>1, <2>4, <2>5, RoundIs
  <2>8. e = PrecExponent(x) => g = 0
    <3> SUFFICES ASSUME e = PrecExponent(x) PROVE g = 0
      OBVIOUS
    <3>1. x.num = 0
      <4>1. x.num # 0 => x.exp - i \in Nat  BY <1>3, IntRepIs
      <4> QED  BY <1>1, <1>7, <4>1
    <3>2. w = 0  BY <1>4, <3>1, IntRepIs
    <3> QED  BY <2>5, <3>1, <3>2
  <2> QED  BY <1>3, <2>3, <2>6, <2>7, <2>8 DEF Magnitude
<1> QED  BY <1>1, <1>6, <1>7

(* encode loses nothing at the exponent chosen for a number, and with a      *)
(* precision no more than half a unit; decode is its inverse on every        *)
(* mantissa that is not refused (phe/encoding.py, encode and decode).  For   *)
(* every base, mantissa, modulus and operand.                                *)
THEOREM EncodesFaithfully == Spec => []EncodeFaithful
<1>1. ASSUME KeyInv PROVE EncodeFaithful
  <2> SUFFICES ASSUME Usable, number = << >>, NEW x \in Numbers,
                      NEW e \in Precisions \cup {PrecExponent(x)},
                      NEW y, y = Least(x.exp, LOG2_BASE * e)
               PROVE  /\ e = PrecExponent(x) => EncodingError(x, e, y) = 0
                      /\ 2 * EncodingError(x, e, y) <= Pow(2, LOG2_BASE * e - y)
                      /\ Encodable(n, x, e) =>
                           Decode(n, Encode(n, x, e).encoding) = <<IntRep(x, e)>>
    BY DEF EncodeFaithful
  <2>1. e \in Int  BY IntRepIs, OperandAssumption
  <2>2. PICK w \in Int : w = IntRep(x, e)  BY <2>1, IntRepIs
  <2>3. n \in Nat \ 0 .. 2
    <3>1. n # 0  BY DEF Usable
    <3> QED  BY <1>1, <3>1, KeySize
  <2>4. ASSUME Encodable(n, x, e) PROVE Decode(n, w % n) = <<w>>
    <3>1. PICK m \in Nat : m = MaxInt(n)  BY <2>3, Thirds
    <3>2. InRange(n, w)  BY <2>2, <2>4 DEF Encodable
    <3>3. Magnitude(w) <= 2 * MaxInt(n)  BY <3>1, <3>2 DEF InRange, Magnitude
    <3> QED  BY <2>3, <3>2, <3>3, DecodeResidue
  <2> QED  BY <2>1, <2>2, <2>4, EncodingErrorIs DEF Encode
<1> QED  BY <1>1, KeysInOrder, PTL
=============================================================================
