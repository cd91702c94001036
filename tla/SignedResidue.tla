---------------------------- MODULE SignedResidue ---------------------------
(***************************************************************************)
(* What the Paillier library promises of an encrypted number, whatever is  *)
(* done to it: a residue modulo n that follows the integer it stands for,  *)
(* until that integer leaves the range, and a middle third of the residues *)
(* that gives an overflowing sum away (phe/encoding.py, class docstring).  *)
(* Every operation multiplies the number by a factor and adds a summand:   *)
(* a sum has factor 1 or, to align the exponents, a power of BASE, a       *)
(* product summand 0, and a new number factor 0.                           *)
(***************************************************************************)
EXTENDS Encoding

CONSTANT Factors \* what a number may be multiplied by

VARIABLES n,     \* of the key, 0 before it is generated
          plain, \* the residue an encrypted number decrypts to
          exact, \* the integer it stands for
          safe   \* was it made of numbers in range

vars == <<n, plain, exact, safe>>

Init == n = 0 /\ plain = 0 /\ exact = 0 /\ safe = TRUE

Generate ==
  /\ n = 0
  /\ n' \in Nat \ 0 .. 2
  /\ UNCHANGED <<plain, exact, safe>>

Combine(f, v) ==
  /\ n # 0
  /\ f \in Int /\ v \in Int
  /\ exact' = exact * f + v
  /\ plain' = (plain * f + v) % n
  /\ safe' = (InRange(n, exact * f) /\ InRange(n, v))
  /\ UNCHANGED n

\* The summand is what is left of the new integer.
Next == Generate \/ \E f \in Factors : Combine(f, exact' - exact * f)

Spec == Init /\ [][Next]_vars

-----------------------------------------------------------------------------
TypeOK ==
  /\ n = 0 \/ n \in Nat \ 0 .. 2
  /\ plain \in Nat /\ exact \in Int /\ safe \in BOOLEAN
  /\ n = 0 => plain = 0 /\ exact = 0
  /\ n # 0 => plain < n

ResidueFollows == n # 0 => plain = exact % n

\* A number in range is read back as it is.
ReadExactly == n # 0 /\ InRange(n, exact) => Decode(n, plain) = <<exact>>

\* The sum of two numbers in range is read back as it is, or the reader is told.
OverflowDetected == n # 0 /\ safe => Decode(n, plain) \in {<<exact>>, Overflow}

IInv == TypeOK /\ ResidueFollows /\ (n # 0 /\ safe => Magnitude(exact) <= 2 * MaxInt(n))
=============================================================================
