------------------------------ MODULE Masking ------------------------------
(***************************************************************************)
(* The arithmetic of a round (privacy_utils.py, and its use in client.py   *)
(* and aggregator.py): every client hides each number x of its gradient as *)
(* 2^x * h^seed modulo a prime; the seeds of all clients but one are added *)
(* under Paillier encryption and that one, the holder of the sum, takes    *)
(* the negative sum for its own seed, so the masks of a sum cancel and it  *)
(* is looked up in a table of the powers of 2.  Who sends what to whom is  *)
(* the matter of Shuffle and Aggregation.                                  *)
(***************************************************************************)
EXTENDS RawPaillier, SequencesExt

CONSTANTS
  Groups,      \* chains of clients, a leader last
  Holder,      \* the client holding the sum of the seeds
  PaillierKey, \* the holder's
  Q,           \* the seeds are below Q
  Obfuscators, \* what raw_encrypt may draw
  Primes,      \* what PRIME may be
  HX,          \* the hashes gen_hx gives
  MaxGrad,     \* 10000 in the code: gradients go from -MaxGrad to MaxGrad
  Gradients    \* the vectors a client may have

Clients  == (UNION {ToSet(g) : g \in Groups}) \cup {Holder}
Num      == Cardinality(Clients)
Entries  == 1 .. Len(HX)
Leader(g) == Last(g)

ASSUME GroupAssumption ==
  /\ IsFiniteSet(Groups)
  /\ \A g \in Groups : g \in Seq(ToSet(g)) /\ Len(g) > 1 /\ Holder \notin ToSet(g)
  /\ \A g, h \in Groups : g = h \/ ToSet(g) \cap ToSet(h) = {}

\* The factors of n are primes and no obfuscator is a multiple of one.
ASSUME KeyAssumption ==
  /\ Q \in Nat /\ PaillierKey.p \in Nat /\ PaillierKey.q \in Nat
  /\ Prime(PaillierKey.p) /\ Prime(PaillierKey.q) /\ PaillierKey.p < PaillierKey.q
  /\ PaillierKey.n = PaillierKey.p * PaillierKey.q
  /\ \A r \in Obfuscators : r \in Int /\ r % PaillierKey.p # 0 /\ r % PaillierKey.q # 0

\* The sum of the seeds must not wrap around n: in the code n has 1024 bits and
\* Q about 80.
ASSUME SeedAssumption == (Num - 1) * (Q - 1) < PaillierKey.n

\* Q and PRIME have about 80 bits, so the powers of 2 looked at are all different
\* and the hashes are units.
ASSUME PrimeAssumption ==
  /\ HX \in Seq(Nat)
  /\ \A p \in Primes :
       /\ p \in Nat /\ p > 2 /\ Prime(p)
       /\ \A i \in 1 .. 2 * Num * MaxGrad : PowMod(2, i, p) # 1
       /\ \A i \in Entries : HX[i] % p # 0

ASSUME GradientAssumption ==
  MaxGrad \in Nat \ {0} /\ Gradients \subseteq [Entries -> -MaxGrad .. MaxGrad]

VARIABLES
  PRIME,
  grad,    \* the gradients of the clients
  seed,    \* their seeds; the holder draws one too
  summed,  \* has the holder replaced its own
  cipher,  \* the ciphertexts of the seeds, 0 before raw_encrypt
  sums,    \* what the leaders made of them, by group, 0 before
  masked,  \* the masked gradients, << >> before add_mask
  result   \* << >>, then <<"sum", a vector>> or <<"KeyError">>

vars == <<PRIME, grad, seed, summed, cipher, sums, masked, result>>

Members == Clients \ {Holder}

Init ==
  /\ PRIME \in Primes
  /\ grad \in [Clients -> Gradients]
  /\ seed \in [Clients -> 0 .. Q - 1]
  /\ summed = FALSE
  /\ cipher = [c \in Members |-> 0]
  /\ sums = [g \in Groups |-> 0]
  /\ masked = [c \in Clients |-> << >>]
  /\ result = << >>

\* A running product that is reduced by m after every factor.
ProductMod(f, m) == FoldFunction(LAMBDA x, product : MulMod(product, x, m), 1, f)

-----------------------------------------------------------------------------
(* The seeds.                                                                *)

\* A member encrypts its seed under the holder's key.
EncryptSeed(c, r) ==
  /\ cipher[c] = 0
  /\ cipher' = [cipher EXCEPT ![c] = RawEncrypt(PaillierKey, seed[c], r)]
  /\ UNCHANGED <<PRIME, grad, seed, summed, sums, masked, result>>

\* The leader multiplies the plain numbers, with no modulus.
CombineGroup(g) ==
  /\ sums[g] = 0
  /\ \A c \in ToSet(g) : cipher[c] # 0
  /\ sums' = [sums EXCEPT ![g] =
                FoldFunctionOnSet(LAMBDA x, product : product * x, 1, cipher, ToSet(g))]
  /\ UNCHANGED <<PRIME, grad, seed, summed, cipher, masked, result>>

\* Mutant of HolderSeed: the sum itself, not its negative, becomes the seed.
HolderSeedPositive(total) == RawDecrypt(PaillierKey, total)

HolderSeed(total) == -RawDecrypt(PaillierKey, total)

\* The holder has the sums of all groups.
SumSeeds ==
  /\ ~summed
  /\ \A g \in Groups : sums[g] # 0
  /\ seed' = [seed EXCEPT ![Holder] = HolderSeed(ProductMod(sums, Square(PaillierKey)))]
  /\ summed' = TRUE
  /\ UNCHANGED <<PRIME, grad, cipher, sums, masked, result>>

-----------------------------------------------------------------------------
(* The masks.                                                                *)

\* gen_mask: the inverse of the hash for the holder's negative seed.
Mask(s, i) == PowMod(HX[i], s, PRIME)

\* add_mask
Masked(x, s, i) == CMod(PowMod(2, x, PRIME) * Mask(s, i), PRIME)

\* The client's part of the shuffle is over.
Shuffled(c) ==
  /\ c = Holder => summed
  /\ c # Holder => cipher[c] # 0
  /\ \A g \in Groups : c = Leader(g) => sums[g] # 0

MaskGradient(c) ==
  /\ masked[c] = << >>
  /\ Shuffled(c)
  /\ masked' = [masked EXCEPT ![c] = [i \in Entries |-> Masked(grad[c][i], seed[c], i)]]
  /\ UNCHANGED <<PRIME, grad, seed, summed, cipher, sums, result>>

-----------------------------------------------------------------------------
(* The sums.                                                                 *)

Scale == Num * MaxGrad

\* precompute_powers: the exponents -Scale .. Scale - 1, by the last digits of
\* their powers.
Table == [y \in 0 .. 10 * Scale - 1 |->
            {i \in -Scale .. Scale - 1 : PowMod(2, i, PRIME) % (10 * Scale) = y}]

\* Mutant of Found: some exponent of any bucket is taken.
FoundFirst(z, bucket) == {CHOOSE i \in bucket : TRUE}

\* What look_up appends for one number: the only exponent of a bucket unseen, of
\* several the one with that power, if there is one.
Found(z, bucket) ==
  IF \E i \in bucket : bucket = {i} THEN bucket
  ELSE {i \in bucket : PowMod(2, i, PRIME) = z}

\* aggregate_gard, a missing bucket being a KeyError.
Sums(z) ==
  LET bucket(i) == Table[z[i] % (10 * Scale)]
  IN  IF \E i \in Entries : bucket(i) = {} THEN <<"KeyError">>
      ELSE <<"sum", FlattenSeq([i \in Entries |-> SetToSeq(Found(z[i], bucket(i)))])>>

\* The aggregator has the masked gradients of all clients.
Aggregate ==
  /\ result = << >>
  /\ \A c \in Clients : masked[c] # << >>
  /\ result' = Sums([i \in Entries |->
                       ProductMod([c \in Clients |-> masked[c][i]], PRIME)])
  /\ UNCHANGED <<PRIME, grad, seed, summed, cipher, sums, masked>>

Next ==
  \/ \E c \in Members, r \in Obfuscators : EncryptSeed(c, r)
  \/ \E g \in Groups : CombineGroup(g)
  \/ SumSeeds
  \/ \E c \in Clients : MaskGradient(c)
  \/ Aggregate

Spec == Init /\ [][Next]_vars

-----------------------------------------------------------------------------
TypeOK ==
  /\ PRIME \in Primes /\ grad \in [Clients -> Gradients]
  /\ seed \in [Clients -> 1 - PaillierKey.n .. Q - 1] /\ summed \in BOOLEAN
  /\ cipher \in [Members -> 0 .. Square(PaillierKey) - 1]
  /\ sums \in [Groups -> Nat]
  /\ \A c \in Clients : masked[c] # << >> => masked[c] \in [Entries -> 1 - PRIME .. 0]
  /\ result \in {<< >>, <<"KeyError">>} \/ result[2] \in Seq(-Scale .. Scale)

(* The raw products, the decryption and its sign together give the holder a  *)
(* seed with which all seeds add up to 0 and all masks of an entry to 1      *)
(* (client.py, group_shuffle; privacy_utils.py, gen_mask).                   *)
MasksCancel ==
  summed =>
    /\ SumFunction(seed) = 0
    /\ \A i \in Entries :
         ProductMod([c \in Clients |-> Mask(seed[c], i)], PRIME) = 1

Total(i) == SumFunction([c \in Clients |-> grad[c][i]])

(* What is broadcast is the vector of the sums, if and only if no sum is at  *)
(* the upper end of the range of a gradient, which the table leaves out:     *)
(* then look_up fails, or drops the entry, or gives another number for it.   *)
SumsRead ==
  result # << >> =>
    (result = <<"sum", [i \in Entries |-> Total(i)]>> <=> \A i \in Entries : Total(i) < Scale)
=============================================================================
