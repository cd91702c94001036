---------------------------- MODULE Commitments ----------------------------
(***************************************************************************)
(* Commitments to gradients (avc.py): a vector v is committed to as the    *)
(* product of g[i]^v[i] modulo P, so the product of the commitments to     *)
(* several vectors is the commitment to their sum.  A sample commits to    *)
(* the sums of the parts of a vector after a permutation of its entries.   *)
(***************************************************************************)
EXTENDS NumberTheory, SequencesExt

CONSTANTS P,  \* the modulus
          G   \* the generators setup gives

ASSUME GeneratorAssumption ==
  /\ P \in Nat /\ Prime(P)
  /\ G \in Seq(Nat) /\ \A i \in 1 .. Len(G) : G[i] % P # 0

Power(i, e) == PowMod(G[i], e, P)

\* A running product that gmpy2.c_mod reduces after every factor.
Product(c, factors) == FoldLeft(LAMBDA x, y : CMod(x * y, P), c, factors)

\* commit
Commit(v) == Product(1, [i \in 1 .. Len(v) |-> Power(i, v[i])])

\* Mutant of Mul: the first commitment is left out.
MulRest(cs) == Product(1, Tail(cs))

\* mul
Mul(cs) == Product(Head(cs), Tail(cs))

Total(v) == FoldLeft(LAMBDA x, y : x + y, 0, v)

\* Mutant of DivideGrad: the vector is divided as it is.
DivideUnpermuted(v, perm, k) ==
  LET size == Len(v) \div k
  IN  [i \in 1 .. k |-> SubSeq(v, (i - 1) * size + 1, IF i < k THEN i * size ELSE Len(v))]

\* divide_grad: k parts of the permuted vector, the last with what is left over,
\* so that it is never the one to be padded.
DivideGrad(v, perm, k) ==
  LET size     == Len(v) \div k
      permuted == [i \in 1 .. Len(v) |-> v[perm[i]]]
  IN  [i \in 1 .. k |->
         SubSeq(permuted, (i - 1) * size + 1, IF i < k THEN i * size ELSE Len(v))]

\* np.sum along axis 1 raises for parts of different lengths.
Even(v, k) == Len(v) % k = 0

PartSums(v, perm, k) ==
  [i \in 1 .. k |-> Total(DivideGrad(v, perm, k)[i])]

\* batch_commit
BatchCommit(v, perm, k) == Commit(PartSums(v, perm, k))

\* batch_open: the products over the clients, sample by sample.  lists[c] holds
\* the commitments of a client.
BatchOpen(lists, sums) ==
  [s \in 1 .. Len(sums) |-> Mul([c \in 1 .. Len(lists) |-> lists[c][s]])] = sums
=============================================================================
