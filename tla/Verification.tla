---------------------------- MODULE Verification ----------------------------
(***************************************************************************)
(* Checking the sum an aggregator claims.  avc.py samples: seed after seed *)
(* every client commits to the parts of its permuted gradient, the         *)
(* aggregator to those of its sum, and the products are compared.          *)
(* Contracts/Verification.sol does the comparison on chain, for the two    *)
(* halves of the vectors, driven by verification_cost.py: that script does *)
(* not wait for its transactions to be mined before it asks for the        *)
(* verdict, and anybody may upload any numbers.  The two ways share the    *)
(* gradients and the claim.                                                *)
(***************************************************************************)
EXTENDS Commitments

CONSTANTS
  Gradients,    \* the vectors a client may have, of the same length
  NumClients,
  Deviations,   \* what an aggregator may add to the sum
  SubNums,      \* the number of parts of a sample
  Shuffles,     \* bound: the permutations drawn
  MaxPart,      \* how far the sum of a part may be from 0
  MaxSamples,   \* bound: the seeds drawn, 128 in the code
  MaxStray,     \* bound: the transactions of others
  StrayValues   \* the numbers they upload

Clients == 1 .. NumClients
Parts   == -MaxPart .. MaxPart

\* How far a half of a claim may be from 0.
HalfSums == -((NumClients + 1) * MaxPart) .. (NumClients + 1) * MaxPart

\* The halves of a vector as the script cuts it.
Halves(v) ==
  LET size == Len(v) \div 2
  IN  <<Total(SubSeq(v, 1, size)), Total(SubSeq(v, size + 1, Len(v)))>>

ASSUME BoundsAssumption ==
  NumClients \in Nat \ {0} /\ MaxPart \in Nat /\ MaxSamples \in Nat /\ MaxStray \in Nat

\* A sample has two parts at least, as in main.
ASSUME VectorAssumption ==
  /\ Gradients \cup Deviations \subseteq Seq(Int)
  /\ \A v \in Gradients \cup Deviations, w \in Gradients : Len(v) = Len(w)
  /\ SubNums \subseteq 2 .. Len(G)
  /\ \A v \in Gradients : Shuffles \subseteq SetToSeqs(1 .. Len(v))

\* What the sums of parts and halves may be.
ASSUME PartAssumption ==
  /\ \A d \in Deviations, perm \in Shuffles, k \in SubNums :
       \A i \in 1 .. k : PartSums(d, perm, k)[i] \in Parts
  /\ \A v \in Gradients \cup Deviations : Halves(v) \in Parts \X Parts

\* The contract takes every uint256: mulmod does not overflow, so the width of the
\* numbers tells nothing apart.
ASSUME StrayAssumption == StrayValues \subseteq Nat \X Nat

\* Such sums are too small for two of them to have one commitment, in a sample or
\* in as many commitments to halves as the contract may take: in the code the order
\* of the generators has about 80 bits.
ASSUME BindingAssumption ==
  /\ \A k \in SubNums : \A e \in [1 .. k -> Parts] :
       Product(1, [i \in 1 .. k |-> Power(i, e[i])]) = CMod(1, P) => \A i \in 1 .. k : e[i] = 0
  /\ LET bound == (NumClients + MaxStray + 2) * ((NumClients + 1) * MaxPart)
     IN  \A i \in 1 .. 2, e \in -bound .. bound : Power(i, e) = 1 => e = 0

VARIABLES
  grads, claim, sub_num,
  drawn,       \* the permutations of the seeds so far
  c_list,      \* by client, its commitments
  c_sum,       \* the aggregator's
  opened,      \* "none", then what batch_open says, or that it raised
  sent,        \* how many of its transactions the script has sent
  pending,     \* transactions sent and not mined
  commitData, c_sums, \* the contract
  mined,       \* all transactions it has executed
  stray,       \* how many transactions of others were sent
  verdict      \* << >>, or what verifyCommitment said and after how many of them

samplingVars == <<drawn, c_list, c_sum, opened>>
chainVars    == <<sent, pending, commitData, c_sums, mined, stray, verdict>>
vars         == <<grads, claim, sub_num, samplingVars, chainVars>>

Add(v, w) == [i \in DOMAIN v |-> v[i] + w[i]]

\* np.sum along axis 0
Sum(vectors) ==
  [i \in DOMAIN vectors[1] |-> Total([c \in 1 .. Len(vectors) |-> vectors[c][i]])]

Init ==
  /\ grads \in [Clients -> Gradients]
  /\ claim \in {Add(Sum(grads), d) : d \in Deviations}
  /\ sub_num \in SubNums
  /\ drawn = << >> /\ c_list = [c \in Clients |-> << >>] /\ c_sum = << >>
  /\ opened = "none"
  /\ sent = 0 /\ pending = << >>
  /\ commitData = << >> /\ c_sums = <<0, 0>>  \* the script waits for the deployment
  /\ mined = << >> /\ stray = 0 /\ verdict = << >>

-----------------------------------------------------------------------------
(* Sampling (avc.py).                                                        *)

\* A seed is drawn, and all commit to what it makes of their vectors.
Sample(perm) ==
  /\ opened = "none" /\ Len(drawn) < MaxSamples
  /\ drawn' = Append(drawn, perm)
  /\ \/ /\ ~Even(claim, sub_num)
        /\ opened' = "raised" /\ UNCHANGED <<c_list, c_sum>>
     \/ /\ Even(claim, sub_num)
        /\ c_list' = [c \in Clients |->
                        Append(c_list[c], BatchCommit(grads[c], perm, sub_num))]
        /\ c_sum' = Append(c_sum, BatchCommit(claim, perm, sub_num))
        /\ UNCHANGED opened
  /\ UNCHANGED <<grads, claim, sub_num, chainVars>>

OpenSamples ==
  /\ opened = "none" /\ drawn # << >>
  /\ opened' = IF BatchOpen(c_list, c_sum) THEN "accepted" ELSE "refused"
  /\ UNCHANGED <<grads, claim, sub_num, drawn, c_list, c_sum, chainVars>>

-----------------------------------------------------------------------------
(* The contract and the script that drives it.                               *)

\* The transactions: a function of the contract and the two numbers given to it.
SumCtoSC(numbers)   == [call |-> "SumCtoSC", numbers |-> numbers]
CommittoSC(numbers) == [call |-> "CommittoSC", numbers |-> numbers]

Commitment(halves) == [i \in 1 .. 2 |-> Power(i, halves[i])]

\* What the script sends: the claim, then the clients' commitments.
Script == <<SumCtoSC(Commitment(Halves(claim)))>>
          \o [c \in Clients |-> CommittoSC(Commitment(Halves(grads[c])))]

Send ==
  /\ sent < Len(Script)
  /\ sent' = sent + 1
  /\ pending' = Append(pending, Script[sent + 1])
  /\ UNCHANGED <<grads, claim, sub_num, samplingVars, commitData, c_sums, mined, stray,
                 verdict>>

\* Anybody calls the contract: neither function looks at its caller or its numbers.
SendStray(tx) ==
  /\ stray < MaxStray
  /\ stray' = stray + 1
  /\ pending' = Append(pending, tx)
  /\ UNCHANGED <<grads, claim, sub_num, samplingVars, sent, commitData, c_sums, mined,
                 verdict>>

\* The chain takes the transactions in the order they were sent.
Mine ==
  /\ pending # << >>
  /\ pending' = Tail(pending)
  /\ mined' = Append(mined, Head(pending))
  /\ LET tx == Head(pending)
     IN  \/ /\ tx.call = "SumCtoSC"
            /\ c_sums' = tx.numbers /\ UNCHANGED commitData
         \/ /\ tx.call = "CommittoSC"
            /\ commitData' = Append(commitData, tx.numbers) /\ UNCHANGED c_sums
  /\ UNCHANGED <<grads, claim, sub_num, samplingVars, sent, stray, verdict>>

\* The two loops of verifyCommitment, over commit1 and commit2.
MulMods(factors) == FoldLeft(LAMBDA x, y : MulMod(x, y, P), 1, factors)

Column(i) == [k \in 1 .. Len(commitData) |-> commitData[k][i]]

\* Mutant of VerifyCommitment: only the first halves are compared.
VerifyFirstHalf == MulMods(Column(1)) = c_sums[1]

VerifyCommitment == \A i \in 1 .. 2 : MulMods(Column(i)) = c_sums[i]

\* The script asks as soon as it has sent all, and is answered from what is mined.
Ask ==
  /\ sent = Len(Script) /\ verdict = << >>
  /\ verdict' = <<[says |-> VerifyCommitment, after |-> Len(mined)]>>
  /\ UNCHANGED <<grads, claim, sub_num, samplingVars, sent, pending, commitData, c_sums,
                 mined, stray>>

-----------------------------------------------------------------------------
Next ==
  \/ \E perm \in Shuffles : Sample(perm)
  \/ OpenSamples
  \/ Send \/ Mine \/ Ask
  \/ \E v \in StrayValues : SendStray(SumCtoSC(v)) \/ SendStray(CommittoSC(v))

Spec == Init /\ [][Next]_vars

-----------------------------------------------------------------------------
TypeOK ==
  /\ grads \in [Clients -> Gradients] /\ Len(claim) = Len(grads[1])
  /\ Len(drawn) <= MaxSamples
  /\ \A c \in Clients : c_list[c] \in Seq(1 - P .. -1) /\ Len(c_list[c]) = Len(c_sum)
  /\ c_sum \in Seq(1 - P .. -1)
  /\ opened \in {"none", "accepted", "refused", "raised"}
  /\ sent \in 0 .. NumClients + 1 /\ stray \in 0 .. MaxStray
  /\ Len(pending) + Len(mined) = sent + stray
  /\ commitData \in Seq(Nat \X Nat) /\ c_sums \in Nat \X Nat

\* The parts of the claim and of the true sum agree.
Agrees(perm) == PartSums(claim, perm, sub_num) = PartSums(Sum(grads), perm, sub_num)

(* avc.py: the samples are accepted exactly if the claim has the sums of the *)
(* true one in all parts of all samples, whatever else the aggregator did to *)
(* it.  A vector that cannot be divided into equal parts is never answered.  *)
SamplesExact ==
  /\ opened \in {"accepted", "refused"} =>
       (opened = "accepted" <=> \A s \in 1 .. Len(drawn) : Agrees(drawn[s]))
  /\ opened = "raised" <=> drawn # << >> /\ ~Even(claim, sub_num)

(* README.md, introduction: sampling ensures the aggregation is right "with  *)
(* high probability".  A sample lets a wrong claim through for at most three      *)
(* quarters of the permutations it may be drawn with, and every right one    *)
(* for all.                                                                  *)
SamplingCatches ==
  drawn = << >> /\ Even(claim, sub_num) =>
    LET all     == SetToSeqs(DOMAIN claim)
        passing == {perm \in all : Agrees(perm)}
    IN  IF claim = Sum(grads) THEN passing = all
        ELSE 4 * Cardinality(passing) <= 3 * Cardinality(all)

\* The numbers in the calls of one function among some transactions, in order.
Carried(txs, call) ==
  LET carried[k \in 0 .. Len(txs)] ==
        IF k = 0 THEN << >>
        ELSE IF txs[k].call = call THEN Append(carried[k - 1], txs[k].numbers)
        ELSE carried[k - 1]
  IN  carried[Len(txs)]

\* The last sum uploaded, or the zeros the contract is deployed with.
LastSum(txs) ==
  LET sums == Carried(txs, "SumCtoSC") IN IF sums = << >> THEN <<0, 0>> ELSE Last(sums)

\* What a number on the chain commits to, if it commits to a possible half.
Opens(i, x)   == \E e \in HalfSums : Power(i, e) = x
Opening(i, x) == CHOOSE e \in HalfSums : Power(i, e) = x

(* The verdict is on the last sum anybody uploaded and all that anybody ever *)
(* committed to, as far as it was mined when the script asked, which waits   *)
(* for nothing.  Four things are said of it, for any numbers:                *)
(*  - it is the comparison avc.py makes of the sum with the product of the   *)
(*    commitments, so a sum that is not reduced modulo P never passes;       *)
(*  - a 0 passes only and always for a 0: one commitment that P divides,     *)
(*    whoever sent it, makes the verdict right about no sum but 0, which is  *)
(*    also what the contract holds before any sum was uploaded;              *)
(*  - if all these numbers commit to something, what they commit to adds up  *)
(*    exactly if the verdict says so: a claim may be refused early or        *)
(*    accepted for the first clients only, and a stray commitment counts for *)
(*    good;                                                                  *)
(*  - when exactly the script's transactions were mined, the verdict is      *)
(*    right on the halves of the claim.                                      *)
VerdictExact ==
  verdict # << >> =>
    LET txs  == SubSeq(mined, 1, verdict[1].after)
        says == verdict[1].says
        sum  == LastSum(txs)
        all  == Carried(txs, "CommittoSC")
    IN  /\ says <=> \A i \in 1 .. 2 :
                      sum[i] = Product(1, [k \in 1 .. Len(all) |-> all[k][i]]) % P
        /\ says => \A i \in 1 .. 2 :
                     sum[i] = 0 <=> \E k \in 1 .. Len(all) : all[k][i] % P = 0
        /\ (\A i \in 1 .. 2 : Opens(i, sum[i]) /\ \A k \in 1 .. Len(all) : Opens(i, all[k][i]))
           => (says <=> \A i \in 1 .. 2 :
                 Opening(i, sum[i]) = Total([k \in 1 .. Len(all) |-> Opening(i, all[k][i])]))
        /\ txs = Script => (says <=> Halves(claim) = Halves(Sum(grads)))
=============================================================================
