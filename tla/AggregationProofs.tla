------------------------- MODULE AggregationProofs --------------------------
(***************************************************************************)
(* The safety of the aggregation round for every number of clients, every  *)
(* number of parts and any number of crashes, and that it implements       *)
(* SecureSum.                                                              *)
(*                                                                         *)
(* IInv (module Aggregation) is inductive.  SendInv and ListInv say that   *)
(* a client is in gradients_list at most once and only when it has nothing *)
(* left to send, so a full list counts everyone once and no request is     *)
(* outstanding during the broadcast; the other parts follow the loop of    *)
(* the broadcast through the clients and their parts.                      *)
(***************************************************************************)
EXTENDS Aggregation, FiniteSetTheorems, TLAPS

\* What the constants are.
LEMMA ConstantFacts ==
  /\ N \in Nat /\ N >= 1
  /\ NumParts \in Nat /\ NumParts >= 1
  /\ MaxFaults \in Nat
  /\ Clients = 1 .. N /\ NoOne \notin Clients
BY NAssumption, BoundsAssumption DEF Clients, NoOne

\* There is a part to send, and no more than num_parts.
LEMMA LastPartType == LastPart \in Parts /\ LastPart \in Nat /\ LastPart >= 1
BY ConstantFacts DEF LastPart, Parts

\* A sum is not the absence of one.
LEMMA TotalIsASum == SS!Total \in [Clients -> Nat] /\ SS!Total # NoSum
<1>1. SS!Total \in [Clients -> Nat]
  BY DEF SS!Total
<1>2. DOMAIN SS!Total = Clients /\ DOMAIN NoSum = {}
  BY DEF SS!Total, NoSum
<1>3. Clients # {}
  BY ConstantFacts
<1> QED
  BY <1>1, <1>2, <1>3

\* A list as long as there are clients, none of them twice, has all of them,
\* and its sum counts each once.
LEMMA FullList ==
  ASSUME NEW s \in Seq(Clients), Len(s) = N,
         \A i, j \in DOMAIN s : s[i] = s[j] => i = j
  PROVE  /\ \A c \in Clients : \E i \in DOMAIN s : s[i] = c
         /\ Sum(s) = SS!Total
<1>1. N \in Nat /\ Clients = 1 .. N /\ DOMAIN s = 1 .. N
  BY ConstantFacts
<1>2. IsFiniteSet(Clients)
  BY <1>1, FS_Interval
<1>3. s \in Injection(Clients, Clients)
  BY <1>1 DEF Injection, IsInjective
<1>4. s \in Surjection(Clients, Clients)
  BY <1>2, <1>3, FS_Injection
<1>5. \A c \in Clients : \E i \in DOMAIN s : s[i] = c
  BY <1>1, <1>4 DEF Surjection
<1>6. ASSUME NEW c \in Clients
      PROVE  Cardinality({i \in DOMAIN s : s[i] = c}) = 1
  <2>1. PICK i \in DOMAIN s : s[i] = c
    BY <1>5
  <2>2. {j \in DOMAIN s : s[j] = c} = {i}
    BY <2>1
  <2> QED
    BY <2>2, FS_Singleton
<1>7. Sum(s) = [c \in Clients |-> 1]
  BY <1>6 DEF Sum
<1> QED
  BY <1>5, <1>7 DEF SS!Total

\* Once the list is full everyone is in it.
LEMMA FullListInv ==
  ASSUME TypeOK, ListInv, Len(gradients_list) = N
  PROVE  /\ Submitted = Clients
         /\ Sum(gradients_list) = SS!Total
<1>1. gradients_list \in Seq(Clients)
  BY DEF TypeOK
<1>2. \A c \in Clients : \E i \in DOMAIN gradients_list : gradients_list[i] = c
  BY <1>1, FullList DEF ListInv
<1>3. \A i \in DOMAIN gradients_list : gradients_list[i] \in Clients
  BY <1>1
<1> QED
  BY <1>1, <1>2, <1>3, FullList DEF ListInv, Submitted

\* And a list with everyone in it is full.
LEMMA FullByCount ==
  ASSUME TypeOK, ListInv, \A c \in Clients : c \in Submitted
  PROVE  Len(gradients_list) = N
<1>1. PICK s \in Seq(Clients), n \in Nat : s = gradients_list /\ n = Len(s)
  BY DEF TypeOK
<1>2. \A c \in Clients : \E i \in 1 .. n : s[i] = c
  BY <1>1 DEF Submitted
<1>3. s \in [1 .. n -> Clients]  BY <1>1
<1>4. s \in Surjection(1 .. n, Clients)  BY <1>2, <1>3 DEF Surjection
<1>5. IsFiniteSet(1 .. n) /\ Cardinality(1 .. n) = n
  <2>1. n \in Int /\ 1 \in Int  BY <1>1
  <2>2. IsFiniteSet(1 .. n) /\ Cardinality(1 .. n) = IF 1 > n THEN 0 ELSE n - 1 + 1
    BY <2>1, FS_Interval
  <2> QED  BY <1>1, <2>2
<1>6. Cardinality(Clients) = N
  BY ConstantFacts, FS_Interval
<1>7. N <= n
  BY <1>4, <1>5, <1>6, FS_Surjection
<1> QED
  BY <1>1, <1>7, ConstantFacts DEF ListInv

\* While a client is not in the list nobody is given anything.
LEMMA BeforeBroadcast ==
  ASSUME IInv, NEW c \in Clients, c \notin Submitted
  PROVE  /\ Len(gradients_list) \in Nat /\ Len(gradients_list) < N
         /\ target = 0 /\ lock = NoOne /\ bcall = "none" /\ sended_num = 0
         /\ agg # "stopped"
         /\ \A d \in Clients : grad[d] = NoSum /\ ~aggregate[d]
         /\ split => \A d \in Clients : received[d] = {}
<1> USE ConstantFacts DEF IInv
<1>1. gradients_list \in Seq(Clients)
  BY DEF TypeOK
<1>2. Len(gradients_list) # N
  BY FullListInv
<1>3. Len(gradients_list) \in Nat /\ Len(gradients_list) < N
  BY <1>1, <1>2 DEF ListInv
<1>4. target = 0
  BY <1>2 DEF LockInv
<1>5. lock = NoOne /\ bcall = "none" /\ sended_num = 0
  BY <1>4 DEF LockInv, CountInv
<1>6. \A d \in Clients : d > target /\ d # target /\ ~(d < target)
  BY <1>4
<1>7. \A d \in Clients : grad[d] = NoSum /\ ~aggregate[d]
  BY <1>6 DEF GivenInv
<1>8. split => \A d \in Clients : received[d] = {}
  BY <1>6 DEF BufferInv
<1>9. agg # "stopped"
  BY <1>5 DEF CountInv
<1> QED
  BY <1>3, <1>4, <1>5, <1>7, <1>8, <1>9

-----------------------------------------------------------------------------
(* The steps.                                                                *)

\* The invariant holds initially.
LEMMA InvInit == Init => IInv
<1> SUFFICES ASSUME Init PROVE IInv
  OBVIOUS
<1> USE ConstantFacts, LastPartType
<1>1. split \in BOOLEAN /\ found \in BOOLEAN
  BY BoundsAssumption DEF Init
<1>2. << >> \in Seq(Clients) /\ Len(<< >>) = 0
  OBVIOUS
<1>3. TypeOK
  BY <1>1, <1>2 DEF Init, TypeOK, Parts, NoOne
<1>4. ListInv /\ Submitted = {}
  BY DEF Init, ListInv, Submitted
<1>5. SendInv
  BY <1>4 DEF Init, SendInv
<1>6. LockInv /\ GivenInv /\ CountInv
  BY DEF Init, LockInv, GivenInv, CountInv, NoOne
<1>7. BufferInv
  BY <1>4 DEF Init, BufferInv, NoOne
<1> QED
  BY <1>3, <1>4, <1>5, <1>6, <1>7 DEF IInv

\* SendGrad makes the buffer and leaves what is submitted alone.
LEMMA SendGradStep ==
  ASSUME IInv, NEW c \in Clients, SendGrad(c)
  PROVE  IInv'
<1> USE ConstantFacts, LastPartType DEF IInv
<1>1. TypeOK'
  BY DEF TypeOK, SendGrad, input, aggVars
<1>2. ListInv' /\ Submitted' = Submitted
  BY DEF ListInv, Submitted, SendGrad, aggVars
<1>3. c # lock /\ c \notin Submitted /\ part[c] \in Parts
  BY DEF TypeOK, SendInv, LockInv, SendGrad
<1>4. SendInv'
  BY <1>2, <1>3 DEF SendInv, SendGrad, TypeOK, LastPart, input, aggVars
<1>5. LockInv'
  BY <1>2, <1>3 DEF LockInv, SendGrad, TypeOK, LastPart, input, aggVars
<1>6. target = 0 /\ (split => received[c] = {})
  BY <1>3, BeforeBroadcast
<1>7. GivenInv'
  BY DEF GivenInv, SendGrad, LastPart, input, aggVars
<1>8. BufferInv'
  BY <1>2, <1>3, <1>6 DEF BufferInv, SendGrad, TypeOK, input, aggVars, Parts
<1>9. CountInv'
  BY DEF CountInv, SendGrad, aggVars
<1> QED
  BY <1>1, <1>2, <1>4, <1>5, <1>7, <1>8, <1>9

\* A complete gradient joins the list; the last one starts the broadcast.
LEMMA TakeInStep ==
  ASSUME IInv, NEW c \in Clients, Handles(c), part[c] = LastPart, TakeIn(c),
         partial_grads' \in [Clients -> SUBSET Parts],
         \A d \in Clients : d # c => partial_grads'[d] = partial_grads[d],
         UNCHANGED <<input, pc, part, has_buffer, received, aggregate, grad, agg,
                     sending, bcall, sended_num, faults>>
  PROVE  IInv'
<1> USE ConstantFacts, LastPartType DEF IInv, input
<1> DEFINE list == Append(gradients_list, c)
<1>1. lock = NoOne /\ call[c] = "sent" /\ c \notin Submitted /\ c # lock
  BY DEF Handles, SendInv
<1>2. /\ Len(gradients_list) \in Nat /\ Len(gradients_list) < N
      /\ target = 0 /\ bcall = "none" /\ sended_num = 0 /\ agg # "stopped"
      /\ \A d \in Clients : grad[d] = NoSum /\ ~aggregate[d]
      /\ split => \A d \in Clients : received[d] = {}
  BY <1>1, BeforeBroadcast
<1>3. gradients_list \in Seq(Clients) /\ list \in Seq(Clients)
  BY DEF TypeOK
<1>4. /\ gradients_list' = list
      /\ Len(list) = Len(gradients_list) + 1
      /\ DOMAIN list = 1 .. Len(gradients_list) + 1
      /\ DOMAIN gradients_list = 1 .. Len(gradients_list)
      /\ \A i \in DOMAIN gradients_list : list[i] = gradients_list[i]
      /\ list[Len(gradients_list) + 1] = c
  BY <1>2, <1>3 DEF TakeIn
<1>5. ListInv'
  <2>1. \A i \in DOMAIN gradients_list : list[i] # c
    BY <1>1, <1>4 DEF Submitted
  <2>2. \A i, j \in DOMAIN list : list[i] = list[j] => i = j
    BY <1>2, <1>4, <2>1 DEF ListInv
  <2> QED
    BY <1>2, <1>4, <2>2 DEF ListInv
<1>6. Submitted' = Submitted \cup {c}
  BY <1>2, <1>4 DEF Submitted
<1>7. Len(list) = N => Sum(list) = SS!Total
  BY <1>3, <1>4, <1>5, FullList DEF ListInv
<1> HIDE DEF list
<1>8. \/ /\ Len(list) # N
         /\ call' = [call EXCEPT ![c] = "handled"]
         /\ lock' = NoOne /\ sum_gradient' = sum_gradient /\ target' = 0
      \/ /\ Len(list) = N
         /\ lock' = c /\ sum_gradient' = SS!Total /\ target' = 1 /\ call' = call
      \/ /\ Len(list) = N
         /\ call' = [call EXCEPT ![c] = "failed"]
         /\ lock' = NoOne /\ sum_gradient' = sum_gradient /\ target' = 0
  BY <1>1, <1>2, <1>4, <1>7 DEF TakeIn
<1>9. /\ \A d \in Clients : d # c => call'[d] = call[d]
      /\ call'[c] \in {"handled", "failed", "sent"}
      /\ call'[c] = "sent" => lock' = c
      /\ lock' \in {NoOne, c}
      /\ call' \in [Clients -> {"none", "sent", "handled", "failed"}]
  BY <1>1, <1>8 DEF TypeOK
<1>10. TypeOK'
  <2>1. gradients_list' \in Seq(Clients)
    BY <1>3, <1>4
  <2>2. lock' \in Clients \cup {NoOne} /\ target' \in 0 .. N + 1
    BY <1>8
  <2>3. sum_gradient' \in {NoSum} \cup [Clients -> Nat]
    BY <1>8, TotalIsASum DEF TypeOK
  <2>4. UNCHANGED <<split, found, pc, part, has_buffer, received, aggregate, grad,
                    agg, sending, bcall, sended_num, faults>>
    OBVIOUS
  <2> HIDE DEF input
  <2> QED
    BY <1>9, <2>1, <2>2, <2>3, <2>4 DEF TypeOK
<1>11. SendInv'
  <2>1. pc[c] # "send"
    BY <1>1 DEF SendInv
  <2> QED
    BY <1>1, <1>6, <1>9, <2>1 DEF SendInv, LastPart
<1>12. LockInv'
  BY <1>1, <1>2, <1>4, <1>6, <1>8 DEF LockInv, LastPart
<1>13. GivenInv'
  BY <1>2, <1>8, TotalIsASum DEF GivenInv, LastPart
<1>14. BufferInv'
  <2>1. sending = 1
    BY <1>2 DEF LockInv
  <2>2. ASSUME split, NEW d \in Clients
        PROVE  /\ /\ grad[d] = NoSum
                  /\ call'[d] # "none" \/ part[d] > 1 \/ d \in Submitted'
                  => has_buffer[d]
               /\ received[d] = {}
    BY <1>1, <1>2, <1>6, <1>9, <2>2 DEF BufferInv
  <2>3. 1 .. sending - 1 = {}
    BY <2>1
  <2> QED
    BY <1>2, <2>2, <2>3 DEF BufferInv
<1>15. CountInv'
  BY <1>2, <1>8 DEF CountInv
<1> QED
  BY <1>5, <1>10, <1>11, <1>12, <1>13, <1>14, <1>15

\* A vector sent whole.
LEMMA ReceiveGradStep ==
  ASSUME IInv, NEW c \in Clients, ReceiveGrad(c)
  PROVE  IInv'
<1>1. part[c] = LastPart
  <2>1. part[c] \in Nat /\ part[c] >= 1
    BY ConstantFacts DEF IInv, TypeOK, Parts
  <2>2. part[c] <= LastPart /\ LastPart = 1
    BY DEF IInv, SendInv, ReceiveGrad, LastPart
  <2> QED
    BY <2>1, <2>2
<1> QED
  BY <1>1, TakeInStep DEF ReceiveGrad, IInv, TypeOK

\* A part: the last one completes the gradient.
LEMMA ReceiveSplitGradStep ==
  ASSUME IInv, NEW c \in Clients, ReceiveSplitGrad(c)
  PROVE  IInv'
<1> USE ConstantFacts, LastPartType
<1>1. /\ split /\ LastPart = NumParts
      /\ lock = NoOne /\ call[c] = "sent" /\ c # lock /\ c \notin Submitted
      /\ part[c] \in Parts /\ partial_grads[c] = 1 .. part[c] - 1
      /\ part[c] <= NumParts
  BY DEF ReceiveSplitGrad, Handles, IInv, TypeOK, SendInv, LastPart
<1>2. partial_grads[c] \cup {part[c]} = 1 .. part[c]
  BY <1>1 DEF Parts
<1>3. CASE 1 .. part[c] = Parts
  <2>1. part[c] = NumParts
    <3>1. NumParts \in Parts
      BY DEF Parts
    <3> QED
      BY <1>1, <1>3, <3>1 DEF Parts
  <2>2. TakeIn(c) /\ partial_grads' = [partial_grads EXCEPT ![c] = {}]
    BY <1>2, <1>3 DEF ReceiveSplitGrad
  <2>3. /\ partial_grads' \in [Clients -> SUBSET Parts]
        /\ \A d \in Clients : d # c => partial_grads'[d] = partial_grads[d]
    BY <2>2 DEF IInv, TypeOK
  <2> QED
    BY <1>1, <2>1, <2>2, <2>3, TakeInStep DEF ReceiveSplitGrad
<1>4. CASE 1 .. part[c] # Parts
  <2> USE DEF IInv, input
  <2>1. /\ partial_grads' = [partial_grads EXCEPT ![c] = 1 .. part[c]]
        /\ call' = [call EXCEPT ![c] = "handled"]
        /\ UNCHANGED <<gradients_list, lock, sum_gradient, target>>
        /\ UNCHANGED <<split, found, pc, part, has_buffer, received, aggregate,
                       grad, agg, sending, bcall, sended_num, faults>>
    BY <1>2, <1>4 DEF ReceiveSplitGrad
  <2>2. 1 .. part[c] \subseteq Parts
    BY <1>1 DEF Parts
  <2>3. TypeOK'
    BY <2>1, <2>2 DEF TypeOK
  <2>4. ListInv' /\ Submitted' = Submitted
    BY <2>1 DEF ListInv, Submitted
  <2>5. SendInv'
    <3>1. pc[c] # "send"
      BY <1>1 DEF SendInv
    <3>2. /\ call'[c] = "handled" /\ partial_grads'[c] = 1 .. part[c]
          /\ \A d \in Clients : d # c =>
               call'[d] = call[d] /\ partial_grads'[d] = partial_grads[d]
      BY <2>1 DEF TypeOK
    <3> QED
      BY <1>1, <2>1, <2>4, <3>1, <3>2 DEF SendInv, LastPart
  <2>6. LockInv'
    BY <1>1, <2>1, <2>4 DEF LockInv, LastPart
  <2>7. GivenInv'
    BY <2>1 DEF GivenInv, LastPart
  <2>8. BufferInv'
    <3>1. \A d \in Clients : call'[d] # "none" => call[d] # "none"
      BY <1>1, <2>1 DEF TypeOK
    <3> QED
      BY <2>1, <2>4, <3>1 DEF BufferInv
  <2>9. CountInv'
    BY <2>1 DEF CountInv
  <2> QED
    BY <2>3, <2>4, <2>5, <2>6, <2>7, <2>8, <2>9
<1> QED
  BY <1>3, <1>4

\* The answer to a part: the next one is what the aggregator waits for.
LEMMA SendReturnsStep ==
  ASSUME IInv, NEW c \in Clients, SendReturns(c)
  PROVE  IInv'
<1> USE ConstantFacts, LastPartType DEF IInv, input, aggVars
<1>1. /\ pc[c] = "call" /\ call[c] = "handled" /\ c # lock
      /\ part[c] \in Nat /\ part[c] \in Parts /\ part[c] <= LastPart
  <2>1. pc[c] = "call" /\ call[c] = "handled"
    BY DEF SendReturns
  <2>2. c # lock
    BY <2>1 DEF LockInv
  <2>3. part[c] \in Nat /\ part[c] \in Parts
    BY DEF TypeOK, Parts
  <2>4. part[c] <= LastPart
    BY DEF SendInv
  <2> QED
    BY <2>1, <2>2, <2>3, <2>4
<1>2. /\ call' \in [Clients -> {"none", "sent", "handled", "failed"}]
      /\ call'[c] = "none"
      /\ \A d \in Clients : d # c =>
           call'[d] = call[d] /\ part'[d] = part[d] /\ pc'[d] = pc[d]
  BY DEF SendReturns, TypeOK
<1>3. \/ /\ part[c] < LastPart
         /\ part' = [part EXCEPT ![c] = part[c] + 1]
         /\ pc' = [pc EXCEPT ![c] = "send"]
      \/ part' = part /\ pc' = [pc EXCEPT ![c] = "poll"]
  BY DEF SendReturns
<1>4. part' \in [Clients -> Parts]
  <2>1. part[c] < LastPart => part[c] + 1 \in Parts
    BY <1>1 DEF Parts
  <2> QED
    BY <1>3, <2>1 DEF TypeOK
<1>5. TypeOK'
  BY <1>2, <1>3, <1>4 DEF TypeOK, SendReturns
<1>6. ListInv' /\ Submitted' = Submitted
  BY DEF ListInv, Submitted, SendReturns
<1>7. SendInv'
  <2>1. CASE part[c] < LastPart /\ part'[c] = part[c] + 1 /\ pc'[c] = "send"
    <3>1. c \notin Submitted /\ (split => partial_grads[c] = 1 .. part[c])
      BY <1>1, <2>1 DEF SendInv
    <3>2. part'[c] - 1 = part[c] /\ part'[c] <= LastPart
      BY <1>1, <2>1
    <3>3. lock' = lock /\ partial_grads' = partial_grads /\ split' = split
      BY DEF SendReturns
    <3> QED
      BY <1>2, <1>6, <2>1, <3>1, <3>2, <3>3 DEF SendInv, LastPart
  <2>2. CASE part' = part /\ pc'[c] = "poll"
    <3>1. lock' = lock /\ partial_grads' = partial_grads /\ split' = split
      BY DEF SendReturns
    <3> QED
      BY <1>2, <1>6, <2>2, <3>1 DEF SendInv, LastPart
  <2> QED
    BY <1>3, <2>1, <2>2 DEF TypeOK
<1>8. LockInv'
  BY <1>1, <1>2, <1>6 DEF LockInv, SendReturns, LastPart, TypeOK
<1>9. GivenInv'
  BY DEF GivenInv, SendReturns, LastPart
<1>10. BufferInv'
  <2>1. \A d \in Clients :
          call'[d] # "none" \/ part'[d] > 1 => call[d] # "none" \/ part[d] > 1
    BY <1>1, <1>2
  <2> QED
    BY <1>6, <2>1 DEF BufferInv, SendReturns
<1>11. CountInv'
  BY DEF CountInv, SendReturns
<1> QED
  BY <1>5, <1>6, <1>7, <1>8, <1>9, <1>10, <1>11

\* A main that ends, raises or is killed leaves the rest alone.
LEMMA MainEndsStep ==
  ASSUME IInv, NEW c \in Clients,
         CallFails(c) \/ CallTimesOut(c) \/ Close(c) \/ Crash(c)
  PROVE  IInv'
<1> USE ConstantFacts DEF IInv, input, aggVars
<1>1. /\ UNCHANGED <<split, found, part, call, has_buffer, received, aggregate, grad>>
      /\ UNCHANGED <<agg, gradients_list, partial_grads, lock, sum_gradient, target,
                     sending, bcall, sended_num>>
  BY DEF CallFails, CallTimesOut, Close, Crash
<1>2. faults' \in 0 .. MaxFaults
  BY DEF CallFails, CallTimesOut, Close, Crash, TypeOK
<1>3. \E p \in {"dead", "closed", "crashed"} : pc' = [pc EXCEPT ![c] = p]
  BY DEF CallFails, CallTimesOut, Close, Crash
<1>4. TypeOK' /\ \A d \in Clients : pc'[d] = "send" => pc[d] = "send"
  BY <1>1, <1>2, <1>3 DEF TypeOK
<1>5. ListInv' /\ Submitted' = Submitted
  BY <1>1 DEF ListInv, Submitted
<1>6. SendInv'
  BY <1>1, <1>4, <1>5 DEF SendInv, LastPart
<1>7. LockInv' /\ GivenInv' /\ BufferInv' /\ CountInv'
  BY <1>1, <1>5 DEF LockInv, GivenInv, BufferInv, CountInv, LastPart
<1> QED
  BY <1>4, <1>5, <1>6, <1>7

\* The aggregator's call to its target leaves.
LEMMA SendAggregateStep ==
  ASSUME IInv, SendAggregate
  PROVE  IInv'
<1> USE ConstantFacts DEF IInv, input, clientVars
<1>1. TypeOK'
  BY DEF TypeOK, SendAggregate
<1>2. ListInv' /\ Submitted' = Submitted
  BY DEF ListInv, Submitted, SendAggregate
<1>3. SendInv' /\ LockInv' /\ GivenInv'
  BY <1>2 DEF SendInv, LockInv, GivenInv, LastPart, SendAggregate
<1>4. BufferInv' /\ CountInv'
  BY <1>2 DEF BufferInv, CountInv, SendAggregate
<1> QED
  BY <1>1, <1>2, <1>3, <1>4

\* The target is given the sum, whole.
LEMMA ReceiveAggregateStep ==
  ASSUME IInv, NEW c \in Clients, ReceiveAggregate(c)
  PROVE  IInv'
<1> USE ConstantFacts DEF IInv, input
<1>1. /\ target = c /\ target # 0 /\ sum_gradient = SS!Total
      /\ sending = LastPart /\ ~split
  BY DEF ReceiveAggregate, LockInv, LastPart, TypeOK, Parts
<1>2. grad' = [grad EXCEPT ![c] = SS!Total] /\ aggregate' = [aggregate EXCEPT ![c] = TRUE]
  BY <1>1 DEF ReceiveAggregate
<1>3. TypeOK'
  BY <1>2, TotalIsASum DEF TypeOK, ReceiveAggregate
<1>4. ListInv' /\ Submitted' = Submitted
  BY DEF ListInv, Submitted, ReceiveAggregate
<1>5. SendInv' /\ LockInv'
  BY <1>4 DEF SendInv, LockInv, LastPart, ReceiveAggregate
<1>6. \A d \in Clients :
        /\ grad'[d] = IF d = c THEN SS!Total ELSE grad[d]
        /\ aggregate'[d] <=> d = c \/ aggregate[d]
  BY <1>2 DEF TypeOK
<1>7. GivenInv'
  BY <1>1, <1>6, TotalIsASum DEF GivenInv, LastPart, ReceiveAggregate
<1>8. BufferInv'
  BY <1>1 DEF BufferInv, ReceiveAggregate
<1>9. CountInv'
  BY <1>6 DEF CountInv, ReceiveAggregate
<1> QED
  BY <1>3, <1>4, <1>5, <1>7, <1>8, <1>9

\* The target is given a part of the sum; the last one completes it.
LEMMA ReceiveSplitAggregateStep ==
  ASSUME IInv, NEW c \in Clients, ReceiveSplitAggregate(c)
  PROVE  IInv'
<1> USE ConstantFacts, LastPartType DEF IInv, input
<1>1. /\ target = c /\ target # 0 /\ sum_gradient = SS!Total /\ bcall = "sent"
      /\ split /\ LastPart = NumParts /\ sending \in Parts
      /\ received[c] = 1 .. sending - 1 /\ has_buffer[c]
  BY DEF ReceiveSplitAggregate, LockInv, LastPart, TypeOK, BufferInv
<1>2. received[c] \cup {sending} = 1 .. sending
  BY <1>1 DEF Parts
<1>3. 1 .. sending \subseteq Parts /\ (1 .. sending = Parts <=> sending = NumParts)
  <2>1. NumParts \in Parts
    BY DEF Parts
  <2> QED
    BY <1>1, <2>1 DEF Parts
<1>4. received' = [received EXCEPT ![c] = 1 .. sending] /\ received'[c] = 1 .. sending
  BY <1>2 DEF ReceiveSplitAggregate, TypeOK
<1>5. \/ /\ sending = NumParts
         /\ grad' = [grad EXCEPT ![c] = SS!Total]
         /\ has_buffer' = [has_buffer EXCEPT ![c] = FALSE]
         /\ aggregate' = [aggregate EXCEPT ![c] = TRUE]
      \/ sending # NumParts /\ UNCHANGED <<grad, has_buffer, aggregate>>
  BY <1>1, <1>3, <1>4 DEF ReceiveSplitAggregate
<1>6. /\ bcall' = "handled"
      /\ UNCHANGED <<split, found, pc, part, call, agg, gradients_list, partial_grads,
                     lock, sum_gradient, target, sending, sended_num, faults>>
  BY DEF ReceiveSplitAggregate
<1>7. /\ \A d \in Clients :
           /\ d # c => grad'[d] = grad[d] /\ (aggregate'[d] <=> aggregate[d])
           /\ d # c => (has_buffer'[d] <=> has_buffer[d]) /\ received'[d] = received[d]
      /\ IF sending = NumParts THEN grad'[c] = SS!Total /\ aggregate'[c]
         ELSE /\ grad'[c] = grad[c] /\ (aggregate'[c] <=> aggregate[c])
              /\ (has_buffer'[c] <=> has_buffer[c])
  BY <1>4, <1>5 DEF TypeOK
<1>8. TypeOK'
  <2>1. received' \in [Clients -> SUBSET Parts]
    BY <1>3, <1>4 DEF TypeOK
  <2>2. grad' \in [Clients -> {NoSum} \cup [Clients -> Nat]]
    <3>1. PICK G : G = {NoSum} \cup [Clients -> Nat] /\ SS!Total \in G /\ grad \in [Clients -> G]
      BY TotalIsASum DEF TypeOK
    <3>2. grad' = grad \/ grad' = [grad EXCEPT ![c] = SS!Total]  BY <1>5
    <3>3. grad' \in [Clients -> G]  BY <3>1, <3>2
    <3> QED  BY <3>1, <3>3
  <2>3. has_buffer \in [Clients -> BOOLEAN] /\ aggregate \in [Clients -> BOOLEAN]
    BY DEF TypeOK
  <2>4. has_buffer' \in [Clients -> BOOLEAN]
    BY <1>5, <2>3
  <2>5. aggregate' \in [Clients -> BOOLEAN]
    BY <1>5, <2>3
  <2> QED
    BY <1>6, <2>1, <2>2, <2>4, <2>5 DEF TypeOK
<1>9. ListInv' /\ Submitted' = Submitted
  BY <1>6 DEF ListInv, Submitted
<1>10. SendInv' /\ LockInv'
  BY <1>1, <1>6, <1>9 DEF SendInv, LockInv, LastPart
<1>11. GivenInv'
  BY <1>1, <1>6, <1>7, TotalIsASum DEF GivenInv, LastPart
<1>12. BufferInv'
  <2>1. IF sending = NumParts THEN grad'[c] # NoSum ELSE has_buffer'[c]
    BY <1>1, <1>7, TotalIsASum
  <2>2. ASSUME NEW d \in Clients, d # c
        PROVE  /\ /\ grad'[d] = NoSum
                  /\ call'[d] # "none" \/ part'[d] > 1 \/ d \in Submitted'
                  => has_buffer'[d]
               /\ d > target' => received'[d] = {}
    BY <1>1, <1>6, <1>7, <1>9, <2>2 DEF BufferInv
  <2>3. ~(c > target)
    BY <1>1
  <2>4. (grad'[c] = NoSum) => has_buffer'[c]
    BY <1>1, <1>7, <2>1
  <2>5. ASSUME split', NEW d \in Clients
        PROVE  /\ /\ grad'[d] = NoSum
                  /\ call'[d] # "none" \/ part'[d] > 1 \/ d \in Submitted'
                  => has_buffer'[d]
               /\ d > target' => received'[d] = {}
               /\ d = target' =>
                    received'[d] = 1 .. (IF bcall' = "handled" THEN sending' ELSE sending' - 1)
    BY <1>1, <1>4, <1>6, <2>2, <2>3, <2>4
  <2> QED
    BY <2>5 DEF BufferInv
<1>13. CountInv'
  BY <1>6, <1>7 DEF CountInv
<1> QED
  BY <1>8, <1>9, <1>10, <1>11, <1>12, <1>13

\* The answer to the broadcast's call: the next part, or the next client.
LEMMA BroadcastReturnsStep ==
  ASSUME IInv, BroadcastReturns
  PROVE  IInv'
<1> USE ConstantFacts, LastPartType DEF IInv, input, clientVars
<1>1. /\ agg = "up" /\ bcall = "handled" /\ bcall' = "none"
      /\ lock # NoOne /\ target \in Clients /\ target # 0
      /\ sending \in Parts /\ sending \in Nat /\ sending >= 1
      /\ sended_num \in 0 .. N
  BY DEF BroadcastReturns, LockInv, TypeOK, Parts
<1>2. \/ /\ sending < LastPart
         /\ sending' = sending + 1 /\ target' = target /\ sended_num' = sended_num
      \/ /\ sending = LastPart
         /\ target' = target + 1 /\ sending' = 1 /\ sended_num' = sended_num + 1
  BY <1>1 DEF BroadcastReturns, NextTarget, LockInv
<1>3. UNCHANGED <<split, found, pc, part, call, has_buffer, received, aggregate, grad,
                  agg, gradients_list, partial_grads, lock, sum_gradient, faults>>
  BY DEF BroadcastReturns
<1>4. sended_num < target
  BY <1>1 DEF CountInv
<1>5. TypeOK'
  <2>1. sending' \in Parts /\ target' \in 0 .. N + 1 /\ sended_num' \in 0 .. N
    BY <1>1, <1>2, <1>4 DEF Parts
  <2> QED
    BY <1>1, <1>3, <2>1 DEF TypeOK
<1>6. ListInv' /\ Submitted' = Submitted
  BY <1>3 DEF ListInv, Submitted
<1>7. SendInv'
  BY <1>3, <1>6 DEF SendInv, LastPart
<1>8. LockInv'
  BY <1>1, <1>2, <1>3, <1>6 DEF LockInv, LastPart
<1>9. GivenInv'
  BY <1>1, <1>2, <1>3 DEF GivenInv, LastPart
<1>10. BufferInv'
  <2>1. ASSUME split, NEW d \in Clients, d = target'
        PROVE  received[d] = 1 .. sending' - 1
    <3>1. CASE sending' = sending + 1 /\ target' = target
      BY <1>1, <2>1, <3>1 DEF BufferInv
    <3>2. CASE sending' = 1 /\ target' = target + 1
      <4>1. d > target /\ received[d] = {}
        BY <1>1, <2>1, <3>2 DEF BufferInv
      <4>2. 1 .. sending' - 1 = {}
        BY <3>2
      <4> QED
        BY <4>1, <4>2
    <3> QED
      BY <1>2, <3>1, <3>2
  <2>2. \A d \in Clients : d > target' => d > target
    BY <1>1, <1>2
  <2> QED
    BY <1>1, <1>3, <1>6, <2>1, <2>2 DEF BufferInv
<1>11. CountInv'
  <2>1. sending = LastPart => grad[target] # NoSum /\ aggregate[target]
    BY <1>1 DEF GivenInv
  <2> QED
    BY <1>1, <1>2, <1>3, <1>4, <2>1 DEF CountInv
<1> QED
  BY <1>5, <1>6, <1>7, <1>8, <1>9, <1>10, <1>11

\* A target that is gone is skipped and not counted.
LEMMA BroadcastFailsStep ==
  ASSUME IInv, BroadcastFails
  PROVE  IInv'
<1> USE ConstantFacts, LastPartType DEF IInv, input, clientVars
<1>1. /\ agg = "up" /\ bcall # "none" /\ bcall' = "none"
      /\ lock # NoOne /\ target \in Clients /\ target # 0
      /\ target' = target + 1 /\ sending' = 1
      /\ sended_num \in 0 .. N
  BY DEF BroadcastFails, NextTarget, LockInv, TypeOK
<1>2. UNCHANGED <<split, found, pc, part, call, has_buffer, received, aggregate, grad,
                  agg, gradients_list, partial_grads, lock, sum_gradient, sended_num,
                  faults>>
  BY DEF BroadcastFails
<1>3. sended_num < target
  BY <1>1 DEF CountInv
<1>4. TypeOK'
  <2>1. sending' \in Parts /\ target' \in 0 .. N + 1
    BY <1>1 DEF Parts
  <2> QED
    BY <1>1, <1>2, <2>1 DEF TypeOK
<1>5. ListInv' /\ Submitted' = Submitted
  BY <1>2 DEF ListInv, Submitted
<1>6. SendInv'
  BY <1>2, <1>5 DEF SendInv, LastPart
<1>7. LockInv'
  BY <1>1, <1>2, <1>5 DEF LockInv, LastPart
<1>8. GivenInv'
  BY <1>1, <1>2 DEF GivenInv, LastPart
<1>9. BufferInv'
  <2>1. ASSUME split, NEW d \in Clients, d >= target'
        PROVE  received[d] = {} /\ received[d] = 1 .. sending' - 1
    <3>1. d > target /\ received[d] = {}
      BY <1>1, <2>1 DEF BufferInv
    <3>2. 1 .. sending' - 1 = {}
      BY <1>1
    <3> QED
      BY <3>1, <3>2
  <2> QED
    BY <1>1, <1>2, <1>5, <2>1 DEF BufferInv
<1>10. CountInv'
  BY <1>1, <1>2, <1>3 DEF CountInv
<1> QED
  BY <1>4, <1>5, <1>6, <1>7, <1>8, <1>9, <1>10

\* The end of the loop answers the call it ran in.
LEMMA BroadcastEndsStep ==
  ASSUME IInv, BroadcastEnds
  PROVE  IInv'
<1> USE ConstantFacts, LastPartType DEF IInv, input
<1>1. /\ lock \in Clients /\ call[lock] = "sent" /\ part[lock] = LastPart
      /\ target = N + 1 /\ bcall = "none" /\ lock' = NoOne
  BY DEF BroadcastEnds, LockInv, TypeOK
<1>2. /\ call' \in [Clients -> {"none", "sent", "handled", "failed"}]
      /\ call'[lock] = "handled"
      /\ \A d \in Clients : d # lock => call'[d] = call[d]
  BY <1>1 DEF BroadcastEnds, TypeOK
<1>3. UNCHANGED <<split, found, pc, part, has_buffer, received, aggregate, grad, agg,
                  gradients_list, partial_grads, sum_gradient, target, sending, bcall,
                  sended_num, faults>>
  BY DEF BroadcastEnds
<1>4. TypeOK'
  BY <1>1, <1>2, <1>3 DEF TypeOK
<1>5. ListInv' /\ Submitted' = Submitted
  BY <1>3 DEF ListInv, Submitted
<1>6. SendInv'
  <2>1. pc[lock] # "send"
    BY <1>1 DEF SendInv
  <2> QED
    BY <1>1, <1>2, <1>3, <1>5, <2>1 DEF SendInv, LastPart
<1>7. LockInv'
  BY <1>1, <1>3, <1>5 DEF LockInv, LastPart
<1>8. GivenInv' /\ CountInv'
  BY <1>3 DEF GivenInv, CountInv, LastPart
<1>9. BufferInv'
  <2>1. \A d \in Clients : call'[d] # "none" => call[d] # "none"
    BY <1>1, <1>2
  <2> QED
    BY <1>3, <1>5, <2>1 DEF BufferInv
<1> QED
  BY <1>4, <1>5, <1>6, <1>7, <1>8, <1>9

\* The aggregator's process ends.
LEMMA AggregatorEndsStep ==
  ASSUME IInv, StopServer \/ CrashAggregator
  PROVE  IInv'
<1> USE ConstantFacts DEF IInv, input, clientVars
<1>1. UNCHANGED <<split, found, pc, part, call, has_buffer, received, aggregate, grad,
                  gradients_list, partial_grads, lock, sum_gradient, target, sending,
                  bcall, sended_num>>
  BY DEF StopServer, CrashAggregator
<1>2. /\ agg' \in {"stopped", "crashed"} /\ faults' \in 0 .. MaxFaults
      /\ agg' = "stopped" => sended_num = N
  BY DEF StopServer, CrashAggregator, TypeOK
<1>3. TypeOK'
  BY <1>1, <1>2 DEF TypeOK
<1>4. ListInv' /\ Submitted' = Submitted
  BY <1>1 DEF ListInv, Submitted
<1>5. SendInv' /\ LockInv' /\ GivenInv' /\ BufferInv'
  BY <1>1, <1>4 DEF SendInv, LockInv, GivenInv, BufferInv, LastPart
<1>6. CountInv'
  BY <1>1, <1>2 DEF CountInv
<1> QED
  BY <1>3, <1>4, <1>5, <1>6

\* IInv is inductive.
LEMMA InvStep == IInv /\ [Next]_vars => IInv'
<1> SUFFICES ASSUME IInv, [Next]_vars PROVE IInv'
  OBVIOUS
<1>1. ASSUME NEW c \in Clients, ClientStep(c) PROVE IInv'
  BY <1>1, SendGradStep, SendReturnsStep, MainEndsStep, ReceiveAggregateStep,
     ReceiveSplitAggregateStep DEF ClientStep
<1>2. ASSUME NEW c \in Clients, ReceiveGrad(c) \/ ReceiveSplitGrad(c) \/ Crash(c)
      PROVE  IInv'
  BY <1>2, ReceiveGradStep, ReceiveSplitGradStep, MainEndsStep
<1>3. ASSUME AggregatorStep \/ CrashAggregator PROVE IInv'
  BY <1>3, SendAggregateStep, BroadcastReturnsStep, BroadcastFailsStep,
     BroadcastEndsStep, AggregatorEndsStep DEF AggregatorStep
<1>4. ASSUME UNCHANGED vars PROVE IInv'
  <2>1. TypeOK' /\ ListInv' /\ Submitted' = Submitted
    BY <1>4 DEF IInv, TypeOK, ListInv, Submitted, vars, input, clientVars, aggVars
  <2>2. SendInv' /\ LockInv' /\ GivenInv'
    BY <1>4, <2>1 DEF IInv, SendInv, LockInv, GivenInv, LastPart, vars, input,
                      clientVars, aggVars
  <2>3. BufferInv' /\ CountInv'
    BY <1>4, <2>1 DEF IInv, BufferInv, CountInv, vars, input, clientVars, aggVars
  <2> QED
    BY <2>1, <2>2, <2>3 DEF IInv
<1> QED
  BY <1>1, <1>2, <1>3, <1>4 DEF Next

\* The inductive invariant holds of every execution.
LEMMA Invariant == Spec => []IInv
<1>1. Init => IInv
  BY InvInit
<1>2. IInv /\ [Next]_vars => IInv'
  BY InvStep
<1> QED
  BY <1>1, <1>2, PTL DEF Spec

-----------------------------------------------------------------------------
(* What the project claims.                                                  *)

(* The types of the round's state (client.py, aggregator.py), the count of   *)
(* answers among them: it never exceeds the number of clients.               *)
THEOREM TypeCorrect == Spec => []TypeOK
<1>1. IInv => TypeOK
  BY DEF IInv
<1> QED
  BY <1>1, Invariant, PTL

(* No handler ever waits for the lock the broadcast holds: by then the       *)
(* requests of all other clients have been served (aggregator.py, with       *)
(* self.lock).                                                               *)
THEOREM LockNeverContended == Spec => []NoReentrantLock
<1>1. ASSUME IInv PROVE NoReentrantLock
  <2>1. ASSUME lock # NoOne, NEW c \in Clients, call[c] = "sent", c # lock
        PROVE  FALSE
    <3>1. c \notin Submitted
      BY <1>1, <2>1 DEF IInv, SendInv
    <3> QED
      BY <1>1, <2>1, <3>1, BeforeBroadcast
  <2> QED
    BY <2>1 DEF NoReentrantLock
<1> QED
  BY <1>1, Invariant, PTL

(* Every part of the sum finds its buffer and its place in it free           *)
(* (client.py, receive_split_aggregate).                                     *)
THEOREM BufferThere == Spec => []SplitBufferPresent
<1>1. ASSUME IInv PROVE SplitBufferPresent
  <2>1. ASSUME split, bcall = "sent"
        PROVE  has_buffer[target] /\ sending \notin received[target]
    <3>1. target \in Clients /\ target # 0 /\ sending \in Nat
      BY <1>1, <2>1, ConstantFacts DEF IInv, LockInv, TypeOK, Parts
    <3>2. target \in Submitted
      BY <1>1, <3>1, BeforeBroadcast
    <3>3. grad[target] = NoSum
      BY <1>1, <2>1, <3>1, ConstantFacts DEF IInv, GivenInv
    <3>4. has_buffer[target] /\ received[target] = 1 .. sending - 1
      BY <1>1, <2>1, <3>1, <3>2, <3>3 DEF IInv, BufferInv
    <3> QED
      BY <3>1, <3>4
  <2> QED
    BY <2>1 DEF SplitBufferPresent
<1> QED
  BY <1>1, Invariant, PTL

(* The aggregator kills itself only when every client has the sum            *)
(* (aggregator.py, stop_server).                                             *)
THEOREM StopsAfterAll == Spec => []StopSound
<1>1. ASSUME IInv PROVE StopSound
  <2>1. ASSUME agg = "stopped" PROVE \A c \in Clients : aggregate[c]
    <3>1. sended_num = N /\ N >= 1 /\ N \in Nat /\ target \in 0 .. N + 1
      BY <1>1, <2>1, ConstantFacts DEF IInv, CountInv, TypeOK
    <3>2. target = N + 1 /\ sended_num = target - 1
      BY <1>1, <3>1 DEF IInv, CountInv
    <3> QED
      BY <1>1, <3>1, <3>2, ConstantFacts DEF IInv, CountInv
  <2> QED
    BY <2>1 DEF StopSound
<1> QED
  BY <1>1, Invariant, PTL

-----------------------------------------------------------------------------
(* The round implements SecureSum.                                           *)

\* A gradient that is taken in is submitted, for the first time.
LEMMA TakeInSubmits ==
  ASSUME IInv, NEW c \in Clients, Handles(c), TakeIn(c), UNCHANGED grad
  PROVE  SS!Submit(c)
<1>1. c \notin Submitted
  BY ConstantFacts DEF IInv, Handles, SendInv
<1>2. gradients_list \in Seq(Clients) /\ gradients_list' = Append(gradients_list, c)
  BY DEF IInv, TypeOK, TakeIn
<1>3. Submitted' = Submitted \cup {c}
  BY <1>2 DEF Submitted
<1> QED
  BY <1>1, <1>3 DEF SS!Submit

\* What a client is given is the sum of all, the first time it is given one.
LEMMA GivenDelivers ==
  ASSUME IInv, NEW c \in Clients, target = c, bcall = "sent",
         grad' = [grad EXCEPT ![c] = sum_gradient], UNCHANGED gradients_list
  PROVE  SS!Deliver(c)
<1>1. target # 0 /\ sum_gradient = SS!Total /\ Submitted = Clients
  BY ConstantFacts, FullListInv DEF IInv, LockInv
<1>2. grad[c] = NoSum
  BY ConstantFacts DEF IInv, GivenInv
<1>3. Submitted' = Submitted
  BY DEF Submitted
<1> QED
  BY <1>1, <1>2, <1>3 DEF SS!Deliver, SS!None, NoSum

\* The initial state maps to the initial state.
LEMMA RefinementInit == Init => SS!Init
BY DEF Init, SS!Init, SS!None, Submitted, NoSum

\* Every step maps to a step or to a stutter.
LEMMA RefinementStep ==
  ASSUME IInv, [Next]_vars
  PROVE  [SS!Next]_<<Submitted, grad>>
<1> DEFINE Mapped == [SS!Next]_<<Submitted, grad>>
<1>1. ASSUME UNCHANGED <<gradients_list, grad>> PROVE Mapped
  BY <1>1 DEF Submitted
<1>2. ASSUME NEW c \in Clients, ReceiveGrad(c) \/ ReceiveSplitGrad(c)
      PROVE  Mapped
  <2>1. CASE UNCHANGED <<gradients_list, grad>>
    BY <1>1, <2>1
  <2>2. CASE Handles(c) /\ TakeIn(c) /\ UNCHANGED grad
    BY <2>2, TakeInSubmits DEF SS!Next
  <2> QED
    BY <1>2, <2>1, <2>2 DEF ReceiveGrad, ReceiveSplitGrad
<1>3. ASSUME NEW c \in Clients, ReceiveAggregate(c) \/ ReceiveSplitAggregate(c)
      PROVE  Mapped
  <2>1. CASE UNCHANGED <<gradients_list, grad>>
    BY <1>1, <2>1
  <2>2. CASE /\ target = c /\ bcall = "sent" /\ UNCHANGED gradients_list
             /\ grad' = [grad EXCEPT ![c] = sum_gradient]
    BY <2>2, GivenDelivers DEF SS!Next
  <2> QED
    BY <1>3, <2>1, <2>2 DEF ReceiveAggregate, ReceiveSplitAggregate
<1>4. ASSUME NEW c \in Clients,
             SendGrad(c) \/ SendReturns(c) \/ CallFails(c) \/ CallTimesOut(c)
               \/ Close(c) \/ Crash(c)
      PROVE  Mapped
  BY <1>1, <1>4 DEF SendGrad, SendReturns, CallFails, CallTimesOut, Close, Crash, aggVars
<1>5. ASSUME AggregatorStep \/ CrashAggregator PROVE Mapped
  BY <1>1, <1>5 DEF AggregatorStep, SendAggregate, BroadcastReturns, BroadcastFails,
                    BroadcastEnds, StopServer, CrashAggregator, clientVars
<1>6. ASSUME UNCHANGED vars PROVE Mapped
  BY <1>1, <1>6 DEF vars, clientVars, aggVars
<1> QED
  BY <1>2, <1>3, <1>4, <1>5, <1>6 DEF Next, ClientStep

(* A client is given the sum of everyone's gradients, each counted once, or  *)
(* nothing, and never a second one: the round implements SecureSum for every *)
(* number of clients and parts, whatever crashes.                            *)
THEOREM RoundIsSecureSum == Spec => Implements
<1>1. Init => SS!Init
  BY RefinementInit
<1>2. IInv /\ [Next]_vars => [SS!Next]_<<Submitted, grad>>
  BY RefinementStep
<1> QED
  BY <1>1, <1>2, Invariant, PTL DEF Spec, Implements, SS!Spec

-----------------------------------------------------------------------------
(* Nobody polls in vain.                                                     *)

\* The broadcast passes a client by only if it crashed.
PassedInv == \A c \in Clients : c < target => aggregate[c] \/ pc[c] = "crashed"

\* What the end of a call says of its gradient.
CallInv ==
  \A c \in Clients :
    /\ call[c] = "handled" /\ part[c] = LastPart => c \in Submitted
    /\ call[c] = "failed" => ~found

\* Where a client's main is says whether its gradient is in.
MainInv ==
  \A c \in Clients :
    /\ pc[c] = "call" => call[c] # "none"
    /\ pc[c] = "poll" => c \in Submitted
    /\ pc[c] = "closed" => aggregate[c]
    /\ pc[c] = "dead" /\ found /\ agg = "up" => c \in Submitted

\* A full list starts the broadcast.
StartedInv == found /\ Len(gradients_list) = N => target # 0

ReachInv == PassedInv /\ CallInv /\ MainInv /\ StartedInv

\* A step of a client's main, or the end of its process.
LEMMA MainReaches ==
  ASSUME IInv, ReachInv, NEW c \in Clients,
         \/ SendGrad(c) \/ SendReturns(c) \/ CallFails(c) \/ CallTimesOut(c)
         \/ Close(c) \/ Crash(c)
  PROVE  ReachInv'
<1> USE ConstantFacts, LastPartType DEF IInv, input, aggVars
<1>1. /\ UNCHANGED <<split, found, aggregate, agg, gradients_list, target, lock>>
      /\ \A d \in Clients : d # c =>
           pc'[d] = pc[d] /\ call'[d] = call[d] /\ part'[d] = part[d]
      /\ pc[c] = "crashed" => pc'[c] = "crashed"
  BY DEF SendGrad, SendReturns, CallFails, CallTimesOut, Close, Crash, Running, TypeOK
<1>2. Submitted' = Submitted /\ LastPart' = LastPart
  BY <1>1 DEF Submitted, LastPart
<1>3. PassedInv'  BY <1>1 DEF ReachInv, PassedInv
<1>4. StartedInv'  BY <1>1 DEF ReachInv, StartedInv
<1>5. /\ call'[c] = "handled" /\ part'[c] = LastPart => c \in Submitted
      /\ call'[c] = "failed" => ~found
      /\ pc'[c] = "call" => call'[c] # "none"
  <2>1. CASE SendGrad(c) \/ SendReturns(c)
    <3>1. call'[c] \in {"sent", "none"} /\ (pc'[c] = "call" => call'[c] = "sent")
      BY <2>1 DEF SendGrad, SendReturns, TypeOK
    <3> QED  BY <3>1
  <2>2. CASE CallFails(c) \/ CallTimesOut(c) \/ Close(c) \/ Crash(c)
    <3>1. UNCHANGED <<call, part>> /\ pc'[c] # "call"
      BY <2>2 DEF CallFails, CallTimesOut, Close, Crash, TypeOK
    <3> QED  BY <3>1 DEF ReachInv, CallInv
  <2> QED  BY <2>1, <2>2
<1>6. pc'[c] = "closed" => aggregate[c]
  <2>1. CASE Close(c)  BY <2>1 DEF Close
  <2>2. CASE ~Close(c)
    <3>1. pc'[c] # "closed"
      BY <2>2 DEF SendGrad, SendReturns, CallFails, CallTimesOut, Crash, TypeOK
    <3> QED  BY <3>1
  <2> QED  BY <2>1, <2>2
<1>7. pc'[c] = "poll" => c \in Submitted
  <2>1. CASE SendReturns(c)
    <3>1. call[c] = "handled" /\ part[c] \in Nat /\ part[c] <= LastPart
      BY <2>1 DEF SendReturns, TypeOK, Parts, SendInv
    <3>2. pc'[c] = "poll" => ~(part[c] < LastPart)
      BY <2>1 DEF SendReturns, TypeOK
    <3> QED  BY <3>1, <3>2 DEF ReachInv, CallInv
  <2>2. CASE ~SendReturns(c)
    <3>1. pc'[c] # "poll"
      BY <2>2 DEF SendGrad, CallFails, CallTimesOut, Close, Crash, TypeOK
    <3> QED  BY <3>1
  <2> QED  BY <2>1, <2>2
<1>8. pc'[c] = "dead" /\ found /\ agg = "up" => c \in Submitted
  <2>1. CASE CallFails(c)  BY <2>1 DEF CallFails, ReachInv, CallInv
  <2>2. CASE CallTimesOut(c)  BY <2>2 DEF CallTimesOut, LockInv, NoOne
  <2>3. CASE SendGrad(c) \/ SendReturns(c) \/ Close(c) \/ Crash(c)
    <3>1. pc'[c] # "dead"  BY <2>3 DEF SendGrad, SendReturns, Close, Crash, TypeOK
    <3> QED  BY <3>1
  <2> QED  BY <2>1, <2>2, <2>3
<1>9. CallInv' /\ MainInv'
  BY <1>1, <1>2, <1>5, <1>6, <1>7, <1>8 DEF CallInv, MainInv, ReachInv
<1> QED  BY <1>3, <1>4, <1>9 DEF ReachInv

\* A gradient or a part of it is taken in.
LEMMA TakenInReaches ==
  ASSUME IInv, ReachInv, NEW c \in Clients, ReceiveGrad(c) \/ ReceiveSplitGrad(c)
  PROVE  ReachInv'
<1> USE ConstantFacts, LastPartType DEF IInv, input
<1>1. UNCHANGED <<split, found, aggregate, agg, pc, part>> /\ LastPart' = LastPart
  BY DEF ReceiveGrad, ReceiveSplitGrad, LastPart
<1>2. call[c] = "sent" /\ lock = NoOne /\ c \notin Submitted
  BY DEF ReceiveGrad, ReceiveSplitGrad, Handles, SendInv
<1>3. target = 0  BY <1>2, BeforeBroadcast
<1>4. CASE TakeIn(c)
  <2>1. gradients_list \in Seq(Clients) /\ gradients_list' = Append(gradients_list, c)
    BY <1>4 DEF TakeIn, TypeOK
  <2>2. Submitted' = Submitted \cup {c}
    <3>1. PICK s \in Seq(Clients) : s = gradients_list  BY <2>1
    <3>2. DOMAIN Append(s, c) = DOMAIN s \cup {Len(s) + 1}
      OBVIOUS
    <3>3. Append(s, c)[Len(s) + 1] = c /\ \A i \in DOMAIN s : Append(s, c)[i] = s[i]
      OBVIOUS
    <3> QED  BY <2>1, <3>1, <3>2, <3>3 DEF Submitted
  <2>3. /\ \A d \in Clients : d # c => call'[d] = call[d]
        /\ call'[c] \in {"sent", "handled", "failed"}
        /\ call'[c] = "failed" => ~found
        /\ target' \in {0, 1}
        /\ found /\ Len(gradients_list') = N => target' # 0
    BY <1>2, <1>3, <1>4 DEF TakeIn, TypeOK
  <2>4. PassedInv'  BY <2>3 DEF PassedInv
  <2>5. CallInv' /\ MainInv'
    BY <1>1, <2>2, <2>3 DEF CallInv, MainInv, ReachInv
  <2>6. StartedInv'  BY <1>1, <2>3 DEF StartedInv
  <2> QED  BY <2>4, <2>5, <2>6 DEF ReachInv
<1>5. CASE /\ split /\ partial_grads[c] \cup {part[c]} # Parts
           /\ call' = [call EXCEPT ![c] = "handled"]
           /\ UNCHANGED <<gradients_list, lock, target>>
  <2>1. partial_grads[c] = 1 .. part[c] - 1 /\ part[c] \in Nat \ {0}
    BY <1>2, <1>5 DEF SendInv, TypeOK, Parts
  <2>2. partial_grads[c] \cup {part[c]} = 1 .. part[c]  BY <2>1
  <2>3. part[c] # LastPart  BY <1>5, <2>2 DEF LastPart, Parts
  <2>4. Submitted' = Submitted  BY <1>5 DEF Submitted
  <2>5. /\ \A d \in Clients : d # c => call'[d] = call[d]
        /\ call'[c] = "handled"
    BY <1>5 DEF TypeOK
  <2>6. CallInv' /\ MainInv'
    BY <1>1, <2>3, <2>4, <2>5 DEF CallInv, MainInv, ReachInv
  <2>7. PassedInv' /\ StartedInv'  BY <1>1, <1>5 DEF PassedInv, StartedInv, ReachInv
  <2> QED  BY <2>6, <2>7 DEF ReachInv
<1> QED  BY <1>4, <1>5 DEF ReceiveGrad, ReceiveSplitGrad

\* The sum, or a part of it, comes to a client: nobody loses what he has.
LEMMA GivenReaches ==
  ASSUME IInv, ReachInv, NEW c \in Clients,
         ReceiveAggregate(c) \/ ReceiveSplitAggregate(c)
  PROVE  ReachInv'
<1>1. /\ UNCHANGED <<split, found, agg, pc, part, call, gradients_list, target>>
      /\ \A d \in Clients : aggregate[d] => aggregate'[d]
  BY DEF ReceiveAggregate, ReceiveSplitAggregate, input, IInv, TypeOK
<1>2. Submitted' = Submitted /\ LastPart' = LastPart
  BY <1>1 DEF Submitted, LastPart
<1> QED
  BY <1>1, <1>2 DEF ReachInv, PassedInv, CallInv, MainInv, StartedInv

\* A step of the broadcast, or the end of the aggregator.
LEMMA BroadcastReaches ==
  ASSUME IInv, ReachInv, AggregatorStep \/ CrashAggregator
  PROVE  ReachInv'
<1> USE ConstantFacts, LastPartType DEF IInv
<1>1. /\ UNCHANGED <<split, found, pc, part, aggregate, gradients_list>>
      /\ agg' = "up" => agg = "up"
  BY DEF AggregatorStep, CrashAggregator, SendAggregate, BroadcastReturns,
         BroadcastFails, BroadcastEnds, StopServer, input, clientVars
<1>2. Submitted' = Submitted /\ LastPart' = LastPart
  BY <1>1 DEF Submitted, LastPart
<1>3. CallInv' /\ MainInv'
  <2>1. CASE BroadcastEnds
    <3>1. lock \in Clients /\ lock \in Submitted  BY <2>1 DEF BroadcastEnds, LockInv, TypeOK
    <3>2. call'[lock] = "handled" /\ \A d \in Clients : d # lock => call'[d] = call[d]
      BY <2>1, <3>1 DEF BroadcastEnds, TypeOK
    <3> QED  BY <1>1, <1>2, <3>1, <3>2 DEF CallInv, MainInv, ReachInv
  <2>2. CASE call' = call
    BY <1>1, <1>2, <2>2 DEF CallInv, MainInv, ReachInv
  <2> QED
    BY <2>1, <2>2 DEF AggregatorStep, CrashAggregator, SendAggregate, BroadcastReturns,
         BroadcastFails, StopServer, clientVars
<1>4. PassedInv' /\ StartedInv'
  <2>1. CASE target' = target
    BY <1>1, <2>1 DEF PassedInv, StartedInv, ReachInv
  <2>2. CASE /\ target \in Clients /\ target' = target + 1
             /\ aggregate[target] \/ pc[target] = "crashed"
    BY <1>1, <2>2 DEF PassedInv, StartedInv, ReachInv
  <2>3. CASE BroadcastReturns /\ target' # target
    <3>1. target \in Clients /\ bcall = "handled" /\ sending \in Nat /\ sending <= LastPart
      BY <2>3 DEF BroadcastReturns, LockInv, TypeOK, Parts
    <3>2. target' = target + 1 /\ ~(sending < LastPart)
      BY <2>3 DEF BroadcastReturns, NextTarget
    <3>3. aggregate[target]  BY <3>1, <3>2 DEF GivenInv
    <3> QED  BY <2>2, <3>1, <3>2, <3>3
  <2>4. CASE BroadcastFails
    <3>1. target \in Clients /\ target' = target + 1 /\ ~Running(target)
      BY <2>4 DEF BroadcastFails, NextTarget, LockInv
    <3>2. aggregate[target] \/ pc[target] = "crashed"
      BY <3>1 DEF Running, ReachInv, MainInv
    <3> QED  BY <2>2, <3>1, <3>2
  <2> QED
    BY <2>1, <2>3, <2>4 DEF AggregatorStep, CrashAggregator, SendAggregate,
         BroadcastEnds, StopServer
<1> QED  BY <1>3, <1>4 DEF ReachInv

\* Every execution has it.
LEMMA Reached == Spec => [](IInv /\ ReachInv)
<1>1. Init => ReachInv
  <2> SUFFICES ASSUME Init PROVE ReachInv
    OBVIOUS
  <2>1. PassedInv  BY ConstantFacts DEF Init, PassedInv, NoOne
  <2>2. CallInv /\ MainInv  BY DEF Init, CallInv, MainInv
  <2>3. StartedInv
    <3>1. Len(gradients_list) = 0  BY DEF Init
    <3> QED  BY <3>1, ConstantFacts DEF StartedInv
  <2> QED  BY <2>1, <2>2, <2>3 DEF ReachInv
<1>2. IInv /\ ReachInv /\ [Next]_vars => ReachInv'
  <2> SUFFICES ASSUME IInv, ReachInv, [Next]_vars PROVE ReachInv'
    OBVIOUS
  <2>1. ASSUME UNCHANGED vars PROVE ReachInv'
    BY <2>1 DEF ReachInv, PassedInv, CallInv, MainInv, StartedInv, Submitted, LastPart,
                vars, input, clientVars, aggVars
  <2> QED
    BY <2>1, MainReaches, TakenInReaches, GivenReaches, BroadcastReaches
       DEF Next, ClientStep
<1> QED
  BY <1>1, <1>2, Invariant, PTL DEF Spec

(* A client polls for the sum only while there is something it will come of, *)
(* for any number of clients and parts and whatever crashes: if nobody has   *)
(* anything left to send, everyone is in the list, so the broadcast was      *)
(* begun, and it passed by nobody but those that crashed (client.py, run;    *)
(* aggregator.py, aggregate_and_broadcast).                                  *)
THEOREM WaitingIsNotInVain == Spec => []NobodyPollsInVain
<1>1. ASSUME IInv, ReachInv PROVE NobodyPollsInVain
  <2> SUFFICES ASSUME found, agg = "up", lock = NoOne,
                      NEW p \in Clients, pc[p] = "poll", ~aggregate[p],
                      \A c \in Clients :
                        /\ pc[c] # "send"
                        /\ ~(pc[c] = "call" /\ call[c] \in {"sent", "handled"})
                        /\ ~(pc[c] = "crashed" /\ c \notin Submitted)
               PROVE  FALSE
    BY DEF NobodyPollsInVain
  <2>1. ASSUME NEW c \in Clients, c \notin Submitted PROVE FALSE
    <3>1. /\ pc[c] \in {"send", "call", "poll", "closed", "dead", "crashed"}
          /\ call[c] \in {"none", "sent", "handled", "failed"}
      BY <1>1 DEF IInv, TypeOK
    <3>2. ~aggregate[c]  BY <1>1, <2>1, BeforeBroadcast
    <3> QED  BY <1>1, <2>1, <3>1, <3>2 DEF ReachInv, MainInv, CallInv
  <2>2. Len(gradients_list) = N
    <3>1. TypeOK /\ ListInv  BY <1>1 DEF IInv
    <3>2. \A c \in Clients : c \in Submitted  BY <2>1
    <3> QED  BY <3>1, <3>2, FullByCount
  <2>3. target = N + 1
    BY <1>1, <2>2 DEF IInv, LockInv, ReachInv, StartedInv
  <2>4. p < target  BY <2>3, ConstantFacts
  <2> QED  BY <1>1, <2>4 DEF ReachInv, PassedInv
<1> QED
  BY <1>1, Reached, PTL
=============================================================================
