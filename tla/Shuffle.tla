------------------------------ MODULE Shuffle -------------------------------
(***************************************************************************)
(* The group based mask shuffling of client.py: every client but one, the  *)
(* total sum holder, passes its encrypted mask seed down its group; the    *)
(* leader of the group multiplies the Paillier ciphertexts it ends up with *)
(* and sends the product to the holder, whose own seed becomes minus the   *)
(* sum of all the others.                                                  *)
(*                                                                         *)
(* A client is named by its place: <<g, i>> is the i-th client of the      *)
(* group g, and <<0, 0>> is the holder.  Which client_id has which place   *)
(* is the setup node's random choice (module Setup) and nothing here       *)
(* depends on it.  A seed is named by its owner.  A ciphertext is the      *)
(* owner of the seed in it, the stack of ECIES keys around it (Message.R,  *)
(* the last one outermost) and whether the text under them is intact; a    *)
(* Paillier product is the sequence of its factors.                        *)
(*                                                                         *)
(* Every process runs three threads of control that interleave: main       *)
(* (run), the zerorpc server (start_server, receive_message), and the      *)
(* network, which holds a call until the server of its target is bound.    *)
(***************************************************************************)
EXTENDS Integers, Sequences, FiniteSets, Functions, Grouping

CONSTANTS N,          \* how many clients the setup node generated
          GroupFlags, \* the values group_flag may have (algorithm 1: TRUE)
          LateServers, \* the places whose server may be bound late: the others'
                       \* is from the start (a bound on the interleavings)
          MaxFaults   \* bound on crashes and on premature timeouts

ASSUME NAssumption == N \in Nat /\ Groupable(N)
ASSUME BoundsAssumption == MaxFaults \in Nat /\ GroupFlags \subseteq BOOLEAN

Groups  == 1 .. NumGroups(N)
Size(g) == GroupSize(N, g)

Members == {m \in Groups \X (1 .. N) : m[2] <= Size(m[1])}
Holder  == <<0, 0>>
Clients == Members \cup {Holder}

\* Mutant of IsFirst: the exception of the first member made for the second too.
FirstTwo(m) == m[2] <= 2

IsFirst(m)  == m[2] = 1
IsLeader(m) == m[2] = Size(m[1])

\* Whom a member sends to: the next of its group, or the holder.
Target(m) == IF IsLeader(m) THEN Holder ELSE <<m[1], m[2] + 1>>

VARIABLES
  pc,               \* where main is: "setup" (before group_shuffle), "wait"
                    \* (polling), "send" (in the call), "done" (shuffle over),
                    \* "dead" (main raised), "crashed" (the process is gone)
  bound,            \* is the client's server bound and running
  total_sum_holder, \* the flag of that name, in the holder's process
  group_flag,       \* the flag of that name, the same for all clients
  seed_vector, group_sum_seed, sum_seed,
  holder_seed,      \* the factors of the product the holder decrypted
  message,          \* what a member sent: the pickled argument of its call
  call,             \* that call: "none", "sent" or "handled"
  faults            \* crashes and premature timeouts so far

vars == <<pc, bound, total_sum_holder, group_flag, seed_vector, group_sum_seed,
          sum_seed, holder_seed, message, call, faults>>

Ciphertext == [owner : Members, layers : Seq(Members), intact : BOOLEAN]

PC == {"setup", "wait", "send", "done", "dead", "crashed"}

Running(c) == pc[c] # "crashed"

-----------------------------------------------------------------------------
\* Mutant of LayersFrom: the slice group_info[current_index + 1:] off by one.
LayersOffByOne(m) ==
  [j \in 1 .. Size(m[1]) - m[2] |-> <<m[1], Size(m[1]) + 2 - j>>]

\* The keys layer_encrypt puts around a ciphertext of m: those of the members
\* after m, the leader's first, so that the next member's is on top.
LayersFrom(m) ==
  [j \in 1 .. Size(m[1]) - m[2] |-> <<m[1], Size(m[1]) + 1 - j>>]

PaillierEncrypt(m) == [owner |-> m, layers |-> << >>, intact |-> TRUE]

\* Mutant of LayerEncrypt: without reversed.
LayerEncryptForward(m) ==
  [owner  |-> m,
   layers |-> [j \in 1 .. Size(m[1]) - m[2] |-> <<m[1], m[2] + j>>],
   intact |-> TRUE]

LayerEncrypt(m) == [owner |-> m, layers |-> LayersFrom(m), intact |-> TRUE]

\* Message.decrypt: pops the last R; the text survives only if it was m's.
Decrypt(m, x) ==
  [owner  |-> x.owner,
   layers |-> SubSeq(x.layers, 1, Len(x.layers) - 1),
   intact |-> /\ x.intact
              /\ x.layers # << >>
              /\ x.layers[Len(x.layers)] = m]

DecryptAll(m, v) == [k \in DOMAIN v |-> Decrypt(m, v[k])]

\* random.shuffle: every order of the list is possible.
Shuffled(v) ==
  {[k \in DOMAIN v |-> v[f[k]]] : f \in Bijection(DOMAIN v, DOMAIN v)}

-----------------------------------------------------------------------------
Init ==
  /\ pc = [c \in Clients |-> "setup"]
  /\ bound = [c \in Clients |-> c \notin LateServers]
  /\ total_sum_holder = FALSE
  /\ group_flag \in GroupFlags
  /\ seed_vector = [c \in Clients |-> << >>]
  /\ group_sum_seed = << >>
  /\ sum_seed = << >>
  /\ holder_seed = << >>
  /\ message = [m \in Members |-> << >>]
  /\ call = [m \in Members |-> "none"]
  /\ faults = 0

\* The listening thread binds; run only starts that thread and goes on.
StartServer(c) ==
  /\ Running(c) /\ ~bound[c]
  /\ bound' = [bound EXCEPT ![c] = TRUE]
  /\ UNCHANGED <<pc, total_sum_holder, group_flag, seed_vector, group_sum_seed,
                 sum_seed, holder_seed, message, call, faults>>

\* gen_grad is over; group_shuffle finds out which role the client has.
DecideRole(c) ==
  /\ pc[c] = "setup"
  /\ pc' = [pc EXCEPT ![c] = "wait"]
  /\ total_sum_holder' = (total_sum_holder \/ c = Holder)
  /\ UNCHANGED <<bound, group_flag, seed_vector, group_sum_seed, sum_seed,
                 holder_seed, message, call, faults>>

Send(m, v) ==
  /\ pc' = [pc EXCEPT ![m] = "send"]
  /\ message' = [message EXCEPT ![m] = v]
  /\ call' = [call EXCEPT ![m] = "sent"]
  /\ UNCHANGED <<bound, total_sum_holder, group_flag, group_sum_seed, sum_seed,
                 holder_seed, faults>>

\* Mutant of Ready: the first member waits for a vector like the others.
ReadyWhenSent(m) == seed_vector[m] # << >>

\* The end of polling.  The first member does not wait.
Ready(m) == IsFirst(m) \/ seed_vector[m] # << >>

\* A member that is not the leader peels what it was sent, adds its own
\* ciphertext, shuffles, and calls the next one.
ForwardVector(m) ==
  /\ pc[m] = "wait" /\ ~IsLeader(m) /\ Ready(m)
  /\ \E v \in Shuffled(Append(DecryptAll(m, seed_vector[m]), LayerEncrypt(m))) :
       /\ seed_vector' = [seed_vector EXCEPT ![m] = v]
       /\ Send(m, v)

\* Mutant of SendGroupSum: the leader does not wait for the vector.
SendSumAtOnce(m) ==
  /\ pc[m] = "wait" /\ IsLeader(m)
  /\ LET v == DecryptAll(m, seed_vector[m])
     IN  /\ seed_vector' = [seed_vector EXCEPT ![m] = v]
         /\ Send(m, <<PaillierEncrypt(m)>> \o v)

\* The leader peels the last layer and multiplies.
SendGroupSum(m) ==
  /\ pc[m] = "wait" /\ IsLeader(m)
  /\ seed_vector[m] # << >>
  /\ LET v == DecryptAll(m, seed_vector[m])
     IN  /\ seed_vector' = [seed_vector EXCEPT ![m] = v]
         /\ Send(m, <<PaillierEncrypt(m)>> \o v)

\* receive_message runs in the target's server thread, under its lock, whatever
\* the target's main is doing.
Deliverable(m) == call[m] = "sent" /\ Running(Target(m)) /\ bound[Target(m)]

StoreVector(m) ==
  /\ Deliverable(m)
  /\ Target(m) = Holder => ~total_sum_holder
  /\ seed_vector' = [seed_vector EXCEPT ![Target(m)] = message[m]]
  /\ call' = [call EXCEPT ![m] = "handled"]
  /\ UNCHANGED <<pc, bound, total_sum_holder, group_flag, group_sum_seed,
                 sum_seed, holder_seed, message, faults>>

CollectGroupSum(m) ==
  /\ Deliverable(m) /\ Target(m) = Holder
  /\ total_sum_holder /\ group_flag
  /\ group_sum_seed' = Append(group_sum_seed, message[m])
  /\ call' = [call EXCEPT ![m] = "handled"]
  /\ UNCHANGED <<pc, bound, total_sum_holder, group_flag, seed_vector,
                 sum_seed, holder_seed, message, faults>>

CollectSum(m) ==
  /\ Deliverable(m) /\ Target(m) = Holder
  /\ total_sum_holder /\ ~group_flag
  /\ sum_seed' = message[m]
  /\ call' = [call EXCEPT ![m] = "handled"]
  /\ UNCHANGED <<pc, bound, total_sum_holder, group_flag, seed_vector,
                 group_sum_seed, holder_seed, message, faults>>

ReceiveMessage(m) == StoreVector(m) \/ CollectGroupSum(m) \/ CollectSum(m)

SendReturns(m) ==
  /\ pc[m] = "send" /\ call[m] = "handled"
  /\ pc' = [pc EXCEPT ![m] = "done"]
  /\ UNCHANGED <<bound, total_sum_holder, group_flag, seed_vector,
                 group_sum_seed, sum_seed, holder_seed, message, call, faults>>

\* Mutants of Collected: one group less, and one too many.
CollectedEarly == Len(group_sum_seed) >= NumGroups(N) - 1
CollectedMore  == Len(group_sum_seed) > NumGroups(N)

\* The holder has as many sums as it expects groups.
Collected == Len(group_sum_seed) >= NumGroups(N)

\* It multiplies them all.
SumGroups ==
  /\ pc[Holder] = "wait" /\ Collected
  /\ holder_seed' = group_sum_seed
  /\ pc' = [pc EXCEPT ![Holder] = "done"]
  /\ UNCHANGED <<bound, total_sum_holder, group_flag, seed_vector,
                 group_sum_seed, sum_seed, message, call, faults>>

\* No answer in 4000 seconds: the call raises and nothing catches it.  The
\* target is gone, or has not bound yet; a late target still gets the message,
\* which stays queued in the socket.
Fails(m) == pc' = [pc EXCEPT ![m] = "dead"]

TimeoutCrashed(m) ==
  /\ pc[m] = "send" /\ ~Running(Target(m))
  /\ Fails(m)
  /\ UNCHANGED <<bound, total_sum_holder, group_flag, seed_vector,
                 group_sum_seed, sum_seed, holder_seed, message, call, faults>>

TimeoutLate(m) ==
  /\ pc[m] = "send" /\ Running(Target(m)) /\ ~bound[Target(m)]
  /\ faults < MaxFaults
  /\ Fails(m)
  /\ faults' = faults + 1
  /\ UNCHANGED <<bound, total_sum_holder, group_flag, seed_vector,
                 group_sum_seed, sum_seed, holder_seed, message, call>>

Crash(c) ==
  /\ Running(c)
  /\ faults < MaxFaults
  /\ faults' = faults + 1
  /\ pc' = [pc EXCEPT ![c] = "crashed"]
  /\ UNCHANGED <<bound, total_sum_holder, group_flag, seed_vector,
                 group_sum_seed, sum_seed, holder_seed, message, call>>

Next ==
  \/ \E c \in Clients : StartServer(c) \/ DecideRole(c) \/ Crash(c)
  \/ \E m \in Members :
       \/ ForwardVector(m) \/ SendGroupSum(m) \/ ReceiveMessage(m)
       \/ SendReturns(m) \/ TimeoutCrashed(m) \/ TimeoutLate(m)
  \/ SumGroups

\* A thread that can go on does, and a message whose sender is still there is
\* delivered.  Nothing makes a process crash or a timeout come early.
Fairness ==
  /\ \A c \in Clients : WF_vars(StartServer(c)) /\ WF_vars(DecideRole(c))
  /\ \A m \in Members :
       /\ WF_vars(ForwardVector(m)) /\ WF_vars(SendGroupSum(m))
       /\ WF_vars(Running(m) /\ ReceiveMessage(m))
       /\ WF_vars(SendReturns(m)) /\ WF_vars(TimeoutCrashed(m))
  /\ WF_vars(SumGroups)

Spec == Init /\ [][Next]_vars /\ Fairness

-----------------------------------------------------------------------------
TypeOK ==
  /\ pc \in [Clients -> PC]
  /\ bound \in [Clients -> BOOLEAN]
  /\ total_sum_holder \in BOOLEAN
  /\ group_flag \in BOOLEAN
  /\ seed_vector \in [Clients -> Seq(Ciphertext)]
  /\ group_sum_seed \in Seq(Seq(Ciphertext))
  /\ sum_seed \in Seq(Ciphertext)
  /\ holder_seed \in Seq(Seq(Ciphertext))
  /\ message \in [Members -> Seq(Ciphertext)]
  /\ call \in [Members -> {"none", "sent", "handled"}]
  /\ faults \in 0 .. MaxFaults

-----------------------------------------------------------------------------
(* What a mask seed is counted for: the factors of a list of products that   *)
(* are m's seed with no layer left on it.                                    *)
SeedFactors(products, m) ==
  {at \in (DOMAIN products) \X (1 .. N) :
     /\ at[2] \in DOMAIN products[at[1]]
     /\ products[at[1]][at[2]] = PaillierEncrypt(m)}

(* Once the holder has its seed, the seed of every other client is in it     *)
(* exactly once, in the clear under the Paillier layer: what makes the sum   *)
(* of all the masks zero (client.py, group_shuffle, leader and holder).      *)
MaskSumZero ==
  pc[Holder] = "done" =>
    \A m \in Members : Cardinality(SeedFactors(holder_seed, m)) = 1

(* Every ciphertext a member sends is encrypted for exactly the members      *)
(* after it, the next one's layer on top, whoever added it and in whatever   *)
(* order the vector was shuffled: each decrypt takes off the layer of the    *)
(* client that runs it (layer_encrypt against the decrypt loops).            *)
OnionPeeled ==
  \A m \in Members : \A k \in DOMAIN message[m] :
    message[m][k].intact /\ message[m][k].layers = LayersFrom(m)

(* The holder, who owns the Paillier key, never gets less than the product   *)
(* of three clients' seeds, wherever receive_message puts it: no single seed *)
(* can be read.                                                              *)
GroupSumHides ==
  LET Hides(v) == v # << >> => Cardinality({v[k].owner : k \in DOMAIN v}) >= 3
  IN  /\ Hides(seed_vector[Holder])
      /\ Hides(sum_seed)
      /\ \A i \in DOMAIN group_sum_seed : Hides(group_sum_seed[i])

(* A vector that waits in a member's seed_vector is not replaced before the  *)
(* member used it: the server thread writes the list main polls and mutates. *)
VectorNotOverwritten ==
  [][\A m \in Members :
       seed_vector[m] # << >> /\ pc'[m] = pc[m] =>
         seed_vector'[m] = seed_vector[m]]_vars

(* No group is stuck: until its sum is with the holder a member of it has    *)
(* failed, is in its gradients or in a call, or polls for a vector it has.   *)
(* What a call delivered is never lost to the one that polls for it, whoever *)
(* starts, binds, times out or crashes when (client.py, group_shuffle).      *)
GroupGoesOn ==
  \A g \in Groups : \E m \in Members :
    /\ m[1] = g
    /\ \/ IsLeader(m) /\ call[m] = "handled"
       \/ pc[m] \in {"setup", "send", "dead", "crashed"}
       \/ pc[m] = "wait" /\ Ready(m)

(* When all leaders' calls have been handled the holder does not wait for    *)
(* sums any more: none was lost or replaced, but for one that came before it *)
(* knew its role (receive_message against the polling of the holder).        *)
HolderGoesOn ==
  group_flag /\ (\A m \in Members : IsLeader(m) => call[m] = "handled") =>
    Collected \/ seed_vector[Holder] # << >>

(* The group based shuffle comes to its end in every client when nothing     *)
(* fails, unless a sum reached the holder before it knew its role: then      *)
(* receive_message has put it in seed_vector.                                *)
ShuffleCompletes ==
  group_flag /\ MaxFaults = 0 =>
    <>((\A c \in Clients : pc[c] = "done") \/ seed_vector[Holder] # << >>)

(* Groups fail on their own: a group none of whose members ever fails gets   *)
(* its sum to the holder, whatever became of the other groups, unless the    *)
(* holder is gone.                                                           *)
IntactGroupDelivers ==
  \A m \in Members :
    IsLeader(m) =>
      <>(\/ call[m] = "handled"
         \/ ~Running(Holder)
         \/ \E w \in Members : w[1] = m[1] /\ pc[w] \in {"dead", "crashed"})

(* README.md:7 says of the mask shuffling that it is there "to ensure that   *)
(* the sum of all masks equals 0": with every process up and running and no  *)
(* call timing out, the holder gets the seed that makes it so.               *)
MaskSumReached == <>(pc[Holder] = "done")

(* README.md:8: "the group-based scheme enables the framework to tolerate    *)
(* client dropouts": while some group has no failure in it, the holder gets  *)
(* a seed in the end, whoever dropped out of another group (the sum that     *)
(* came too early aside, which is MaskSumReached's).                         *)
DropoutTolerated ==
  <>(\/ pc[Holder] \in {"done", "crashed"} \/ seed_vector[Holder] # << >>
     \/ \A g \in Groups : \E m \in Members : m[1] = g /\ pc[m] \in {"dead", "crashed"})

-----------------------------------------------------------------------------
(* The inductive invariant behind OnionPeeled, MaskSumZero and GroupSumHides *)

Prev(m)   == <<m[1], m[2] - 1>>
Leader(g) == <<g, Size(g)>>

\* What m sends: one ciphertext of each member up to m and of nobody else,
\* each with the layers of the members after m.
VectorOf(m, v) ==
  /\ Len(v) = m[2]
  /\ \A k \in DOMAIN v :
       /\ v[k].owner[1] = m[1] /\ v[k].owner[2] <= m[2]
       /\ v[k].layers = LayersFrom(m) /\ v[k].intact
  /\ \A j, k \in DOMAIN v : v[j].owner = v[k].owner => j = k
  /\ \A w \in Members :
       w[1] = m[1] /\ w[2] <= m[2] => \E k \in DOMAIN v : v[k].owner = w

CallInv ==
  \A m \in Members :
    /\ pc[m] \in {"setup", "wait"} => call[m] = "none"
    /\ call[m] = "none" => message[m] = << >>
    /\ call[m] # "none" => VectorOf(m, message[m])

\* A member that still polls has been sent nothing or its predecessor's vector.
SeedVectorInv ==
  \A m \in Members :
    pc[m] \in {"setup", "wait"} /\ seed_vector[m] # << >> =>
      ~IsFirst(m) /\ VectorOf(Prev(m), seed_vector[m])

\* Until a member's call is handled, the next one has been sent nothing.
NotYetSent ==
  \A m \in Members :
    ~IsLeader(m) /\ call[m] # "handled" => seed_vector[Target(m)] = << >>

\* The group a sum is of: all its factors are its members'.
SumGroup(v) == v[1].owner[1]

SumsInv(s) ==
  /\ \A i \in DOMAIN s :
       /\ SumGroup(s[i]) \in Groups
       /\ VectorOf(Leader(SumGroup(s[i])), s[i])
       /\ call[Leader(SumGroup(s[i]))] = "handled"
  /\ \A i, j \in DOMAIN s : SumGroup(s[i]) = SumGroup(s[j]) => i = j

HolderInv ==
  /\ \A v \in {seed_vector[Holder], sum_seed} :
       v # << >> => \E g \in Groups : VectorOf(Leader(g), v)
  /\ SumsInv(group_sum_seed)
  /\ SumsInv(holder_seed)
  /\ pc[Holder] = "done" => Len(holder_seed) >= NumGroups(N)

IInv == TypeOK /\ CallInv /\ SeedVectorInv /\ NotYetSent /\ HolderInv
=============================================================================
