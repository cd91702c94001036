---------------------------- MODULE Aggregation -----------------------------
(***************************************************************************)
(* The aggregation round: run of client.py from the masked gradient on and *)
(* aggregator.py.  Clients send their masked gradient, whole or in parts;  *)
(* the handler that takes the last one in adds them up and, still inside   *)
(* that call and under the lock, calls every client back with the sum.  A  *)
(* client that has the sum kills itself; the aggregator does when it has   *)
(* counted an answer from everyone.                                        *)
(*                                                                         *)
(* A gradient is named by its client; the sum is how often each client's   *)
(* gradient is counted in it (the masks are module Shuffle's concern).  A  *)
(* call is "sent" until its handler has run, then "handled" until its      *)
(* answer is back.  A process that is killed may take an answer with it    *)
(* that was not on the wire; the other side then waits for 4000 seconds.   *)
(***************************************************************************)
EXTENDS Integers, Sequences, FiniteSets

CONSTANTS N,        \* how many clients get_client_ip told the aggregator of
          Splits,   \* whether the vector may be short (FALSE), long (TRUE)
          Founds,   \* whether look_up may find the whole sum, or not
          NumParts, \* num_parts of a long one
          MaxFaults \* bound on crashes

ASSUME NAssumption == N \in Nat \ {0}
ASSUME BoundsAssumption ==
  /\ NumParts \in Nat \ {0} /\ MaxFaults \in Nat
  /\ Splits \subseteq BOOLEAN /\ Founds \subseteq BOOLEAN

Clients == 1 .. N
NoOne   == 0
NoSum   == << >>
Parts   == 1 .. NumParts

VARIABLES
  split,        \* len(masked_grad) > 1000000, the same for all
  found,        \* is every element of the sum among the precomputed powers
  pc,           \* a client's main: "send", "call", "poll" (while not
                \* aggregate), "closed" (SIGTERM), "dead" (main raised),
                \* "crashed"
  part,         \* which part it is sending
  call,         \* its call to the aggregator: "none", "sent", "handled" or
                \* "failed" (the handler raised)
  has_buffer,   \* does self.partial_grads exist in the client
  received,     \* the parts in it
  aggregate,    \* the flag of that name
  grad,         \* the aggregated gradient it was given
  agg,          \* the aggregator: "up", "stopped" (SIGTERM) or "crashed"
  gradients_list, partial_grads,
  lock,         \* in whose call the aggregator broadcasts
  sum_gradient,
  target,       \* the loop variable of the broadcast
  sending,      \* the part of the sum on its way
  bcall,        \* the aggregator's call to its target
  sended_num,
  faults

input      == <<split, found>>
clientVars == <<pc, part, call, has_buffer, received, aggregate, grad>>
aggVars    == <<agg, gradients_list, partial_grads, lock, sum_gradient, target,
                sending, bcall, sended_num>>
vars       == <<input, clientVars, aggVars, faults>>

Running(c) == pc[c] \notin {"closed", "crashed"}

\* aggregate_gard over the list: how often it counts each client.
Sum(list) == [c \in Clients |-> Cardinality({i \in DOMAIN list : list[i] = c})]

LastPart == IF split THEN NumParts ELSE 1

Init ==
  /\ split \in Splits
  /\ found \in Founds
  /\ pc = [c \in Clients |-> "send"]
  /\ part = [c \in Clients |-> 1]
  /\ call = [c \in Clients |-> "none"]
  /\ has_buffer = [c \in Clients |-> FALSE]
  /\ received = [c \in Clients |-> {}]
  /\ aggregate = [c \in Clients |-> FALSE]
  /\ grad = [c \in Clients |-> NoSum]
  /\ agg = "up"
  /\ gradients_list = << >>
  /\ partial_grads = [c \in Clients |-> {}]
  /\ lock = NoOne
  /\ sum_gradient = NoSum
  /\ target = NoOne
  /\ sending = 1
  /\ bcall = "none"
  /\ sended_num = 0
  /\ faults = 0

-----------------------------------------------------------------------------
(* The clients send.                                                         *)

\* Mutant of SendGrad: no buffer is made for the answer.
SendGradNoBuffer(c) ==
  /\ pc[c] = "send"
  /\ pc' = [pc EXCEPT ![c] = "call"]
  /\ call' = [call EXCEPT ![c] = "sent"]
  /\ UNCHANGED <<input, part, has_buffer, received, aggregate, grad, aggVars, faults>>

\* send_grad, or one round of the loop of send_split_grad, which makes the
\* buffer for the answer before it sends the first part.
SendGrad(c) ==
  /\ pc[c] = "send"
  /\ pc' = [pc EXCEPT ![c] = "call"]
  /\ call' = [call EXCEPT ![c] = "sent"]
  /\ IF split /\ part[c] = 1
     THEN /\ has_buffer' = [has_buffer EXCEPT ![c] = TRUE]
          /\ received' = [received EXCEPT ![c] = {}]
     ELSE UNCHANGED <<has_buffer, received>>
  /\ UNCHANGED <<input, part, aggregate, grad, aggVars, faults>>

\* Mutant of TakeIn: the broadcast starts one gradient early.
TakeInEarly(c) ==
  /\ gradients_list' = Append(gradients_list, c)
  /\ \/ /\ Len(gradients_list') # N - 1
        /\ call' = [call EXCEPT ![c] = "handled"]
        /\ UNCHANGED <<lock, sum_gradient, target>>
     \/ /\ Len(gradients_list') = N - 1
        /\ lock' = c
        /\ sum_gradient' = Sum(gradients_list')
        /\ target' = 1
        /\ UNCHANGED call

\* A gradient is complete: it joins the list, and the last one has the handler
\* start the broadcast instead of answering, or fail if look_up raises.
TakeIn(c) ==
  /\ gradients_list' = Append(gradients_list, c)
  /\ \/ /\ Len(gradients_list') # N
        /\ call' = [call EXCEPT ![c] = "handled"]
        /\ UNCHANGED <<lock, sum_gradient, target>>
     \/ /\ Len(gradients_list') = N /\ found
        /\ lock' = c
        /\ sum_gradient' = Sum(gradients_list')
        /\ target' = 1
        /\ UNCHANGED call
     \/ /\ Len(gradients_list') = N /\ ~found
        /\ call' = [call EXCEPT ![c] = "failed"]
        /\ UNCHANGED <<lock, sum_gradient, target>>

\* The handlers take the lock, which a broadcasting handler holds.
Handles(c) == agg = "up" /\ lock = NoOne /\ call[c] = "sent"

ReceiveGrad(c) ==
  /\ ~split /\ Handles(c)
  /\ TakeIn(c)
  /\ UNCHANGED <<input, pc, part, has_buffer, received, aggregate, grad, agg,
                 partial_grads, sending, bcall, sended_num, faults>>

\* Mutant of ReceiveSplitGrad: each part is taken for a complete gradient.
ReceivePartAsWhole(c) ==
  /\ split /\ Handles(c)
  /\ TakeIn(c)
  /\ UNCHANGED <<input, pc, part, has_buffer, received, aggregate, grad, agg,
                 partial_grads, sending, bcall, sended_num, faults>>

ReceiveSplitGrad(c) ==
  /\ split /\ Handles(c)
  /\ LET parts == partial_grads[c] \cup {part[c]}
     IN  IF parts = Parts
         THEN /\ partial_grads' = [partial_grads EXCEPT ![c] = {}]
              /\ TakeIn(c)
         ELSE /\ partial_grads' = [partial_grads EXCEPT ![c] = parts]
              /\ call' = [call EXCEPT ![c] = "handled"]
              /\ UNCHANGED <<gradients_list, lock, sum_gradient, target>>
  /\ UNCHANGED <<input, pc, part, has_buffer, received, aggregate, grad, agg,
                 sending, bcall, sended_num, faults>>

\* Mutant of SendReturns: the loop over the parts runs once more.
SendReturnsOneMore(c) ==
  /\ pc[c] = "call" /\ call[c] = "handled"
  /\ call' = [call EXCEPT ![c] = "none"]
  /\ IF part[c] <= LastPart
     THEN /\ part' = [part EXCEPT ![c] = part[c] + 1]
          /\ pc' = [pc EXCEPT ![c] = "send"]
     ELSE /\ pc' = [pc EXCEPT ![c] = "poll"]
          /\ UNCHANGED part
  /\ UNCHANGED <<input, has_buffer, received, aggregate, grad, aggVars, faults>>

\* "grad received" is back: the next part, or wait for the sum.
SendReturns(c) ==
  /\ pc[c] = "call" /\ call[c] = "handled"
  /\ call' = [call EXCEPT ![c] = "none"]
  /\ IF part[c] < LastPart
     THEN /\ part' = [part EXCEPT ![c] = part[c] + 1]
          /\ pc' = [pc EXCEPT ![c] = "send"]
     ELSE /\ pc' = [pc EXCEPT ![c] = "poll"]
          /\ UNCHANGED part
  /\ UNCHANGED <<input, has_buffer, received, aggregate, grad, aggVars, faults>>

\* The handler raised, and so does the call in the client's main.
CallFails(c) ==
  /\ pc[c] = "call" /\ call[c] = "failed"
  /\ pc' = [pc EXCEPT ![c] = "dead"]
  /\ UNCHANGED <<input, part, call, has_buffer, received, aggregate, grad,
                 aggVars, faults>>

\* No answer: the aggregator is gone, or its broadcast waits, inside this call,
\* for a client that is.  The exception ends main; the server goes on.
CallTimesOut(c) ==
  /\ pc[c] = "call"
  /\ agg # "up" \/ (lock = c /\ target \in Clients /\ ~Running(target))
  /\ pc' = [pc EXCEPT ![c] = "dead"]
  /\ UNCHANGED <<input, part, call, has_buffer, received, aggregate, grad,
                 aggVars, faults>>

-----------------------------------------------------------------------------
(* The aggregator broadcasts.                                                *)

SendAggregate ==
  /\ agg = "up" /\ lock # NoOne /\ target \in Clients
  /\ bcall = "none"
  /\ bcall' = "sent"
  /\ UNCHANGED <<input, clientVars, agg, gradients_list, partial_grads, lock,
                 sum_gradient, target, sending, sended_num, faults>>

ReceiveAggregate(c) ==
  /\ bcall = "sent" /\ target = c /\ Running(c)
  /\ ~split
  /\ grad' = [grad EXCEPT ![c] = sum_gradient]
  /\ aggregate' = [aggregate EXCEPT ![c] = TRUE]
  /\ bcall' = "handled"
  /\ UNCHANGED <<input, pc, part, call, has_buffer, received, agg,
                 gradients_list, partial_grads, lock, sum_gradient, target,
                 sending, sended_num, faults>>

\* The last part completes the gradient and deletes the buffer.
ReceiveSplitAggregate(c) ==
  /\ bcall = "sent" /\ target = c /\ Running(c)
  /\ split /\ has_buffer[c]
  /\ received' = [received EXCEPT ![c] = received[c] \cup {sending}]
  /\ IF received'[c] = Parts
     THEN /\ grad' = [grad EXCEPT ![c] = sum_gradient]
          /\ has_buffer' = [has_buffer EXCEPT ![c] = FALSE]
          /\ aggregate' = [aggregate EXCEPT ![c] = TRUE]
     ELSE UNCHANGED <<grad, has_buffer, aggregate>>
  /\ bcall' = "handled"
  /\ UNCHANGED <<input, pc, part, call, agg, gradients_list, partial_grads, lock,
                 sum_gradient, target, sending, sended_num, faults>>

NextTarget == target' = target + 1 /\ sending' = 1

\* Mutant of BroadcastReturns: every part that is answered is counted.
CountEveryPart ==
  /\ agg = "up" /\ bcall = "handled"
  /\ bcall' = "none"
  /\ sended_num' = sended_num + 1
  /\ IF sending < LastPart
     THEN sending' = sending + 1 /\ UNCHANGED target
     ELSE NextTarget
  /\ UNCHANGED <<input, clientVars, agg, gradients_list, partial_grads, lock,
                 sum_gradient, faults>>

\* The client's answer is back: the next part, or the client is counted.
BroadcastReturns ==
  /\ agg = "up" /\ bcall = "handled"
  /\ bcall' = "none"
  /\ IF sending < LastPart
     THEN /\ sending' = sending + 1
          /\ UNCHANGED <<target, sended_num>>
     ELSE /\ NextTarget
          /\ sended_num' = sended_num + 1
  /\ UNCHANGED <<input, clientVars, agg, gradients_list, partial_grads, lock,
                 sum_gradient, faults>>

\* Mutant of BroadcastFails: the exception ends the loop.
FailureEndsLoop ==
  /\ agg = "up" /\ bcall \in {"sent", "handled"}
  /\ ~Running(target) /\ pc[lock] # "call"
  /\ bcall' = "none"
  /\ target' = N + 1 /\ sending' = 1
  /\ UNCHANGED <<input, clientVars, agg, gradients_list, partial_grads, lock,
                 sum_gradient, sended_num, faults>>

\* The target is gone and so is its answer, if it gave one: "sent to client
\* failed".  The call in which the broadcast runs is older: its 4000 seconds
\* are over first.
BroadcastFails ==
  /\ agg = "up" /\ bcall \in {"sent", "handled"}
  /\ ~Running(target) /\ pc[lock] # "call"
  /\ bcall' = "none"
  /\ NextTarget
  /\ UNCHANGED <<input, clientVars, agg, gradients_list, partial_grads, lock,
                 sum_gradient, sended_num, faults>>

\* The loop is over: the handler lets go of the lock and answers.
BroadcastEnds ==
  /\ agg = "up" /\ lock # NoOne /\ target = N + 1
  /\ call' = [call EXCEPT ![lock] = "handled"]
  /\ lock' = NoOne
  /\ UNCHANGED <<input, pc, part, has_buffer, received, aggregate, grad, agg,
                 gradients_list, partial_grads, sum_gradient, target, sending,
                 bcall, sended_num, faults>>

-----------------------------------------------------------------------------
(* Both sides stop.                                                          *)

\* main finds aggregate set and kills the process.
Close(c) ==
  /\ pc[c] = "poll" /\ aggregate[c]
  /\ pc' = [pc EXCEPT ![c] = "closed"]
  /\ UNCHANGED <<input, part, call, has_buffer, received, aggregate, grad,
                 aggVars, faults>>

StopServer ==
  /\ agg = "up" /\ sended_num = N
  /\ agg' = "stopped"
  /\ UNCHANGED <<input, clientVars, gradients_list, partial_grads, lock,
                 sum_gradient, target, sending, bcall, sended_num, faults>>

Crash(c) ==
  /\ Running(c)
  /\ faults < MaxFaults
  /\ faults' = faults + 1
  /\ pc' = [pc EXCEPT ![c] = "crashed"]
  /\ UNCHANGED <<input, part, call, has_buffer, received, aggregate, grad, aggVars>>

CrashAggregator ==
  /\ agg = "up"
  /\ faults < MaxFaults
  /\ faults' = faults + 1
  /\ agg' = "crashed"
  /\ UNCHANGED <<input, clientVars, gradients_list, partial_grads, lock,
                 sum_gradient, target, sending, bcall, sended_num>>

ClientStep(c) ==
  \/ SendGrad(c) \/ SendReturns(c) \/ CallFails(c) \/ CallTimesOut(c)
  \/ Close(c) \/ ReceiveAggregate(c) \/ ReceiveSplitAggregate(c)

AggregatorStep ==
  \/ SendAggregate \/ BroadcastReturns \/ BroadcastFails \/ BroadcastEnds
  \/ StopServer

Next ==
  \/ \E c \in Clients :
       ClientStep(c) \/ ReceiveGrad(c) \/ ReceiveSplitGrad(c) \/ Crash(c)
  \/ AggregatorStep
  \/ CrashAggregator

\* Threads that can go on do; a request whose sender is there is handled.  The
\* failing broadcast is forced only by the clock, as the timeout is.
Fairness ==
  /\ \A c \in Clients :
       /\ WF_vars(SendGrad(c)) /\ WF_vars(SendReturns(c))
       /\ WF_vars(CallFails(c)) /\ WF_vars(CallTimesOut(c)) /\ WF_vars(Close(c))
       /\ WF_vars(agg = "up" /\ ReceiveAggregate(c))
       /\ WF_vars(agg = "up" /\ ReceiveSplitAggregate(c))
       /\ WF_vars(Running(c) /\ (ReceiveGrad(c) \/ ReceiveSplitGrad(c)))
  /\ WF_vars(SendAggregate) /\ WF_vars(BroadcastReturns)
  /\ WF_vars(BroadcastFails) /\ WF_vars(BroadcastEnds) /\ WF_vars(StopServer)

Spec == Init /\ [][Next]_vars /\ Fairness

-----------------------------------------------------------------------------
TypeOK ==
  /\ split \in BOOLEAN /\ found \in BOOLEAN
  /\ pc \in [Clients -> {"send", "call", "poll", "closed", "dead", "crashed"}]
  /\ part \in [Clients -> Parts]
  /\ call \in [Clients -> {"none", "sent", "handled", "failed"}]
  /\ has_buffer \in [Clients -> BOOLEAN]
  /\ received \in [Clients -> SUBSET Parts]
  /\ aggregate \in [Clients -> BOOLEAN]
  /\ grad \in [Clients -> {NoSum} \cup [Clients -> Nat]]
  /\ agg \in {"up", "stopped", "crashed"}
  /\ gradients_list \in Seq(Clients)
  /\ partial_grads \in [Clients -> SUBSET Parts]
  /\ lock \in Clients \cup {NoOne}
  /\ sum_gradient \in {NoSum} \cup [Clients -> Nat]
  /\ target \in 0 .. N + 1
  /\ sending \in Parts
  /\ bcall \in {"none", "sent", "handled"}
  /\ sended_num \in 0 .. N
  /\ faults \in 0 .. MaxFaults

(* While a handler broadcasts under the aggregator's lock no request of      *)
(* another client is outstanding: its handler would block on the lock in the *)
(* event loop the broadcast runs in, and everyone would wait for ever.       *)
NoReentrantLock ==
  lock # NoOne => \A c \in Clients : call[c] = "sent" => c = lock

(* A part of the sum that comes in finds the buffer send_split_grad made and *)
(* receive_split_aggregate deletes.                                          *)
SplitBufferPresent ==
  split /\ bcall = "sent" /\ Running(target) =>
    has_buffer[target] /\ sending \notin received[target]

(* The aggregator only kills itself when every client has the sum, although  *)
(* it counts answers, not clients, and answers get lost.                     *)
StopSound == agg = "stopped" => \A c \in Clients : aggregate[c]

\* Whose gradients are in the list.
Submitted == {gradients_list[i] : i \in DOMAIN gradients_list}

(* The round implements SecureSum: a client is given the sum of everyone's   *)
(* gradients, each exactly once, or nothing, and never a second one, with    *)
(* whole vectors or parts, lost answers and crashes.                         *)
SS == INSTANCE SecureSum WITH submitted <- Submitted, outcome <- grad

Implements == SS!Spec

(* When nothing crashes and the sum is found everyone is given it, even if a *)
(* client that kills itself takes its answer with it and the broadcast has   *)
(* to wait.                                                                  *)
EveryoneGetsAggregate ==
  found /\ MaxFaults = 0 => <>(\A c \in Clients : aggregate[c])

(* When nothing crashes and the sum is found the round comes to its end: all *)
(* clients close and the aggregator stops, unless a lost answer has cost a   *)
(* client its call: its main then never reaches the end of run.              *)
RoundEnds ==
  found /\ MaxFaults = 0 =>
    <>(\/ agg = "stopped" /\ \A c \in Clients : pc[c] = "closed"
       \/ \E c \in Clients : pc[c] = "dead" /\ aggregate[c])

(* Who polls for the sum does not do so in vain: the broadcast is under way, *)
(* somebody is still to be heard, or a client crashed before its gradient    *)
(* was in.  Later crashes, lost answers and calls that time out, the one the *)
(* broadcast runs in among them, keep the sum from nobody else.              *)
NobodyPollsInVain ==
  found /\ agg = "up" /\ (\E c \in Clients : pc[c] = "poll" /\ ~aggregate[c]) =>
    \/ lock # NoOne
    \/ \E c \in Clients :
         \/ pc[c] = "send"
         \/ pc[c] = "call" /\ call[c] \in {"sent", "handled"}
         \/ pc[c] = "crashed" /\ c \notin Submitted

-----------------------------------------------------------------------------
(* The inductive invariant behind the safety properties.                     *)

ListInv ==
  /\ Len(gradients_list) <= N
  /\ \A i, j \in DOMAIN gradients_list :
       gradients_list[i] = gradients_list[j] => i = j

\* A client sends the parts in order, and is in the list only after the last.
SendInv ==
  \A c \in Clients :
    /\ pc[c] = "send" => call[c] = "none" /\ c \notin Submitted
    /\ call[c] = "sent" /\ c # lock => c \notin Submitted
    /\ call[c] = "handled" /\ part[c] < LastPart => c \notin Submitted
    /\ split /\ c # lock /\ (pc[c] = "send" \/ call[c] = "sent") =>
         partial_grads[c] = 1 .. part[c] - 1
    /\ split /\ call[c] = "handled" /\ part[c] < LastPart =>
         partial_grads[c] = 1 .. part[c]
    /\ part[c] <= LastPart

\* The broadcast: started once, by the last gradient, with the sum of all.
LockInv ==
  /\ lock # NoOne =>
       /\ target # 0
       /\ call[lock] = "sent" /\ part[lock] = LastPart /\ lock \in Submitted
  /\ lock = NoOne => target \in {0, N + 1}
  /\ target = 0 => sum_gradient = NoSum /\ sending = 1
  /\ target # 0 => Len(gradients_list) = N /\ sum_gradient = SS!Total
  /\ bcall # "none" => lock # NoOne /\ target \in Clients
  /\ sending <= LastPart

\* Clients are given the sum in turn, each its parts in order.
GivenInv ==
  \A c \in Clients :
    /\ aggregate[c] <=> grad[c] # NoSum
    /\ grad[c] \in {NoSum, SS!Total}
    /\ grad[c] # NoSum =>
         c < target \/ (c = target /\ bcall = "handled" /\ sending = LastPart)
    /\ c = target /\ bcall = "handled" /\ sending = LastPart => grad[c] # NoSum

BufferInv ==
  split =>
    \A c \in Clients :
      /\ /\ grad[c] = NoSum
         /\ call[c] # "none" \/ part[c] > 1 \/ c \in Submitted
         => has_buffer[c]
      /\ c > target => received[c] = {}
      /\ c = target =>
           received[c] = 1 .. (IF bcall = "handled" THEN sending ELSE sending - 1)

\* The count never runs ahead of the loop, and is behind it after a failure.
CountInv ==
  /\ target = 0 => sended_num = 0
  /\ target # 0 => sended_num < target
  /\ sended_num = target - 1 => \A c \in Clients : c < target => aggregate[c]
  /\ agg = "stopped" => sended_num = N

IInv ==
  TypeOK /\ ListInv /\ SendInv /\ LockInv /\ GivenInv /\ BufferInv /\ CountInv
=============================================================================
