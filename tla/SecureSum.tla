----------------------------- MODULE SecureSum ------------------------------
(***************************************************************************)
(* What the aggregation promises (aggregator.py with the clients' side of  *)
(* client.py): clients submit their masked gradients, and what a client is *)
(* given back, if anything, is the sum of everyone's, each counted once.   *)
(* The masks cancel out in that sum and in no other.                       *)
(***************************************************************************)
EXTENDS Integers

CONSTANT Clients

VARIABLES submitted, \* whose gradients are in
          outcome    \* how often an outcome counts each client's gradient

None  == <<>>
Total == [c \in Clients |-> 1]

Init ==
  /\ submitted = {}
  /\ outcome = [c \in Clients |-> None]

Submit(c) ==
  /\ c \notin submitted
  /\ submitted' = submitted \cup {c}
  /\ UNCHANGED outcome

Deliver(c) ==
  /\ submitted = Clients
  /\ outcome[c] = None
  /\ outcome' = [outcome EXCEPT ![c] = Total]
  /\ UNCHANGED submitted

Next == \E c \in Clients : Submit(c) \/ Deliver(c)

Spec == Init /\ [][Next]_<<submitted, outcome>>
=============================================================================
