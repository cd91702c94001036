-------------------------------- MODULE Onion -------------------------------
(***************************************************************************)
(* What the mask shuffling needs of a Message (ECIES.py), and what Shuffle *)
(* takes it to be: layers, each of which its owner can take off when it is *)
(* the outermost, and a text that is lost for ever when anybody else does. *)
(***************************************************************************)
EXTENDS Integers, Sequences

CONSTANT Clients

VARIABLES layers,  \* the owners, the outermost last
          intact,
          by       \* who took off the last layer

Init == layers = << >> /\ intact = TRUE /\ by \in Clients

Encrypt(c) == layers' = Append(layers, c) /\ UNCHANGED <<intact, by>>

Decrypt(c) ==
  /\ layers # << >>
  /\ by' = c
  /\ layers' = SubSeq(layers, 1, Len(layers) - 1)
  /\ intact' = (intact /\ layers[Len(layers)] = c)

Next == \E c \in Clients : Encrypt(c) \/ Decrypt(c)

Spec == Init /\ [][Next]_<<layers, intact, by>>
=============================================================================
