------------------------------ MODULE MCSetup -------------------------------
(* The setup node on small instances.  The shape of the groups depends on    *)
(* the number of clients only, so every draw is tried up to four clients and *)
(* one, in reverse, for the larger numbers (seven are two groups).           *)
EXTENDS Setup

MCInstances ==
  {<<1, 1>>, <<2, 2>>, <<3, 3>>, <<4, 4>>, <<1, 3>>, <<5, 4>>, <<7, 7>>}

MCDraws(n) ==
  IF n <= 4
  THEN {d \in (1 .. n) \X [1 .. n - 1 -> 1 .. n] :
          /\ d[1] \notin {d[2][i] : i \in 1 .. n - 1}
          /\ \A i, j \in 1 .. n - 1 : d[2][i] = d[2][j] => i = j}
  ELSE {<<1, [i \in 1 .. n - 1 |-> n + 1 - i]>>}

\* Two clients: an integer the documentation allows.
MCTwoClients == {<<2, 2>>}
=============================================================================
