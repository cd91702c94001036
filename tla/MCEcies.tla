------------------------------- MODULE MCEcies ------------------------------
(***************************************************************************)
(* The curve of the code over the field of 43 elements: a group of prime   *)
(* order 31.  1 and 30 are opposite keys.                                  *)
(***************************************************************************)
EXTENDS Ecies

MCcurve == [p |-> 43, a |-> 0, b |-> 7, g |-> <<2, 12>>, n |-> 31]
=============================================================================
