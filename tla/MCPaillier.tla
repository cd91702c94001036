----------------------------- MODULE MCPaillier -----------------------------
(***************************************************************************)
(* The keys and numbers of the Paillier run: small ints, the largest that  *)
(* can be encoded, and floats whose exponents have to be aligned.          *)
(***************************************************************************)
EXTENDS Paillier

IntNumber(i)      == [num |-> i, exp |-> 0, isFloat |-> FALSE]
FloatNumber(i, e) == [num |-> i, exp |-> e, isFloat |-> TRUE]

MCNumbers == {IntNumber(i) : i \in {-1, 3, 10}} \cup {FloatNumber(3, -2), FloatNumber(-3, -1)}

MCPrecisions  == {0}
MCMinExponent == -1
=============================================================================
