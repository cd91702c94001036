----------------------------- MODULE MCMasking -----------------------------
(***************************************************************************)
(* A group of three and the holder.  The sums of the gradients below reach *)
(* both ends of the range.  Modulo 163 two pairs of exponents share their  *)
(* buckets, modulo 383 the upper end falls into the bucket of another.     *)
(***************************************************************************)
EXTENDS Masking

CONSTANTS a, b, c

MCGroups      == {<<a, b, c>>}
MCPaillierKey == [n |-> 15, p |-> 3, q |-> 5]
MCHX          == <<3, 10>>
MCGradients   == {<<1, 1>>, <<1, -1>>, <<-1, 0>>}
=============================================================================
