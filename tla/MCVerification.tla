--------------------------- MODULE MCVerification ---------------------------
(***************************************************************************)
(* Two clients with vectors of four entries, and claims that are right,    *)
(* leave the second client out, or move something from one entry to        *)
(* another, within the halves or between them.  Others upload the numbers  *)
(* that commit to <<1, 1>>, zeros, or a number that is not reduced.        *)
(***************************************************************************)
EXTENDS Verification

MCG            == <<2, 3, 5>>
MCGradients    == {<<1, 0, 1, 0>>, <<0, 2, 1, 1>>}
MCDeviations   == {<<0, 0, 0, 0>>, <<-1, 0, -1, 0>>, <<1, -1, 0, 0>>, <<1, 0, -1, 0>>,
                   <<1, 1, -1, -1>>, <<0, 0, 1, 0>>}
MCPermutations == {<<1, 2, 3, 4>>, <<3, 2, 1, 4>>, <<2, 4, 3, 1>>}
MCStrayValues  == {<<2, 3>>, <<0, 0>>, <<10009, 3>>}
=============================================================================
