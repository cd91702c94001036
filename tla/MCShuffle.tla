----------------------------- MODULE MCShuffle ------------------------------
(* The shuffle on small instances: seven clients are two groups of three and *)
(* the holder, eight give one group a fourth member.                         *)
EXTENDS Shuffle

\* The holder's server races with the leaders' sums, a member's with the
\* vector it is sent.
MCLateServers == {Holder, <<1, 2>>}
MCLateHolder == {Holder}
=============================================================================
