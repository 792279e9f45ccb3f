-------------------------- MODULE MCSampleReceive --------------------------
(* Three wavesamples per bank; the list of the lower bank has a gap.       *)
EXTENDS SampleReceive

MCNumbers == 0 .. 2
MCValid   == [bank \in Banks |-> IF bank = "lower" THEN {0, 2} ELSE {0}]
MCLooped  == {<<"lower", 0>>, <<"upper", 0>>}
=============================================================================
