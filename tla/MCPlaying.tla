----------------------------- MODULE MCPlaying -----------------------------
(* Two threads of each kind: two clicks that race, and a loop thread that  *)
(* outlives its button or its dialog while the next one starts.            *)
EXTENDS Playing

CONSTANTS p1, p2, l1, l2

MCPlayers == {p1, p2}
MCLoopers == {l1, l2}
=============================================================================
