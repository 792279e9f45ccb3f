------------------------------ MODULE MCUndo ------------------------------
(* TLC instance of Undo: three contents, three levels. *)
EXTENDS Undo, TLC

CONSTANTS c1, c2, c3

MCContent == {c1, c2, c3}

=============================================================================
