----------------------------- MODULE MCDocument -----------------------------
(* TLC instance of Document: two rates, two contents, two levels. *)
EXTENDS Document, TLC

CONSTANTS d1, d2, r1, r2

MCData == {d1, d2}
MCRate == {r1, r2}
MCContent == [rate : MCRate, data : MCData]

=============================================================================
