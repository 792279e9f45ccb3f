----------------------------- MODULE MCMidiOut -----------------------------
(* TLC instance of MidiOut: three headers, two sessions. *)
EXTENDS MidiOut, TLC

CONSTANTS h1, h2, h3

MCHeader == {h1, h2, h3}

=============================================================================
