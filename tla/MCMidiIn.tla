------------------------------ MODULE MCMidiIn ------------------------------
(* TLC instance of MidiIn: four headers, two sessions. *)
EXTENDS MidiIn, TLC

CONSTANTS h1, h2, h3, h4

MCHeader == {h1, h2, h3, h4}

=============================================================================
