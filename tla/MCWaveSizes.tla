---------------------------- MODULE MCWaveSizes ----------------------------
(* Three pages of four bytes.  A selection can end inside a page, in the   *)
(* last page or behind the data, and a loop can lie in one page or in all. *)
EXTENDS WaveSizes

MCSizes == {6, 9, 11}
MCPoints == {0, 3, 5, 9, 11}
MCClips == {0, 3}
MCRepeats == {2, 4}
MCRatios == {<<9, 8>>, <<3, 5>>}

(* TLC goes on from waves that fit the bank with a loop inside it.  In the *)
(* loop editor it goes on from points that have not wrapped around, and    *)
(* only when nothing is selected: the editor looks at neither the          *)
(* selection nor the flag of the drag.                                     *)
Bounded ==
    /\ wave.data <= Word /\ wave.start <= wave.end /\ wave.end <= Word
    /\ loop.start <= Word /\ loop.end <= Word
    /\ dialog => sel = NoSelection /\ ~m_endpoint_selected
=============================================================================
