------------------------- MODULE MCSampleTransmit -------------------------
EXTENDS SampleTransmit, TLC

SlotOf(start, end, loopStart, loopEnd) ==
    [start |-> start,
     value |-> ("SampleEnd" :> end) @@ ("LoopStart" :> loopStart) @@ ("LoopEnd" :> loopEnd)
               @@ ("LoopEndFine" :> 0) @@ ("LoopSwitch" :> 1)
               @@ ("CoarseTune" :> 1) @@ ("FineTune" :> 1)]

DocOf(pages, loopStart, loopEnd, loopFine, looped, received) ==
    [pages |-> pages, loopStart |-> loopStart, loopEnd |-> loopEnd, loopFine |-> loopFine,
     looped |-> looped, fromMirage |-> received, coarse |-> 2, fine |-> 0]

MCSlots == {SlotOf(0, 3, 1, 3), SlotOf(1, 2, 2, 2), SlotOf(2, 3, 2, 3)}

MCDocs == {DocOf(1, 0, 1, 1, TRUE, TRUE), DocOf(2, 1, 2, 1, TRUE, TRUE),
           DocOf(1, 0, 0, 0, FALSE, FALSE)}
===========================================================================
