--------------------------- MODULE SampleTransmit ---------------------------
(***************************************************************************)
(* "Transmit Sample" and "Send Looppoints": PutSample sends a document to  *)
(* a wavesample of the Mirage and then sets the sampler's parameters, one  *)
(* ChangeParameter after the other.  A parameter has no command that sets  *)
(* it: ChangeParameter asks for its value, presses the up or the down key  *)
(* and asks again until the value it has read is the value it wants.       *)
(*                                                                         *)
(* The main thread, the driver callback (ParseSysEx writes the number and  *)
(* then the value of the parameter, then the event is set) and the sampler *)
(* interleave.  Every wait ends by the event or after 100 ms; an answer    *)
(* that is still on its way then is a late one.                            *)
(*                                                                         *)
(* The sampler is external.  What is known of it from the code: it has one *)
(* selected parameter, the value keys change that one by 1, and the end of *)
(* the sample cannot pass the end of its loop.                             *)
(***************************************************************************)
EXTENDS Integers, Sequences

CONSTANTS
    ByteSize,   \* values of an unsigned char (256)
    Slots,      \* the wavesample sent to: its first page and its parameters
    Docs,       \* the documents: pages, loop and tuning PutSample works out
    MaxFaults   \* bound: waits that end before their answer has come, answers the
                \* input device loses and short messages, all together

Byte  == 0 .. ByteSize - 1
Parms == {"SampleEnd", "LoopStart", "LoopEnd", "LoopEndFine", "LoopSwitch",
          "CoarseTune", "FineTune"}
NoParm == "none"        \* 0xFF

Slot == [start : Byte, value : [Parms -> Byte]]
Doc  == [pages : Byte, loopStart : Byte, loopEnd : Byte, loopFine : Byte,
         looped : BOOLEAN, fromMirage : BOOLEAN, coarse : Byte, fine : Byte]

(* GetNumberOfPages counts from 0 and makes 0 a 1; a loop lies in its wave *)
(* (LoopStaysInside of WaveSizes names the commands that can lose it) and  *)
(* a slot's loop in its slot.                                              *)
ASSUME TransmitAssumption ==
    /\ ByteSize \in Nat /\ ByteSize > 1
    /\ Slots \subseteq Slot
    /\ \A s \in Slots : /\ s.value["LoopSwitch"] \in 0 .. 1
                        /\ s.start <= s.value["LoopEnd"]
                        /\ s.value["LoopEnd"] <= s.value["SampleEnd"]
    /\ Docs \subseteq Doc
    /\ \A d \in Docs : d.pages > 0 /\ d.loopStart <= d.loopEnd /\ d.loopEnd <= d.pages
    /\ MaxFaults \in Nat

VARIABLES
    pc,                 \* where PutSample or ChangeParameter is
    doc, slot,          \* the document, and the slot as ProgramDumpTable shows it
    LoopOnly,           \* "Send Looppoints" instead of "Transmit Sample"
    plan,               \* the changes PutSample has still to make
    change,             \* the Parameter and the Value of this ChangeParameter
    midi_in_event,      \* the manual-reset event
    ReceivedParmNumber, ReceivedParmValue,
    callback,           \* the answer ParseSysEx is working on
    toMirage, fromMirage,
    selected, value,    \* the sampler's parameter display and parameters
    faults,             \* counter for the bound
    torn                \* history: a late answer was half stored when its wait ended

docVars    == <<doc, slot, LoopOnly>>
parmVars   == <<ReceivedParmNumber, ReceivedParmValue>>
mirageVars == <<selected, value>>
counters   == <<faults, torn>>
vars == <<pc, docVars, plan, change, midi_in_event, parmVars, callback, toMirage,
          fromMirage, mirageVars, counters>>

(* The variant that keeps the target in an int.                            *)
ChangeWide(parm, target) == [parm |-> parm, target |-> target, wait |-> TRUE]

Request(parm, press) == [select |-> parm, press |-> press]
Change(parm, target) == [parm |-> parm, target |-> target % ByteSize, wait |-> TRUE]
NoChange == [parm |-> NoParm, target |-> 0, wait |-> TRUE]
NoAnswer == [parm |-> NoParm, value |-> 0]     \* no callback is running
Stored   == [parm |-> "stored", value |-> 0]   \* parsed, the event not set yet

Pressing == {"confirm", "drain", "ask", "above", "below", "pressed"}

-----------------------------------------------------------------------------
(* PutSample.                                                              *)

CheckForValidTransmitSample == (slot.value["SampleEnd"] - slot.start) % ByteSize

(* The dialog lists a slot that is not smaller than the document's pages   *)
(* less one.                                                               *)
Listed(d) == CheckForValidTransmitSample >= d.pages - 1

LoopSwitch(on, wait) == <<[parm |-> "LoopSwitch", target |-> on, wait |-> wait]>>

(* The variant that forgets to move the loop.                              *)
EndPlanOnly(d) == <<Change("SampleEnd", slot.start + d.pages)>>

(* The loop moves out of the way before the end of a sample that shrinks.  *)
EndPlan(d) ==
    (IF slot.value["SampleEnd"] - slot.start > d.pages
     THEN <<Change("LoopStart", slot.start), Change("LoopEnd", slot.start + 1)>>
     ELSE <<>>)
    \o <<Change("SampleEnd", slot.start + d.pages)>>

LoopPlan(d) ==
    LoopSwitch(1, TRUE) \o LoopSwitch(0, TRUE)
    \o IF d.looped
       THEN <<Change("LoopStart", slot.start + d.loopStart),
              Change("LoopEnd", slot.start + d.loopEnd),
              Change("LoopEndFine", slot.start + d.loopFine)>> \o LoopSwitch(1, FALSE)
       ELSE <<>>

(* A sample that came from the Mirage keeps its tuning; octave 0 is not    *)
(* sent.  "Send Looppoints" has no key, and LastKey is not initialised.    *)
TuningPlan(d, coarse, fine) ==
    IF d.fromMirage THEN <<>>
    ELSE (IF coarse > 0 /\ coarse <= 7 THEN <<Change("CoarseTune", coarse)>> ELSE <<>>)
         \o <<Change("FineTune", fine)>>

Tunings(d, loopOnly) == IF loopOnly THEN Byte \X Byte ELSE {<<d.coarse, d.fine>>}

(* The slot is a listed one under its own number, although the dialog uses *)
(* the position in its list for it (Dialog_TransmitSamples.cpp:134).       *)
(* The selection may fail, and the user may switch the parameters off.     *)
(* Otherwise the wave is dumped, the tables are read again, and the        *)
(* changes are worked out.  Dump and tables change no parameter: the slot  *)
(* is as the dialog found it, and a program dump that fails to come leaves *)
(* the same values in the table.                                           *)
PutSample ==
    /\ pc = "dialog" /\ Listed(doc)
    /\ \/ pc' = "returned" /\ plan' = <<>>
       \/ /\ pc' = "next"
          /\ \E t \in Tunings(doc, LoopOnly) :
               plan' = EndPlan(doc) \o LoopPlan(doc) \o TuningPlan(doc, t[1], t[2])
    /\ UNCHANGED <<docVars, change, midi_in_event, parmVars, callback, toMirage, fromMirage,
                   mirageVars, counters>>

PutSampleReturns ==
    /\ pc = "next" /\ plan = <<>>
    /\ pc' = "done"
    /\ UNCHANGED <<docVars, plan, change, midi_in_event, parmVars, callback, toMirage,
                   fromMirage, mirageVars, counters>>

-----------------------------------------------------------------------------
(* Waits, and what is asked.                                               *)

Silent == toMirage = <<>> /\ fromMirage = <<>> /\ callback = NoAnswer

Fault == faults < MaxFaults /\ faults' = faults + 1

Timeout ==
    /\ ~midi_in_event
    /\ IF Silent THEN UNCHANGED counters
       ELSE Fault /\ torn' = (torn \/ callback \notin {NoAnswer, Stored})

WaitEnds == (midi_in_event /\ UNCHANGED counters) \/ Timeout

(* ResetEvent, SendData.                                                   *)
Ask(parm, press) ==
    /\ midi_in_event' = FALSE
    /\ toMirage' = Append(toMirage, Request(parm, press))

mainUnchanged == UNCHANGED <<docVars, callback, fromMirage, mirageVars>>

(* SendData(LoopOn) or SendData(LoopOff): one message selects and presses. *)
SendLoopSwitch ==
    /\ pc = "next" /\ plan # <<>> /\ Head(plan).parm = "LoopSwitch"
    /\ toMirage' = Append(toMirage, Request("LoopSwitch", 2 * Head(plan).target - 1))
    /\ plan' = Tail(plan)
    /\ IF Head(plan).wait THEN pc' = "loopSwitch" /\ midi_in_event' = FALSE
       ELSE UNCHANGED <<pc, midi_in_event>>
    /\ UNCHANGED <<change, parmVars, counters>> /\ mainUnchanged

LoopSwitchWaited ==
    /\ pc = "loopSwitch" /\ WaitEnds
    /\ pc' = "next"
    /\ UNCHANGED <<plan, change, midi_in_event, parmVars, toMirage>> /\ mainUnchanged

ChangeParameter ==
    /\ pc = "next" /\ plan # <<>> /\ Head(plan).parm # "LoopSwitch"
    /\ change' = Head(plan) /\ plan' = Tail(plan)
    /\ Ask(change'.parm, 0)
    /\ pc' = "confirm"
    /\ UNCHANGED <<parmVars, counters>> /\ mainUnchanged

(* GetInitialValue and ParmChangeLoop: forget the number, ask for the      *)
(* value, and drain the answers.                                           *)
GetCurrentValue(place) ==
    /\ Ask(NoParm, 0)
    /\ ReceivedParmNumber' = NoParm
    /\ pc' = place
    /\ UNCHANGED <<plan, change, ReceivedParmValue>> /\ mainUnchanged

GetInitialValue == pc = "confirm" /\ WaitEnds /\ GetCurrentValue("drain")

Drain ==
    /\ pc \in {"drain", "ask"} /\ midi_in_event
    /\ midi_in_event' = FALSE
    /\ UNCHANGED <<pc, plan, change, parmVars, toMirage, counters>> /\ mainUnchanged

(* The variant that leaves the number of an earlier answer.                *)
ParmChangeLoopKeeps ==
    /\ \/ pc = "drain" /\ Timeout
       \/ pc = "ask" /\ Timeout /\ ReceivedParmNumber # change.parm
       \/ pc = "pressed" /\ WaitEnds
    /\ Ask(NoParm, 0)
    /\ pc' = "ask"
    /\ UNCHANGED <<plan, change, parmVars>> /\ mainUnchanged

(* The variant that waits on for the answer to its first question.         *)
ParmChangeLoopOnce ==
    /\ \/ pc = "drain" /\ Timeout
       \/ pc = "pressed" /\ WaitEnds
    /\ GetCurrentValue("ask")

(* The number is still that of another answer: ask again.                  *)
ParmChangeLoop ==
    /\ \/ pc = "drain" /\ Timeout
       \/ pc = "ask" /\ Timeout /\ ReceivedParmNumber # change.parm
       \/ pc = "pressed" /\ WaitEnds
    /\ GetCurrentValue("ask")

GotParameter ==
    /\ pc = "ask" /\ Timeout /\ ReceivedParmNumber = change.parm
    /\ pc' = "above"
    /\ midi_in_event' = FALSE
    /\ UNCHANGED <<plan, change, parmVars, toMirage>> /\ mainUnchanged

Press(place, other, pressing, press) ==
    /\ pc = place
    /\ IF pressing
       THEN pc' = "pressed" /\ toMirage' = Append(toMirage, Request(NoParm, press))
       ELSE pc' = other /\ UNCHANGED toMirage
    /\ UNCHANGED <<plan, change, midi_in_event, parmVars, counters>> /\ mainUnchanged

(* The value is read once for each comparison.                             *)
ValueDown == Press("above", "below", ReceivedParmValue[change.parm] > change.target, -1)
ValueUp   == Press("below", "next", ReceivedParmValue[change.parm] < change.target, 1)

-----------------------------------------------------------------------------
(* The sampler and the driver.                                             *)

InLimits(v) ==
    /\ v \in [Parms -> Byte]
    /\ v["LoopSwitch"] <= 1 /\ v["LoopEnd"] <= v["SampleEnd"]

Pressed(parm, press) ==
    LET moved == [value EXCEPT ![parm] = @ + press]
    IN  IF InLimits(moved) THEN moved ELSE value

(* An answer to the question for the value; a key is confirmed or not.     *)
MirageHandles ==
    /\ toMirage # <<>>
    /\ LET r == Head(toMirage)
           p == IF r.select = NoParm THEN selected ELSE r.select
           v == Pressed(p, r.press)
           answered == Append(fromMirage, [parm |-> p, value |-> v[p]])
       IN  /\ selected' = p /\ value' = v
           /\ IF r = Request(NoParm, 0) THEN fromMirage' = answered
              ELSE fromMirage' \in {fromMirage, answered}
    /\ toMirage' = Tail(toMirage)
    /\ UNCHANGED <<pc, docVars, plan, change, midi_in_event, parmVars, callback, counters>>

AnswerLost ==
    /\ fromMirage # <<>> /\ fromMirage' = Tail(fromMirage)
    /\ Fault
    /\ UNCHANGED <<pc, docVars, plan, change, midi_in_event, parmVars, callback, toMirage,
                   mirageVars, torn>>

(* ParseSysEx stores the number, then the value; ReceiveMsg sets the event. *)
ParseNumber ==
    /\ callback = NoAnswer /\ fromMirage # <<>>
    /\ callback' = Head(fromMirage) /\ fromMirage' = Tail(fromMirage)
    /\ ReceivedParmNumber' = callback'.parm
    /\ UNCHANGED <<pc, docVars, plan, change, midi_in_event, ReceivedParmValue, toMirage,
                   mirageVars, counters>>

ParseValue ==
    /\ callback \notin {NoAnswer, Stored}
    /\ ReceivedParmValue' = [ReceivedParmValue EXCEPT ![callback.parm] = callback.value]
    /\ callback' = Stored
    /\ UNCHANGED <<pc, docVars, plan, change, midi_in_event, ReceivedParmNumber, toMirage,
                   fromMirage, mirageVars, counters>>

SetEvent ==
    /\ callback = Stored /\ callback' = NoAnswer
    /\ midi_in_event' = TRUE
    /\ UNCHANGED <<pc, docVars, plan, change, parmVars, toMirage, fromMirage, mirageVars,
                   counters>>

ReceiveMsg ==
    /\ Fault
    /\ midi_in_event' = TRUE
    /\ UNCHANGED <<pc, docVars, plan, change, parmVars, callback, toMirage, fromMirage,
                   mirageVars, torn>>

-----------------------------------------------------------------------------
Init ==
    /\ pc = "dialog"
    /\ slot \in Slots /\ value = slot.value
    /\ doc \in Docs /\ LoopOnly \in BOOLEAN
    /\ plan = <<>> /\ change = NoChange
    /\ midi_in_event \in BOOLEAN
    /\ ReceivedParmNumber = NoParm /\ ReceivedParmValue = [p \in Parms |-> 0]
    /\ callback = NoAnswer /\ toMirage = <<>> /\ fromMirage = <<>>
    /\ selected = "LoopSwitch"
    /\ faults = 0 /\ torn = FALSE

Main ==
    \/ PutSampleReturns \/ SendLoopSwitch \/ LoopSwitchWaited
    \/ ChangeParameter \/ GetInitialValue \/ Drain \/ ParmChangeLoop
    \/ GotParameter \/ ValueDown \/ ValueUp

Callback == ParseNumber \/ ParseValue \/ SetEvent

Next ==
    \/ PutSample \/ Main \/ MirageHandles \/ AnswerLost \/ Callback \/ ReceiveMsg

Spec == Init /\ [][Next]_vars

(* The threads run, and a sampler that is connected handles what it gets.  *)
Fairness == WF_vars(Main) /\ WF_vars(MirageHandles) /\ WF_vars(Callback)

FairSpec == Spec /\ Fairness

-----------------------------------------------------------------------------
(* Properties.                                                             *)

TypeOK ==
    /\ pc \in {"dialog", "next", "loopSwitch", "returned", "done"} \cup Pressing
    /\ doc \in Docs /\ slot \in Slots /\ LoopOnly \in BOOLEAN
    /\ plan \in Seq([parm : Parms, target : Byte, wait : BOOLEAN])
    /\ change \in [parm : Parms \cup {NoParm}, target : Byte, wait : BOOLEAN]
    /\ pc \in Pressing => change.parm \in Parms
    /\ midi_in_event \in BOOLEAN
    /\ ReceivedParmNumber \in Parms \cup {NoParm}
    /\ ReceivedParmValue \in [Parms -> Byte]
    /\ callback \in [parm : Parms, value : Byte] \cup {NoAnswer, Stored}
    /\ toMirage \in Seq([select : Parms \cup {NoParm}, press : -1 .. 1])
    /\ fromMirage \in Seq([parm : Parms, value : Byte])
    /\ selected \in Parms /\ value \in [Parms -> Byte]
    /\ faults \in 0 .. MaxFaults /\ torn \in BOOLEAN

(* What PutSample works towards in the slot.                               *)
LoopGoals ==
    {"LoopStart", "LoopEnd"} \cup (IF slot.start = 0 THEN {"LoopEndFine"} ELSE {})

Goal ==
    [p \in {"SampleEnd"} \cup (IF doc.looped THEN LoopGoals ELSE {}) |->
       CASE p = "SampleEnd" -> slot.start + doc.pages
         [] p = "LoopStart" -> slot.start + doc.loopStart
         [] p = "LoopEnd"   -> slot.start + doc.loopEnd
         [] p = "LoopEndFine" -> doc.loopFine]

Fits == slot.start + doc.pages < ByteSize

(* The end of ParmChangeLoop (MirageSysex.cpp:702-714) under late answers: *)
(* once PutSample is through and the line is silent, the sampler's end and *)
(* loop points are those of the document, whatever answers came late or    *)
(* not at all and whatever was played meanwhile, up to MaxFaults of it.    *)
(* The low byte of the loop end is so only in a slot at page 0, as         *)
(* PutSample adds the slot's first page to it (MirageSysex.cpp:476).       *)
Settled ==
    pc = "done" /\ Silent /\ Fits /\ ~torn => \A p \in DOMAIN Goal : value[p] = Goal[p]

(* "It's not possible to move the sample end point before the loop end, so *)
(* change the loop first" (MirageSysex.cpp:447): the sampler refuses no key *)
(* that ChangeParameter presses, since the changes come in an order that   *)
(* respects its limits and no key is pressed once too often.  This holds   *)
(* while at most two waits have gone wrong (MaxFaults = 2 in its run).     *)
NothingRefused ==
    Fits /\ ~torn /\ toMirage # <<>> =>
        LET r == Head(toMirage)
        IN  r.select = NoParm => Pressed(selected, r.press)[selected] = value[selected] + r.press

(* PutSample ends although ChangeParameter loops without a limit, if the   *)
(* sampler goes on answering.                                              *)
TransmitEnds == [](pc = "next" /\ Fits => <>(pc = "done" \/ torn))

=============================================================================
