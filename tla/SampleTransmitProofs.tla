------------------------ MODULE SampleTransmitProofs ------------------------
(***************************************************************************)
(* Proofs about SampleTransmit: while no more than two waits have gone     *)
(* wrong, ChangeParameter presses a key only when the value it has read is *)
(* the sampler's, so the sampler refuses no key and ends with the values   *)
(* of the document.                                                        *)
(*                                                                         *)
(* The argument counts the faults.  An answer is stale when a key that the *)
(* main thread has pressed since changes its value.                        *)
(*   - Without a fault the line is silent when the first key is pressed.   *)
(*   - With one fault no stale answer is on the line: the fault that lets  *)
(*     GotParameter go on early leaves nothing behind but an event.        *)
(*   - With two faults a stale answer may be on the line, but the wait for *)
(*     the value can end in silence only, after the answer to the last     *)
(*     question, and that one is not stale.                                *)
(***************************************************************************)
EXTENDS SampleTransmit, SequenceTheorems, TLAPS

Step    == [parm : Parms, target : Byte, wait : BOOLEAN]
Answer  == [parm : Parms, value : Byte]
Message == [select : Parms \cup {NoParm}, press : -1 .. 1]

\* The callback is at no answer that is still to be stored.
Idle == callback \in {NoAnswer, Stored}

\* A press of the up or the down key.
KeyPress(r) == r.select = NoParm /\ r.press # 0
NoKey == \A i \in 1 .. Len(toMirage) : ~KeyPress(toMirage[i])

\* An answer, if it is about the parameter that is changed, gives its value.
Fresh(a) == a.parm = change.parm => a.value = value[change.parm]
AllFresh ==
    /\ \A i \in 1 .. Len(fromMirage) : Fresh(fromMirage[i])
    /\ ~Idle => Fresh(callback)

-----------------------------------------------------------------------------
(* What is still to be done: the change under way and the plan.  The plan  *)
(* is one of eleven suffixes of what PutSample works out; Work says which, *)
(* and what the sampler's values are by then.                              *)

End  == slot.start + doc.pages
todo == IF pc \in Pressing THEN <<change>> \o plan ELSE plan

Begins(s, step) == s # <<>> /\ Head(s) = step
Switches(s) == s # <<>> /\ Head(s).parm = "LoopSwitch"

OnlyTuning(s)   == \A i \in 1 .. Len(s) : s[i].parm \in {"CoarseTune", "FineTune"}
FromSwitchOn(s) == Switches(s) /\ OnlyTuning(Tail(s))
FromFine(s)     == Begins(s, Change("LoopEndFine", slot.start + doc.loopFine)) /\ FromSwitchOn(Tail(s))
FromLoopEnd(s)  == Begins(s, Change("LoopEnd", slot.start + doc.loopEnd)) /\ FromFine(Tail(s))
FromLoop(s)     == Begins(s, Change("LoopStart", slot.start + doc.loopStart)) /\ FromLoopEnd(Tail(s))
FromOff(s)      == Switches(s) /\ IF doc.looped THEN FromLoop(Tail(s)) ELSE OnlyTuning(Tail(s))
FromOn(s)       == Switches(s) /\ FromOff(Tail(s))
FromEnd(s)      == Begins(s, Change("SampleEnd", End)) /\ FromOn(Tail(s))
FromAway(s)     == Begins(s, Change("LoopEnd", slot.start + 1)) /\ FromEnd(Tail(s))
FromStart(s)    == Begins(s, Change("LoopStart", slot.start)) /\ FromAway(Tail(s))

\* The loop points that are set so far.
Has(v, parm) == parm \in DOMAIN Goal => v[parm] = Goal[parm]

Work(s, v) ==
    \/ (FromStart(s) \/ FromAway(s)) /\ v["SampleEnd"] > End
    \/ FromEnd(s) /\ v["LoopEnd"] <= End
    \/ /\ v["SampleEnd"] = End
       /\ \/ FromOn(s) \/ FromOff(s)
          \/ doc.looped /\ FromLoop(s)
          \/ doc.looped /\ FromLoopEnd(s) /\ Has(v, "LoopStart")
          \/ doc.looped /\ FromFine(s) /\ Has(v, "LoopStart") /\ Has(v, "LoopEnd")
          \/ (FromSwitchOn(s) \/ OnlyTuning(s)) /\ \A p \in DOMAIN Goal : v[p] = Goal[p]

-----------------------------------------------------------------------------
(* The inductive invariant.                                                *)

\* What holds however many faults there are.
Forms ==
    /\ \A i \in 1 .. Len(plan) : plan[i].parm = "LoopSwitch" => plan[i].target \in 0 .. 1
    /\ pc \in Pressing => change.parm # "LoopSwitch"
    /\ \A i \in 1 .. Len(toMirage) :
         toMirage[i].select \notin {NoParm, "LoopSwitch"} => toMirage[i].press = 0
    /\ ~Idle => ReceivedParmNumber \in {callback.parm, NoParm}
    /\ InLimits(value)
    /\ pc = "dialog" => value = slot.value /\ Silent
    /\ pc = "done" => plan = <<>>

\* The parameter the sampler comes to, before any key that is pressed, is the one that is
\* changed.
Selects ==
    \/ /\ selected = change.parm
       /\ \A i \in 1 .. Len(toMirage) : toMirage[i].select = NoParm
    \/ \E k \in 1 .. Len(toMirage) :
         /\ toMirage[k].select = change.parm
         /\ \A i \in 1 .. Len(toMirage) :
              IF i > k THEN toMirage[i].select = NoParm ELSE ~KeyPress(toMirage[i])

\* One key at a time is on its way, and it goes towards the target.
Keys ==
    /\ \A i, j \in 1 .. Len(toMirage) :
         KeyPress(toMirage[i]) /\ KeyPress(toMirage[j]) => i = j
    /\ \A i \in 1 .. Len(toMirage) : KeyPress(toMirage[i]) =>
         IF toMirage[i].press > 0 THEN value[change.parm] < change.target
                                  ELSE value[change.parm] > change.target
    /\ pc \notin {"ask", "pressed"} => NoKey

\* What ParmChangeLoop goes by is the value of the sampler.
Reads ==
    /\ pc = "below" => value[change.parm] <= change.target
    /\ pc \in {"above", "below"} =>
         AllFresh /\ ReceivedParmValue[change.parm] = value[change.parm]
    /\ pc = "ask" /\ toMirage # <<>> => toMirage[Len(toMirage)] = Request(NoParm, 0)
    /\ pc = "ask" /\ toMirage = <<>> =>
         /\ fromMirage # <<>> => Fresh(fromMirage[Len(fromMirage)])
         /\ fromMirage = <<>> /\ ~Idle => Fresh(callback)
         /\ fromMirage = <<>> /\ Idle /\ ReceivedParmNumber = change.parm =>
              ReceivedParmValue[change.parm] = value[change.parm]

\* With at most one fault there are no stale answers.
OneFault ==
    /\ pc \in Pressing =>
         /\ AllFresh
         /\ \A i \in 1 .. Len(toMirage) :
              KeyPress(toMirage[i]) => i = 1 /\ fromMirage = <<>> /\ Idle
    /\ pc \notin Pressing =>
         /\ \A i \in 1 .. Len(toMirage) : toMirage[i].select = "LoopSwitch"
         /\ \A i \in 1 .. Len(fromMirage) : fromMirage[i].parm = "LoopSwitch"
         /\ ~Idle => callback.parm = "LoopSwitch"
    /\ pc = "ask" /\ ReceivedParmNumber = change.parm =>
         NoKey /\ (Idle => ReceivedParmValue[change.parm] = value[change.parm])
    /\ pc \in {"above", "below"} => toMirage = <<>> /\ fromMirage = <<>> /\ Idle

\* Without a fault the line carries one message at a time.
NoFault ==
    /\ pc \in {"ask", "above", "below", "pressed"} =>
         /\ toMirage # <<>> => Len(toMirage) = 1 /\ fromMirage = <<>> /\ callback = NoAnswer
         /\ fromMirage # <<>> => Len(fromMirage) = 1 /\ callback = NoAnswer
    /\ pc = "ask" /\ (toMirage # <<>> \/ fromMirage # <<>>) => ReceivedParmNumber = NoParm
    /\ pc = "pressed" /\ midi_in_event => Silent
    /\ pc \in {"above", "below"} => Silent /\ ~midi_in_event

Kept ==
    /\ pc \notin {"dialog", "returned"} => Work(todo, value)
    /\ pc \in Pressing => Selects
    /\ Keys /\ Reads
    /\ faults <= 1 => OneFault
    /\ faults = 0 => NoFault

Counted == Fits /\ ~torn /\ faults <= 2

IInv == TypeOK /\ Forms /\ (Counted => Kept)

-----------------------------------------------------------------------------
(* Sequences.                                                              *)

LEMMA AppendShape ==
    ASSUME NEW S, NEW s \in Seq(S), NEW e \in S
    PROVE  /\ Append(s, e) \in Seq(S)
           /\ Append(s, e) # <<>>
           /\ Len(Append(s, e)) = Len(s) + 1
           /\ \A i \in 1 .. Len(s) : Append(s, e)[i] = s[i]
           /\ Append(s, e)[Len(s) + 1] = e
OBVIOUS

LEMMA TailShape ==
    ASSUME NEW S, NEW s \in Seq(S), s # <<>>
    PROVE  /\ Head(s) \in S /\ Head(s) = s[1]
           /\ Tail(s) \in Seq(S)
           /\ Len(Tail(s)) = Len(s) - 1
           /\ \A i \in 1 .. (Len(s) - 1) : Tail(s)[i] = s[i + 1]
OBVIOUS

\* A step put in front of a plan.
LEMMA ConsShape ==
    ASSUME NEW S, NEW s \in Seq(S), NEW e \in S
    PROVE  /\ <<e>> \o s \in Seq(S) /\ <<e>> \o s # <<>>
           /\ Head(<<e>> \o s) = e /\ Tail(<<e>> \o s) = s
<1> DEFINE t == <<e>> \o s
<1>1. /\ t \in Seq(S) /\ Len(t) = Len(s) + 1 /\ t[1] = e
      /\ \A i \in 1 .. Len(s) : t[i + 1] = s[i]
  <2>1. <<e>> \in Seq(S) /\ Len(<<e>>) = 1 /\ <<e>>[1] = e
    OBVIOUS
  <2> QED  BY <2>1, ConcatProperties
<1> HIDE DEF t
<1>2. t # <<>>
  BY <1>1
<1>3. /\ Head(t) = e /\ Tail(t) \in Seq(S) /\ Len(Tail(t)) = Len(s)
      /\ \A i \in 1 .. Len(s) : Tail(t)[i] = s[i]
  BY <1>1, <1>2, TailShape
<1>4. Tail(t) = s
  BY <1>3, SeqEqual
<1> QED  BY <1>1, <1>2, <1>3, <1>4 DEF t

\* A plan is its first step and the rest.
LEMMA HeadTail ==
    ASSUME NEW S, NEW s \in Seq(S), s # <<>>
    PROVE  <<Head(s)>> \o Tail(s) = s
OBVIOUS

-----------------------------------------------------------------------------
(* Types.                                                                  *)

\* What the dialog has offered, and what the assumption says of it.
LEMMA Offered ==
    ASSUME doc \in Docs, slot \in Slots
    PROVE  /\ ByteSize \in Nat /\ ByteSize > 1
           /\ slot.start \in Byte /\ slot.value \in [Parms -> Byte]
           /\ slot.value["LoopSwitch"] \in 0 .. 1
           /\ slot.value["LoopEnd"] <= slot.value["SampleEnd"]
           /\ doc.pages \in Byte /\ doc.loopStart \in Byte /\ doc.loopEnd \in Byte
           /\ doc.loopFine \in Byte /\ doc.coarse \in Byte /\ doc.fine \in Byte
           /\ doc.looped \in BOOLEAN /\ doc.fromMirage \in BOOLEAN
           /\ doc.pages > 0 /\ doc.loopStart <= doc.loopEnd /\ doc.loopEnd <= doc.pages
           /\ MaxFaults \in Nat
<1>1. doc \in Doc /\ slot \in Slot
  BY TransmitAssumption
<1> QED  BY <1>1, TransmitAssumption DEF Doc, Slot

\* The steps of a plan; a switch of the loop is off or on.
PlanStep == {s \in Step : s.parm = "LoopSwitch" => s.target \in 0 .. 1}

LEMMA ModuloByte ==
    ASSUME NEW x \in Int
    PROVE  x % ByteSize \in Byte /\ (x \in Byte => x % ByteSize = x)
BY TransmitAssumption DEF Byte

LEMMA ChangeType ==
    ASSUME NEW parm \in Parms \ {"LoopSwitch"}, NEW x \in Int
    PROVE  Change(parm, x) \in PlanStep
BY ModuloByte DEF Change, PlanStep, Step

LEMMA SwitchType ==
    ASSUME NEW on \in 0 .. 1, NEW wait \in BOOLEAN
    PROVE  LoopSwitch(on, wait) \in Seq(PlanStep)
<1>1. [parm |-> "LoopSwitch", target |-> on, wait |-> wait] \in PlanStep
  BY TransmitAssumption DEF PlanStep, Step, Parms, Byte
<1> QED  BY <1>1 DEF LoopSwitch

\* The parts of a plan.
LEMMA PlanParts ==
    ASSUME doc \in Docs, slot \in Slots, NEW coarse \in Byte, NEW fine \in Byte
    PROVE  /\ EndPlan(doc) \in Seq(PlanStep) /\ LoopPlan(doc) \in Seq(PlanStep)
           /\ TuningPlan(doc, coarse, fine) \in Seq(PlanStep)
<1>0. /\ slot.start \in Int /\ doc.pages \in Int /\ doc.loopStart \in Int
      /\ doc.loopEnd \in Int /\ doc.loopFine \in Int /\ coarse \in Int /\ fine \in Int
  BY Offered DEF Byte
<1>1. EndPlan(doc) \in Seq(PlanStep)
  <2>1. /\ Change("LoopStart", slot.start) \in PlanStep
        /\ Change("LoopEnd", slot.start + 1) \in PlanStep
        /\ Change("SampleEnd", slot.start + doc.pages) \in PlanStep
    BY <1>0, ChangeType DEF Parms
  <2>2. /\ <<Change("LoopStart", slot.start), Change("LoopEnd", slot.start + 1)>> \in Seq(PlanStep)
        /\ <<Change("SampleEnd", slot.start + doc.pages)>> \in Seq(PlanStep)
        /\ <<>> \in Seq(PlanStep)
    BY <2>1
  <2> QED  BY <2>2, ConcatProperties DEF EndPlan
<1>2. LoopPlan(doc) \in Seq(PlanStep)
  <2>1. /\ Change("LoopStart", slot.start + doc.loopStart) \in PlanStep
        /\ Change("LoopEnd", slot.start + doc.loopEnd) \in PlanStep
        /\ Change("LoopEndFine", slot.start + doc.loopFine) \in PlanStep
    BY <1>0, ChangeType DEF Parms
  <2> DEFINE points == <<Change("LoopStart", slot.start + doc.loopStart),
                         Change("LoopEnd", slot.start + doc.loopEnd),
                         Change("LoopEndFine", slot.start + doc.loopFine)>>
  <2>2. points \in Seq(PlanStep) /\ <<>> \in Seq(PlanStep)
    BY <2>1
  <2>3. /\ LoopSwitch(1, TRUE) \in Seq(PlanStep) /\ LoopSwitch(0, TRUE) \in Seq(PlanStep)
        /\ LoopSwitch(1, FALSE) \in Seq(PlanStep)
    <3>1. 0 \in 0 .. 1 /\ 1 \in 0 .. 1 /\ TRUE \in BOOLEAN /\ FALSE \in BOOLEAN
      OBVIOUS
    <3> QED  BY <3>1, SwitchType, Zenon
  <2> HIDE DEF points
  <2>4. (IF doc.looped THEN points \o LoopSwitch(1, FALSE) ELSE <<>>) \in Seq(PlanStep)
    BY <2>2, <2>3, ConcatProperties
  <2>5. LoopSwitch(1, TRUE) \o LoopSwitch(0, TRUE) \in Seq(PlanStep)
    BY <2>3, ConcatProperties
  <2> QED  BY <2>4, <2>5, ConcatProperties DEF LoopPlan, points
<1>3. TuningPlan(doc, coarse, fine) \in Seq(PlanStep)
  <2>1. Change("CoarseTune", coarse) \in PlanStep /\ Change("FineTune", fine) \in PlanStep
    BY <1>0, ChangeType DEF Parms
  <2>2. /\ <<Change("CoarseTune", coarse)>> \in Seq(PlanStep)
        /\ <<Change("FineTune", fine)>> \in Seq(PlanStep)
        /\ <<>> \in Seq(PlanStep)
    BY <2>1
  <2> QED  BY <2>2, ConcatProperties DEF TuningPlan
<1> QED  BY <1>1, <1>2, <1>3

\* The end of a wait: nothing more is to come, or the event is set, or it is a fault.
LEMMA WaitEnd ==
    ASSUME WaitEnds \/ Timeout
    PROVE  \/ UNCHANGED counters /\ (midi_in_event \/ Silent)
           \/ /\ ~Silent /\ faults < MaxFaults /\ faults' = faults + 1
              /\ torn' = (torn \/ ~Idle)
BY DEF WaitEnds, Timeout, Fault, Idle

LEMMA TimeoutEnd ==
    ASSUME Timeout
    PROVE  \/ UNCHANGED counters /\ Silent
           \/ /\ ~Silent /\ faults < MaxFaults /\ faults' = faults + 1
              /\ torn' = (torn \/ ~Idle)
BY DEF Timeout, Fault, Idle

Typed == TypeOK /\ Forms

\* The step the main thread takes from the plan and what is left.
LEMMA PlanTail ==
    ASSUME Typed, plan # <<>>
    PROVE  /\ Head(plan) \in PlanStep /\ Tail(plan) \in Seq(Step)
           /\ \A i \in 1 .. Len(Tail(plan)) :
                Tail(plan)[i].parm = "LoopSwitch" => Tail(plan)[i].target \in 0 .. 1
<1>0. plan \in Seq(Step)
  BY DEF Typed, TypeOK, Step
<1>1. /\ Head(plan) \in Step /\ Head(plan) = plan[1] /\ Tail(plan) \in Seq(Step)
      /\ Len(Tail(plan)) = Len(plan) - 1 /\ Len(plan) \in Nat \ {0}
      /\ \A i \in 1 .. (Len(plan) - 1) : Tail(plan)[i] = plan[i + 1]
  BY <1>0, TailShape
<1>2. \A i \in 1 .. Len(plan) : plan[i].parm = "LoopSwitch" => plan[i].target \in 0 .. 1
  BY DEF Typed, Forms
<1>3. ASSUME NEW i \in 1 .. Len(Tail(plan)), Tail(plan)[i].parm = "LoopSwitch"
      PROVE  Tail(plan)[i].target \in 0 .. 1
  <2>1. i + 1 \in 1 .. Len(plan) /\ Tail(plan)[i] = plan[i + 1]
    BY <1>1
  <2> QED  BY <1>2, <1>3, <2>1
<1> QED  BY <1>1, <1>2, <1>3 DEF PlanStep

\* The counter of the faults and the history variable keep their types.
LEMMA WaitTyped ==
    ASSUME Typed, WaitEnds \/ Timeout
    PROVE  faults' \in 0 .. MaxFaults /\ torn' \in BOOLEAN
<1>0. faults \in 0 .. MaxFaults /\ torn \in BOOLEAN /\ MaxFaults \in Nat
  BY TransmitAssumption DEF Typed, TypeOK
<1>1. CASE UNCHANGED counters
  BY <1>0, <1>1 DEF counters
<1>2. CASE faults < MaxFaults /\ faults' = faults + 1 /\ torn' = (torn \/ ~Idle)
  <2>1. faults' \in 0 .. MaxFaults
    BY <1>0, <1>2
  <2>2. torn' \in BOOLEAN
    BY <1>0, <1>2, Zenon
  <2> QED  BY <2>1, <2>2
<1> QED  BY <1>1, <1>2, WaitEnd

LEMMA InitTyped == Init => Typed
<1> SUFFICES ASSUME Init PROVE Typed
  OBVIOUS
<1>1. /\ doc \in Docs /\ slot \in Slots /\ value = slot.value
      /\ pc = "dialog" /\ LoopOnly \in BOOLEAN /\ plan = <<>> /\ change = NoChange
      /\ midi_in_event \in BOOLEAN /\ ReceivedParmNumber = NoParm
      /\ ReceivedParmValue = [p \in Parms |-> 0]
      /\ callback = NoAnswer /\ toMirage = <<>> /\ fromMirage = <<>>
      /\ selected = "LoopSwitch" /\ faults = 0 /\ torn = FALSE
  BY DEF Init
<1>2. InLimits(value) /\ 0 \in Byte
  BY <1>1, Offered DEF InLimits, Parms, Byte
<1>3. /\ change \in [parm : Parms \cup {NoParm}, target : Byte, wait : BOOLEAN]
      /\ ReceivedParmValue \in [Parms -> Byte]
  BY <1>1, <1>2 DEF NoChange
<1>4. TypeOK
  <2>1. /\ selected \in Parms /\ faults \in 0 .. MaxFaults /\ pc \notin Pressing
        /\ value \in [Parms -> Byte]
    BY <1>1, <1>2, Offered DEF Parms, Pressing, InLimits
  <2>2. torn \in BOOLEAN
    BY <1>1, Zenon
  <2> QED  BY <1>1, <1>2, <1>3, <2>1, <2>2 DEF TypeOK
<1>5. Forms
  BY <1>1, <1>2 DEF Forms, Idle, Silent, Pressing
<1> QED  BY <1>4, <1>5 DEF Typed

\* The main thread starts PutSample or asks for something.
LEMMA TypedPutSample ==
    ASSUME Typed, PutSample
    PROVE  Typed'
<1> USE DEF Typed, TypeOK, Forms, PutSample, docVars, parmVars, mirageVars, counters
<1>1. plan' \in Seq(PlanStep)
  <2>1. ASSUME NEW t \in Tunings(doc, LoopOnly)
        PROVE  EndPlan(doc) \o LoopPlan(doc) \o TuningPlan(doc, t[1], t[2]) \in Seq(PlanStep)
    <3>1. t[1] \in Byte /\ t[2] \in Byte
      BY Offered DEF Tunings
    <3>2. EndPlan(doc) \o LoopPlan(doc) \in Seq(PlanStep)
      BY <3>1, PlanParts, ConcatProperties
    <3> QED  BY <3>1, <3>2, PlanParts, ConcatProperties
  <2>2. <<>> \in Seq(PlanStep)
    OBVIOUS
  <2> QED  BY <2>1, <2>2
<1>2. /\ plan' \in Seq(Step)
      /\ \A i \in 1 .. Len(plan') : plan'[i].parm = "LoopSwitch" => plan'[i].target \in 0 .. 1
  BY <1>1 DEF PlanStep
<1>3. TypeOK'
  BY <1>2 DEF Pressing, Step
<1>4. Forms'
  BY <1>2 DEF Pressing, Idle, Silent
<1> QED  BY <1>3, <1>4

LEMMA TypedNext ==
    ASSUME Typed,
           PutSampleReturns \/ SendLoopSwitch \/ LoopSwitchWaited \/ ChangeParameter
    PROVE  Typed'
<1> USE DEF Typed, TypeOK, Forms, docVars, parmVars, mirageVars, counters, mainUnchanged
<1>1. CASE PutSampleReturns
  BY <1>1 DEF PutSampleReturns, Pressing, Idle, Silent
<1>2. CASE SendLoopSwitch
  <2>1. /\ Head(plan) = plan[1] /\ Head(plan).target \in 0 .. 1 /\ Tail(plan) \in Seq(Step)
        /\ Head(plan).wait \in BOOLEAN
        /\ \A i \in 1 .. Len(Tail(plan)) :
             Tail(plan)[i].parm = "LoopSwitch" => Tail(plan)[i].target \in 0 .. 1
    BY <1>2, PlanTail, TailShape DEF SendLoopSwitch, PlanStep, Step
  <2>2. Request("LoopSwitch", 2 * Head(plan).target - 1) \in Message
    BY <2>1 DEF Request, Message, Parms
  <2>3. /\ toMirage' \in Seq(Message)
        /\ \A i \in 1 .. Len(toMirage') :
             toMirage'[i].select \notin {NoParm, "LoopSwitch"} => toMirage'[i].press = 0
    BY <1>2, <2>2, AppendShape DEF SendLoopSwitch, Message, Request
  <2>4. /\ pc' \in {"next", "loopSwitch"} /\ midi_in_event' \in BOOLEAN /\ plan' = Tail(plan)
        /\ UNCHANGED <<docVars, change, parmVars, callback, fromMirage, mirageVars, counters>>
    BY <1>2 DEF SendLoopSwitch
  <2>5. TypeOK'
    BY <2>1, <2>3, <2>4 DEF Pressing, Step, Message
  <2>6. Forms'
    BY <2>1, <2>3, <2>4 DEF Pressing, Idle, Silent
  <2> QED  BY <2>5, <2>6
<1>3. CASE LoopSwitchWaited
  <2>1. faults' \in 0 .. MaxFaults /\ torn' \in BOOLEAN
    BY <1>3, WaitTyped DEF LoopSwitchWaited
  <2>2. /\ pc' = "next"
        /\ UNCHANGED <<docVars, plan, change, midi_in_event, parmVars, callback, toMirage,
                       fromMirage, mirageVars>>
    BY <1>3 DEF LoopSwitchWaited
  <2> QED  BY <2>1, <2>2 DEF Pressing, Idle
<1>4. CASE ChangeParameter
  <2>1. /\ Head(plan) \in Step /\ Tail(plan) \in Seq(Step)
        /\ \A i \in 1 .. Len(Tail(plan)) :
             Tail(plan)[i].parm = "LoopSwitch" => Tail(plan)[i].target \in 0 .. 1
    BY <1>4, PlanTail DEF ChangeParameter, PlanStep
  <2>2. change' = Head(plan) /\ change'.parm \in Parms \ {"LoopSwitch"}
    BY <1>4, <2>1 DEF ChangeParameter, Step
  <2>3. Request(change'.parm, 0) \in Message
    BY <2>2 DEF Request, Message
  <2>4. /\ toMirage' \in Seq(Message)
        /\ \A i \in 1 .. Len(toMirage') :
             toMirage'[i].select \notin {NoParm, "LoopSwitch"} => toMirage'[i].press = 0
    BY <1>4, <2>3, AppendShape DEF ChangeParameter, Ask, Message, Request
  <2>5. /\ pc' = "confirm" /\ midi_in_event' = FALSE /\ plan' = Tail(plan)
        /\ UNCHANGED <<docVars, parmVars, callback, fromMirage, mirageVars, counters>>
    BY <1>4 DEF ChangeParameter, Ask
  <2>6. TypeOK'
    BY <2>1, <2>2, <2>4, <2>5 DEF Pressing, Step, Message
  <2>7. Forms'
    BY <2>1, <2>2, <2>4, <2>5 DEF Pressing, Idle, Silent
  <2> QED  BY <2>6, <2>7
<1> QED  BY <1>1, <1>2, <1>3, <1>4

\* A question appended to what is sent.
LEMMA AskTyped ==
    ASSUME Typed, NEW r \in Message, r.select \notin {NoParm, "LoopSwitch"} => r.press = 0,
           toMirage' = Append(toMirage, r)
    PROVE  /\ toMirage' \in Seq(Message)
           /\ \A i \in 1 .. Len(toMirage') :
                toMirage'[i].select \notin {NoParm, "LoopSwitch"} => toMirage'[i].press = 0
<1>1. toMirage \in Seq(Message)
  BY DEF Typed, TypeOK, Message
<1> QED  BY <1>1, AppendShape DEF Typed, Forms

LEMMA TypedChange ==
    ASSUME Typed,
           \/ GetInitialValue \/ Drain \/ ParmChangeLoop
           \/ GotParameter \/ ValueDown \/ ValueUp
    PROVE  Typed'
<1> USE DEF Typed, TypeOK, Forms, docVars, parmVars, mirageVars, counters, mainUnchanged
<1>1. ASSUME NEW place \in {"drain", "ask"}, GetCurrentValue(place), pc \in Pressing,
             WaitEnds \/ Timeout
      PROVE  Typed'
  <2>1. faults' \in 0 .. MaxFaults /\ torn' \in BOOLEAN
    BY <1>1, WaitTyped
  <2>2. Request(NoParm, 0) \in Message
    BY DEF Request, Message
  <2>3. /\ toMirage' \in Seq(Message)
        /\ \A i \in 1 .. Len(toMirage') :
             toMirage'[i].select \notin {NoParm, "LoopSwitch"} => toMirage'[i].press = 0
    BY <1>1, <2>2, AskTyped DEF GetCurrentValue, Ask, Request
  <2>4. /\ pc' = place /\ midi_in_event' = FALSE /\ ReceivedParmNumber' = NoParm
        /\ UNCHANGED <<docVars, plan, change, ReceivedParmValue, callback, fromMirage, mirageVars>>
    BY <1>1 DEF GetCurrentValue, Ask
  <2>5. TypeOK'
    BY <1>1, <2>1, <2>3, <2>4 DEF Pressing, Message
  <2>6. Forms'
    BY <1>1, <2>3, <2>4 DEF Pressing, Idle
  <2> QED  BY <2>5, <2>6
<1>2. CASE GetInitialValue
  BY <1>1, <1>2 DEF GetInitialValue, Pressing
<1>3. CASE ParmChangeLoop
  BY <1>1, <1>3 DEF ParmChangeLoop, Pressing
<1>4. CASE Drain
  BY <1>4 DEF Drain, Idle, Pressing
<1>5. CASE GotParameter
  <2>1. faults' \in 0 .. MaxFaults /\ torn' \in BOOLEAN
    BY <1>5, WaitTyped DEF GotParameter
  <2>2. /\ pc = "ask" /\ pc' = "above" /\ midi_in_event' = FALSE
        /\ UNCHANGED <<docVars, plan, change, parmVars, toMirage, callback, fromMirage, mirageVars>>
    BY <1>5 DEF GotParameter
  <2> QED  BY <2>1, <2>2 DEF Pressing, Idle
<1>6. ASSUME NEW place \in {"above", "below"}, NEW other \in {"below", "next"},
             NEW pressing, NEW press \in {-1, 1}, Press(place, other, pressing, press)
      PROVE  Typed'
  <2>1. Request(NoParm, press) \in Message
    BY DEF Request, Message
  <2>2. /\ pc \in Pressing /\ pc' \in {"pressed", "below", "next"}
        /\ UNCHANGED <<docVars, plan, change, midi_in_event, parmVars, callback, fromMirage,
                       mirageVars, counters>>
    BY <1>6 DEF Press, Pressing
  <2>3. toMirage' = Append(toMirage, Request(NoParm, press)) \/ UNCHANGED toMirage
    BY <1>6 DEF Press
  <2>4. /\ toMirage' \in Seq(Message)
        /\ \A i \in 1 .. Len(toMirage') :
             toMirage'[i].select \notin {NoParm, "LoopSwitch"} => toMirage'[i].press = 0
    BY <2>1, <2>3, AskTyped DEF Request, Message
  <2>5. TypeOK'
    BY <2>2, <2>4 DEF Pressing, Message
  <2>6. Forms'
    BY <2>2, <2>4 DEF Pressing, Idle
  <2> QED  BY <2>5, <2>6
<1>7. CASE ValueDown
  BY <1>6, <1>7 DEF ValueDown
<1>8. CASE ValueUp
  BY <1>6, <1>8 DEF ValueUp
<1> QED  BY <1>2, <1>3, <1>4, <1>5, <1>7, <1>8

\* What a press does to the sampler's values: one of them moves, within the limits.
LEMMA PressedShape ==
    ASSUME InLimits(value), NEW parm \in Parms, NEW press \in -1 .. 1
    PROVE  /\ InLimits(Pressed(parm, press))
           /\ \A q \in Parms \ {parm} : Pressed(parm, press)[q] = value[q]
           /\ press = 0 => Pressed(parm, press) = value
<1> DEFINE moved == [value EXCEPT ![parm] = @ + press]
<1>1. value \in [Parms -> Byte] /\ value[parm] \in Int
  BY TransmitAssumption DEF InLimits, Byte
<1>2. \A q \in Parms \ {parm} : moved[q] = value[q]
  BY <1>1
<1>3. ASSUME press = 0 PROVE moved = value
  <2>1. value[parm] + press = value[parm]
    BY <1>1, <1>3
  <2> QED  BY <1>1, <2>1
<1>4. Pressed(parm, press) = IF InLimits(moved) THEN moved ELSE value
  BY DEF Pressed
<1> HIDE DEF moved
<1> QED  BY <1>2, <1>3, <1>4

\* What the sampler does with the next message.
LEMMA Handles ==
    ASSUME Typed, MirageHandles
    PROVE  LET r == Head(toMirage)
               p == IF r.select = NoParm THEN selected ELSE r.select
           IN  /\ toMirage # <<>> /\ r \in Message /\ r = toMirage[1]
               /\ toMirage' = Tail(toMirage) /\ toMirage' \in Seq(Message)
               /\ Len(toMirage') = Len(toMirage) - 1
               /\ \A i \in 1 .. Len(toMirage') :
                    i + 1 \in 1 .. Len(toMirage) /\ toMirage'[i] = toMirage[i + 1]
               /\ p \in Parms /\ selected' = p
               /\ value' = Pressed(p, r.press) /\ InLimits(value')
               /\ \A q \in Parms \ {p} : value'[q] = value[q]
               /\ r.press = 0 => value' = value
               /\ \/ fromMirage' = Append(fromMirage, [parm |-> p, value |-> value'[p]])
                  \/ UNCHANGED fromMirage /\ r # Request(NoParm, 0)
               /\ fromMirage' \in Seq(Answer)
               /\ UNCHANGED <<pc, docVars, plan, change, midi_in_event, parmVars, callback, counters>>
<1> DEFINE r == Head(toMirage)
           p == IF r.select = NoParm THEN selected ELSE r.select
<1>1. toMirage # <<>> /\ toMirage \in Seq(Message) /\ fromMirage \in Seq(Answer)
      /\ selected \in Parms /\ InLimits(value)
  BY DEF MirageHandles, Typed, TypeOK, Forms, Message, Answer
<1>2. /\ r \in Message /\ r = toMirage[1] /\ Tail(toMirage) \in Seq(Message)
      /\ Len(Tail(toMirage)) = Len(toMirage) - 1 /\ Len(toMirage) \in Nat
      /\ \A i \in 1 .. (Len(toMirage) - 1) : Tail(toMirage)[i] = toMirage[i + 1]
  BY <1>1, TailShape
<1>3. p \in Parms /\ r.press \in -1 .. 1
  BY <1>1, <1>2 DEF Message
<1>4. /\ selected' = p /\ value' = Pressed(p, r.press) /\ toMirage' = Tail(toMirage)
      /\ \/ fromMirage' = Append(fromMirage, [parm |-> p, value |-> value'[p]])
         \/ UNCHANGED fromMirage /\ r # Request(NoParm, 0)
      /\ UNCHANGED <<pc, docVars, plan, change, midi_in_event, parmVars, callback, counters>>
  BY DEF MirageHandles
<1> HIDE DEF r, p
<1>5. /\ InLimits(Pressed(p, r.press)) /\ \A q \in Parms \ {p} : Pressed(p, r.press)[q] = value[q]
      /\ r.press = 0 => Pressed(p, r.press) = value
  BY <1>1, <1>3, PressedShape
<1>6. InLimits(value')
  BY <1>4, <1>5 DEF InLimits
<1>7. fromMirage' \in Seq(Answer)
  <2>1. [parm |-> p, value |-> value'[p]] \in Answer
    BY <1>3, <1>6 DEF InLimits, Answer
  <2> QED  BY <1>1, <1>4, <2>1, AppendShape
<1>8. \A i \in 1 .. Len(toMirage') :
         i + 1 \in 1 .. Len(toMirage) /\ toMirage'[i] = toMirage[i + 1]
  BY <1>2, <1>4
<1> QED  BY <1>1, <1>2, <1>3, <1>4, <1>5, <1>6, <1>7, <1>8 DEF r, p

LEMMA TypedLine ==
    ASSUME Typed, MirageHandles \/ AnswerLost \/ Callback \/ ReceiveMsg
    PROVE  Typed'
<1>0. TypeOK /\ Forms
  BY DEF Typed
<1>1. CASE MirageHandles
  <2>1. /\ toMirage # <<>> /\ toMirage' \in Seq(Message) /\ fromMirage' \in Seq(Answer)
        /\ \A i \in 1 .. Len(toMirage') :
             i + 1 \in 1 .. Len(toMirage) /\ toMirage'[i] = toMirage[i + 1]
        /\ selected' \in Parms /\ InLimits(value')
        /\ UNCHANGED <<pc, docVars, plan, change, midi_in_event, parmVars, callback, counters>>
    BY <1>1, Handles
  <2>2. value' \in [Parms -> Byte]
    BY <2>1 DEF InLimits
  <2>3. TypeOK'
    BY <1>0, <2>1, <2>2 DEF TypeOK, docVars, parmVars, counters, Message, Answer
  <2>4. InLimits(value)'
    BY <2>1 DEF InLimits
  <2>5. pc' # "dialog"
    BY <1>0, <2>1 DEF Forms, Silent
  <2>6. Forms'
    BY <1>0, <2>1, <2>4, <2>5 DEF Forms, docVars, parmVars, Idle
  <2> QED  BY <2>3, <2>6 DEF Typed
<1>2. CASE AnswerLost
  <2>1. /\ faults' \in 0 .. MaxFaults /\ fromMirage' \in Seq(Answer) /\ pc # "dialog"
    BY <1>0, <1>2, TransmitAssumption, TailShape
       DEF AnswerLost, Fault, TypeOK, Forms, Answer, Silent
  <2>2. UNCHANGED <<pc, docVars, plan, change, midi_in_event, parmVars, callback, toMirage,
                    mirageVars, torn>>
    BY <1>2 DEF AnswerLost
  <2> QED  BY <1>0, <2>1, <2>2
           DEF Typed, TypeOK, Forms, docVars, parmVars, mirageVars, Idle, InLimits, Answer
<1>3. CASE ParseNumber
  <2>1. /\ callback' \in Answer /\ fromMirage' \in Seq(Answer) /\ pc # "dialog"
        /\ ReceivedParmNumber' = callback'.parm
    BY <1>0, <1>3, TailShape DEF ParseNumber, TypeOK, Forms, Answer, Silent
  <2>2. UNCHANGED <<pc, docVars, plan, change, midi_in_event, ReceivedParmValue, toMirage,
                    mirageVars, counters>>
    BY <1>3 DEF ParseNumber
  <2>3. TypeOK'
    BY <1>0, <2>1, <2>2 DEF TypeOK, docVars, mirageVars, counters, Answer
  <2>4. Forms'
    BY <1>0, <2>1, <2>2 DEF Forms, docVars, mirageVars, Idle, InLimits
  <2> QED  BY <2>3, <2>4 DEF Typed
<1>4. CASE ParseValue
  <2>1. /\ callback \in Answer /\ callback' = Stored /\ pc # "dialog"
        /\ ReceivedParmValue' \in [Parms -> Byte]
    BY <1>0, <1>4 DEF ParseValue, TypeOK, Forms, Answer, Silent
  <2>2. UNCHANGED <<pc, docVars, plan, change, midi_in_event, ReceivedParmNumber, toMirage,
                    fromMirage, mirageVars, counters>>
    BY <1>4 DEF ParseValue
  <2> QED  BY <1>0, <2>1, <2>2
           DEF Typed, TypeOK, Forms, docVars, mirageVars, counters, Idle, InLimits
<1>5. CASE SetEvent
  <2>1. callback' = NoAnswer /\ pc # "dialog" /\ midi_in_event' = TRUE
    BY <1>0, <1>5 DEF SetEvent, Forms, Silent, NoAnswer, Stored, NoParm
  <2>2. UNCHANGED <<pc, docVars, plan, change, parmVars, toMirage, fromMirage, mirageVars,
                    counters>>
    BY <1>5 DEF SetEvent
  <2> QED  BY <1>0, <2>1, <2>2
           DEF Typed, TypeOK, Forms, docVars, parmVars, mirageVars, counters, Idle, InLimits
<1>6. CASE ReceiveMsg
  <2>1. faults' \in 0 .. MaxFaults /\ midi_in_event' = TRUE
    BY <1>0, <1>6, TransmitAssumption DEF ReceiveMsg, Fault, TypeOK
  <2>2. UNCHANGED <<pc, docVars, plan, change, parmVars, callback, toMirage, fromMirage,
                    mirageVars, torn>>
    BY <1>6 DEF ReceiveMsg
  <2> QED  BY <1>0, <2>1, <2>2
           DEF Typed, TypeOK, Forms, docVars, parmVars, mirageVars, Idle, InLimits, Silent
<1> QED  BY <1>1, <1>2, <1>3, <1>4, <1>5, <1>6 DEF Callback

LEMMA TypedStep == Typed /\ [Next]_vars => Typed'
<1>1. CASE UNCHANGED vars
  BY <1>1 DEF vars, docVars, parmVars, mirageVars, counters, Typed, TypeOK, Forms, Idle,
              InLimits, Silent
<1> QED  BY <1>1, TypedPutSample, TypedNext, TypedChange, TypedLine DEF Next, Main

LEMMA TypedInvariant == Spec => []Typed
BY InitTyped, TypedStep, PTL DEF Spec

\* The types hold in every state, for every slot, document and number of faults: the switch
\* of the loop is sent as one press and every answer that is stored belongs to a parameter.
THEOREM TypeCorrect == Spec => []TypeOK
<1>1. Typed => TypeOK
  BY DEF Typed
<1> QED  BY <1>1, TypedInvariant, PTL

-----------------------------------------------------------------------------
(* The plan.                                                               *)

\* What PutSample works towards.
LEMMA GoalShape ==
    ASSUME doc \in Docs, slot \in Slots
    PROVE  /\ DOMAIN Goal \subseteq Parms \ {"LoopSwitch", "CoarseTune", "FineTune"}
           /\ "SampleEnd" \in DOMAIN Goal /\ Goal["SampleEnd"] = End
           /\ ~doc.looped => DOMAIN Goal = {"SampleEnd"}
           /\ doc.looped =>
                /\ DOMAIN Goal = {"SampleEnd", "LoopStart", "LoopEnd"}
                                   \cup (IF slot.start = 0 THEN {"LoopEndFine"} ELSE {})
                /\ Goal["LoopStart"] = slot.start + doc.loopStart
                /\ Goal["LoopEnd"] = slot.start + doc.loopEnd
                /\ slot.start = 0 => Goal["LoopEndFine"] = doc.loopFine
<1>0. doc.looped \in BOOLEAN
  BY Offered
<1>1. DOMAIN Goal = {"SampleEnd"} \cup (IF doc.looped THEN LoopGoals ELSE {})
  BY DEF Goal
<1>2. \A p \in DOMAIN Goal :
        Goal[p] = CASE p = "SampleEnd" -> slot.start + doc.pages
                    [] p = "LoopStart" -> slot.start + doc.loopStart
                    [] p = "LoopEnd"   -> slot.start + doc.loopEnd
                    [] p = "LoopEndFine" -> doc.loopFine
  BY <1>1 DEF Goal
<1>3. "SampleEnd" \in DOMAIN Goal /\ Goal["SampleEnd"] = End
  BY <1>1, <1>2 DEF End
<1>4. ASSUME ~doc.looped PROVE DOMAIN Goal = {"SampleEnd"}
  BY <1>1, <1>4
<1>5. ASSUME doc.looped
      PROVE  DOMAIN Goal = {"SampleEnd", "LoopStart", "LoopEnd"}
                             \cup (IF slot.start = 0 THEN {"LoopEndFine"} ELSE {})
  BY <1>1, <1>5 DEF LoopGoals
<1>6. ASSUME doc.looped
      PROVE  /\ Goal["LoopStart"] = slot.start + doc.loopStart
             /\ Goal["LoopEnd"] = slot.start + doc.loopEnd
             /\ slot.start = 0 => Goal["LoopEndFine"] = doc.loopFine
  BY <1>2, <1>5, <1>6
<1>7. DOMAIN Goal \subseteq Parms \ {"LoopSwitch", "CoarseTune", "FineTune"}
  BY <1>0, <1>4, <1>5 DEF Parms
<1> QED  BY <1>3, <1>4, <1>5, <1>6, <1>7

\* The targets fit a byte if the wave fits the sampler.
LEMMA TargetShape ==
    ASSUME doc \in Docs, slot \in Slots, Fits
    PROVE  /\ slot.start \in Nat /\ End \in Nat /\ slot.start + 1 <= End
           /\ Change("LoopStart", slot.start).target = slot.start
           /\ Change("LoopEnd", slot.start + 1).target = slot.start + 1
           /\ Change("SampleEnd", End).target = End
           /\ Change("LoopStart", slot.start + doc.loopStart).target = slot.start + doc.loopStart
           /\ Change("LoopEnd", slot.start + doc.loopEnd).target = slot.start + doc.loopEnd
           /\ slot.start + doc.loopEnd <= End
           /\ slot.start = 0 =>
                Change("LoopEndFine", slot.start + doc.loopFine).target = doc.loopFine
<1>1. /\ slot.start \in Byte /\ slot.start + 1 \in Byte /\ End \in Byte
      /\ slot.start + doc.loopStart \in Byte /\ slot.start + doc.loopEnd \in Byte
      /\ doc.loopFine \in Byte /\ slot.start + doc.loopEnd <= End /\ slot.start + 1 <= End
  BY Offered DEF Fits, End, Byte
<1>2. \A x \in Byte : x \in Int /\ x % ByteSize = x
  BY ModuloByte DEF Byte
<1>3. slot.start = 0 => slot.start + doc.loopFine = doc.loopFine
  BY <1>1 DEF Byte
<1> QED  BY <1>1, <1>2, <1>3 DEF Change, Byte

\* A step that is done leaves the rest of the work.
LEMMA WorkAdvances ==
    ASSUME doc \in Docs, slot \in Slots, Fits, NEW s \in Seq(Step), s # <<>>,
           NEW v \in [Parms -> Byte], Work(s, v),
           Head(s).parm = "LoopSwitch" \/ v[Head(s).parm] = Head(s).target
    PROVE  Work(Tail(s), v)
<1>1. CASE FromStart(s) /\ v["SampleEnd"] > End
  BY <1>1 DEF Work, FromStart
<1>2. CASE FromAway(s) /\ v["SampleEnd"] > End
  <2>1. v["LoopEnd"] = slot.start + 1 /\ FromEnd(Tail(s))
    <3>1. Head(s) = Change("LoopEnd", slot.start + 1)
      BY <1>2 DEF FromAway, Begins
    <3>2. Head(s).parm = "LoopEnd"
      BY <3>1 DEF Change
    <3> QED  BY <1>2, <3>1, <3>2, TargetShape DEF FromAway
  <2> QED  BY <2>1, TargetShape DEF Work
<1>3. CASE FromEnd(s) /\ v["LoopEnd"] <= End
  <2>1. v["SampleEnd"] = End /\ FromOn(Tail(s))
    <3>1. Head(s) = Change("SampleEnd", End)
      BY <1>3 DEF FromEnd, Begins
    <3>2. Head(s).parm = "SampleEnd"
      BY <3>1 DEF Change
    <3> QED  BY <1>3, <3>1, <3>2, TargetShape DEF FromEnd
  <2> QED  BY <2>1 DEF Work
<1>4. CASE v["SampleEnd"] = End /\ FromOn(s)
  BY <1>4 DEF Work, FromOn
<1>5. CASE v["SampleEnd"] = End /\ FromOff(s)
  <2>1. CASE doc.looped
    BY <1>5, <2>1 DEF Work, FromOff
  <2>2. CASE ~doc.looped
    <3>1. OnlyTuning(Tail(s)) /\ \A p \in DOMAIN Goal : v[p] = Goal[p]
      BY <1>5, <2>2, GoalShape DEF FromOff
    <3> QED  BY <1>5, <3>1 DEF Work
  <2> QED  BY <2>1, <2>2
<1>6. CASE v["SampleEnd"] = End /\ doc.looped /\ FromLoop(s)
  <2>1. Head(s) = Change("LoopStart", slot.start + doc.loopStart) /\ FromLoopEnd(Tail(s))
    BY <1>6 DEF FromLoop, Begins
  <2>2. Head(s).parm = "LoopStart"
    BY <2>1 DEF Change
  <2>3. Has(v, "LoopStart")
    BY <1>6, <2>1, <2>2, GoalShape, TargetShape DEF Has
  <2> QED  BY <1>6, <2>1, <2>3 DEF Work
<1>7. CASE v["SampleEnd"] = End /\ doc.looped /\ FromLoopEnd(s) /\ Has(v, "LoopStart")
  <2>1. Head(s) = Change("LoopEnd", slot.start + doc.loopEnd) /\ FromFine(Tail(s))
    BY <1>7 DEF FromLoopEnd, Begins
  <2>2. Head(s).parm = "LoopEnd"
    BY <2>1 DEF Change
  <2>3. Has(v, "LoopEnd")
    BY <1>7, <2>1, <2>2, GoalShape, TargetShape DEF Has
  <2> QED  BY <1>7, <2>1, <2>3 DEF Work
<1>8. CASE /\ v["SampleEnd"] = End /\ doc.looped /\ FromFine(s)
           /\ Has(v, "LoopStart") /\ Has(v, "LoopEnd")
  <2>1. /\ Head(s) = Change("LoopEndFine", slot.start + doc.loopFine)
        /\ FromSwitchOn(Tail(s))
    BY <1>8 DEF FromFine, Begins
  <2>2. Head(s).parm = "LoopEndFine"
    BY <2>1 DEF Change
  <2>3. \A p \in DOMAIN Goal : v[p] = Goal[p]
    BY <1>8, <2>1, <2>2, GoalShape, TargetShape DEF Has
  <2> QED  BY <1>8, <2>1, <2>3 DEF Work
<1>9. CASE /\ v["SampleEnd"] = End /\ (FromSwitchOn(s) \/ OnlyTuning(s))
           /\ \A p \in DOMAIN Goal : v[p] = Goal[p]
  <2>1. OnlyTuning(Tail(s))
    <3>1. CASE FromSwitchOn(s)
      BY <3>1 DEF FromSwitchOn
    <3>2. CASE OnlyTuning(s)
      <4>1. \A i \in 1 .. Len(Tail(s)) : i + 1 \in 1 .. Len(s) /\ Tail(s)[i] = s[i + 1]
        BY TailShape
      <4> QED  BY <3>2, <4>1 DEF OnlyTuning
    <3> QED  BY <1>9, <3>1, <3>2
  <2> QED  BY <1>9, <2>1 DEF Work
<1> QED  BY <1>1, <1>2, <1>3, <1>4, <1>5, <1>6, <1>7, <1>8, <1>9 DEF Work

\* The work depends neither on the switch of the loop nor on the parameter that is changed.
LEMMA WorkKeeps ==
    ASSUME doc \in Docs, slot \in Slots, NEW s \in Seq(Step),
           NEW v \in [Parms -> Byte], NEW w \in [Parms -> Byte], Work(s, v),
           \A q \in Parms \ {"LoopSwitch"} : (s # <<>> /\ q = Head(s).parm) \/ w[q] = v[q]
    PROVE  Work(s, w)
<1>0. {"SampleEnd", "LoopStart", "LoopEnd"} \subseteq Parms \ {"LoopSwitch"}
  BY DEF Parms
<1>1. CASE (FromStart(s) \/ FromAway(s)) /\ v["SampleEnd"] > End
  <2>1. w["SampleEnd"] = v["SampleEnd"]
    BY <1>0, <1>1 DEF FromStart, FromAway, Begins, Change
  <2> QED  BY <1>1, <2>1 DEF Work
<1>2. CASE FromEnd(s) /\ v["LoopEnd"] <= End
  <2>1. w["LoopEnd"] = v["LoopEnd"]
    BY <1>0, <1>2 DEF FromEnd, Begins, Change
  <2> QED  BY <1>2, <2>1 DEF Work
<1>3. CASE v["SampleEnd"] = End /\ (FromOn(s) \/ FromOff(s))
  <2>1. w["SampleEnd"] = v["SampleEnd"]
    BY <1>0, <1>3 DEF FromOn, FromOff, Switches
  <2> QED  BY <1>3, <2>1 DEF Work
<1>4. CASE v["SampleEnd"] = End /\ doc.looped /\ FromLoop(s)
  <2>1. w["SampleEnd"] = v["SampleEnd"]
    BY <1>0, <1>4 DEF FromLoop, Begins, Change
  <2> QED  BY <1>4, <2>1 DEF Work
<1>5. CASE v["SampleEnd"] = End /\ doc.looped /\ FromLoopEnd(s) /\ Has(v, "LoopStart")
  <2>1. w["SampleEnd"] = v["SampleEnd"] /\ w["LoopStart"] = v["LoopStart"]
    BY <1>0, <1>5 DEF FromLoopEnd, Begins, Change
  <2> QED  BY <1>5, <2>1 DEF Work, Has
<1>6. CASE /\ v["SampleEnd"] = End /\ doc.looped /\ FromFine(s)
           /\ Has(v, "LoopStart") /\ Has(v, "LoopEnd")
  <2>1. /\ w["SampleEnd"] = v["SampleEnd"] /\ w["LoopStart"] = v["LoopStart"]
        /\ w["LoopEnd"] = v["LoopEnd"]
    BY <1>0, <1>6 DEF FromFine, Begins, Change
  <2> QED  BY <1>6, <2>1 DEF Work, Has
<1>7. CASE /\ v["SampleEnd"] = End /\ (FromSwitchOn(s) \/ OnlyTuning(s))
           /\ \A p \in DOMAIN Goal : v[p] = Goal[p]
  <2>1. s # <<>> => Head(s).parm \in {"LoopSwitch", "CoarseTune", "FineTune"}
    <3>1. ASSUME OnlyTuning(s), s # <<>> PROVE Head(s).parm \in {"CoarseTune", "FineTune"}
      <4>1. 1 \in 1 .. Len(s) /\ Head(s) = s[1]
        BY <3>1
      <4> QED  BY <3>1, <4>1 DEF OnlyTuning
    <3> QED  BY <1>7, <3>1 DEF FromSwitchOn, Switches
  <2>2. \A p \in DOMAIN Goal : w[p] = v[p]
    BY <2>1, GoalShape
  <2>3. "SampleEnd" \in DOMAIN Goal
    BY GoalShape
  <2> QED  BY <1>7, <2>2, <2>3 DEF Work
<1> QED  BY <1>1, <1>2, <1>3, <1>4, <1>5, <1>6, <1>7 DEF Work

\* A key that goes towards the target is one the sampler does not refuse.
LEMMA WorkLegal ==
    ASSUME doc \in Docs, slot \in Slots, Fits, NEW s \in Seq(Step), s # <<>>,
           NEW v, InLimits(v), Work(s, v), Head(s).parm # "LoopSwitch",
           NEW press \in {-1, 1},
           IF press > 0 THEN v[Head(s).parm] < Head(s).target
                        ELSE v[Head(s).parm] > Head(s).target
    PROVE  InLimits([v EXCEPT ![Head(s).parm] = @ + press])
<1> DEFINE p == Head(s).parm
           x == Head(s).target
           w == [v EXCEPT ![p] = @ + press]
<1>1. Head(s) \in Step /\ p \in Parms /\ x \in Byte
  <2>1. Head(s) \in Step
    BY TailShape
  <2> QED  BY <2>1 DEF Step
<1>2. v \in [Parms -> Byte] /\ v[p] \in Byte /\ ByteSize \in Nat
  BY <1>1, TransmitAssumption DEF InLimits
<1>3. v[p] + press \in Byte /\ (press > 0 => v[p] + press <= x) /\ (press < 0 => v[p] + press >= x)
  BY <1>1, <1>2 DEF Byte
<1>4. w \in [Parms -> Byte] /\ w[p] = v[p] + press /\ \A q \in Parms \ {p} : w[q] = v[q]
  BY <1>1, <1>2, <1>3
<1>5. v["LoopSwitch"] <= 1 /\ v["LoopEnd"] <= v["SampleEnd"]
  BY DEF InLimits
<1>6. w["LoopSwitch"] <= 1
  BY <1>4, <1>5 DEF Parms
<1>7. p = "LoopEnd" => x <= v["SampleEnd"]
  <2> SUFFICES ASSUME p = "LoopEnd" PROVE x <= v["SampleEnd"]
    OBVIOUS
  <2>1. CASE FromAway(s) /\ v["SampleEnd"] > End
    BY <2>1, TargetShape, <1>2 DEF FromAway, Begins, Parms, Byte
  <2>2. CASE v["SampleEnd"] = End /\ FromLoopEnd(s)
    BY <2>2, TargetShape DEF FromLoopEnd, Begins
  <2>3. ASSUME OnlyTuning(s) PROVE FALSE
    <3>1. 1 \in 1 .. Len(s) /\ Head(s) = s[1]
      OBVIOUS
    <3> QED  BY <2>3, <3>1 DEF OnlyTuning
  <2> QED  BY <2>1, <2>2, <2>3
           DEF Work, FromStart, FromEnd, FromOn, FromOff, FromLoop, FromFine, FromSwitchOn,
               Begins, Switches, Change
<1>8. p = "SampleEnd" => v["LoopEnd"] <= x
  <2> SUFFICES ASSUME p = "SampleEnd" PROVE v["LoopEnd"] <= x
    OBVIOUS
  <2>1. CASE FromEnd(s) /\ v["LoopEnd"] <= End
    BY <2>1, TargetShape DEF FromEnd, Begins
  <2>3. ASSUME OnlyTuning(s) PROVE FALSE
    <3>1. 1 \in 1 .. Len(s) /\ Head(s) = s[1]
      OBVIOUS
    <3> QED  BY <2>3, <3>1 DEF OnlyTuning
  <2>4. ~FromStart(s) /\ ~FromAway(s) /\ ~FromLoop(s) /\ ~FromLoopEnd(s) /\ ~FromFine(s)
    BY DEF FromStart, FromAway, FromLoop, FromLoopEnd, FromFine, Begins, Change
  <2>5. ~FromOn(s) /\ ~FromOff(s) /\ ~FromSwitchOn(s)
    BY DEF FromOn, FromOff, FromSwitchOn, Switches
  <2> QED  BY <2>1, <2>3, <2>4, <2>5 DEF Work
<1>9. w["LoopEnd"] <= w["SampleEnd"]
  <2>1. /\ v["LoopEnd"] \in Int /\ v["SampleEnd"] \in Int /\ x \in Int
        /\ "LoopEnd" \in Parms /\ "SampleEnd" \in Parms
    BY <1>1, <1>2 DEF Parms, Byte
  <2>2. CASE p = "LoopEnd"
    BY <1>3, <1>4, <1>5, <1>7, <2>1, <2>2
  <2>3. CASE p = "SampleEnd"
    BY <1>3, <1>4, <1>5, <1>8, <2>1, <2>3
  <2>4. CASE p \notin {"LoopEnd", "SampleEnd"}
    BY <1>4, <1>5, <2>1, <2>4
  <2> QED  BY <2>2, <2>3, <2>4
<1> QED  BY <1>4, <1>6, <1>9 DEF InLimits

\* Two and three steps, one after the other.
LEMMA Pair ==
    ASSUME NEW S, NEW a \in S, NEW b \in S
    PROVE  <<a>> \o <<b>> = <<a, b>>
<1>1. <<a, b>> \in Seq(S) /\ <<a, b>> # <<>> /\ Head(<<a, b>>) = a /\ Tail(<<a, b>>) = <<b>>
  OBVIOUS
<1> QED  BY <1>1, HeadTail

LEMMA Triple ==
    ASSUME NEW S, NEW a \in S, NEW b \in S, NEW c \in S
    PROVE  <<a>> \o (<<b>> \o <<c>>) = <<a, b, c>>
<1>1. /\ <<a, b, c>> \in Seq(S) /\ <<a, b, c>> # <<>>
      /\ Head(<<a, b, c>>) = a /\ Tail(<<a, b, c>>) = <<b, c>>
  OBVIOUS
<1>2. <<a>> \o <<b, c>> = <<a, b, c>>
  BY <1>1, HeadTail
<1> QED  BY <1>2, Pair

\* PutSample works out a plan that starts at one of the two places, and goes to the end.
LEMMA WorkStarts ==
    ASSUME doc \in Docs, slot \in Slots, Fits, NEW coarse \in Byte, NEW fine \in Byte
    PROVE  Work(EndPlan(doc) \o LoopPlan(doc) \o TuningPlan(doc, coarse, fine), slot.value)
<1> DEFINE tune == TuningPlan(doc, coarse, fine)
           on == [parm |-> "LoopSwitch", target |-> 1, wait |-> TRUE]
           off == [parm |-> "LoopSwitch", target |-> 0, wait |-> TRUE]
           last == [parm |-> "LoopSwitch", target |-> 1, wait |-> FALSE]
           from == Change("LoopStart", slot.start + doc.loopStart)
           to == Change("LoopEnd", slot.start + doc.loopEnd)
           low == Change("LoopEndFine", slot.start + doc.loopFine)
           away == Change("LoopStart", slot.start)
           page == Change("LoopEnd", slot.start + 1)
           end == Change("SampleEnd", End)
           points == IF doc.looped THEN <<from, to, low>> \o <<last>> ELSE <<>>
           rest == points \o tune
           main == <<end>> \o (<<on>> \o (<<off>> \o rest))
           shrinks == slot.value["SampleEnd"] - slot.start > doc.pages
<1>0. /\ slot.start \in Int /\ doc.pages \in Int /\ doc.loopStart \in Int
      /\ doc.loopEnd \in Int /\ doc.loopFine \in Int
  BY Offered DEF Byte
<1>1. /\ from \in PlanStep /\ to \in PlanStep /\ low \in PlanStep
      /\ away \in PlanStep /\ page \in PlanStep /\ end \in PlanStep
  BY <1>0, ChangeType DEF Parms, End
<1>2. on \in PlanStep /\ off \in PlanStep /\ last \in PlanStep
  BY TransmitAssumption DEF PlanStep, Step, Parms, Byte
<1>3. tune \in Seq(PlanStep) /\ OnlyTuning(tune)
  <2>1. tune \in Seq(PlanStep)
    BY PlanParts
  <2>2. OnlyTuning(tune)
    BY DEF OnlyTuning, TuningPlan, Change
  <2> QED  BY <2>1, <2>2
<1>s. /\ on.parm = "LoopSwitch" /\ off.parm = "LoopSwitch" /\ last.parm = "LoopSwitch"
  OBVIOUS
<1> HIDE DEF tune, on, off, last, from, to, low, away, page, end
<1>a. ASSUME NEW a \in Seq(PlanStep), NEW b \in Seq(PlanStep), NEW c \in Seq(PlanStep)
      PROVE  (a \o b) \o c = a \o (b \o c) /\ a \o b \in Seq(PlanStep)
  BY <1>a, ConcatProperties, ConcatAssociative
<1>4. rest \in Seq(PlanStep) /\ IF doc.looped THEN FromLoop(rest) ELSE OnlyTuning(rest)
  <2>1. CASE doc.looped
    <3>1. <<from>> \in Seq(PlanStep) /\ <<to>> \in Seq(PlanStep) /\ <<low>> \in Seq(PlanStep)
          /\ <<last>> \in Seq(PlanStep)
      BY <1>1, <1>2
    <3>2. rest = <<from>> \o (<<to>> \o (<<low>> \o (<<last>> \o tune)))
      <4>1. rest = (((<<from>> \o (<<to>> \o <<low>>)) \o <<last>>) \o tune)
        BY <1>1, <2>1, Triple
      <4>2. (<<from>> \o (<<to>> \o <<low>>)) \o <<last>>
              = <<from>> \o (<<to>> \o (<<low>> \o <<last>>))
        BY <3>1, <1>a
      <4> DEFINE x == <<low>> \o <<last>>
                 y == <<to>> \o x
      <4>3. x \in Seq(PlanStep) /\ y \in Seq(PlanStep)
        BY <3>1, <1>a
      <4>4. x \o tune = <<low>> \o (<<last>> \o tune)
        BY <3>1, <1>3, <1>a
      <4> HIDE DEF x
      <4>5. y \o tune = <<to>> \o (x \o tune)
        BY <3>1, <1>3, <4>3, <1>a
      <4> HIDE DEF y
      <4>6. (<<from>> \o y) \o tune = <<from>> \o (y \o tune)
        BY <3>1, <1>3, <4>3, <1>a
      <4> QED  BY <4>1, <4>2, <4>4, <4>5, <4>6 DEF x, y
    <3> DEFINE r4 == <<last>> \o tune
               r3 == <<low>> \o r4
               r2 == <<to>> \o r3
               r1 == <<from>> \o r2
    <3>3. r4 \in Seq(PlanStep) /\ FromSwitchOn(r4)
      BY <1>2, <1>3, <1>s, ConsShape DEF FromSwitchOn, Switches
    <3> HIDE DEF r4
    <3>4. r3 \in Seq(PlanStep) /\ FromFine(r3)
      BY <1>1, <3>3, ConsShape DEF FromFine, Begins, low
    <3> HIDE DEF r3
    <3>5. r2 \in Seq(PlanStep) /\ FromLoopEnd(r2)
      BY <1>1, <3>4, ConsShape DEF FromLoopEnd, Begins, to
    <3> HIDE DEF r2
    <3>6. r1 \in Seq(PlanStep) /\ FromLoop(r1)
      BY <1>1, <3>5, ConsShape DEF FromLoop, Begins, from
    <3> QED  BY <2>1, <3>2, <3>6 DEF r4, r3, r2
  <2>2. CASE ~doc.looped
    <3>1. rest = tune
      BY <1>3, <2>2, ConcatEmptySeq
    <3> QED  BY <1>3, <2>2, <3>1
  <2> QED  BY <2>1, <2>2
<1> HIDE DEF rest
<1>5. main \in Seq(PlanStep) /\ FromEnd(main)
  <2> DEFINE r2 == <<off>> \o rest
             r1 == <<on>> \o r2
  <2>1. r2 \in Seq(PlanStep) /\ FromOff(r2)
    BY <1>2, <1>4, <1>s, ConsShape DEF FromOff, Switches
  <2> HIDE DEF r2
  <2>2. r1 \in Seq(PlanStep) /\ FromOn(r1)
    BY <1>2, <2>1, <1>s, ConsShape DEF FromOn, Switches
  <2> HIDE DEF r1
  <2>3. <<end>> \o r1 \in Seq(PlanStep) /\ FromEnd(<<end>> \o r1)
    BY <1>1, <2>2, ConsShape DEF FromEnd, Begins, end
  <2> QED  BY <2>3 DEF r1, r2
<1>6. LoopPlan(doc) \o tune = <<on>> \o (<<off>> \o rest)
  <2>1. <<on>> \in Seq(PlanStep) /\ <<off>> \in Seq(PlanStep) /\ points \in Seq(PlanStep)
    <3>1. <<from, to, low>> \in Seq(PlanStep) /\ <<last>> \in Seq(PlanStep)
      BY <1>1, <1>2
    <3> QED  BY <1>2, <3>1, <1>a
  <2>2. LoopPlan(doc) = (<<on>> \o <<off>>) \o points
    BY DEF LoopPlan, LoopSwitch, on, off, last, from, to, low
  <2> HIDE DEF points
  <2>3. LoopPlan(doc) = <<on>> \o (<<off>> \o points)
    BY <2>1, <2>2, <1>a
  <2> DEFINE x == <<off>> \o points
  <2>4. x \in Seq(PlanStep) /\ x \o tune = <<off>> \o rest
    BY <2>1, <1>3, <1>a DEF rest
  <2> HIDE DEF x
  <2>5. (<<on>> \o x) \o tune = <<on>> \o (x \o tune)
    <3>1. ASSUME NEW y \in Seq(PlanStep)
          PROVE  (<<on>> \o y) \o tune = <<on>> \o (y \o tune)
      BY <2>1, <1>3, <1>a
    <3> QED  BY <2>4, <3>1
  <2>6. LoopPlan(doc) = <<on>> \o x
    BY <2>3 DEF x
  <2>7. LoopPlan(doc) \o tune = (<<on>> \o x) \o tune
    BY <2>6, Zenon
  <2> QED  BY <2>4, <2>5, <2>7, Zenon
<1> DEFINE full == EndPlan(doc) \o LoopPlan(doc) \o tune
<1>7. full = EndPlan(doc) \o (<<on>> \o (<<off>> \o rest))
  <2>1. EndPlan(doc) \in Seq(PlanStep) /\ LoopPlan(doc) \in Seq(PlanStep)
    BY PlanParts
  <2>2. full = EndPlan(doc) \o (LoopPlan(doc) \o tune)
    BY <1>3, <2>1, <1>a
  <2> QED  BY <1>6, <2>2, Zenon
<1> DEFINE loop == <<on>> \o (<<off>> \o rest)
<1>8. loop \in Seq(PlanStep)
  <2>1. <<on>> \in Seq(PlanStep) /\ <<off>> \in Seq(PlanStep)
    BY <1>2
  <2> QED  BY <1>4, <2>1, <1>a
<1>9. CASE ~shrinks
  <2>1. EndPlan(doc) = <<end>>
    <3>1. <<end>> \in Seq(PlanStep)
      BY <1>1
    <3> QED  BY <1>9, <3>1, ConcatEmptySeq DEF EndPlan, end, End
  <2>2. full = main
    BY <1>7, <2>1
  <2>3. slot.value["LoopEnd"] <= End
    BY <1>9, Offered DEF End, Byte, Parms
  <2> QED  BY <1>5, <2>2, <2>3 DEF Work, tune
<1>10. CASE shrinks
  <2>1. /\ <<away>> \in Seq(PlanStep) /\ <<page>> \in Seq(PlanStep)
        /\ <<end>> \in Seq(PlanStep) /\ <<away, page>> \in Seq(PlanStep)
    BY <1>1
  <2>2. EndPlan(doc) = <<away, page>> \o <<end>>
    BY <1>10 DEF EndPlan, away, page, end, End
  <2> HIDE DEF loop
  <2>3. EndPlan(doc) \o loop = <<away, page>> \o (<<end>> \o loop)
    BY <1>8, <2>1, <2>2, <1>a
  <2>4. <<end>> \o loop = main
    BY DEF loop
  <2>5. <<away, page>> \o main = <<away>> \o (<<page>> \o main)
    <3>1. <<away, page>> = <<away>> \o <<page>>
      BY <1>1, Pair
    <3>2. (<<away>> \o <<page>>) \o main = <<away>> \o (<<page>> \o main)
      BY <1>5, <2>1, <1>a
    <3> QED  BY <3>1, <3>2, Zenon
  <2> HIDE DEF main
  <2>6. <<page>> \o main \in Seq(PlanStep) /\ FromAway(<<page>> \o main)
    BY <1>1, <1>5, ConsShape DEF FromAway, Begins, page
  <2>7. FromStart(<<away>> \o (<<page>> \o main))
    BY <1>1, <2>6, ConsShape DEF FromStart, Begins, away
  <2>8. full = <<away>> \o (<<page>> \o main)
    BY <1>7, <2>3, <2>4, <2>5 DEF loop
  <2>9. slot.value["SampleEnd"] > End
    BY <1>10, Offered DEF End, Byte, Parms
  <2> HIDE DEF full
  <2>10. Work(full, slot.value)
    BY <2>7, <2>8, <2>9 DEF Work
  <2> QED  BY <2>10 DEF full, tune
<1> QED  BY <1>9, <1>10

\* The document and the slot stay, so the work to be done does.
LEMMA WorkNext ==
    ASSUME NEW s, NEW v, UNCHANGED <<doc, slot>>, Work(s, v), s = todo', v = value'
    PROVE  Work(todo, value)'
<1>1. Goal' = Goal /\ End' = End
  BY DEF Goal, LoopGoals, End
<1>2. \A p : Has(v, p) => Has(value, p)'
  BY <1>1 DEF Has
<1>3. /\ OnlyTuning(s) => OnlyTuning(todo)'
      /\ FromSwitchOn(s) => FromSwitchOn(todo)'
      /\ FromFine(s) => FromFine(todo)'
      /\ FromLoopEnd(s) => FromLoopEnd(todo)'
      /\ FromLoop(s) => FromLoop(todo)'
      /\ FromOff(s) => FromOff(todo)'
      /\ FromOn(s) => FromOn(todo)'
      /\ FromEnd(s) => FromEnd(todo)'
      /\ FromAway(s) => FromAway(todo)'
      /\ FromStart(s) => FromStart(todo)'
  BY <1>1 DEF OnlyTuning, FromSwitchOn, FromFine, FromLoopEnd, FromLoop, FromOff, FromOn, FromEnd,
              FromAway, FromStart, Begins, Switches
<1> QED  BY <1>1, <1>2, <1>3 DEF Work

\* The document, the slot and the history of the faults.
LEMMA Monotone ==
    ASSUME Typed, [Next]_vars
    PROVE  /\ UNCHANGED <<doc, slot>> /\ (Fits' => Fits)
           /\ faults' = faults \/ faults' = faults + 1
           /\ torn => torn'
<1>1. UNCHANGED <<doc, slot>>
  BY DEF Next, Main, Callback, vars, docVars, mainUnchanged, PutSample, PutSampleReturns,
         SendLoopSwitch, LoopSwitchWaited, ChangeParameter, GetInitialValue, Drain,
         ParmChangeLoop, GetCurrentValue, GotParameter, ValueDown, ValueUp, Press,
         MirageHandles, AnswerLost, ParseNumber, ParseValue, SetEvent, ReceiveMsg
<1>2. (faults' = faults \/ faults' = faults + 1) /\ (torn => torn')
  <2>1. ASSUME WaitEnds \/ Timeout
        PROVE  (faults' = faults \/ faults' = faults + 1) /\ (torn => torn')
    <3>1. CASE UNCHANGED counters
      BY <3>1, Zenon DEF counters
    <3>2. CASE faults' = faults + 1 /\ torn' = (torn \/ ~Idle)
      BY <3>2, Zenon
    <3> QED  BY <2>1, <3>1, <3>2, WaitEnd, Zenon
  <2> QED  BY <2>1
           DEF Next, Main, Callback, vars, counters, PutSample, PutSampleReturns,
               SendLoopSwitch, LoopSwitchWaited, ChangeParameter, GetInitialValue, Drain,
               ParmChangeLoop, GotParameter, ValueDown, ValueUp, Press,
               MirageHandles, AnswerLost, ParseNumber, ParseValue, SetEvent, ReceiveMsg, Fault
<1> QED  BY <1>1, <1>2 DEF Fits

\* A step whose faults count is one from a state that counts.
LEMMA CountedBefore ==
    ASSUME Typed, [Next]_vars, Counted'
    PROVE  Counted /\ faults <= faults'
<1>1. faults \in Nat
  BY TransmitAssumption DEF Typed, TypeOK
<1>2. faults <= faults' /\ (faults' <= 2 => faults <= 2)
  BY <1>1, Monotone
<1>3. (Fits' => Fits) /\ (torn => torn')
  BY Monotone, Zenon
<1> QED  BY <1>2, <1>3, Zenon DEF Counted

-----------------------------------------------------------------------------
(* The steps keep the invariant.                                           *)

Held == Typed /\ Typed' /\ Counted /\ Counted' /\ faults <= faults' /\ Kept

\* A change under way is the head of the work.
LEMMA TodoShape ==
    ASSUME Typed
    PROVE  /\ todo \in Seq(Step)
           /\ pc \in Pressing => todo # <<>> /\ Head(todo) = change /\ Tail(todo) = plan
           /\ pc \in Pressing => change \in Step
<1>1. plan \in Seq(Step) /\ (pc \in Pressing => change \in Step)
  BY DEF Typed, TypeOK, Step
<1>2. ASSUME change \in Step
      PROVE  /\ <<change>> \o plan \in Seq(Step) /\ <<change>> \o plan # <<>>
             /\ Head(<<change>> \o plan) = change /\ Tail(<<change>> \o plan) = plan
  BY <1>1, <1>2, ConsShape
<1> QED  BY <1>1, <1>2 DEF todo

\* The work is the same when the plan, the change and the values are.
LEMMA WorkSame ==
    ASSUME UNCHANGED <<doc, slot, plan, change, value>>, pc \in Pressing <=> pc' \in Pressing,
           pc \notin {"dialog", "returned"}, Kept
    PROVE  Work(todo, value)'
<1>1. PICK s : s = todo
  OBVIOUS
<1>2. PICK v : v = value
  OBVIOUS
<1>3. Work(s, v) /\ s = todo' /\ v = value'
  BY <1>1, <1>2 DEF Kept, todo
<1> QED  BY <1>3, WorkNext

\* A message that is appended leaves the ones before it.
LEMMA Appends ==
    ASSUME Typed, NEW r \in Message, toMirage' = Append(toMirage, r)
    PROVE  /\ Len(toMirage) \in Nat /\ Len(toMirage') = Len(toMirage) + 1 /\ toMirage' # <<>>
           /\ toMirage'[Len(toMirage')] = r
           /\ \A i \in 1 .. Len(toMirage') :
                \/ i = Len(toMirage') /\ toMirage'[i] = r
                \/ i \in 1 .. Len(toMirage) /\ toMirage'[i] = toMirage[i]
           /\ \A i \in 1 .. Len(toMirage) : i \in 1 .. Len(toMirage') /\ toMirage'[i] = toMirage[i]
<1>1. toMirage \in Seq(Message)
  BY DEF Typed, TypeOK, Message
<1>2. /\ toMirage' # <<>> /\ Len(toMirage') = Len(toMirage) + 1 /\ Len(toMirage) \in Nat
      /\ \A i \in 1 .. Len(toMirage) : toMirage'[i] = toMirage[i]
      /\ toMirage'[Len(toMirage) + 1] = r
  BY <1>1, AppendShape
<1> QED  BY <1>2

\* A message that selects nothing leaves the selection.
LEMMA SelectsAppend ==
    ASSUME Typed, NEW r \in Message, toMirage' = Append(toMirage, r), r.select = NoParm,
           UNCHANGED <<selected, change>>, Selects
    PROVE  Selects'
<1>1. CASE /\ selected = change.parm
           /\ \A i \in 1 .. Len(toMirage) : toMirage[i].select = NoParm
  <2>1. \A i \in 1 .. Len(toMirage') : toMirage'[i].select = NoParm
    BY <1>1, Appends
  <2> QED  BY <1>1, <2>1 DEF Selects
<1>2. ASSUME NEW k \in 1 .. Len(toMirage), toMirage[k].select = change.parm,
             \A i \in 1 .. Len(toMirage) :
               IF i > k THEN toMirage[i].select = NoParm ELSE ~KeyPress(toMirage[i])
      PROVE  Selects'
  <2>1. k \in 1 .. Len(toMirage') /\ toMirage'[k].select = change'.parm
    BY <1>2, Appends
  <2>2. ASSUME NEW i \in 1 .. Len(toMirage')
        PROVE  IF i > k THEN toMirage'[i].select = NoParm ELSE ~KeyPress(toMirage'[i])
    <3>1. CASE i = Len(toMirage') /\ toMirage'[i] = r
      <4>1. i > k
        BY <1>2, <3>1, Appends
      <4> QED  BY <3>1, <4>1
    <3>2. CASE i \in 1 .. Len(toMirage) /\ toMirage'[i] = toMirage[i]
      BY <1>2, <3>2
    <3> QED  BY <3>1, <3>2, Appends
  <2> QED  BY <2>1, <2>2 DEF Selects
<1> QED  BY <1>1, <1>2 DEF Selects

\* A question for the value: the wait before it has ended, in silence if there is no fault.
LEMMA KeptAsk ==
    ASSUME Held, UNCHANGED <<doc, slot>>, NEW place, GetCurrentValue(place),
           \/ pc = "confirm" /\ place = "drain" /\ WaitEnds
           \/ pc \in {"drain", "ask"} /\ place = "ask" /\ Timeout
           \/ pc = "pressed" /\ place = "ask" /\ WaitEnds
    PROVE  Kept'
<1>0. /\ Typed /\ Typed' /\ faults <= faults' /\ Kept /\ Selects /\ Keys /\ Reads
      /\ (faults <= 1 => OneFault) /\ (faults = 0 => NoFault)
      /\ pc \in Pressing /\ pc' \in Pressing /\ change.parm \in Parms
      /\ faults \in Nat /\ faults' \in Nat
  BY TransmitAssumption DEF Held, Kept, Typed, TypeOK, Pressing, GetCurrentValue
<1> DEFINE r == Request(NoParm, 0)
<1>1. r \in Message /\ r.select = NoParm /\ ~KeyPress(r)
  BY DEF Request, Message, KeyPress
<1>2. /\ pc' = place /\ toMirage' = Append(toMirage, r) /\ ReceivedParmNumber' = NoParm
      /\ midi_in_event' = FALSE
      /\ UNCHANGED <<plan, change, ReceivedParmValue, callback, fromMirage, selected, value>>
  BY DEF GetCurrentValue, Ask, mainUnchanged, mirageVars
<1> HIDE DEF r
<1>3. /\ Len(toMirage) \in Nat /\ Len(toMirage') = Len(toMirage) + 1 /\ toMirage' # <<>>
      /\ toMirage'[Len(toMirage')] = r
      /\ \A i \in 1 .. Len(toMirage') : KeyPress(toMirage'[i]) =>
           i \in 1 .. Len(toMirage) /\ toMirage'[i] = toMirage[i]
  BY <1>0, <1>1, <1>2, Appends
<1>4. Work(todo, value)'
  BY <1>0, <1>2, WorkSame DEF Pressing
<1>5. Selects'
  BY <1>0, <1>1, <1>2, SelectsAppend
<1>6. Keys'
  <2>1. place # "ask" => pc = "confirm" /\ place = "drain"
    OBVIOUS
  <2>2. place = "drain" => NoKey'
    BY <1>0, <1>2, <1>3, <2>1 DEF Keys, NoKey
  <2> QED  BY <1>0, <1>2, <1>3, <2>1, <2>2 DEF Keys
<1>7. Reads'
  BY <1>2, <1>3 DEF Reads, r
<1>8. ASSUME faults' <= 1 PROVE OneFault'
  <2>1. OneFault
    BY <1>0, <1>8
  <2>2. AllFresh'
    BY <1>0, <1>2, <2>1 DEF OneFault, AllFresh, Fresh, Idle
  <2>3. \A i \in 1 .. Len(toMirage') :
          KeyPress(toMirage'[i]) => i = 1 /\ fromMirage' = <<>> /\ Idle'
    BY <1>0, <1>2, <1>3, <2>1 DEF OneFault, Idle
  <2>4. ReceivedParmNumber' # change'.parm /\ pc' \notin {"above", "below"}
    BY <1>0, <1>2 DEF Parms, NoParm
  <2> QED  BY <1>0, <2>2, <2>3, <2>4 DEF OneFault
<1>9. ASSUME faults' = 0 PROVE NoFault'
  <2>1. NoFault /\ faults' = faults
    BY <1>0, <1>9
  <2>2. place = "ask" => Silent
    <3>1. WaitEnds \/ Timeout => midi_in_event \/ Silent
      BY <1>0, <2>1, WaitEnd
    <3>2. Timeout => Silent
      BY <1>0, <2>1, TimeoutEnd
    <3> QED  BY <2>1, <3>1, <3>2 DEF NoFault
  <2>3. place = "ask" => Len(toMirage') = 1 /\ fromMirage' = <<>> /\ callback' = NoAnswer
    BY <1>2, <1>3, <2>2 DEF Silent
  <2> QED  BY <1>2, <2>3 DEF NoFault
<1> QED  BY <1>0, <1>4, <1>5, <1>6, <1>7, <1>8, <1>9 DEF Kept

\* The sampler handles a message.  A key is the only message that changes a parameter other
\* than the switch of the loop, and it changes the one that is to be changed.
LEMMA KeptMirage ==
    ASSUME Held, UNCHANGED <<doc, slot>>, MirageHandles
    PROVE  Kept'
<1> DEFINE r == Head(toMirage)
           p == IF r.select = NoParm THEN selected ELSE r.select
           q == change.parm
           new == [parm |-> p, value |-> value'[p]]
<1>0. /\ Typed /\ Typed' /\ Kept /\ Keys /\ Reads
      /\ (pc \in Pressing => Selects /\ q \in Parms \ {"LoopSwitch"})
      /\ (faults <= 1 => OneFault) /\ (faults = 0 => NoFault)
  BY DEF Held, Kept, Typed, TypeOK, Forms
<1>1. /\ toMirage # <<>> /\ r \in Message /\ r = toMirage[1]
      /\ Len(toMirage) \in Nat \ {0} /\ Len(toMirage') = Len(toMirage) - 1
      /\ \A i \in 1 .. Len(toMirage') :
           i + 1 \in 1 .. Len(toMirage) /\ toMirage'[i] = toMirage[i + 1]
  <2>1. toMirage \in Seq(Message)
    BY <1>0 DEF Typed, TypeOK, Message
  <2> QED  BY <1>0, <2>1, Handles
<1>2. /\ p \in Parms /\ selected' = p
      /\ \A x \in Parms \ {p} : value'[x] = value[x]
      /\ r.press = 0 => value' = value
      /\ \/ fromMirage' = Append(fromMirage, new)
         \/ UNCHANGED fromMirage /\ r # Request(NoParm, 0)
      /\ UNCHANGED <<pc, plan, change, midi_in_event, parmVars, callback, faults, torn>>
  BY <1>0, Handles DEF counters
<1>3. UNCHANGED <<ReceivedParmNumber, ReceivedParmValue>> /\ Idle' = Idle
  BY <1>2 DEF parmVars, Idle
<1>4. r.select \notin {NoParm, "LoopSwitch"} => r.press = 0
  <2>1. 1 \in 1 .. Len(toMirage)
    BY <1>1
  <2> QED  BY <1>0, <1>1, <2>1 DEF Typed, Forms
<1>5. new \in Answer /\ new.parm = p /\ new.value = value'[p]
  BY <1>0, <1>2 DEF Typed, TypeOK, Answer
<1>6. /\ fromMirage \in Seq(Answer) /\ Len(fromMirage) \in Nat
      /\ \A i \in 1 .. Len(fromMirage') :
           \/ i \in 1 .. Len(fromMirage) /\ fromMirage'[i] = fromMirage[i]
           \/ fromMirage'[i] = new
      /\ \/ /\ fromMirage' # <<>> /\ Len(fromMirage') = Len(fromMirage) + 1
            /\ fromMirage'[Len(fromMirage')] = new
         \/ UNCHANGED fromMirage /\ r # Request(NoParm, 0)
  <2>1. fromMirage \in Seq(Answer)
    BY <1>0 DEF Typed, TypeOK, Answer
  <2>2. CASE fromMirage' = Append(fromMirage, new)
    <3>1. /\ fromMirage' # <<>> /\ Len(fromMirage') = Len(fromMirage) + 1
          /\ \A i \in 1 .. Len(fromMirage) : fromMirage'[i] = fromMirage[i]
          /\ fromMirage'[Len(fromMirage) + 1] = new
      BY <1>5, <2>1, <2>2, AppendShape
    <3> QED  BY <2>1, <3>1
  <2>3. CASE UNCHANGED fromMirage /\ r # Request(NoParm, 0)
    BY <2>1, <2>3
  <2> QED  BY <1>2, <2>2, <2>3
<1> HIDE DEF r, p, new
\* The value of the parameter that is changed.
<1>7. ASSUME ~KeyPress(r) PROVE \A x \in Parms \ {"LoopSwitch"} : value'[x] = value[x]
  <2>1. r.press = 0 \/ r.select = "LoopSwitch"
    BY <1>4, <1>7 DEF KeyPress
  <2>2. r.select = "LoopSwitch" => p = "LoopSwitch"
    BY DEF p, NoParm
  <2> QED  BY <1>2, <2>1, <2>2
<1>8. ASSUME pc \in Pressing, KeyPress(r) PROVE p = q
  <2>1. 1 \in 1 .. Len(toMirage) /\ r.select = NoParm
    BY <1>1, <1>8 DEF KeyPress
  <2>2. selected = q
    BY <1>0, <1>1, <1>8, <2>1 DEF Selects
  <2> QED  BY <2>1, <2>2 DEF p
<1>9. NoKey => ~KeyPress(r)
  BY <1>1 DEF NoKey
<1>10. pc \in Pressing /\ ~KeyPress(r) => value'[q] = value[q]
  BY <1>0, <1>7
<1>11. ASSUME NEW a, Fresh(a), pc \in Pressing, ~KeyPress(r)
       PROVE  a.parm = q => a.value = value'[q]
  BY <1>10, <1>11 DEF Fresh
<1>12. new.parm = q => new.value = value'[q]
  BY <1>5
\* The parts of the invariant.
<1>13. pc \notin {"dialog", "returned"} => Work(todo, value)'
  <2> SUFFICES ASSUME pc \notin {"dialog", "returned"} PROVE Work(todo, value)'
    OBVIOUS
  <2>1. PICK s : s = todo
    OBVIOUS
  <2>2. PICK v : v = value
    OBVIOUS
  <2>3. PICK w : w = value'
    OBVIOUS
  <2>4. /\ s \in Seq(Step) /\ v \in [Parms -> Byte] /\ w \in [Parms -> Byte]
        /\ doc \in Docs /\ slot \in Slots
    BY <1>0, <2>1, <2>2, <2>3, TodoShape DEF Typed, TypeOK
  <2>5. \A x \in Parms \ {"LoopSwitch"} : (s # <<>> /\ x = Head(s).parm) \/ w[x] = v[x]
    <3>1. CASE pc \in Pressing
      <4>1. s # <<>> /\ Head(s).parm = q
        BY <1>0, <2>1, <3>1, TodoShape
      <4>2. \A x \in Parms \ {"LoopSwitch", q} : w[x] = v[x]
        BY <1>2, <1>7, <1>8, <2>2, <2>3, <3>1
      <4> QED  BY <4>1, <4>2
    <3>2. CASE pc \notin Pressing
      <4>1. NoKey
        BY <1>0, <3>2 DEF Keys, Pressing
      <4> QED  BY <1>7, <1>9, <2>2, <2>3, <4>1
    <3> QED  BY <3>1, <3>2
  <2>6. Work(s, v)
    BY <1>0, <2>1, <2>2 DEF Kept
  <2>7. Work(s, w)
    BY <2>4, <2>5, <2>6, WorkKeeps
  <2>8. s = todo'
    BY <1>2, <2>1 DEF todo
  <2> QED  BY <2>3, <2>7, <2>8, WorkNext
<1>14. pc \in Pressing => Selects'
  <2> SUFFICES ASSUME pc \in Pressing PROVE Selects'
    OBVIOUS
  <2>1. CASE /\ selected = q
             /\ \A i \in 1 .. Len(toMirage) : toMirage[i].select = NoParm
    <3>1. selected' = change'.parm
      BY <1>1, <1>2, <2>1 DEF p
    <3> QED  BY <1>1, <2>1, <3>1 DEF Selects
  <2>2. ASSUME NEW k \in 1 .. Len(toMirage), toMirage[k].select = q,
               \A i \in 1 .. Len(toMirage) :
                 IF i > k THEN toMirage[i].select = NoParm ELSE ~KeyPress(toMirage[i])
        PROVE  Selects'
    <3>1. CASE k = 1
      <4>1. selected' = change'.parm
        BY <1>0, <1>1, <1>2, <2>2, <3>1 DEF p, Parms, NoParm
      <4>2. \A i \in 1 .. Len(toMirage') : toMirage'[i].select = NoParm
        BY <1>1, <2>2, <3>1
      <4> QED  BY <4>1, <4>2 DEF Selects
    <3>2. CASE k > 1
      <4>1. k - 1 \in 1 .. Len(toMirage') /\ toMirage'[k - 1].select = change'.parm
        BY <1>1, <1>2, <2>2, <3>2
      <4>2. ASSUME NEW i \in 1 .. Len(toMirage')
            PROVE  IF i > k - 1 THEN toMirage'[i].select = NoParm ELSE ~KeyPress(toMirage'[i])
        <5>1. i + 1 \in 1 .. Len(toMirage) /\ toMirage'[i] = toMirage[i + 1]
              /\ (i > k - 1 <=> i + 1 > k)
          BY <1>1, <2>2
        <5> QED  BY <2>2, <5>1
      <4> QED  BY <4>1, <4>2 DEF Selects
    <3> QED  BY <2>2, <3>1, <3>2
  <2> QED  BY <1>0, <2>1, <2>2 DEF Selects
<1>15. Keys'
  <2>1. ASSUME NEW i \in 1 .. Len(toMirage'), KeyPress(toMirage'[i])
        PROVE  ~KeyPress(r) /\ i + 1 \in 1 .. Len(toMirage) /\ toMirage'[i] = toMirage[i + 1]
    <3>1. i + 1 \in 1 .. Len(toMirage) /\ 1 \in 1 .. Len(toMirage) /\ 1 # i + 1
      BY <1>1
    <3> QED  BY <1>0, <1>1, <2>1, <3>1 DEF Keys
  <2>2. \A i, j \in 1 .. Len(toMirage') :
          KeyPress(toMirage'[i]) /\ KeyPress(toMirage'[j]) => i = j
    <3> SUFFICES ASSUME NEW i \in 1 .. Len(toMirage'), NEW j \in 1 .. Len(toMirage'),
                        KeyPress(toMirage'[i]), KeyPress(toMirage'[j])
                 PROVE  i = j
      OBVIOUS
    <3>1. i + 1 = j + 1
      BY <1>0, <2>1 DEF Keys
    <3> QED  BY <3>1
  <2>3. NoKey => NoKey'
    BY <1>1 DEF NoKey
  <2>4. ASSUME NEW i \in 1 .. Len(toMirage'), KeyPress(toMirage'[i])
        PROVE  IF toMirage'[i].press > 0 THEN value'[q] < change.target
                                         ELSE value'[q] > change.target
    <3>1. ~NoKey
      BY <2>3, <2>4 DEF NoKey
    <3>2. pc \in Pressing
      BY <1>0, <3>1 DEF Keys, Pressing
    <3>3. value'[q] = value[q]
      BY <1>10, <2>1, <2>4, <3>2
    <3> QED  BY <1>0, <2>1, <2>4, <3>3 DEF Keys
  <2> QED  BY <1>0, <1>2, <2>2, <2>3, <2>4 DEF Keys
<1>16. Reads'
  <2>1. pc \in {"above", "below"} => pc \in Pressing /\ ~KeyPress(r)
    BY <1>0, <1>9 DEF Keys, Pressing
  <2>2. pc = "below" => value'[q] <= change.target
    BY <1>0, <1>10, <2>1 DEF Reads
  <2>3. ASSUME pc \in {"above", "below"}
        PROVE  AllFresh' /\ ReceivedParmValue'[q] = value'[q]
    <3>1. AllFresh'
      BY <1>0, <1>2, <1>3, <1>6, <1>11, <1>12, <2>1, <2>3 DEF Reads, AllFresh, Fresh
    <3> QED  BY <1>0, <1>3, <1>10, <2>1, <2>3, <3>1 DEF Reads
  <2>4. ASSUME pc = "ask", toMirage' # <<>>
        PROVE  toMirage'[Len(toMirage')] = Request(NoParm, 0)
    <3>1. Len(toMirage') \in 1 .. Len(toMirage')
      <4>1. toMirage' \in Seq(Message)
        BY <1>0 DEF Typed, TypeOK, Message
      <4> QED  BY <2>4, <4>1
    <3> QED  BY <1>0, <1>1, <2>4, <3>1 DEF Reads
  <2>5. ASSUME pc = "ask", toMirage' = <<>>
        PROVE  fromMirage' # <<>> /\ fromMirage'[Len(fromMirage')] = new
    <3>1. r = Request(NoParm, 0)
      <4>1. Len(toMirage') = 0
        BY <2>5
      <4>2. Len(toMirage) = 1
        BY <1>1, <4>1
      <4> QED  BY <1>0, <1>1, <2>5, <4>2 DEF Reads
    <3> QED  BY <1>6, <3>1
  <2> QED  BY <1>2, <1>12, <2>2, <2>3, <2>4, <2>5 DEF Reads, Fresh
<1>17. ASSUME OneFault PROVE OneFault'
  <2>1. ASSUME pc \in Pressing PROVE AllFresh'
    <3>1. CASE KeyPress(r)
      <4>1. fromMirage = <<>> /\ Idle
        BY <1>1, <1>17, <2>1, <3>1 DEF OneFault
      <4> QED  BY <1>2, <1>3, <1>6, <1>12, <4>1 DEF AllFresh, Fresh
    <3>2. CASE ~KeyPress(r)
      BY <1>2, <1>3, <1>6, <1>11, <1>12, <1>17, <2>1, <3>2 DEF OneFault, AllFresh, Fresh
    <3> QED  BY <3>1, <3>2
  <2>2. ASSUME pc \in Pressing, NEW i \in 1 .. Len(toMirage'), KeyPress(toMirage'[i])
        PROVE  FALSE
    <3>1. i + 1 = 1
      BY <1>1, <1>17, <2>2 DEF OneFault
    <3> QED  BY <3>1
  <2>3. ASSUME pc \notin Pressing
        PROVE  /\ \A i \in 1 .. Len(toMirage') : toMirage'[i].select = "LoopSwitch"
               /\ \A i \in 1 .. Len(fromMirage') : fromMirage'[i].parm = "LoopSwitch"
    <3>1. p = "LoopSwitch"
      BY <1>1, <1>17, <2>3 DEF OneFault, p, NoParm
    <3> QED  BY <1>1, <1>5, <1>6, <1>17, <2>3, <3>1 DEF OneFault
  <2>4. pc = "ask" /\ ReceivedParmNumber' = q =>
          NoKey' /\ (Idle' => ReceivedParmValue'[q] = value'[q])
    <3>1. NoKey => NoKey'
      BY <1>1 DEF NoKey
    <3>2. pc = "ask" => pc \in Pressing
      BY DEF Pressing
    <3> QED  BY <1>3, <1>9, <1>10, <1>17, <3>1, <3>2 DEF OneFault
  <2>5. pc \notin {"above", "below"}
    BY <1>1, <1>17 DEF OneFault
  <2> QED  BY <1>2, <1>3, <1>17, <2>1, <2>2, <2>3, <2>4, <2>5 DEF OneFault
<1>18. ASSUME NoFault PROVE NoFault'
  <2>1. pc \notin {"above", "below"} /\ ~(pc = "pressed" /\ midi_in_event)
    BY <1>1, <1>18 DEF NoFault, Silent
  <2>2. pc = "ask" => ReceivedParmNumber' = NoParm
    BY <1>1, <1>3, <1>18 DEF NoFault
  <2>3. ASSUME pc \in {"ask", "pressed"}
        PROVE  toMirage' = <<>> /\ Len(fromMirage') \in {0, 1} /\ callback' = NoAnswer
    <3>1. Len(toMirage) = 1 /\ fromMirage = <<>> /\ callback = NoAnswer
      BY <1>1, <1>18, <2>3 DEF NoFault
    <3>2. Len(fromMirage) = 0
      BY <3>1
    <3>3. toMirage' = <<>>
      <4>1. toMirage' \in Seq(Message) /\ Len(toMirage') = 0
        BY <1>0, <1>1, <3>1 DEF Typed, TypeOK, Message
      <4> QED  BY <4>1
    <3> QED  BY <1>2, <1>6, <3>1, <3>2, <3>3
  <2>4. fromMirage' # <<>> => Len(fromMirage') # 0
    <3>1. fromMirage' \in Seq(Answer)
      BY <1>0 DEF Typed, TypeOK, Answer
    <3> QED  BY <3>1
  <2> QED  BY <1>2, <2>1, <2>2, <2>3, <2>4 DEF NoFault, Silent
<1> QED  BY <1>0, <1>2, <1>13, <1>14, <1>15, <1>16, <1>17, <1>18 DEF Kept

\* The callback takes an answer.
LEMMA KeptParseNumber ==
    ASSUME Held, UNCHANGED <<doc, slot>>, ParseNumber
    PROVE  Kept'
<1> DEFINE q == change.parm
<1>0. /\ Typed /\ Typed' /\ Kept /\ Keys /\ Reads
      /\ (pc \in Pressing => Selects)
      /\ (faults <= 1 => OneFault) /\ (faults = 0 => NoFault)
  BY DEF Held, Kept
<1>1. /\ callback = NoAnswer /\ fromMirage # <<>>
      /\ callback' = fromMirage[1] /\ ReceivedParmNumber' = callback'.parm
      /\ Len(fromMirage) \in Nat \ {0} /\ Len(fromMirage') = Len(fromMirage) - 1
      /\ \A i \in 1 .. Len(fromMirage') :
           i + 1 \in 1 .. Len(fromMirage) /\ fromMirage'[i] = fromMirage[i + 1]
      /\ fromMirage' = <<>> <=> Len(fromMirage) = 1
      /\ UNCHANGED <<pc, plan, change, midi_in_event, ReceivedParmValue, toMirage, selected, value,
                     faults, torn>>
  <2>1. fromMirage \in Seq(Answer) /\ fromMirage' \in Seq(Answer)
    BY <1>0 DEF Typed, TypeOK, Answer
  <2>2. /\ Head(fromMirage) = fromMirage[1] /\ Len(Tail(fromMirage)) = Len(fromMirage) - 1
        /\ \A i \in 1 .. (Len(fromMirage) - 1) : Tail(fromMirage)[i] = fromMirage[i + 1]
    BY <2>1, TailShape DEF ParseNumber
  <2>3. Len(fromMirage) \in Nat \ {0} /\ (fromMirage' = <<>> <=> Len(fromMirage') = 0)
    <3>1. \A s \in Seq(Answer) : Len(s) \in Nat /\ (s = <<>> <=> Len(s) = 0)
      OBVIOUS
    <3>2. fromMirage # <<>>
      BY DEF ParseNumber
    <3> QED  BY <2>1, <3>1, <3>2
  <2> QED  BY <2>2, <2>3 DEF ParseNumber, mirageVars, counters
<1>2. Idle /\ 1 \in 1 .. Len(fromMirage)
  BY <1>1 DEF Idle
<1>3. ~Idle'
  <2>1. callback' \in Answer
    <3>1. fromMirage \in Seq(Answer)
      BY <1>0 DEF Typed, TypeOK, Answer
    <3> QED  BY <1>1, <3>1
  <2> QED  BY <2>1 DEF Idle, Answer, NoAnswer, Stored, Parms, NoParm
<1>4. pc \notin {"dialog", "returned"} => Work(todo, value)'
  BY <1>0, <1>1, WorkSame
<1>5. pc \in Pressing => Selects'
  BY <1>0, <1>1 DEF Selects
<1>6. Keys'
  BY <1>0, <1>1 DEF Keys, NoKey
<1>7. AllFresh => AllFresh'
  BY <1>1, <1>2 DEF AllFresh, Fresh
<1>8. Reads'
  <2>1. ASSUME pc = "ask", toMirage = <<>>
        PROVE  /\ fromMirage' # <<>> => Fresh(fromMirage'[Len(fromMirage')])
               /\ fromMirage' = <<>> => Fresh(callback')
    BY <1>0, <1>1, <2>1 DEF Reads
  <2> QED  BY <1>0, <1>1, <1>3, <1>7, <2>1 DEF Reads, Fresh
<1>9. ASSUME OneFault PROVE OneFault'
  <2>1. pc \in Pressing => NoKey'
    BY <1>1, <1>9 DEF OneFault, NoKey
  <2>2. pc \notin {"above", "below"}
    BY <1>1, <1>9 DEF OneFault
  <2>3. pc = "ask" => pc \in Pressing
    BY DEF Pressing
  <2> QED  BY <1>1, <1>2, <1>3, <1>7, <1>9, <2>1, <2>2, <2>3 DEF OneFault, NoKey
<1>10. ASSUME NoFault PROVE NoFault'
  BY <1>1, <1>10 DEF NoFault, Silent
<1> QED  BY <1>0, <1>1, <1>4, <1>5, <1>6, <1>8, <1>9, <1>10 DEF Kept

\* The callback stores the value.
LEMMA KeptParseValue ==
    ASSUME Held, UNCHANGED <<doc, slot>>, ParseValue
    PROVE  Kept'
<1> DEFINE q == change.parm
<1>0. /\ Typed /\ Typed' /\ Kept /\ Keys /\ Reads
      /\ (pc \in Pressing => Selects /\ q \in Parms)
      /\ (faults <= 1 => OneFault) /\ (faults = 0 => NoFault)
  BY DEF Held, Kept, Typed, TypeOK
<1>1. /\ ~Idle /\ callback' = Stored /\ Idle'
      /\ ReceivedParmValue' = [ReceivedParmValue EXCEPT ![callback.parm] = callback.value]
      /\ ReceivedParmValue \in [Parms -> Byte]
      /\ ReceivedParmNumber \in {callback.parm, NoParm}
      /\ UNCHANGED <<pc, plan, change, midi_in_event, ReceivedParmNumber, toMirage, fromMirage,
                     selected, value, faults, torn>>
  BY <1>0 DEF ParseValue, mirageVars, counters, Idle, Typed, TypeOK, Forms
<1>2. ASSUME pc \in Pressing, Fresh(callback),
             ReceivedParmNumber = q \/ ReceivedParmValue[q] = value[q]
      PROVE  ReceivedParmValue'[q] = value'[q]
  <2>1. q # NoParm
    BY <1>0, <1>2 DEF Parms, NoParm
  <2>2. callback.parm = q => callback.value = value[q]
    BY <1>2 DEF Fresh
  <2>3. callback.parm # q => ReceivedParmValue[q] = value[q]
    BY <1>1, <1>2, <2>1
  <2> QED  BY <1>0, <1>1, <1>2, <2>2, <2>3
<1>3. {"ask", "above", "below", "pressed"} \subseteq Pressing
  BY DEF Pressing
<1>4. pc \notin {"dialog", "returned"} => Work(todo, value)'
  BY <1>0, <1>1, WorkSame
<1>5. pc \in Pressing => Selects'
  BY <1>0, <1>1 DEF Selects
<1>6. Keys'
  BY <1>0, <1>1 DEF Keys, NoKey
<1>7. AllFresh => AllFresh' /\ Fresh(callback)
  BY <1>1 DEF AllFresh, Fresh
<1>8. Reads'
  BY <1>0, <1>1, <1>2, <1>3, <1>7 DEF Reads, Fresh
<1>9. ASSUME OneFault PROVE OneFault'
  <2>1. pc \in Pressing => NoKey'
    BY <1>1, <1>9 DEF OneFault, NoKey
  <2>2. pc \notin {"above", "below"}
    BY <1>1, <1>9 DEF OneFault
  <2> QED  BY <1>1, <1>2, <1>3, <1>7, <1>9, <2>1, <2>2 DEF OneFault, NoKey
<1>10. ASSUME NoFault PROVE NoFault'
  <2>1. callback # NoAnswer
    BY <1>1 DEF Idle
  <2> QED  BY <1>1, <1>10, <2>1 DEF NoFault, Silent
<1> QED  BY <1>0, <1>1, <1>4, <1>5, <1>6, <1>8, <1>9, <1>10 DEF Kept

\* The event is set, by the callback or by a short message, or reset by the drain.
LEMMA KeptEvent ==
    ASSUME Held, UNCHANGED <<doc, slot>>, SetEvent \/ ReceiveMsg \/ Drain
    PROVE  Kept'
<1>0. /\ Typed /\ Typed' /\ Kept /\ Keys /\ Reads /\ faults \in Nat
      /\ (pc \in Pressing => Selects)
      /\ (faults <= 1 => OneFault) /\ (faults = 0 => NoFault)
  BY TransmitAssumption DEF Held, Kept, Typed, TypeOK
<1>1. /\ UNCHANGED <<pc, plan, change, ReceivedParmNumber, ReceivedParmValue, toMirage,
                     fromMirage, selected, value>>
      /\ Idle' = Idle
      /\ (~Idle => callback' = callback)
  BY DEF SetEvent, ReceiveMsg, Drain, parmVars, mirageVars, mainUnchanged, Idle, NoAnswer, Stored
<1>2. \/ faults' = faults + 1
      \/ faults' = faults /\ callback = Stored /\ callback' = NoAnswer /\ midi_in_event' = TRUE
      \/ faults' = faults /\ callback' = callback /\ pc \in {"drain", "ask"}
  BY DEF SetEvent, ReceiveMsg, Drain, Fault, counters, mainUnchanged
<1>3. pc \notin {"dialog", "returned"} => Work(todo, value)'
  BY <1>0, <1>1, WorkSame
<1>4. pc \in Pressing => Selects'
  BY <1>0, <1>1 DEF Selects
<1>5. Keys'
  BY <1>0, <1>1 DEF Keys, NoKey
<1>6. AllFresh => AllFresh'
  BY <1>1 DEF AllFresh, Fresh
<1>7. Reads'
  BY <1>0, <1>1, <1>6 DEF Reads, Fresh
<1>8. ASSUME faults' <= 1 PROVE OneFault'
  <2>1. OneFault
    BY <1>0, <1>2, <1>8
  <2> QED  BY <1>1, <1>6, <2>1 DEF OneFault, NoKey
<1>9. ASSUME faults' = 0 PROVE NoFault'
  <2>1. NoFault /\ faults' = faults
    BY <1>0, <1>2, <1>9
  <2>2. Stored # NoAnswer
    BY DEF Stored, NoAnswer, NoParm
  <2>3. CASE callback = Stored /\ callback' = NoAnswer
    BY <1>1, <2>1, <2>2, <2>3 DEF NoFault, Silent
  <2>4. CASE callback' = callback /\ pc \in {"drain", "ask"}
    BY <1>1, <2>1, <2>4 DEF NoFault
  <2> QED  BY <1>0, <1>2, <2>1, <2>3, <2>4
<1> QED  BY <1>0, <1>1, <1>3, <1>4, <1>5, <1>7, <1>8, <1>9 DEF Kept

\* The input device loses an answer.
LEMMA KeptAnswerLost ==
    ASSUME Held, UNCHANGED <<doc, slot>>, AnswerLost
    PROVE  Kept'
<1>0. /\ Typed /\ Typed' /\ Kept /\ Keys /\ Reads
      /\ (pc \in Pressing => Selects)
  BY DEF Held, Kept
<1>1. OneFault /\ faults' # 0
  <2>1. faults \in Nat /\ faults' = faults + 1 /\ faults' <= 2
    BY <1>0, TransmitAssumption DEF AnswerLost, Fault, Typed, TypeOK, Held, Counted
  <2> QED  BY <1>0, <2>1 DEF Kept
<1>2. /\ fromMirage # <<>>
      /\ Len(fromMirage) \in Nat \ {0} /\ Len(fromMirage') = Len(fromMirage) - 1
      /\ \A i \in 1 .. Len(fromMirage') :
           i + 1 \in 1 .. Len(fromMirage) /\ fromMirage'[i] = fromMirage[i + 1]
      /\ fromMirage' = <<>> <=> Len(fromMirage) = 1
      /\ UNCHANGED <<pc, plan, change, midi_in_event, ReceivedParmNumber, ReceivedParmValue,
                     callback, toMirage, selected, value>>
  <2>1. fromMirage \in Seq(Answer) /\ fromMirage' \in Seq(Answer)
    BY <1>0 DEF Typed, TypeOK, Answer
  <2>2. /\ Len(Tail(fromMirage)) = Len(fromMirage) - 1
        /\ \A i \in 1 .. (Len(fromMirage) - 1) : Tail(fromMirage)[i] = fromMirage[i + 1]
    BY <2>1, TailShape DEF AnswerLost
  <2>3. Len(fromMirage) \in Nat \ {0} /\ (fromMirage' = <<>> <=> Len(fromMirage') = 0)
    <3>1. \A s \in Seq(Answer) : Len(s) \in Nat /\ (s = <<>> <=> Len(s) = 0)
      OBVIOUS
    <3>2. fromMirage # <<>>
      BY DEF AnswerLost
    <3> QED  BY <2>1, <3>1, <3>2
  <2> QED  BY <2>2, <2>3 DEF AnswerLost, mirageVars, parmVars
<1>3. pc \notin {"dialog", "returned"} => Work(todo, value)'
  BY <1>0, <1>2, WorkSame
<1>4. pc \in Pressing => Selects'
  BY <1>0, <1>2 DEF Selects
<1>5. Keys'
  BY <1>0, <1>2 DEF Keys, NoKey
<1>6. AllFresh => AllFresh'
  BY <1>2 DEF AllFresh, Fresh, Idle
<1>7. Reads'
  <2>1. ASSUME pc = "ask", toMirage = <<>>
        PROVE  /\ fromMirage' # <<>> => Fresh(fromMirage'[Len(fromMirage')])
               /\ ~Idle => Fresh(callback)
               /\ Idle /\ ReceivedParmNumber = change.parm =>
                    ReceivedParmValue[change.parm] = value[change.parm]
    <3>1. pc \in Pressing
      BY <2>1 DEF Pressing
    <3>2. fromMirage' # <<>> => Fresh(fromMirage'[Len(fromMirage')])
      BY <1>0, <1>2, <2>1 DEF Reads
    <3> QED  BY <1>1, <3>1, <3>2, <2>1 DEF OneFault, AllFresh
  <2> QED  BY <1>0, <1>2, <1>6, <2>1 DEF Reads, Fresh, Idle
<1>8. OneFault'
  BY <1>1, <1>2, <1>6 DEF OneFault, NoKey, Idle
<1> QED  BY <1>1, <1>2, <1>3, <1>4, <1>5, <1>7, <1>8 DEF Kept

\* The number is the one that was asked for.  In silence the value is that of the last answer;
\* otherwise it is the second fault and no answer was stale.
LEMMA KeptGotParameter ==
    ASSUME Held, UNCHANGED <<doc, slot>>, GotParameter
    PROVE  Kept'
<1> DEFINE q == change.parm
<1>0. /\ Typed /\ Typed' /\ Kept /\ Keys /\ Reads /\ Selects /\ q \in Parms
      /\ faults \in Nat /\ (faults <= 1 => OneFault) /\ (faults = 0 => NoFault)
      /\ pc = "ask" /\ pc \in Pressing
  BY TransmitAssumption DEF Held, Kept, GotParameter, Typed, TypeOK, Pressing
<1>1. /\ pc' = "above" /\ pc' \in Pressing /\ midi_in_event' = FALSE
      /\ ReceivedParmNumber = q
      /\ UNCHANGED <<plan, change, ReceivedParmNumber, ReceivedParmValue, callback, toMirage,
                     fromMirage, selected, value>>
  BY DEF GotParameter, parmVars, mirageVars, mainUnchanged, Pressing
<1>2. \/ faults' = faults /\ Silent
      \/ faults' = faults + 1 /\ faults' <= 2 /\ Idle
  <2>1. Timeout /\ faults' <= 2 /\ ~torn'
    BY DEF GotParameter, Held, Counted
  <2>2. CASE UNCHANGED counters /\ Silent
    BY <2>2 DEF counters
  <2>3. CASE faults' = faults + 1 /\ torn' = (torn \/ ~Idle)
    <3>1. Idle
      BY <2>1, <2>3, Zenon
    <3> QED  BY <2>1, <2>3, <3>1
  <2> QED  BY <2>1, <2>2, <2>3, TimeoutEnd
<1>3. Silent => toMirage = <<>> /\ fromMirage = <<>> /\ Idle /\ callback = NoAnswer
  BY DEF Silent, Idle
<1>4. NoKey /\ AllFresh /\ ReceivedParmValue[q] = value[q]
  <2>1. CASE Silent
    BY <1>0, <1>1, <1>3, <2>1 DEF Reads, NoKey, AllFresh
  <2>2. CASE faults' = faults + 1 /\ faults' <= 2 /\ Idle
    <3>1. OneFault
      BY <1>0, <2>2
    <3> QED  BY <1>0, <1>1, <2>2, <3>1 DEF OneFault
  <2> QED  BY <1>2, <2>1, <2>2
<1>5. Work(todo, value)'
  BY <1>0, <1>1, WorkSame
<1>6. Selects'
  BY <1>0, <1>1 DEF Selects
<1>7. Keys'
  BY <1>0, <1>1, <1>4 DEF Keys, NoKey
<1>8. AllFresh' /\ Idle' = Idle
  BY <1>1, <1>4 DEF AllFresh, Fresh, Idle
<1>9. Reads'
  BY <1>1, <1>4, <1>8 DEF Reads
<1>10. ASSUME faults' <= 1 PROVE OneFault'
  <2>1. toMirage = <<>> /\ fromMirage = <<>> /\ Idle
    <3>1. CASE Silent
      BY <1>3, <3>1
    <3>2. CASE faults' = faults + 1 /\ Idle
      <4>1. NoFault
        BY <1>0, <1>10, <3>2
      <4>2. q # NoParm
        BY <1>0 DEF Parms, NoParm
      <4> QED  BY <1>0, <1>1, <3>2, <4>1, <4>2 DEF NoFault
    <3> QED  BY <1>2, <3>1, <3>2
  <2> QED  BY <1>1, <1>8, <2>1 DEF OneFault
<1>11. ASSUME faults' = 0 PROVE NoFault'
  <2>1. Silent
    BY <1>0, <1>2, <1>11
  <2> QED  BY <1>1, <1>3, <2>1 DEF NoFault, Silent
<1> QED  BY <1>1, <1>5, <1>6, <1>7, <1>9, <1>10, <1>11 DEF Kept

\* A key is pressed: the value that was read is the sampler's, so the key goes towards the
\* target.
LEMMA KeptPressed ==
    ASSUME Held, UNCHANGED <<doc, slot>>, pc \in {"above", "below"}, NEW press \in {-1, 1},
           pc' = "pressed", toMirage' = Append(toMirage, Request(NoParm, press)),
           IF press > 0 THEN ReceivedParmValue[change.parm] < change.target
                        ELSE ReceivedParmValue[change.parm] > change.target,
           UNCHANGED <<plan, change, midi_in_event, parmVars, counters>>, mainUnchanged
    PROVE  Kept'
<1> DEFINE q == change.parm
           r == Request(NoParm, press)
<1>0. /\ Typed /\ Typed' /\ Kept /\ Keys /\ Reads /\ Selects
      /\ (faults <= 1 => OneFault) /\ (faults = 0 => NoFault)
      /\ pc \in Pressing /\ pc' \in Pressing
  BY DEF Held, Kept, Pressing
<1>1. UNCHANGED <<plan, change, midi_in_event, ReceivedParmNumber, ReceivedParmValue, callback,
                  fromMirage, selected, value, faults, torn>>
  BY DEF parmVars, counters, mainUnchanged, mirageVars
<1>2. r \in Message /\ r.select = NoParm /\ r.press = press
  BY DEF Request, Message
<1> HIDE DEF r
<1>3. /\ Len(toMirage) \in Nat /\ Len(toMirage') = Len(toMirage) + 1 /\ toMirage' # <<>>
      /\ toMirage'[Len(toMirage')] = r
      /\ \A i \in 1 .. Len(toMirage') :
           \/ i = Len(toMirage') /\ toMirage'[i] = r
           \/ i \in 1 .. Len(toMirage) /\ toMirage'[i] = toMirage[i]
  BY <1>0, <1>2, Appends DEF r
<1>4. NoKey /\ AllFresh /\ ReceivedParmValue[q] = value[q]
  BY <1>0 DEF Keys, Reads
<1>5. Work(todo, value)'
  BY <1>0, <1>1, WorkSame DEF Pressing
<1>6. Selects'
  BY <1>0, <1>1, <1>2, SelectsAppend DEF r
<1>7. Keys'
  <2>1. \A i \in 1 .. Len(toMirage') :
          KeyPress(toMirage'[i]) => i = Len(toMirage') /\ toMirage'[i] = r
    BY <1>3, <1>4 DEF NoKey
  <2>2. IF r.press > 0 THEN value'[q] < change'.target ELSE value'[q] > change'.target
    BY <1>1, <1>2, <1>4
  <2> QED  BY <1>1, <2>1, <2>2 DEF Keys
<1>8. Reads'
  BY DEF Reads
<1>9. ASSUME faults <= 1 PROVE OneFault'
  <2>1. toMirage = <<>> /\ fromMirage = <<>> /\ Idle
    BY <1>0, <1>9 DEF OneFault
  <2>2. Len(toMirage') = 1
    BY <1>3, <2>1
  <2>3. AllFresh' /\ Idle'
    BY <1>1, <1>4, <2>1 DEF AllFresh, Fresh, Idle
  <2> QED  BY <1>0, <1>1, <2>1, <2>2, <2>3 DEF OneFault
<1>10. ASSUME faults = 0 PROVE NoFault'
  <2>1. Silent /\ ~midi_in_event
    BY <1>0, <1>10 DEF NoFault
  <2>2. Len(toMirage') = 1 /\ fromMirage' = <<>> /\ callback' = NoAnswer /\ ~midi_in_event'
    BY <1>1, <1>3, <2>1 DEF Silent
  <2> QED  BY <2>2 DEF NoFault
<1> QED  BY <1>0, <1>1, <1>5, <1>6, <1>7, <1>8, <1>9, <1>10 DEF Kept

\* The two comparisons.
LEMMA KeptCompare ==
    ASSUME Held, UNCHANGED <<doc, slot>>, ValueDown \/ ValueUp
    PROVE  Kept'
<1> DEFINE q == change.parm
<1>0. /\ Typed /\ Typed' /\ Kept /\ Keys /\ Reads /\ (faults <= 1 => OneFault)
      /\ (faults = 0 => NoFault) /\ Selects
      /\ pc \in Pressing /\ q \in Parms /\ change.target \in Int /\ value[q] \in Int
  <2>1. pc \in Pressing
    BY DEF Pressing, ValueDown, ValueUp, Press
  <2>2. q \in Parms /\ change.target \in Byte /\ value[q] \in Byte
    <3>1. /\ q \in Parms /\ value \in [Parms -> Byte]
          /\ change \in [parm : Parms \cup {NoParm}, target : Byte, wait : BOOLEAN]
      BY <2>1 DEF Held, Typed, TypeOK
    <3> QED  BY <3>1
  <2>3. change.target \in Int /\ value[q] \in Int
    BY <2>2, TransmitAssumption DEF Byte
  <2> QED  BY <2>1, <2>2, <2>3 DEF Held, Kept
<1>1. UNCHANGED <<plan, change, midi_in_event, ReceivedParmNumber, ReceivedParmValue, callback,
                  fromMirage, selected, value, faults, torn>>
  BY DEF ValueDown, ValueUp, Press, parmVars, counters, mainUnchanged, mirageVars
<1>2. pc \in {"above", "below"} /\ NoKey /\ AllFresh /\ ReceivedParmValue[q] = value[q]
  BY <1>0 DEF Keys, Reads, ValueDown, ValueUp, Press
<1>3. CASE ValueDown /\ ReceivedParmValue[q] > change.target
  <2>1. /\ pc = "above" /\ pc' = "pressed" /\ toMirage' = Append(toMirage, Request(NoParm, -1))
        /\ UNCHANGED <<plan, change, midi_in_event, parmVars, counters>> /\ mainUnchanged
    BY <1>3 DEF ValueDown, Press
  <2> QED  BY <1>3, <2>1, KeptPressed
<1>4. CASE ValueUp /\ ReceivedParmValue[q] < change.target
  <2>1. /\ pc = "below" /\ pc' = "pressed" /\ toMirage' = Append(toMirage, Request(NoParm, 1))
        /\ UNCHANGED <<plan, change, midi_in_event, parmVars, counters>> /\ mainUnchanged
    BY <1>4 DEF ValueUp, Press
  <2> QED  BY <1>4, <2>1, KeptPressed
<1>5. CASE ValueDown /\ ~(ReceivedParmValue[q] > change.target)
  <2>1. pc = "above" /\ pc' = "below" /\ pc' \in Pressing /\ UNCHANGED toMirage
    BY <1>5 DEF ValueDown, Press, Pressing
  <2>2. value[q] <= change.target
    BY <1>0, <1>2, <1>5
  <2>3. Work(todo, value)'
    BY <1>0, <1>1, <2>1, WorkSame
  <2>4. Selects'
    BY <1>0, <1>1, <2>1 DEF Selects
  <2>5. Keys'
    BY <1>0, <1>1, <1>2, <2>1 DEF Keys, NoKey
  <2>6. AllFresh' /\ Idle' = Idle
    BY <1>1, <1>2 DEF AllFresh, Fresh, Idle
  <2>7. Reads'
    BY <1>1, <1>2, <2>1, <2>2, <2>6 DEF Reads
  <2>8. (OneFault => OneFault') /\ (NoFault => NoFault')
    BY <1>0, <1>1, <2>1, <2>6 DEF OneFault, NoFault, Silent
  <2> QED  BY <1>0, <1>1, <2>1, <2>3, <2>4, <2>5, <2>7, <2>8 DEF Kept
<1>6. CASE ValueUp /\ ~(ReceivedParmValue[q] < change.target)
  <2>1. pc = "below" /\ pc' = "next" /\ pc' \notin Pressing /\ UNCHANGED toMirage
    BY <1>6 DEF ValueUp, Press, Pressing
  <2>2. value[q] = change.target
    BY <1>0, <1>2, <1>6, <2>1 DEF Reads
  <2>3. Work(todo, value)'
    <3>1. PICK s : s = todo
      OBVIOUS
    <3>2. PICK v : v = value
      OBVIOUS
    <3>3. s \in Seq(Step) /\ s # <<>> /\ Head(s) = change /\ Tail(s) = plan
      BY <1>0, <3>1, TodoShape
    <3>4. v \in [Parms -> Byte] /\ doc \in Docs /\ slot \in Slots /\ Fits /\ Work(s, v)
      BY <1>0, <2>1, <3>1, <3>2 DEF Typed, TypeOK, Kept, Held, Counted
    <3>5. Work(Tail(s), v)
      BY <2>2, <3>2, <3>3, <3>4, WorkAdvances
    <3>6. PICK t : t = Tail(s)
      OBVIOUS
    <3>7. Work(t, v) /\ t = todo' /\ v = value'
      BY <1>1, <2>1, <3>2, <3>3, <3>5, <3>6 DEF todo
    <3> QED  BY <3>7, WorkNext
  <2>4. Keys'
    BY <1>0, <1>1, <1>2, <2>1 DEF Keys, NoKey
  <2>5. Reads'
    BY <2>1 DEF Reads
  <2>6. ASSUME OneFault PROVE OneFault'
    <3>1. toMirage = <<>> /\ fromMirage = <<>> /\ Idle
      BY <1>2, <2>6 DEF OneFault
    <3> QED  BY <1>1, <2>1, <3>1 DEF OneFault, Idle
  <2>7. NoFault'
    BY <2>1 DEF NoFault
  <2> QED  BY <1>0, <1>1, <2>1, <2>3, <2>4, <2>5, <2>6, <2>7 DEF Kept
<1> QED  BY <1>3, <1>4, <1>5, <1>6

\* The plan is made: it starts from the values the dialog showed.
LEMMA KeptPutSample ==
    ASSUME Held, UNCHANGED <<doc, slot>>, PutSample
    PROVE  Kept'
<1>0. /\ Typed /\ doc \in Docs /\ slot \in Slots /\ Fits /\ pc = "dialog"
      /\ value = slot.value /\ Silent
  BY DEF Held, Counted, PutSample, Typed, TypeOK, Forms
<1>1. /\ pc' \in {"returned", "next"} /\ pc' \notin Pressing
      /\ UNCHANGED <<doc, slot, callback, toMirage, fromMirage, value>>
  BY DEF PutSample, Pressing, docVars, mirageVars
<1>2. toMirage' = <<>> /\ fromMirage' = <<>> /\ Idle'
  BY <1>0, <1>1 DEF Silent, Idle
<1>3. ASSUME pc' = "next" PROVE Work(todo, value)'
  <2>1. PICK t \in Tunings(doc, LoopOnly) :
          plan' = EndPlan(doc) \o LoopPlan(doc) \o TuningPlan(doc, t[1], t[2])
    BY <1>3 DEF PutSample
  <2>2. t[1] \in Byte /\ t[2] \in Byte
    BY <1>0, Offered DEF Tunings
  <2>3. Work(EndPlan(doc) \o LoopPlan(doc) \o TuningPlan(doc, t[1], t[2]), slot.value)
    BY <1>0, <2>2, WorkStarts
  <2>4. PICK s : s = plan'
    OBVIOUS
  <2>5. PICK v : v = value
    OBVIOUS
  <2>6. Work(s, v)
    BY <1>0, <2>1, <2>3, <2>4, <2>5, Zenon
  <2>7. s = todo' /\ v = value'
    BY <1>1, <2>4, <2>5 DEF todo
  <2> QED  BY <1>1, <2>6, <2>7, WorkNext
<1>4. Keys' /\ Reads' /\ OneFault' /\ NoFault'
  <2>1. Len(toMirage') = 0 /\ Len(fromMirage') = 0
    BY <1>2
  <2> QED  BY <1>1, <1>2, <2>1 DEF Keys, NoKey, Reads, OneFault, NoFault, Pressing
<1> QED  BY <1>1, <1>3, <1>4 DEF Kept

\* PutSample goes on after a switch of the loop, or ends.
LEMMA KeptGoesOn ==
    ASSUME Held, UNCHANGED <<doc, slot>>, PutSampleReturns \/ LoopSwitchWaited
    PROVE  Kept'
<1>0. /\ Kept /\ Keys /\ (faults <= 1 => OneFault) /\ faults \in Nat /\ faults' \in Nat
      /\ faults <= faults'
  BY TransmitAssumption DEF Held, Kept, Typed, TypeOK
<1>1. /\ pc \in {"next", "loopSwitch"} /\ pc' \in {"next", "done"}
      /\ UNCHANGED <<plan, change, toMirage, fromMirage, callback, value>>
  BY DEF PutSampleReturns, LoopSwitchWaited, mainUnchanged, mirageVars
<1>2. pc \notin Pressing /\ pc' \notin Pressing
  BY <1>1 DEF Pressing
<1>3. Work(todo, value)'
  BY <1>0, <1>1, <1>2, WorkSame
<1>4. Keys'
  BY <1>0, <1>1 DEF Keys, NoKey
<1>5. Reads' /\ NoFault'
  BY <1>1 DEF Reads, NoFault
<1>6. OneFault => OneFault'
  BY <1>1, <1>2 DEF OneFault, Idle, Pressing
<1>7. faults' <= 1 => faults <= 1
  BY <1>0
<1> QED  BY <1>0, <1>2, <1>3, <1>4, <1>5, <1>6, <1>7 DEF Kept

\* A switch of the loop is sent: it presses no key that changes a point.
LEMMA KeptSendLoopSwitch ==
    ASSUME Held, UNCHANGED <<doc, slot>>, SendLoopSwitch
    PROVE  Kept'
<1> DEFINE r == Request("LoopSwitch", 2 * Head(plan).target - 1)
<1>0. /\ Typed /\ Kept /\ Keys /\ (faults <= 1 => OneFault)
      /\ pc = "next" /\ plan # <<>> /\ Head(plan).parm = "LoopSwitch"
      /\ doc \in Docs /\ slot \in Slots /\ Fits /\ value \in [Parms -> Byte]
  BY DEF Held, Kept, Counted, SendLoopSwitch, Typed, TypeOK
<1>1. /\ pc' \in {"next", "loopSwitch"} /\ toMirage' = Append(toMirage, r)
      /\ plan' = Tail(plan)
      /\ UNCHANGED <<change, fromMirage, callback, value, faults>>
  BY DEF SendLoopSwitch, mainUnchanged, mirageVars, counters
<1>2. pc \notin Pressing /\ pc' \notin Pressing
  BY <1>0, <1>1 DEF Pressing
<1>3. r \in Message /\ r.select = "LoopSwitch" /\ ~KeyPress(r)
  <2>1. Head(plan).target \in 0 .. 1
    BY <1>0, PlanTail DEF PlanStep
  <2> QED  BY <2>1 DEF Request, Message, KeyPress, Parms, NoParm
<1> HIDE DEF r
<1>4. /\ toMirage' # <<>>
      /\ \A i \in 1 .. Len(toMirage') :
           \/ toMirage'[i] = r
           \/ i \in 1 .. Len(toMirage) /\ toMirage'[i] = toMirage[i]
  BY <1>0, <1>1, <1>3, Appends
<1>5. Work(todo, value)'
  <2>1. PICK s : s = todo
    OBVIOUS
  <2>2. PICK v : v = value
    OBVIOUS
  <2>3. /\ s = plan /\ s \in Seq(Step) /\ v \in [Parms -> Byte] /\ Work(s, v)
    BY <1>0, <1>2, <2>1, <2>2, TodoShape DEF Kept, todo
  <2>4. Work(Tail(s), v)
    BY <1>0, <2>3, WorkAdvances
  <2>5. PICK t : t = Tail(s)
    OBVIOUS
  <2>6. Work(t, v) /\ t = todo' /\ v = value'
    BY <1>1, <1>2, <2>2, <2>3, <2>4, <2>5 DEF todo
  <2> QED  BY <2>6, WorkNext
<1>6. NoKey'
  <2>1. NoKey
    BY <1>0 DEF Keys
  <2> QED  BY <1>3, <1>4, <2>1 DEF NoKey
<1>7. Keys'
  BY <1>6 DEF Keys, NoKey
<1>8. Reads' /\ NoFault'
  BY <1>1 DEF Reads, NoFault
<1>9. OneFault => OneFault'
  BY <1>1, <1>2, <1>3, <1>4 DEF OneFault, Idle, Pressing
<1> QED  BY <1>0, <1>1, <1>2, <1>5, <1>7, <1>8, <1>9 DEF Kept

\* A change is taken from the plan: the question for its parameter is the last on the line, and
\* no answer is about it yet.
LEMMA KeptChangeParameter ==
    ASSUME Held, UNCHANGED <<doc, slot>>, ChangeParameter
    PROVE  Kept'
<1> DEFINE r == Request(change'.parm, 0)
<1>0. /\ Typed /\ Typed' /\ Kept /\ Keys /\ (faults <= 1 => OneFault)
      /\ pc = "next" /\ plan # <<>> /\ Head(plan).parm # "LoopSwitch"
  BY DEF Held, Kept, ChangeParameter
<1>1. /\ pc' = "confirm" /\ toMirage' = Append(toMirage, r)
      /\ change' = Head(plan) /\ plan' = Tail(plan)
      /\ UNCHANGED <<fromMirage, callback, value, faults>>
  BY DEF ChangeParameter, Ask, mainUnchanged, mirageVars, counters
<1>2. pc \notin Pressing /\ pc' \in Pressing
  BY <1>0, <1>1 DEF Pressing
<1>3. r \in Message /\ r.select = change'.parm /\ ~KeyPress(r) /\ change'.parm # "LoopSwitch"
  <2>1. change'.parm \in Parms /\ change'.parm # NoParm
    BY <1>0, <1>2 DEF Typed, TypeOK, Parms, NoParm
  <2> QED  BY <1>0, <1>1, <2>1 DEF Request, Message, KeyPress
<1> HIDE DEF r
<1>4. /\ Len(toMirage') \in Nat \ {0} /\ toMirage'[Len(toMirage')] = r
      /\ \A i \in 1 .. Len(toMirage') :
           \/ toMirage'[i] = r
           \/ i \in 1 .. Len(toMirage) /\ toMirage'[i] = toMirage[i]
  BY <1>0, <1>1, <1>3, Appends
<1>5. Work(todo, value)'
  <2>1. PICK s : s = todo
    OBVIOUS
  <2>2. PICK v : v = value
    OBVIOUS
  <2>3. s = plan /\ s \in Seq(Step) /\ Work(s, v)
    BY <1>0, <1>2, <2>1, <2>2, TodoShape DEF Kept, todo
  <2>4. <<Head(s)>> \o Tail(s) = s
    BY <1>0, <2>3, HeadTail
  <2>5. s = todo' /\ v = value'
    BY <1>1, <1>2, <2>2, <2>3, <2>4 DEF todo
  <2> QED  BY <2>3, <2>5, WorkNext
<1>6. NoKey'
  <2>1. NoKey
    BY <1>0 DEF Keys
  <2> QED  BY <1>3, <1>4, <2>1 DEF NoKey
<1>7. Keys'
  BY <1>6 DEF Keys, NoKey
<1>8. Selects'
  <2>1. Len(toMirage') \in 1 .. Len(toMirage')
    BY <1>4
  <2>2. \A i \in 1 .. Len(toMirage') : ~(i > Len(toMirage')) /\ ~KeyPress(toMirage'[i])
    BY <1>4, <1>6 DEF NoKey
  <2> QED  BY <1>3, <1>4, <2>1, <2>2 DEF Selects
<1>9. Reads' /\ NoFault'
  BY <1>1 DEF Reads, NoFault
<1>10. ASSUME OneFault PROVE OneFault'
  <2>1. AllFresh'
    BY <1>1, <1>2, <1>3, <1>10 DEF OneFault, AllFresh, Fresh, Idle
  <2> QED  BY <1>1, <1>2, <1>6, <2>1 DEF OneFault, NoKey
<1> QED  BY <1>0, <1>1, <1>2, <1>5, <1>7, <1>8, <1>9, <1>10 DEF Kept

LEMMA KeptStutter ==
    ASSUME Held, UNCHANGED vars
    PROVE  Kept'
<1>1. /\ UNCHANGED <<pc, doc, slot, plan, change, midi_in_event, ReceivedParmNumber,
                     ReceivedParmValue, callback, toMirage, fromMirage, selected, value, faults>>
      /\ Kept
  BY DEF Held, vars, docVars, parmVars, mirageVars, counters
<1>2. pc \notin {"dialog", "returned"} => Work(todo, value)'
  BY <1>1, WorkSame
<1>3. /\ Selects' = Selects /\ Keys' = Keys /\ Reads' = Reads /\ OneFault' = OneFault
      /\ NoFault' = NoFault
  BY <1>1 DEF Selects, Keys, Reads, OneFault, NoFault, NoKey, AllFresh, Fresh, Idle, Silent
<1> QED  BY <1>1, <1>2, <1>3 DEF Kept

LEMMA InitKept == Init => Kept
<1> SUFFICES ASSUME Init PROVE Kept
  OBVIOUS
<1>1. /\ pc = "dialog" /\ toMirage = <<>> /\ fromMirage = <<>> /\ callback = NoAnswer
      /\ pc \notin Pressing
  BY DEF Init, Pressing
<1>2. Len(toMirage) = 0 /\ Len(fromMirage) = 0 /\ Idle
  BY <1>1 DEF Idle
<1> QED  BY <1>1, <1>2 DEF Kept, Keys, NoKey, Reads, OneFault, NoFault

LEMMA KeptStep ==
    ASSUME Held, [Next]_vars
    PROVE  Kept'
<1>1. Typed /\ UNCHANGED <<doc, slot>>
  BY Monotone DEF Held
<1>2. CASE PutSample
  BY <1>1, <1>2, KeptPutSample
<1>3. CASE PutSampleReturns \/ LoopSwitchWaited
  BY <1>1, <1>3, KeptGoesOn
<1>4. CASE SendLoopSwitch
  BY <1>1, <1>4, KeptSendLoopSwitch
<1>5. CASE ChangeParameter
  BY <1>1, <1>5, KeptChangeParameter
<1>6. CASE GetInitialValue
  BY <1>1, <1>6, KeptAsk DEF GetInitialValue
<1>7. CASE ParmChangeLoop
  BY <1>1, <1>7, KeptAsk DEF ParmChangeLoop
<1>8. CASE GotParameter
  BY <1>1, <1>8, KeptGotParameter
<1>9. CASE ValueDown \/ ValueUp
  BY <1>1, <1>9, KeptCompare
<1>10. CASE MirageHandles
  BY <1>1, <1>10, KeptMirage
<1>11. CASE AnswerLost
  BY <1>1, <1>11, KeptAnswerLost
<1>12. CASE ParseNumber
  BY <1>1, <1>12, KeptParseNumber
<1>13. CASE ParseValue
  BY <1>1, <1>13, KeptParseValue
<1>14. CASE SetEvent \/ ReceiveMsg \/ Drain
  BY <1>1, <1>14, KeptEvent
<1>15. CASE UNCHANGED vars
  BY <1>15, KeptStutter
<1> QED  BY <1>2, <1>3, <1>4, <1>5, <1>6, <1>7, <1>8, <1>9, <1>10, <1>11, <1>12, <1>13, <1>14,
            <1>15
         DEF Next, Main, Callback

LEMMA Invariant == Spec => []IInv
<1>1. Init => IInv
  BY InitTyped, InitKept DEF IInv, Typed
<1>2. IInv /\ [Next]_vars => IInv'
  <2> SUFFICES ASSUME IInv, [Next]_vars PROVE IInv'
    OBVIOUS
  <2>1. Typed /\ Typed'
    BY TypedStep DEF IInv, Typed
  <2>2. ASSUME Counted' PROVE Kept'
    <3>1. Counted /\ faults <= faults'
      BY <2>1, <2>2, CountedBefore
    <3>2. Held
      BY <2>1, <2>2, <3>1 DEF Held, IInv
    <3> QED  BY <3>2, KeptStep
  <2> QED  BY <2>1, <2>2 DEF IInv, Typed
<1> QED  BY <1>1, <1>2, PTL DEF Spec

-----------------------------------------------------------------------------
(* What PutSample promises.                                                *)

\* The sampler refuses no key while at most two waits have gone wrong (MirageSysex.cpp:447),
\* for every slot, document and bound on the faults: the key that is next on the line changes
\* the parameter it was pressed for, and moves it towards its target.
THEOREM KeysTaken == Spec => [](faults <= 2 => NothingRefused)
<1>1. IInv => (faults <= 2 => NothingRefused)
  <2> SUFFICES ASSUME IInv, faults <= 2, Fits, ~torn, toMirage # <<>>,
                      Head(toMirage).select = NoParm
               PROVE  Pressed(selected, Head(toMirage).press)[selected]
                        = value[selected] + Head(toMirage).press
    BY DEF NothingRefused
  <2> DEFINE r == Head(toMirage)
  <2>1. /\ Typed /\ Kept /\ Keys /\ doc \in Docs /\ slot \in Slots
        /\ selected \in Parms /\ value \in [Parms -> Byte] /\ value[selected] \in Int
        /\ InLimits(value)
    <3>1. Typed /\ Kept
      BY DEF IInv, Counted, Typed
    <3>2. selected \in Parms /\ value \in [Parms -> Byte] /\ ByteSize \in Nat
      BY <3>1, TransmitAssumption DEF Typed, TypeOK
    <3>3. value[selected] \in Int
      BY <3>2 DEF Byte
    <3> QED  BY <3>1, <3>2, <3>3 DEF Typed, TypeOK, Forms, Kept
  <2>2. r \in Message /\ r = toMirage[1] /\ 1 \in 1 .. Len(toMirage)
    <3>1. toMirage \in Seq(Message)
      BY <2>1 DEF Typed, TypeOK, Message
    <3> QED  BY <3>1, TailShape
  <2>3. r.press \in -1 .. 1
    BY <2>2 DEF Message
  <2>4. CASE r.press = 0
    BY <2>1, <2>3, <2>4, PressedShape
  <2>5. CASE r.press # 0
    <3>1. KeyPress(r) /\ r.press \in {-1, 1}
      BY <2>3, <2>5 DEF KeyPress
    <3>2. pc \in Pressing
      BY <2>1, <2>2, <3>1 DEF Keys, NoKey, Pressing
    <3>3. change.parm \in Parms \ {"LoopSwitch"} /\ selected = change.parm
      <4>1. Selects /\ change.parm \in Parms \ {"LoopSwitch"}
        BY <2>1, <3>2 DEF Kept, Typed, TypeOK, Forms
      <4>2. CASE selected = change.parm
        BY <4>1, <4>2
      <4>3. ASSUME NEW k \in 1 .. Len(toMirage), toMirage[k].select = change.parm,
                   \A i \in 1 .. Len(toMirage) :
                     IF i > k THEN toMirage[i].select = NoParm ELSE ~KeyPress(toMirage[i])
            PROVE  FALSE
        <5>1. ~(1 > k)
          BY <4>3
        <5> QED  BY <2>2, <3>1, <4>3, <5>1
      <4> QED  BY <4>1, <4>2, <4>3 DEF Selects
    <3>4. IF r.press > 0 THEN value[change.parm] < change.target
                         ELSE value[change.parm] > change.target
      BY <2>1, <2>2, <3>1 DEF Keys
    <3>5. PICK s : s = todo
      OBVIOUS
    <3>6. PICK v : v = value
      OBVIOUS
    <3>7. PICK press : press = r.press
      OBVIOUS
    <3>8. /\ s \in Seq(Step) /\ s # <<>> /\ Head(s) = change /\ Work(s, v)
          /\ InLimits(v) /\ press \in {-1, 1}
      BY <2>1, <3>1, <3>2, <3>5, <3>6, <3>7, TodoShape DEF Kept, Pressing
    <3>9. InLimits([v EXCEPT ![Head(s).parm] = @ + press])
      BY <2>1, <3>3, <3>4, <3>6, <3>7, <3>8, WorkLegal
    <3>10. Pressed(selected, r.press) = [v EXCEPT ![selected] = @ + press]
      BY <3>3, <3>6, <3>7, <3>8, <3>9 DEF Pressed
    <3> QED  BY <2>1, <3>6, <3>7, <3>10
  <2> QED  BY <2>4, <2>5
<1> QED  BY <1>1, Invariant, PTL

\* PutSample ends with the document's end and loop points in the sampler, while at most two
\* waits have gone wrong (ParmChangeLoop, MirageSysex.cpp:702-714), for every slot, document
\* and bound on the faults.
THEOREM PointsSet == Spec => [](faults <= 2 => Settled)
<1>1. IInv => (faults <= 2 => Settled)
  <2> SUFFICES ASSUME IInv, faults <= 2, Fits, ~torn, pc = "done"
               PROVE  \A p \in DOMAIN Goal : value[p] = Goal[p]
    BY DEF Settled
  <2>1. Typed /\ Kept /\ plan = <<>> /\ pc \notin Pressing
    BY DEF IInv, Counted, Typed, Forms, Pressing
  <2>2. PICK s : s = todo
    OBVIOUS
  <2>3. PICK v : v = value
    OBVIOUS
  <2>4. s = <<>> /\ Work(s, v)
    BY <2>1, <2>2, <2>3 DEF todo, Kept
  <2>5. \A p \in DOMAIN Goal : v[p] = Goal[p]
    BY <2>4 DEF Work, FromStart, FromAway, FromEnd, FromOn, FromOff, FromLoop, FromLoopEnd,
                FromFine, FromSwitchOn, Begins, Switches
  <2> QED  BY <2>3, <2>5
<1> QED  BY <1>1, Invariant, PTL

=============================================================================
