------------------------ MODULE SampleReceiveProofs ------------------------
(***************************************************************************)
(* Proofs about SampleReceive: types, and that a first session which asks  *)
(* for one sample makes at most one document, of that sample, and leaves   *)
(* no loop switched off.                                                   *)
(*                                                                         *)
(* Whatever ends a wait early, the commands of one sample leave in one     *)
(* order and the sampler handles them in that order.  So the exchange is   *)
(* described by one number: how many of its commands have been handled.    *)
(***************************************************************************)
EXTENDS SampleReceive, SequenceTheorems, FiniteSetTheorems, TLAPS

Message == {GetSamples} \cup {ReceivedMsg(w) : w \in Wavesamples}

\* The loop switches of the sampler before the first session.
FirstLoop == [w \in Wavesamples |-> w \in Looped]

\* Before the first session nothing is under way.
Fresh ==
    /\ pc = "pump" /\ queue = <<>> /\ toMirage = <<>> /\ docs = <<>>
    /\ loop = FirstLoop

\* Command k of the exchange for sample a.
IsStep(a, k, c) ==
    \/ k = 1 /\ c = [cmd |-> "SampleSelect", bank |-> a[1]]
    \/ k = 2 /\ c = [cmd |-> "SampleNumberSelect", number |-> a[2]]
    \/ k = 3 /\ c = Command("LoopOff")
    \/ k = 4 /\ c = Command("WaveDumpReq")
    \/ k = 5 /\ c \in {Command("WavesampleAck"), Command("WavesampleNack")}
    \/ k = 6 /\ c = Command("LoopOn") /\ a \in Looped

\* The commands on their way are those after the first `done' ones.
Line(a, done) == \A i \in 1 .. Len(toMirage) : IsStep(a, done + i, toMirage[i])

\* How far the main thread is, by the number of commands it has sent.
Main(a, sent) ==
    /\ sent \in 0 .. 6
    /\ pc = "select" => sent = 1 /\ todo = <<a>>
    /\ pc = "number" => sent = 2 /\ todo = <<a>>
    /\ pc = "loop" => sent = 3 /\ todo = <<a>>
    /\ pc = "dump" => sent = 4 /\ todo = <<a>>
    /\ table = FirstLoop
    /\ sent >= 3 => /\ WavesampleStore = a[2]
                    /\ WaveSampleReceive = [bank |-> a[1], LoopSwitch |-> a \in Looped]

\* The sampler, by the number of commands it has handled.
Mirage(a, done) ==
    /\ done >= 1 => selected[1] = a[1]
    /\ done >= 2 => selected = a
    /\ loop = IF done \in 3 .. 5 THEN [FirstLoop EXCEPT ![a] = FALSE] ELSE FirstLoop

\* The message that starts the exchange, and the one that brings the dump.
Posted(a, done, sent) ==
    \/ queue = <<GetSamples>> /\ sent = 0 /\ pc = "pump"
    \/ queue = <<>> /\ sent > 0 /\ (sent > 4 => done >= 4)
    \/ queue = <<ReceivedMsg(a)>> /\ done = 4 /\ sent = 4 /\ m_smiragesysex = a

TheDocument(a) ==
    [name |-> a, data |-> a, loopOf |-> <<"lower", a[2]>>, looped |-> a \in Looped]

\* The document comes with the last commands.
Made(a, sent) ==
    \/ docs = <<>>
    \/ docs = <<TheDocument(a)>> /\ sent = (IF a \in Looped THEN 6 ELSE 5)

Exchange(a, done) ==
    /\ done \in Nat
    /\ Line(a, done)
    /\ Main(a, done + Len(toMirage))
    /\ Mirage(a, done)
    /\ Posted(a, done, done + Len(toMirage))
    /\ Made(a, done + Len(toMirage))

FirstSession == OneSample => \E done \in 0 .. 6 : Exchange(Asked, done)

IInv == TypeOK /\ (sessions = 0 => Fresh /\ table = FirstLoop) /\ FirstSession

-----------------------------------------------------------------------------
\* Wavesamples are finitely many, and their numbers start with 0.
LEMMA Finite ==
  /\ IsFiniteSet(Wavesamples)
  /\ 0 \in Numbers /\ Numbers \subseteq Nat
  /\ \A n \in Numbers : 0 .. n \subseteq Numbers
<1>1. PICK n \in Numbers : Numbers = 0 .. n
  BY ReceiveAssumption
<1>2. n \in Nat
  <2>1. n \in 0 .. n
    BY <1>1, Zenon
  <2> QED  BY <2>1
<1>3. IsFiniteSet(Numbers)
  BY <1>1, <1>2, FS_Interval
<1>4. Banks = {"lower"} \cup {"upper"}
  BY DEF Banks
<1>5. IsFiniteSet(Banks)
  BY <1>4, FS_Singleton, FS_AddElement, Zenon
<1>6. IsFiniteSet(Wavesamples)
  BY <1>3, <1>5, FS_Product DEF Wavesamples
<1> QED  BY <1>1, <1>2, <1>6

\* The list boxes leave out wavesamples, so a position is never greater than the number of
\* the wavesample there; it is that number if none is left out in front of it.
LEMMA PositionType ==
  ASSUME NEW bank \in Banks, NEW n \in Numbers
  PROVE  /\ Position(bank, n) \in Numbers
         /\ NoGapBefore(<<bank, n>>) => Position(bank, n) = n
<1> DEFINE below == {m \in Valid[bank] : m < n}
<1>1. n \in Nat /\ Valid[bank] \subseteq Numbers /\ Numbers \subseteq Nat
  BY Finite, ReceiveAssumption
<1>2. below \in SUBSET (0 .. n - 1)
  <2>1. \A m \in Nat : m < n => m \in 0 .. n - 1
    BY <1>1
  <2> QED  BY <1>1, <2>1
<1>3. IsFiniteSet(0 .. n - 1) /\ Cardinality(0 .. n - 1) = n
  BY <1>1, FS_Interval
<1>4. IsFiniteSet(below) /\ Cardinality(below) <= n
  BY <1>2, <1>3, FS_Subset
<1>5. Cardinality(below) \in Nat
  BY <1>4, FS_CardinalityType
<1>6. Cardinality(below) \in 0 .. n
  BY <1>1, <1>4, <1>5
<1>7. ASSUME NoGapBefore(<<bank, n>>) PROVE below = 0 .. n - 1
  <2>1. \A m \in Numbers : m < n => m \in Valid[bank]
    BY <1>7 DEF NoGapBefore
  <2>2. 0 .. n \subseteq Numbers
    BY Finite
  <2>3. \A m \in 0 .. n - 1 : m \in 0 .. n /\ m < n
    BY <1>1
  <2>4. 0 .. n - 1 \subseteq below
    BY <2>1, <2>2, <2>3
  <2> QED  BY <1>2, <2>4
<1> QED  BY <1>3, <1>6, <1>7, Finite DEF Position

\* What the dialog hands over are wavesamples.
LEMMA RequestsType ==
  ASSUME NEW picks \in SUBSET Listed, NEW list \in Requests(picks)
  PROVE  list \in Seq(Wavesamples)
<1>1. ASSUME NEW bank \in Banks, NEW part \in SelectLists(bank, picks)
      PROVE  part \in Seq(Wavesamples)
  <2> DEFINE lines == Lines(bank, picks)
  <2>1. lines \in SUBSET Wavesamples
    BY PositionType DEF Lines, Listed, Wavesamples
  <2>2. IsFiniteSet(lines)
    BY <2>1, Finite, FS_Subset
  <2>3. Cardinality(lines) \in Nat
    BY <2>2, FS_CardinalityType
  <2>4. part \in [1 .. Cardinality(lines) -> lines]
    BY DEF SelectLists
  <2> HIDE DEF lines
  <2> QED  BY <2>1, <2>3, <2>4
<1>2. PICK lower \in SelectLists("lower", picks), upper \in SelectLists("upper", picks) :
         list = lower \o upper
  BY DEF Requests
<1> QED  BY <1>1, <1>2, ConcatProperties DEF Banks

\* One line selected: the list consists of it.
LEMMA OneRequest ==
  ASSUME NEW picks \in SUBSET Listed, Cardinality(picks) = 1
  PROVE  \E w \in picks, a \in Wavesamples :
           /\ Lines("lower", picks) \cup Lines("upper", picks) = {a}
           /\ \A list \in Requests(picks) : list = <<a>>
           /\ NoGapBefore(w) => a = w
<1>1. IsFiniteSet(picks)
  BY Finite, FS_Subset DEF Listed
<1>2. PICK w : picks = {w}
  BY <1>1, FS_Singleton
<1>3. w \in Wavesamples /\ w = <<w[1], w[2]>> /\ w[1] \in Banks /\ w[2] \in Numbers
  BY <1>2 DEF Listed, Wavesamples
<1> DEFINE a == <<w[1], Position(w[1], w[2])>>
<1>4. a \in Wavesamples /\ (NoGapBefore(w) => a = w)
  BY <1>3, PositionType DEF Wavesamples
<1>5. \A bank \in Banks : Lines(bank, picks) = IF w[1] = bank THEN {a} ELSE {}
  BY <1>2 DEF Lines
<1> HIDE DEF a
<1>6. /\ Lines("lower", picks) = (IF w[1] = "lower" THEN {a} ELSE {})
      /\ Lines("upper", picks) = (IF w[1] = "upper" THEN {a} ELSE {})
      /\ w[1] = "lower" \/ w[1] = "upper"
  BY <1>3, <1>5 DEF Banks
<1>7. ASSUME NEW bank, Lines(bank, picks) = {}, NEW part \in SelectLists(bank, picks)
      PROVE  part = <<>>
  <2>1. part \in [1 .. 0 -> {}]
    BY <1>7, FS_EmptySet DEF SelectLists
  <2> QED  BY <2>1
<1>8. ASSUME NEW bank, Lines(bank, picks) = {a}, NEW part \in SelectLists(bank, picks)
      PROVE  part = <<a>>
  <2>1. part \in [1 .. 1 -> {a}]
    BY <1>8, FS_Singleton DEF SelectLists
  <2> QED  BY <2>1
<1>9. ASSUME NEW list \in Requests(picks) PROVE list = <<a>>
  <2>1. PICK lower \in SelectLists("lower", picks), upper \in SelectLists("upper", picks) :
           list = lower \o upper
    BY DEF Requests
  <2>2. CASE w[1] = "lower"
    <3>1. lower = <<a>> /\ upper = <<>>
      BY <1>6, <1>7, <1>8, <2>1, <2>2
    <3> QED  BY <1>4, <2>1, <3>1
  <2>3. CASE w[1] = "upper"
    <3>1. lower = <<>> /\ upper = <<a>>
      BY <1>6, <1>7, <1>8, <2>1, <2>3
    <3> QED  BY <1>4, <2>1, <3>1
  <2> QED  BY <1>6, <2>2, <2>3
<1>10. Lines("lower", picks) \cup Lines("upper", picks) = {a}
  BY <1>6
<1> QED  BY <1>2, <1>4, <1>9, <1>10

-----------------------------------------------------------------------------
\* The commands the program sends are commands of the sampler.
LEMMA CommandTypes ==
  /\ \A bank \in Banks : [cmd |-> "SampleSelect", bank |-> bank] \in Commands
  /\ \A n \in Numbers : [cmd |-> "SampleNumberSelect", number |-> n] \in Commands
  /\ Command("LoopOff") \in Commands /\ Command("LoopOn") \in Commands
  /\ Command("WaveDumpReq") \in Commands
  /\ Command("WavesampleAck") \in Commands /\ Command("WavesampleNack") \in Commands
BY DEF Commands, Command

\* Asking sends one more command.
LEMMA AskType ==
  ASSUME TypeOK, NEW c \in Commands, NEW place, AskAndWait(c, place)
  PROVE  toMirage' \in Seq(Commands) /\ midi_in_event' = FALSE /\ pc' = place
<1>1. toMirage \in Seq(Commands)
  BY DEF TypeOK
<1>2. Append(toMirage, c) \in Seq(Commands)
  BY <1>1, AppendProperties
<1> QED  BY <1>2 DEF AskAndWait

\* Turning to another request keeps the types.
LEMMA NextRequestType ==
  ASSUME TypeOK, NEW rest \in Seq(Wavesamples), NextRequest(rest)
  PROVE  /\ pc' \in {"pump", "select"} /\ todo' = rest
         /\ midi_in_event' \in BOOLEAN /\ toMirage' \in Seq(Commands)
         /\ (pc' = "pump") = (todo' = <<>>)
<1>1. CASE rest = <<>>
  BY <1>1 DEF NextRequest, TypeOK
<1>2. CASE rest # <<>>
  <2>1. Head(rest) \in Wavesamples
    BY <1>2
  <2>2. [cmd |-> "SampleSelect", bank |-> Head(rest)[1]] \in Commands
    BY <2>1, CommandTypes DEF Wavesamples
  <2>3. /\ AskAndWait([cmd |-> "SampleSelect", bank |-> Head(rest)[1]], "select")
        /\ todo' = rest
    BY <1>2 DEF NextRequest
  <2>4. toMirage' \in Seq(Commands) /\ midi_in_event' = FALSE /\ pc' = "select"
    BY <2>2, <2>3, AskType
  <2> QED  BY <1>2, <2>3, <2>4
<1> QED  BY <1>1, <1>2

\* Every variable keeps its type.
LEMMA TypeStep == TypeOK /\ [Next]_vars => TypeOK'
<1> SUFFICES ASSUME TypeOK, [Next]_vars PROVE TypeOK'
  OBVIOUS
<1> USE DEF mainVars, mirageVars, userVars
<1>a. /\ queue \in Seq(Message) /\ todo \in Seq(Wavesamples) /\ toMirage \in Seq(Commands)
      /\ Tail(todo) \in Seq(Wavesamples) \/ pc = "pump"
      /\ Head(todo) \in Wavesamples \/ pc = "pump"
  BY DEF TypeOK, Message
<1>b. \A w \in Wavesamples : w[1] \in Banks /\ w[2] \in Numbers
  BY DEF Wavesamples
<1>1. ASSUME NEW picks \in SUBSET Listed, OnBnClickedReceiveSamples(picks) PROVE TypeOK'
  <2>1. <<GetSamples>> \in Seq(Message)
    BY DEF Message
  <2>2. sessions + 1 \in 0 .. MaxSessions
    BY <1>1, ReceiveAssumption DEF OnBnClickedReceiveSamples, TypeOK
  <2> QED  BY <1>1, <2>1, <2>2 DEF OnBnClickedReceiveSamples, TypeOK, Message
<1>2. CASE OnGetSamplesList
  <2>1. PICK requests \in Requests(picked) : NextRequest(requests)
    BY <1>2 DEF OnGetSamplesList
  <2>2. requests \in Seq(Wavesamples)
    BY RequestsType DEF TypeOK
  <2>3. Tail(queue) \in Seq(Message)
    BY <1>2, <1>a DEF OnGetSamplesList
  <2> QED  BY <1>2, <2>1, <2>2, <2>3, NextRequestType DEF OnGetSamplesList, TypeOK, Message
<1>3. CASE OnGotWaveData
  <2>1. Head(queue) \in Message /\ Tail(queue) \in Seq(Message) /\ queue # <<>>
    BY <1>3, <1>a DEF OnGotWaveData
  <2>2. PICK w \in Wavesamples : Head(queue) = ReceivedMsg(w)
    BY <1>3, <2>1 DEF Message, OnGotWaveData
  <2>3. \A data \in BytesAt(Head(queue)) : data \in Wavesamples \cup {Garbled}
    BY <2>2 DEF BytesAt, ReceivedMsg, TypeOK
  <2> DEFINE Doc == [name : Wavesamples, data : Wavesamples \cup {Garbled},
                     loopOf : Wavesamples, looped : BOOLEAN]
  <2>4. PICK data \in Wavesamples \cup {Garbled} :
           ChecksumFits(data) \/ ChecksumWrong \/ NoPages
    BY <1>3, <2>3 DEF OnGotWaveData
  <2>5. docs' \in Seq(Doc) /\ toMirage' \in Seq(Commands) /\ queue' \in Seq(Message)
    <3>1. CASE ChecksumFits(data)
      <4>1. [name |-> <<WaveSampleReceive.bank, WavesampleStore>>, data |-> data,
             loopOf |-> <<"lower", WavesampleStore>>,
             looped |-> WaveSampleReceive.LoopSwitch] \in Doc
        BY DEF TypeOK, Wavesamples, Banks
      <4>2. docs' \in Seq(Doc)
        BY <3>1, <4>1 DEF ChecksumFits, CreateFromMirage, TypeOK
      <4>3. LoopBackOn \in Seq(Commands) /\ <<Command("WavesampleAck")>> \in Seq(Commands)
        BY CommandTypes DEF LoopBackOn
      <4>4. toMirage' \in Seq(Commands)
        BY <1>a, <3>1, <4>3 DEF ChecksumFits
      <4> QED  BY <2>1, <3>1, <4>2, <4>4 DEF ChecksumFits
    <3>2. CASE ChecksumWrong
      <4>1. Append(toMirage, Command("WavesampleNack")) \in Seq(Commands)
        BY <1>a, CommandTypes, AppendProperties
      <4>2. queue' \in Seq(Message)
        BY <2>1, <3>2, EmptySeq DEF ChecksumWrong
      <4> QED  BY <3>2, <4>1, <4>2 DEF ChecksumWrong, TypeOK
    <3>3. CASE NoPages
      BY <1>a, <2>1, <3>3 DEF NoPages, TypeOK
    <3> QED  BY <2>4, <3>1, <3>2, <3>3
  <2> QED  BY <1>3, <2>5 DEF OnGotWaveData, TypeOK, Message
<1>4. CASE Timeout
  <2>1. queue' \in Seq(Message)
    BY <1>4, <1>a, EmptySeq DEF Timeout, MessageBox
  <2> QED  BY <1>4, <1>a, <2>1, NextRequestType DEF Timeout, TypeOK, Message
<1>5. CASE SelectAnswered
  <2>1. pc = "select" /\ AskAndWait([cmd |-> "SampleNumberSelect", number |-> Head(todo)[2]], "number")
    BY <1>5 DEF SelectAnswered
  <2>2. [cmd |-> "SampleNumberSelect", number |-> Head(todo)[2]] \in Commands
    BY <1>a, <1>b, <2>1, CommandTypes
  <2>3. toMirage' \in Seq(Commands) /\ midi_in_event' = FALSE /\ pc' = "number"
    BY <2>1, <2>2, AskType
  <2> QED  BY <1>5, <2>1, <2>3 DEF SelectAnswered, TypeOK
<1>6. CASE SelectedAsAsked
  <2>1. /\ WavesampleStore' \in Numbers
        /\ WaveSampleReceive' \in [bank : Banks, LoopSwitch : BOOLEAN]
    BY <1>6, <1>a, <1>b DEF SelectedAsAsked, TypeOK
  <2>2. AskAndWait(Command("LoopOff"), "loop") /\ pc = "number"
    BY <1>6 DEF SelectedAsAsked
  <2>3. toMirage' \in Seq(Commands) /\ midi_in_event' = FALSE /\ pc' = "loop"
    BY <2>2, CommandTypes, AskType
  <2> QED  BY <1>6, <2>1, <2>2, <2>3 DEF SelectedAsAsked, TypeOK
<1>7. CASE SelectedOther
  <2>1. queue' \in Seq(Message) /\ WavesampleStore' \in Numbers
    BY <1>7, <1>a, <1>b, EmptySeq DEF SelectedOther, MessageBox, TypeOK
  <2> QED  BY <1>7, <1>a, <2>1, NextRequestType DEF SelectedOther, TypeOK, Message
<1>8. CASE LoopAnswered
  <2>1. AskAndWait(Command("WaveDumpReq"), "dump") /\ pc = "loop"
    BY <1>8 DEF LoopAnswered
  <2>2. toMirage' \in Seq(Commands) /\ midi_in_event' = FALSE /\ pc' = "dump"
    BY <2>1, CommandTypes, AskType
  <2> QED  BY <1>8, <2>1, <2>2 DEF LoopAnswered, TypeOK
<1>9. CASE DumpAnswered
  BY <1>9, <1>a, NextRequestType DEF DumpAnswered, TypeOK
<1>10. CASE MirageHandles
  <2> DEFINE c == Head(toMirage)
  <2>1. c \in Commands /\ toMirage' = Tail(toMirage) /\ Tail(toMirage) \in Seq(Commands)
    BY <1>10, <1>a DEF MirageHandles
  <2>2. /\ c.cmd = "SampleSelect" => c.bank \in Banks
        /\ c.cmd = "SampleNumberSelect" => c.number \in Numbers
    BY <2>1 DEF Commands
  <2> HIDE DEF c
  <2>3. /\ selected' \in Wavesamples /\ loop' \in [Wavesamples -> BOOLEAN]
        /\ m_WavesampleStatus' \in Wavesamples
        /\ m_smiragesysex' \in Wavesamples \cup {Garbled}
        /\ midi_in_event' \in BOOLEAN /\ queue' \in Seq(Message)
    <3>1. CASE c.cmd = "SampleSelect"
      BY <1>10, <1>a, <1>b, <2>2, <3>1
         DEF c, MirageHandles, ParseOther, Unheard, TypeOK, Wavesamples
    <3>2. CASE c.cmd = "SampleNumberSelect"
      <4>1. selected' = <<selected[1], c.number>> /\ loop' = loop
            /\ (ParseWaveStatus(selected') \/ Unheard)
        BY <1>10, <3>2 DEF c, MirageHandles
      <4>2. selected' \in Wavesamples
        BY <2>2, <3>2, <4>1 DEF TypeOK, Wavesamples
      <4> QED  BY <1>a, <4>1, <4>2 DEF ParseWaveStatus, Unheard, TypeOK
    <3>3. CASE c.cmd \in {"LoopOff", "LoopOn"}
      BY <1>10, <1>a, <3>3 DEF c, MirageHandles, ParseOther, Unheard, TypeOK
    <3>4. CASE c.cmd = "WaveDumpReq"
      <4>1. ReceivedMsg(selected) \in Message
        BY DEF Message, TypeOK
      <4>2. UNCHANGED mirageVars /\ (ParseWaveDump(selected) \/ Unheard)
        BY <1>10, <3>4 DEF c, MirageHandles
      <4>3. Append(queue, ReceivedMsg(selected)) \in Seq(Message)
        BY <1>a, <4>1, AppendProperties
      <4> QED  BY <1>a, <4>2, <4>3 DEF ParseWaveDump, Unheard, TypeOK
    <3>5. CASE c.cmd \in {"WavesampleAck", "WavesampleNack"}
      BY <1>10, <1>a, <3>5 DEF c, MirageHandles, Unheard, TypeOK
    <3> QED  BY <1>10, <3>1, <3>2, <3>3, <3>4, <3>5 DEF c, MirageHandles
  <2> QED  BY <1>10, <2>1, <2>3 DEF MirageHandles, TypeOK, Message
<1>11. CASE ReceiveMsg
  BY <1>11, ReceiveAssumption DEF ReceiveMsg, TypeOK
<1>12. CASE UNCHANGED vars
  BY <1>12 DEF vars, TypeOK
<1> QED
  BY <1>1, <1>2, <1>3, <1>4, <1>5, <1>6, <1>7, <1>8, <1>9, <1>10, <1>11, <1>12
     DEF Next, MainStep

\* The initial states have the right types.
LEMMA TypeInit == Init => TypeOK
<1> SUFFICES ASSUME Init PROVE TypeOK
  OBVIOUS
<1>1. 0 \in Numbers /\ {} \in SUBSET Listed
  BY Finite
<1>2. /\ <<"lower", 0>> \in Wavesamples
      /\ [bank |-> "lower", LoopSwitch |-> FALSE] \in [bank : Banks, LoopSwitch : BOOLEAN]
  BY <1>1 DEF Wavesamples, Banks
<1>3. [w \in Wavesamples |-> w \in Looped] \in [Wavesamples -> BOOLEAN]
  OBVIOUS
<1>4. 0 \in 0 .. MaxSessions /\ 0 \in 0 .. MaxNotes
  BY ReceiveAssumption
<1>5. /\ todo \in Seq(Wavesamples) /\ queue \in Seq(Message) /\ toMirage \in Seq(Commands)
      /\ docs \in Seq([name : Wavesamples, data : Wavesamples \cup {Garbled},
                      loopOf : Wavesamples, looped : BOOLEAN])
  BY EmptySeq DEF Init
<1> QED  BY <1>1, <1>2, <1>3, <1>4, <1>5 DEF Init, TypeOK, Message

\* Every variable has its type, for any wavesamples, lists and bounds.
THEOREM TypeCorrect == Spec => []TypeOK
BY TypeInit, TypeStep, PTL DEF Spec

-----------------------------------------------------------------------------
\* One more command at the end of the line.
LEMMA LineGrows ==
  ASSUME TypeOK, NEW a, NEW done \in Nat, Line(a, done), NEW c \in Commands,
         toMirage' = Append(toMirage, c), IsStep(a, done + Len(toMirage) + 1, c)
  PROVE  Line(a, done)' /\ Len(toMirage') = Len(toMirage) + 1
<1>1. toMirage \in Seq(Commands) /\ Len(toMirage) \in Nat
  BY DEF TypeOK
<1>2. /\ Len(toMirage') = Len(toMirage) + 1
      /\ toMirage'[Len(toMirage) + 1] = c
      /\ \A i \in 1 .. Len(toMirage) : toMirage'[i] = toMirage[i]
  BY <1>1, AppendProperties
<1>3. ASSUME NEW i \in 1 .. Len(toMirage') PROVE IsStep(a, done + i, toMirage'[i])
  <2>1. CASE i = Len(toMirage) + 1
    <3>1. done + i = done + Len(toMirage) + 1
      BY <1>1, <2>1
    <3> QED  BY <1>2, <2>1, <3>1
  <2>2. CASE i # Len(toMirage) + 1
    <3>1. i \in 1 .. Len(toMirage)
      BY <1>1, <1>2, <2>2
    <3>2. toMirage'[i] = toMirage[i]
      BY <1>2, <3>1
    <3> QED  BY <3>1, <3>2 DEF Line
  <2> QED  BY <2>1, <2>2
<1>4. Line(a, done)'
  BY <1>3 DEF Line
<1> QED  BY <1>2, <1>4

\* The first command of the line is handled.
LEMMA LineShrinks ==
  ASSUME TypeOK, NEW a, NEW done \in Nat, Line(a, done), toMirage # <<>>,
         toMirage' = Tail(toMirage)
  PROVE  /\ IsStep(a, done + 1, Head(toMirage)) /\ Line(a, done + 1)'
         /\ Len(toMirage) \in Nat /\ Len(toMirage) > 0 /\ Len(toMirage') = Len(toMirage) - 1
<1>1. toMirage \in Seq(Commands) /\ Len(toMirage) \in Nat /\ Len(toMirage) > 0
  BY DEF TypeOK
<1>2. /\ Len(toMirage') = Len(toMirage) - 1
      /\ Head(toMirage) = toMirage[1]
      /\ \A i \in 1 .. Len(toMirage) - 1 : toMirage'[i] = toMirage[i + 1]
  BY <1>1
<1>3. ASSUME NEW i \in 1 .. Len(toMirage') PROVE IsStep(a, (done + 1) + i, toMirage'[i])
  <2>1. i + 1 \in 1 .. Len(toMirage) /\ toMirage'[i] = toMirage[i + 1]
    BY <1>1, <1>2
  <2>2. done + (i + 1) = (done + 1) + i
    OBVIOUS
  <2>3. IsStep(a, done + (i + 1), toMirage[i + 1])
    BY <2>1 DEF Line
  <2> QED  BY <2>1, <2>2, <2>3
<1>4. Line(a, done + 1)'
  BY <1>3 DEF Line
<1>5. 1 \in 1 .. Len(toMirage)
  BY <1>1
<1>6. IsStep(a, done + 1, toMirage[1])
  BY <1>5 DEF Line
<1> QED  BY <1>1, <1>2, <1>4, <1>6

\* What a step changes of an exchange whose sampler it leaves alone and which it gives no
\* more commands.
LEMMA SameLine ==
  ASSUME NEW a, NEW done \in Nat, Line(a, done), Mirage(a, done),
         toMirage' = toMirage, UNCHANGED mirageVars
  PROVE  Line(a, done)' /\ Mirage(a, done)' /\ Len(toMirage') = Len(toMirage)
BY DEF Line, Mirage, mirageVars

\* A step that touches nothing of the exchange.
LEMMA Untouched ==
  ASSUME NEW a, NEW done, Exchange(a, done),
         UNCHANGED <<mainVars, queue, m_smiragesysex, toMirage, mirageVars>>
  PROVE  Exchange(a, done)'
<1> USE DEF mainVars
<1>1. done \in Nat /\ Line(a, done)' /\ Mirage(a, done)' /\ Len(toMirage') = Len(toMirage)
  BY SameLine DEF Exchange
<1> QED  BY <1>1 DEF Exchange, Main, Posted, Made

\* The main thread gives up, or is done with, the only sample.
LEMMA LeaveList ==
  ASSUME TypeOK, NEW a, NEW done, Exchange(a, done), pc # "pump",
         NextRequest(Tail(todo)), queue' \in {queue, <<>>}, UNCHANGED mirageVars,
         UNCHANGED <<WaveSampleReceive, docs, table, m_smiragesysex>>,
         WavesampleStore' = WavesampleStore \/ pc = "number"
  PROVE  Exchange(a, done)'
<1> DEFINE sent == done + Len(toMirage)
<1>1. /\ done \in Nat /\ Line(a, done) /\ Main(a, sent) /\ Mirage(a, done)
      /\ Posted(a, done, sent) /\ Made(a, sent)
  BY DEF Exchange
<1>2. todo = <<a>> /\ sent \in 1 .. 4 /\ (pc = "number" => sent = 2)
  BY <1>1 DEF Main, TypeOK
<1>3. pc' = "pump" /\ toMirage' = toMirage
  BY <1>2 DEF NextRequest
<1>4. Line(a, done)' /\ Mirage(a, done)' /\ Len(toMirage') = Len(toMirage)
  BY <1>1, <1>3, SameLine
<1>5. Main(a, sent)' /\ Posted(a, done, sent)' /\ Made(a, sent)'
  BY <1>1, <1>2, <1>3, <1>4 DEF Main, Posted, Made
<1> QED  BY <1>1, <1>4, <1>5 DEF Exchange

\* The main thread sends the next command of the exchange and waits for its answer.
LEMMA AskNext ==
  ASSUME TypeOK, NEW a, NEW done, Exchange(a, done), NEW c \in Commands, NEW place,
         AskAndWait(c, place), IsStep(a, done + Len(toMirage) + 1, c),
         UNCHANGED mirageVars, queue' = <<>>,
         UNCHANGED <<docs, table>>, todo' = <<a>>,
         \/ place = "select" /\ done + Len(toMirage) = 0
         \/ place = "number" /\ done + Len(toMirage) = 1
         \/ /\ place = "loop" /\ done + Len(toMirage) = 2
            /\ WavesampleStore' = a[2]
            /\ WaveSampleReceive' = [bank |-> a[1], LoopSwitch |-> a \in Looped]
         \/ /\ place = "dump" /\ done + Len(toMirage) = 3
            /\ UNCHANGED <<WavesampleStore, WaveSampleReceive>>
  PROVE  Exchange(a, done)'
<1>0. PICK k \in Nat : k = done + Len(toMirage)
  BY DEF Exchange, Main
<1>1. /\ done \in Nat /\ Line(a, done) /\ Main(a, k) /\ Mirage(a, done)
      /\ Posted(a, done, k) /\ Made(a, k)
  BY <1>0 DEF Exchange
<1>2. toMirage' = Append(toMirage, c) /\ pc' = place
  BY DEF AskAndWait
<1>3. Line(a, done)' /\ Len(toMirage') = Len(toMirage) + 1
  BY <1>1, <1>2, LineGrows
<1>4. Mirage(a, done)'
  BY <1>1 DEF Mirage, mirageVars
<1>5. Len(toMirage) \in Nat /\ done + Len(toMirage') = k + 1 /\ k \in 0 .. 3
  BY <1>0, <1>1, <1>3 DEF TypeOK
<1>6. /\ Main(a, k + 1)'
      /\ Posted(a, done, k + 1)' /\ Made(a, k + 1)'
  BY <1>0, <1>1, <1>2, <1>5 DEF Main, Posted, Made
<1> QED  BY <1>1, <1>3, <1>4, <1>5, <1>6 DEF Exchange

\* The sampler handles one command more.
LEMMA MirageStep ==
  ASSUME TypeOK, NEW a \in Wavesamples, NEW done, Exchange(a, done), MirageHandles
  PROVE  Exchange(a, done + 1)'
<1> USE DEF mainVars, mirageVars
<1>0. PICK k \in Nat : k = done + Len(toMirage)
  BY DEF Exchange, Main
<1>1. /\ done \in Nat /\ Line(a, done) /\ Main(a, k) /\ Mirage(a, done)
      /\ Posted(a, done, k) /\ Made(a, k)
  BY <1>0 DEF Exchange
<1> DEFINE c == Head(toMirage)
<1>2. /\ toMirage # <<>> /\ toMirage' = Tail(toMirage)
      /\ UNCHANGED <<mainVars, userVars, notes>>
  BY DEF MirageHandles
<1>3. /\ IsStep(a, done + 1, c) /\ Line(a, done + 1)'
      /\ Len(toMirage) \in Nat /\ Len(toMirage) > 0 /\ Len(toMirage') = Len(toMirage) - 1
  BY <1>1, <1>2, LineShrinks
<1>4. (done + 1) + Len(toMirage') = k /\ k > done /\ k <= 6
  BY <1>0, <1>1, <1>3 DEF Main
<1>5. queue = <<>> /\ k > 0 /\ (k > 4 => done >= 4)
  BY <1>1, <1>4 DEF Posted
<1>6. Main(a, k)' /\ Made(a, k)'
  BY <1>1, <1>2 DEF Main, Made
<1>7. /\ selected \in Wavesamples /\ loop \in [Wavesamples -> BOOLEAN]
      /\ FirstLoop \in [Wavesamples -> BOOLEAN]
  BY DEF TypeOK, FirstLoop
<1> HIDE DEF c
<1>8. Mirage(a, done + 1)' /\ Posted(a, done + 1, k)'
  <2>1. CASE c.cmd = "SampleSelect"
    <3>1. done = 0 /\ c.bank = a[1]
      BY <1>1, <1>3, <2>1 DEF IsStep, Command
    <3>2. /\ selected' = <<c.bank, selected[2]>> /\ loop' = loop
          /\ queue' = queue
      BY <2>1, Zenon DEF MirageHandles, ParseOther, Unheard, c
    <3> QED  BY <1>1, <1>5, <3>1, <3>2 DEF Mirage, Posted
  <2>2. CASE c.cmd = "SampleNumberSelect"
    <3>1. done = 1 /\ c.number = a[2]
      BY <1>1, <1>3, <2>2 DEF IsStep, Command
    <3>2. /\ selected' = <<selected[1], c.number>> /\ loop' = loop
          /\ queue' = queue
      BY <2>2, Zenon DEF MirageHandles, ParseWaveStatus, Unheard, c
    <3>3. selected' = a
      BY <1>1, <3>1, <3>2 DEF Mirage, Wavesamples
    <3> QED  BY <1>1, <1>5, <3>1, <3>2, <3>3 DEF Mirage, Posted
  <2>3. CASE c.cmd \in {"LoopOff", "LoopOn"}
    <3>1. /\ loop' = [loop EXCEPT ![selected] = (c.cmd = "LoopOn")]
          /\ selected' = selected /\ queue' = queue
      BY <2>3 DEF MirageHandles, ParseOther, Unheard, c
    <3>2. CASE c.cmd = "LoopOff"
      <4>1. done = 2 /\ selected = a /\ loop = FirstLoop
        BY <1>1, <1>3, <3>2 DEF IsStep, Command, Mirage
      <4>2. loop' = [FirstLoop EXCEPT ![a] = FALSE]
        BY <3>1, <3>2, <4>1
      <4>3. done + 1 = 3 /\ 3 \in 3 .. 5 /\ selected' = a /\ queue' = <<>>
        BY <1>5, <3>1, <4>1
      <4>4. Mirage(a, 3)'
        BY <4>2, <4>3 DEF Mirage
      <4> QED  BY <1>5, <4>1, <4>3, <4>4 DEF Posted
    <3>3. CASE c.cmd = "LoopOn"
      <4>1. /\ done = 5 /\ selected = a /\ loop = [FirstLoop EXCEPT ![a] = FALSE]
            /\ a \in Looped
        BY <1>1, <1>3, <3>3 DEF IsStep, Command, Mirage
      <4>2. FirstLoop[a] = TRUE
        BY <4>1 DEF FirstLoop
      <4>3. loop' = FirstLoop
        BY <1>7, <3>1, <3>3, <4>1, <4>2
      <4>4. done + 1 = 6 /\ 6 \notin 3 .. 5 /\ selected' = a /\ queue' = <<>>
        BY <1>5, <3>1, <4>1
      <4>5. Mirage(a, 6)'
        BY <4>3, <4>4 DEF Mirage
      <4> QED  BY <1>5, <4>1, <4>4, <4>5 DEF Posted
    <3> QED  BY <2>3, <3>2, <3>3
  <2>4. CASE c.cmd = "WaveDumpReq"
    <3>1. done = 3 /\ selected = a
      BY <1>1, <1>3, <2>4 DEF IsStep, Command, Mirage
    <3>2. /\ selected' = selected /\ loop' = loop
          /\ ParseWaveDump(selected) \/ Unheard
      BY <2>4 DEF MirageHandles, c
    <3>3. \/ queue' = <<ReceivedMsg(a)>> /\ m_smiragesysex' = a
          \/ queue' = <<>>
      BY <1>5, <3>1, <3>2 DEF ParseWaveDump, Unheard
    <3> QED  BY <1>1, <1>4, <1>5, <3>1, <3>2, <3>3 DEF Mirage, Posted
  <2>5. CASE c.cmd \in {"WavesampleAck", "WavesampleNack"}
    <3>1. done = 4
      BY <1>1, <1>3, <2>5 DEF IsStep, Command
    <3>2. selected' = selected /\ loop' = loop /\ queue' = queue
      BY <2>5 DEF MirageHandles, Unheard, c
    <3> QED  BY <1>1, <1>5, <3>1, <3>2 DEF Mirage, Posted
  <2> QED  BY <2>1, <2>2, <2>3, <2>4, <2>5 DEF MirageHandles, c
<1> QED  BY <1>1, <1>3, <1>4, <1>6, <1>8 DEF Exchange

\* Two sequences of one element.
LEMMA ConcatPair ==
  ASSUME NEW x, NEW y PROVE <<x>> \o <<y>> = <<x, y>>
<1>1. /\ <<x>> \in Seq({x, y}) /\ Len(<<x>>) = 1 /\ <<x>>[1] = x
      /\ <<y>> \in Seq({x, y}) /\ Len(<<y>>) = 1 /\ <<y>>[1] = y
  OBVIOUS
<1>2. /\ <<x>> \o <<y>> \in Seq({x, y}) /\ Len(<<x>> \o <<y>>) = 2
      /\ (<<x>> \o <<y>>)[1] = x /\ (<<x>> \o <<y>>)[2] = y
  BY <1>1, ConcatProperties
<1>3. /\ <<x, y>> \in Seq({x, y}) /\ Len(<<x, y>>) = 2
      /\ <<x, y>>[1] = x /\ <<x, y>>[2] = y
  OBVIOUS
<1>4. \A i \in 1 .. Len(<<x>> \o <<y>>) : (<<x>> \o <<y>>)[i] = <<x, y>>[i]
  BY <1>2, <1>3
<1>5. Len(<<x>> \o <<y>>) = Len(<<x, y>>)
  BY <1>2, <1>3
<1> QED  BY <1>2, <1>3, <1>4, <1>5, SeqEqual, Zenon

\* The dump becomes the document; the acknowledgement, and the command that switches the
\* loop on again, are the last of the exchange.
LEMMA DumpStep ==
  ASSUME TypeOK, NEW a \in Wavesamples, NEW done, Exchange(a, done), OnGotWaveData
  PROVE  Exchange(a, done)'
<1>0. PICK k \in Nat : k = done + Len(toMirage)
  BY DEF Exchange, Main
<1>1. /\ done \in Nat /\ Line(a, done) /\ Main(a, k) /\ Mirage(a, done)
      /\ Posted(a, done, k) /\ Made(a, k)
  BY <1>0 DEF Exchange
<1>2. /\ queue # <<>> /\ Head(queue) # GetSamples /\ pc = "pump" /\ pc' = pc
      /\ UNCHANGED <<table, WavesampleStore, WaveSampleReceive, mirageVars>>
  BY DEF OnGotWaveData
<1>3. queue = <<ReceivedMsg(a)>> /\ done = 4 /\ k = 4 /\ m_smiragesysex = a
  BY <1>1, <1>2 DEF Posted
<1>4. toMirage = <<>> /\ docs = <<>> /\ Tail(queue) = <<>>
  BY <1>0, <1>1, <1>3 DEF TypeOK, Made
<1>5. BytesAt(Head(queue)) = {a}
  BY <1>3 DEF BytesAt, ReceivedMsg
<1>6. ChecksumFits(a) \/ ChecksumWrong \/ NoPages
  BY <1>5 DEF OnGotWaveData
<1>7. queue' = <<>>
  BY <1>4, <1>6 DEF ChecksumFits, ChecksumWrong, NoPages
<1>8. Mirage(a, done)'
  BY <1>1, <1>2 DEF Mirage, mirageVars
<1>9. /\ Line(a, 4)' /\ Made(a, 4 + Len(toMirage))' /\ Len(toMirage') \in 0 .. 2
  <2>1. CASE ChecksumFits(a)
    <3>1. /\ WavesampleStore = a[2]
          /\ WaveSampleReceive = [bank |-> a[1], LoopSwitch |-> a \in Looped]
      BY <1>1, <1>3 DEF Main
    <3>2. docs' = <<TheDocument(a)>>
      BY <1>4, <2>1, <3>1 DEF ChecksumFits, CreateFromMirage, TheDocument, Wavesamples
    <3>3. CASE a \in Looped
      <4>1. LoopBackOn = <<Command("LoopOn")>>
        BY <3>1, <3>3 DEF LoopBackOn
      <4>2. toMirage' = <<Command("WavesampleAck"), Command("LoopOn")>>
        <5>1. toMirage' = <<>> \o <<Command("WavesampleAck")>> \o <<Command("LoopOn")>>
          BY <1>4, <2>1, <4>1 DEF ChecksumFits
        <5>2. <<Command("WavesampleAck")>> \in Seq(Commands)
          BY CommandTypes
        <5>3. <<>> \o <<Command("WavesampleAck")>> = <<Command("WavesampleAck")>>
          BY <5>2, ConcatEmptySeq
        <5> QED  BY <5>1, <5>3, ConcatPair, Zenon
      <4>3. /\ Len(toMirage') = 2 /\ toMirage'[1] = Command("WavesampleAck")
            /\ toMirage'[2] = Command("LoopOn")
        BY <4>2
      <4>4. Line(a, 4)'
        BY <3>3, <4>3 DEF Line, IsStep
      <4>5. Made(a, 6)'
        BY <3>2, <3>3 DEF Made
      <4> QED  BY <4>3, <4>4, <4>5
    <3>4. CASE a \notin Looped
      <4>1. LoopBackOn = <<>>
        BY <3>1, <3>4 DEF LoopBackOn
      <4>2. toMirage' = <<Command("WavesampleAck")>>
        <5>1. toMirage' = <<>> \o <<Command("WavesampleAck")>> \o <<>>
          BY <1>4, <2>1, <4>1 DEF ChecksumFits
        <5>2. <<Command("WavesampleAck")>> \in Seq(Commands)
          BY CommandTypes
        <5> QED  BY <5>1, <5>2, ConcatEmptySeq
      <4>3. Len(toMirage') = 1 /\ toMirage'[1] = Command("WavesampleAck")
        BY <4>2
      <4>4. Line(a, 4)'
        BY <4>3 DEF Line, IsStep
      <4>5. Made(a, 5)'
        BY <3>2, <3>4 DEF Made
      <4> QED  BY <4>3, <4>4, <4>5
    <3> QED  BY <3>3, <3>4
  <2>2. CASE ChecksumWrong
    <3>1. toMirage' = <<Command("WavesampleNack")>> /\ docs' = <<>>
      BY <1>4, <2>2 DEF ChecksumWrong
    <3> QED  BY <3>1 DEF Line, Made, IsStep
  <2>3. CASE NoPages
    BY <1>4, <2>3 DEF NoPages, Line, Made
  <2> QED  BY <1>6, <2>1, <2>2, <2>3
<1>10. PICK n \in 0 .. 2 : n = Len(toMirage')
  BY <1>9
<1>11. Main(a, 4 + n)' /\ Posted(a, 4, 4 + n)'
  BY <1>1, <1>2, <1>3, <1>7 DEF Main, Posted
<1> QED  BY <1>3, <1>8, <1>9, <1>10, <1>11 DEF Exchange

\* What the main thread, the driver and the sampler do keeps the exchange of the one sample.
LEMMA SessionStep ==
  TypeOK /\ FirstSession /\ OneSample' /\ (MainStep \/ MirageHandles \/ ReceiveMsg)
  => FirstSession'
<1> SUFFICES ASSUME TypeOK, FirstSession, OneSample', MainStep \/ MirageHandles \/ ReceiveMsg
             PROVE  FirstSession'
  OBVIOUS
<1>1. UNCHANGED <<picked, sessions>>
  BY DEF MainStep, OnGetSamplesList, OnGotWaveData, Timeout, SelectAnswered, SelectedAsAsked,
         SelectedOther, LoopAnswered, DumpAnswered, MirageHandles, ReceiveMsg, userVars
<1>2. OneSample /\ Asked' = Asked /\ picked \in SUBSET Listed
  BY <1>1 DEF OneSample, Asked, TypeOK
<1>3. PICK a \in Wavesamples :
         a = Asked /\ \A list \in Requests(picked) : list = <<a>>
  <2>1. Cardinality(picked) = 1
    BY <1>2 DEF OneSample
  <2> QED  BY <1>2, <2>1, OneRequest DEF Asked
<1>4. PICK done \in 0 .. 6 : Exchange(a, done)
  BY <1>2, <1>3 DEF FirstSession
<1> USE DEF mainVars, mirageVars, userVars
<1>5. PICK k \in 0 .. 6 : k = done + Len(toMirage)
  BY <1>4 DEF Exchange, Main
<1>6. Main(a, k) /\ Posted(a, done, k)
  BY <1>4, <1>5 DEF Exchange
<1>7. a[1] \in Banks /\ a[2] \in Numbers
  BY <1>3 DEF Wavesamples
<1>8. ASSUME NEW d \in Nat, Exchange(a, d)' PROVE FirstSession'
  <2>1. Main(a, d + Len(toMirage))' /\ Len(toMirage') \in Nat
    BY <1>8, TypeStep DEF Exchange, TypeOK, Next
  <2>2. d \in 0 .. 6
    BY <2>1 DEF Main
  <2> QED  BY <1>2, <1>3, <1>8, <2>2 DEF FirstSession
<1>11. CASE OnGetSamplesList
  <2>1. queue = <<GetSamples>> /\ k = 0 /\ pc = "pump" /\ queue' = <<>>
    <3>1. queue # <<>> /\ Head(queue) = GetSamples /\ queue' = Tail(queue)
      BY <1>11 DEF OnGetSamplesList
    <3>2. Head(<<ReceivedMsg(a)>>) # GetSamples
      BY DEF ReceivedMsg, GetSamples
    <3>3. queue = <<GetSamples>> /\ k = 0 /\ pc = "pump"
      BY <1>6, <3>1, <3>2 DEF Posted
    <3> QED  BY <3>1, <3>3
  <2>2. NextRequest(<<a>>)
    BY <1>3, <1>11 DEF OnGetSamplesList
  <2>3. /\ AskAndWait([cmd |-> "SampleSelect", bank |-> a[1]], "select")
        /\ todo' = <<a>>
    BY <2>2 DEF NextRequest
  <2>4. [cmd |-> "SampleSelect", bank |-> a[1]] \in Commands
    BY <1>7, CommandTypes
  <2>5. IsStep(a, done + Len(toMirage) + 1, [cmd |-> "SampleSelect", bank |-> a[1]])
    BY <1>5, <2>1 DEF IsStep
  <2>6. Exchange(a, done)'
    BY <1>4, <1>5, <1>11, <2>1, <2>3, <2>4, <2>5, AskNext DEF OnGetSamplesList
  <2> QED  BY <1>8, <2>6
<1>12. CASE OnGotWaveData
  BY <1>4, <1>8, <1>12, DumpStep
<1>13. CASE Timeout
  <2>1. Exchange(a, done)'
    BY <1>4, <1>13, LeaveList DEF Timeout, MessageBox
  <2> QED  BY <1>8, <2>1
<1>14. CASE SelectAnswered
  <2>1. pc = "select" /\ k = 1 /\ todo = <<a>> /\ queue = <<>>
    BY <1>6, <1>14 DEF SelectAnswered, Main, Posted
  <2>2. /\ AskAndWait([cmd |-> "SampleNumberSelect", number |-> a[2]], "number")
        /\ UNCHANGED <<todo, queue, docs, table, mirageVars>>
    BY <1>14, <2>1 DEF SelectAnswered
  <2>3. [cmd |-> "SampleNumberSelect", number |-> a[2]] \in Commands
    BY <1>7, CommandTypes
  <2>4. IsStep(a, done + Len(toMirage) + 1, [cmd |-> "SampleNumberSelect", number |-> a[2]])
    BY <1>5, <2>1 DEF IsStep
  <2>5. Exchange(a, done)'
    BY <1>4, <1>5, <2>1, <2>2, <2>3, <2>4, AskNext
  <2> QED  BY <1>8, <2>5
<1>15. CASE SelectedAsAsked
  <2>1. pc = "number" /\ k = 2 /\ todo = <<a>> /\ queue = <<>> /\ table = FirstLoop
    BY <1>6, <1>15 DEF SelectedAsAsked, Main, Posted
  <2>2. m_WavesampleStatus = a /\ table[a] = (a \in Looped)
    BY <1>3, <1>15, <2>1 DEF SelectedAsAsked, FirstLoop
  <2>3. /\ AskAndWait(Command("LoopOff"), "loop")
        /\ WavesampleStore' = a[2]
        /\ WaveSampleReceive' = [bank |-> a[1], LoopSwitch |-> a \in Looped]
        /\ UNCHANGED <<todo, queue, docs, table, mirageVars>>
    BY <1>15, <2>1, <2>2 DEF SelectedAsAsked
  <2>4. IsStep(a, done + Len(toMirage) + 1, Command("LoopOff"))
    BY <1>5, <2>1 DEF IsStep
  <2>5. Exchange(a, done)'
    BY <1>4, <1>5, <2>1, <2>3, <2>4, CommandTypes, AskNext
  <2> QED  BY <1>8, <2>5
<1>16. CASE SelectedOther
  <2>1. Exchange(a, done)'
    BY <1>4, <1>16, LeaveList DEF SelectedOther, MessageBox
  <2> QED  BY <1>8, <2>1
<1>17. CASE LoopAnswered
  <2>1. pc = "loop" /\ k = 3 /\ todo = <<a>> /\ queue = <<>>
    BY <1>6, <1>17 DEF LoopAnswered, Main, Posted
  <2>2. /\ AskAndWait(Command("WaveDumpReq"), "dump")
        /\ UNCHANGED <<todo, queue, docs, table, WavesampleStore, WaveSampleReceive, mirageVars>>
    BY <1>17 DEF LoopAnswered
  <2>3. IsStep(a, done + Len(toMirage) + 1, Command("WaveDumpReq"))
    BY <1>5, <2>1 DEF IsStep
  <2>4. Exchange(a, done)'
    BY <1>4, <1>5, <2>1, <2>2, <2>3, CommandTypes, AskNext
  <2> QED  BY <1>8, <2>4
<1>18. CASE DumpAnswered
  <2>1. Exchange(a, done)'
    BY <1>4, <1>18, LeaveList DEF DumpAnswered
  <2> QED  BY <1>8, <2>1
<1>19. CASE MirageHandles
  BY <1>3, <1>4, <1>8, <1>19, MirageStep
<1>20. CASE ReceiveMsg
  <2>1. Exchange(a, done)'
    BY <1>4, <1>20, Untouched DEF ReceiveMsg
  <2> QED  BY <1>8, <2>1
<1> QED
  BY <1>11, <1>12, <1>13, <1>14, <1>15, <1>16, <1>17, <1>18, <1>19, <1>20 DEF MainStep

\* The strengthened invariant is inductive.
LEMMA Inductive == Spec => []IInv
<1>1. Init => IInv
  <2> SUFFICES ASSUME Init PROVE IInv
    OBVIOUS
  <2>1. sessions = 0 /\ Fresh /\ table = FirstLoop
    BY DEF Init, Fresh, FirstLoop
  <2>2. ~OneSample
    BY <2>1 DEF OneSample
  <2> QED  BY <2>1, <2>2, TypeInit DEF IInv, FirstSession
<1>2. IInv /\ [Next]_vars => IInv'
  <2> SUFFICES ASSUME IInv, [Next]_vars PROVE IInv'
    OBVIOUS
  <2> USE DEF mainVars, mirageVars, userVars
  <2>1. TypeOK /\ TypeOK' /\ FirstSession /\ sessions \in Nat
    BY TypeStep DEF IInv, TypeOK
  <2>2. ASSUME NEW picks \in SUBSET Listed, OnBnClickedReceiveSamples(picks) PROVE IInv'
    <3>1. sessions' = sessions + 1 /\ sessions' # 0
      BY <2>1, <2>2 DEF OnBnClickedReceiveSamples
    <3>2. ASSUME OneSample' PROVE Exchange(Asked, 0)'
      <4>1. sessions = 0 /\ Fresh /\ table' = FirstLoop
        BY <2>1, <2>2, <3>1, <3>2 DEF OneSample, IInv, OnBnClickedReceiveSamples, Fresh
      <4>2. /\ pc' = "pump" /\ queue' = <<GetSamples>> /\ toMirage' = <<>> /\ docs' = <<>>
            /\ loop' = FirstLoop
        BY <2>2, <4>1 DEF OnBnClickedReceiveSamples, Fresh
      <4>3. Len(toMirage') = 0
        BY <4>2
      <4>4. /\ Line(Asked, 0)' /\ Main(Asked, 0)' /\ Mirage(Asked, 0)'
            /\ Posted(Asked, 0, 0)' /\ Made(Asked, 0)'
        BY <4>1, <4>2, <4>3 DEF Line, Main, Mirage, Posted, Made
      <4> QED  BY <4>3, <4>4 DEF Exchange
    <3>3. FirstSession'
      BY <3>2 DEF FirstSession
    <3> QED  BY <2>1, <3>1, <3>3 DEF IInv
  <2>3. CASE MainStep \/ MirageHandles \/ ReceiveMsg
    <3>1. UNCHANGED <<picked, sessions>>
      BY <2>3 DEF MainStep, OnGetSamplesList, OnGotWaveData, Timeout, SelectAnswered,
         SelectedAsAsked, SelectedOther, LoopAnswered, DumpAnswered, MirageHandles, ReceiveMsg
    <3>2. FirstSession'
      BY <2>1, <2>3, SessionStep DEF FirstSession
    <3>3. ASSUME sessions = 0 PROVE (Fresh /\ table = FirstLoop)'
      <4>1. Fresh /\ table = FirstLoop /\ pc = "pump" /\ queue = <<>> /\ toMirage = <<>>
        BY <3>3 DEF IInv, Fresh
      <4>2. CASE ReceiveMsg
        BY <4>1, <4>2 DEF ReceiveMsg, Fresh
      <4> QED
        BY <2>3, <4>1, <4>2 DEF MainStep, OnGetSamplesList, OnGotWaveData, Timeout,
           SelectAnswered, SelectedAsAsked, SelectedOther, LoopAnswered, DumpAnswered, MirageHandles
    <3> QED  BY <2>1, <3>1, <3>2, <3>3 DEF IInv
  <2>4. CASE UNCHANGED vars
    <3>1. OneSample' = OneSample /\ Asked' = Asked
      BY <2>4 DEF vars, OneSample, Asked
    <3>2. UNCHANGED <<mainVars, queue, m_smiragesysex, toMirage, mirageVars>>
      BY <2>4 DEF vars
    <3>3. ASSUME OneSample PROVE \E done \in 0 .. 6 : Exchange(Asked, done)'
      <4>1. PICK a : a = Asked
        OBVIOUS
      <4>2. PICK done \in 0 .. 6 : Exchange(a, done)
        BY <2>1, <3>3, <4>1 DEF FirstSession
      <4>3. Exchange(a, done)'
        BY <3>2, <4>2, Untouched
      <4> QED  BY <3>1, <4>1, <4>3
    <3>4. FirstSession'
      BY <3>1, <3>3 DEF FirstSession
    <3> QED  BY <2>1, <2>4, <3>4 DEF IInv, Fresh, vars
  <2> QED  BY <2>2, <2>3, <2>4 DEF Next
<1> QED  BY <1>1, <1>2, PTL DEF Spec

\* A first session that asks for one sample makes at most one document: of that sample,
\* under its name and with its loop switch, for any lists, loops and bounds.
THEOREM OneArrives == Spec => []OneSampleFaithful
<1>1. IInv => OneSampleFaithful
  <2> SUFFICES ASSUME IInv, OneSample, docs # <<>>
               PROVE  /\ Len(docs) <= 1
                      /\ \A i \in DOMAIN docs :
                            /\ docs[i].name = Asked
                            /\ docs[i].data = Asked
                            /\ docs[i].looped = (Asked \in Looped)
                            /\ Asked[1] = "lower" => docs[i].loopOf = Asked
                            /\ (\A w \in picked : NoGapBefore(w)) => docs[i].data \in picked
    BY DEF OneSampleFaithful
  <2>1. Cardinality(picked) = 1 /\ picked \in SUBSET Listed
    BY DEF IInv, TypeOK, OneSample
  <2>2. PICK w \in picked, a \in Wavesamples : a = Asked /\ (NoGapBefore(w) => a = w)
    BY <2>1, OneRequest DEF Asked
  <2>3. docs = <<TheDocument(a)>>
    BY <2>2 DEF IInv, FirstSession, Exchange, Made
  <2>4. a[1] = "lower" => <<"lower", a[2]>> = a
    BY DEF Wavesamples
  <2> QED  BY <2>2, <2>3, <2>4 DEF TheDocument
<1> QED  BY <1>1, Inductive, PTL

\* After such a session has made its document and the sampler has handled all commands, every
\* loop is switched as it was before.
THEOREM LoopRestored == Spec => []OneSampleLoopRestored
<1>1. IInv => OneSampleLoopRestored
  <2> SUFFICES ASSUME IInv, OneSample, docs # <<>>, toMirage = <<>> PROVE loop = FirstLoop
    BY DEF OneSampleLoopRestored, FirstLoop
  <2>1. PICK done \in 0 .. 6 : Exchange(Asked, done)
    BY DEF IInv, FirstSession
  <2>2. done + Len(toMirage) = done
    OBVIOUS
  <2>3. /\ done = IF Asked \in Looped THEN 6 ELSE 5
        /\ loop = IF done \in 3 .. 5 THEN [FirstLoop EXCEPT ![Asked] = FALSE] ELSE FirstLoop
    BY <2>1, <2>2 DEF Exchange, Made, Mirage
  <2>4. CASE Asked \in Looped
    BY <2>3, <2>4
  <2>5. CASE Asked \notin Looped
    <3>1. loop = [FirstLoop EXCEPT ![Asked] = FALSE]
      BY <2>3, <2>5
    <3>2. PICK a : a = Asked
      OBVIOUS
    <3>3. \A w \in Wavesamples : FirstLoop[w] = (w \in Looped)
      BY DEF FirstLoop
    <3>4. [FirstLoop EXCEPT ![a] = FALSE] = FirstLoop
      <4>1. \A w \in Wavesamples : w = a => FirstLoop[w] = FALSE
        <5> SUFFICES ASSUME NEW w \in Wavesamples, w = a PROVE FirstLoop[w] = FALSE
          OBVIOUS
        <5>1. w \notin Looped
          BY <2>5, <3>2
        <5>2. FirstLoop[w] \in BOOLEAN
          BY DEF FirstLoop
        <5>3. ~FirstLoop[w]
          BY <5>1 DEF FirstLoop
        <5> QED  BY <5>2, <5>3
      <4>2. FirstLoop \in [Wavesamples -> BOOLEAN]
        BY DEF FirstLoop
      <4> QED  BY <4>1, <4>2
    <3> QED  BY <3>1, <3>2, <3>4
  <2> QED  BY <2>4, <2>5
<1> QED  BY <1>1, Inductive, PTL

=============================================================================
