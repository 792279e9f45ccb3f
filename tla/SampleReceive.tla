--------------------------- MODULE SampleReceive ---------------------------
(***************************************************************************)
(* "Receive Sample": the dialog posts WM_GETSAMPLES, OnGetSamplesList      *)
(* asks the Mirage for every sample of the two select lists on the main    *)
(* thread, and the MIDI driver's callback answers into shared globals.     *)
(*                                                                         *)
(* Three actors interleave: the main thread (a message pump that blocks in *)
(* WaitForSingleObject inside GetSample), the driver callback (ReceiveMsg  *)
(* and ParseSysEx) and the sampler.  The callback and the main thread      *)
(* share one event (midi_in_event), one status byte (m_WavesampleStatus)   *)
(* and one string (m_smiragesysex).                                        *)
(*                                                                         *)
(* Time is abstracted: a wait may time out whenever its event is unset.    *)
(* The outcome of GotSample's checksum is left open.                       *)
(***************************************************************************)
EXTENDS Naturals, Sequences, FiniteSets

CONSTANTS
    Numbers,     \* wavesample numbers of a bank, from 0
    Valid,       \* the wavesamples the dialog lists, per bank
    Looped,      \* the wavesamples whose loop is on in the sampler
    MaxPicks,    \* bound: how many samples the user selects
    MaxSessions, \* bound: how often the user clicks "receive"
    MaxNotes     \* bound: short messages the driver delivers

Banks == {"lower", "upper"}
Wavesamples == Banks \X Numbers

ASSUME ReceiveAssumption ==
    /\ \E n \in Numbers : Numbers = 0 .. n
    /\ Valid \in [Banks -> SUBSET Numbers]
    /\ Looped \in SUBSET Wavesamples
    /\ MaxPicks \in Nat /\ MaxSessions \in Nat /\ MaxNotes \in Nat

Garbled == <<"garbled", 0>>      \* bytes that are no wavesample's dump
None    == <<"none", 0>>         \* WavesampleStatus = 0xFF

VARIABLES
    pc,                \* where the main thread is: "pump" or one of GetSample's waits
    todo,              \* requests of the list not finished yet, the current one first
    queue,             \* the main thread's posted thread messages
    midi_in_event,     \* the manual-reset event
    m_WavesampleStatus,\* the last WAVE_STATUS_MSG, written by the callback
    WavesampleStore,   \* number of the wavesample selected last
    WaveSampleReceive, \* bank and loop switch of the sample being received
    m_smiragesysex,    \* the string the last wave dump was assigned to
    docs,              \* documents made by CreateFromMirage, oldest first
    table,             \* loop switches of ProgramDumpTable
    toMirage,          \* commands sent and not yet handled by the sampler
    selected,          \* the sampler's selected wavesample
    loop,              \* the sampler's loop switches
    picked,            \* what the user picked in the dialog of this session
    sessions, notes    \* counters for the bounds

mainVars   == <<pc, todo, WavesampleStore, WaveSampleReceive, docs, table>>
mirageVars == <<selected, loop>>
userVars   == <<picked, sessions>>
vars == <<mainVars, queue, midi_in_event, m_WavesampleStatus, m_smiragesysex,
          toMirage, mirageVars, userVars, notes>>

GetSamples == [msg |-> "WM_GETSAMPLES"]
ReceivedMsg(w) == [msg |-> "WM_WAVESAMPLERECEIVED", of |-> w]

Commands ==
    [cmd : {"SampleSelect"}, bank : Banks]
    \cup [cmd : {"SampleNumberSelect"}, number : Numbers]
    \cup [cmd : {"LoopOff", "LoopOn", "WaveDumpReq", "WavesampleAck", "WavesampleNack"}]

Command(c) == [cmd |-> c]

-----------------------------------------------------------------------------
(* The dialog.                                                             *)

(* The list box of a bank holds its valid wavesamples in ascending order;  *)
(* the handler stores the position of a selected line, not its wavesample. *)
Position(bank, n) == Cardinality({m \in Valid[bank] : m < n})

Lines(bank, picks) == {<<bank, Position(bank, p[2])>> : p \in {q \in picks : q[1] = bank}}

(* The select lists with these lines from top to bottom: there is one.     *)
SelectLists(bank, picks) ==
    LET lines == Lines(bank, picks)
    IN  {list \in [1 .. Cardinality(lines) -> lines] :
            \A i, j \in DOMAIN list : i < j => list[i][2] < list[j][2]}

Requests(picks) ==
    {lower \o upper : lower \in SelectLists("lower", picks),
                      upper \in SelectLists("upper", picks)}

(* UpdateSampleData rereads the sampler's tables when the dialog opens     *)
(* (its result is ignored, so the old table may stay).  Posted messages    *)
(* are handled before the user's next click.                               *)
OnBnClickedReceiveSamples(picks) ==
    /\ pc = "pump" /\ queue = <<>>
    /\ sessions < MaxSessions /\ Cardinality(picks) <= MaxPicks
    /\ table' \in (IF sessions = 0 THEN {loop} ELSE {loop, table})
    /\ picked' = picks
    /\ sessions' = sessions + 1
    /\ queue' = <<GetSamples>>
    /\ UNCHANGED <<pc, todo, WavesampleStore, WaveSampleReceive, docs, midi_in_event,
                   m_WavesampleStatus, m_smiragesysex, toMirage, mirageVars, notes>>

-----------------------------------------------------------------------------
(* The main thread.                                                        *)

(* A message box runs its own message loop, in which thread messages that  *)
(* wait in the queue have no window to go to: they may be lost.            *)
MessageBox == queue' \in {queue, <<>>}

(* ResetEvent, SendData, and wait at the given place.                      *)
AskAndWait(command, place) ==
    /\ midi_in_event' = FALSE
    /\ toMirage' = Append(toMirage, command)
    /\ pc' = place

(* Turn to the first of the remaining requests, or leave OnGetSamplesList. *)
NextRequest(rest) ==
    /\ todo' = rest
    /\ IF rest = <<>>
       THEN pc' = "pump" /\ UNCHANGED <<midi_in_event, toMirage>>
       ELSE AskAndWait([cmd |-> "SampleSelect", bank |-> Head(rest)[1]], "select")

OnGetSamplesList ==
    /\ pc = "pump" /\ queue # <<>> /\ Head(queue) = GetSamples
    /\ queue' = Tail(queue)
    /\ \E requests \in Requests(picked) : NextRequest(requests)
    /\ UNCHANGED <<WavesampleStore, WaveSampleReceive, docs, table, m_WavesampleStatus,
                   m_smiragesysex, mirageVars, userVars, notes>>

(* A timeout that returns to the pump with the request still pending.      *)
TimeoutLeavesList ==
    /\ pc # "pump" /\ ~midi_in_event
    /\ pc' = "pump"
    /\ UNCHANGED <<todo, queue, midi_in_event, toMirage, WavesampleStore, WaveSampleReceive,
                   docs, table, m_WavesampleStatus, m_smiragesysex, mirageVars, userVars, notes>>

(* INFINITE in the wait for the dump.                                      *)
TimeoutNotForDump ==
    /\ pc \notin {"pump", "dump"} /\ ~midi_in_event
    /\ MessageBox
    /\ NextRequest(Tail(todo))
    /\ UNCHANGED <<WavesampleStore, WaveSampleReceive, docs, table, m_WavesampleStatus,
                   m_smiragesysex, mirageVars, userVars, notes>>

(* A wait whose event stayed unset: the sample is given up after a message *)
(* box and the loop goes on to the next one.                               *)
Timeout ==
    /\ pc # "pump" /\ ~midi_in_event
    /\ MessageBox
    /\ NextRequest(Tail(todo))
    /\ UNCHANGED <<WavesampleStore, WaveSampleReceive, docs, table, m_WavesampleStatus,
                   m_smiragesysex, mirageVars, userVars, notes>>

SelectAnswered ==
    /\ pc = "select" /\ midi_in_event
    /\ AskAndWait([cmd |-> "SampleNumberSelect", number |-> Head(todo)[2]], "number")
    /\ UNCHANGED <<todo, queue, WavesampleStore, WaveSampleReceive, docs, table,
                   m_WavesampleStatus, m_smiragesysex, mirageVars, userVars, notes>>

(* The comparison with the expected wavesample left out.                   *)
SelectedUnchecked ==
    /\ pc = "number" /\ midi_in_event
    /\ WavesampleStore' = m_WavesampleStatus[2]
    /\ WaveSampleReceive' = [bank |-> m_WavesampleStatus[1], LoopSwitch |-> table[Head(todo)]]
    /\ AskAndWait(Command("LoopOff"), "loop")
    /\ UNCHANGED <<todo, queue, docs, table, m_WavesampleStatus, m_smiragesysex,
                   mirageVars, userVars, notes>>

(* The status is whatever m_WavesampleStatus holds when the wait ends.     *)
(* WavesampleStore is set before the checks.                               *)
SelectedAsAsked ==
    /\ pc = "number" /\ midi_in_event
    /\ m_WavesampleStatus = Head(todo)
    /\ WavesampleStore' = m_WavesampleStatus[2]
    /\ WaveSampleReceive' = [bank |-> m_WavesampleStatus[1], LoopSwitch |-> table[Head(todo)]]
    /\ AskAndWait(Command("LoopOff"), "loop")
    /\ UNCHANGED <<todo, queue, docs, table, m_WavesampleStatus, m_smiragesysex,
                   mirageVars, userVars, notes>>

SelectedOther ==
    /\ pc = "number" /\ midi_in_event
    /\ m_WavesampleStatus # Head(todo)
    /\ WavesampleStore' = m_WavesampleStatus[2]
    /\ MessageBox
    /\ NextRequest(Tail(todo))
    /\ UNCHANGED <<WaveSampleReceive, docs, table, m_WavesampleStatus, m_smiragesysex,
                   mirageVars, userVars, notes>>

LoopAnswered ==
    /\ pc = "loop" /\ midi_in_event
    /\ AskAndWait(Command("WaveDumpReq"), "dump")
    /\ UNCHANGED <<todo, queue, WavesampleStore, WaveSampleReceive, docs, table,
                   m_WavesampleStatus, m_smiragesysex, mirageVars, userVars, notes>>

(* GetSample returns true; nothing checks that a dump has arrived.         *)
DumpAnswered ==
    /\ pc = "dump" /\ midi_in_event
    /\ NextRequest(Tail(todo))
    /\ UNCHANGED <<queue, WavesampleStore, WaveSampleReceive, docs, table, m_WavesampleStatus,
                   m_smiragesysex, mirageVars, userVars, notes>>

(* What OnGotWaveData copies through the pointer of its message: the       *)
(* string's bytes, whose first one is gone once it was cleared; if a later *)
(* dump was assigned, the string may have moved and left freed memory.     *)
BytesAt(message) ==
    IF m_smiragesysex = message.of THEN {m_smiragesysex}
    ELSE {m_smiragesysex, message.of, Garbled}

(* The document is named after WavesampleStore and the bank; its loop is   *)
(* looked up with ul_Wavesample >> 4, which is 0 for 0 and for 8.          *)
CreateFromMirage(data) ==
    docs' = Append(docs, [name   |-> <<WaveSampleReceive.bank, WavesampleStore>>,
                          data   |-> data,
                          loopOf |-> <<"lower", WavesampleStore>>,
                          looped |-> WaveSampleReceive.LoopSwitch])

(* The loop forgotten.                                                     *)
LoopStaysOff == <<>>

LoopBackOn ==
    IF WaveSampleReceive.LoopSwitch THEN <<Command("LoopOn")>> ELSE <<>>

ChecksumFits(data) ==
    /\ CreateFromMirage(data)
    /\ toMirage' = toMirage \o <<Command("WavesampleAck")>> \o LoopBackOn
    /\ queue' = Tail(queue)

ChecksumWrong ==
    /\ toMirage' = Append(toMirage, Command("WavesampleNack"))
    /\ queue' \in {Tail(queue), <<>>}       \* the handler removed its own message
    /\ UNCHANGED docs

(* A dump whose page count byte is 0 (256 pages, or garbled).              *)
NoPages ==
    /\ queue' = Tail(queue)
    /\ UNCHANGED <<docs, toMirage>>

OnGotWaveData ==
    /\ pc = "pump" /\ queue # <<>> /\ Head(queue) # GetSamples
    /\ m_smiragesysex' = Garbled
    /\ \E data \in BytesAt(Head(queue)) : ChecksumFits(data) \/ ChecksumWrong \/ NoPages
    /\ UNCHANGED <<pc, todo, WavesampleStore, WaveSampleReceive, table, midi_in_event,
                   m_WavesampleStatus, mirageVars, userVars, notes>>

-----------------------------------------------------------------------------
(* The driver callback: ParseSysEx, then SetEvent.                         *)

ParseWaveDump(w) ==
    /\ m_smiragesysex' = w
    /\ queue' = Append(queue, ReceivedMsg(w))
    /\ midi_in_event' = TRUE
    /\ UNCHANGED m_WavesampleStatus

ParseWaveStatus(w) ==
    /\ m_WavesampleStatus' = w
    /\ midi_in_event' = TRUE
    /\ UNCHANGED <<m_smiragesysex, queue>>

ParseOther ==
    /\ midi_in_event' = TRUE
    /\ UNCHANGED <<m_WavesampleStatus, m_smiragesysex, queue>>

Unheard == UNCHANGED <<m_WavesampleStatus, m_smiragesysex, queue, midi_in_event>>

(* A note, a controller: every short message sets the event too.           *)
ReceiveMsg ==
    /\ notes < MaxNotes
    /\ notes' = notes + 1
    /\ midi_in_event' = TRUE
    /\ UNCHANGED <<mainVars, queue, m_WavesampleStatus, m_smiragesysex, toMirage,
                   mirageVars, userVars>>

-----------------------------------------------------------------------------
(* The sampler: handles commands in the order they were sent, at its own   *)
(* pace; an answer may be lost on its way.                                 *)

MirageHandles ==
    /\ toMirage # <<>>
    /\ toMirage' = Tail(toMirage)
    /\ LET c == Head(toMirage) IN
       \/ /\ c.cmd = "SampleSelect"
          /\ selected' = <<c.bank, selected[2]>>
          /\ ParseOther \/ Unheard
          /\ UNCHANGED loop
       \/ /\ c.cmd = "SampleNumberSelect"
          /\ selected' = <<selected[1], c.number>>
          /\ ParseWaveStatus(selected') \/ Unheard
          /\ UNCHANGED loop
       \/ /\ c.cmd \in {"LoopOff", "LoopOn"}
          /\ loop' = [loop EXCEPT ![selected] = (c.cmd = "LoopOn")]
          /\ ParseOther \/ Unheard
          /\ UNCHANGED selected
       \/ /\ c.cmd = "WaveDumpReq"
          /\ ParseWaveDump(selected) \/ Unheard
          /\ UNCHANGED mirageVars
       \/ /\ c.cmd \in {"WavesampleAck", "WavesampleNack"}
          /\ Unheard
          /\ UNCHANGED mirageVars
    /\ UNCHANGED <<mainVars, userVars, notes>>

-----------------------------------------------------------------------------
Init ==
    /\ pc = "pump" /\ todo = <<>> /\ queue = <<>>
    /\ midi_in_event = FALSE
    /\ m_WavesampleStatus = <<"lower", 0>>      \* a static object: zero
    /\ WavesampleStore = 0
    /\ WaveSampleReceive = [bank |-> "lower", LoopSwitch |-> FALSE]
    /\ m_smiragesysex = Garbled
    /\ docs = <<>> /\ toMirage = <<>>
    /\ selected \in Wavesamples
    /\ loop = [w \in Wavesamples |-> w \in Looped]
    /\ table = loop
    /\ picked = {} /\ sessions = 0 /\ notes = 0

Listed == {w \in Wavesamples : w[2] \in Valid[w[1]]}

MainStep ==
    \/ OnGetSamplesList
    \/ OnGotWaveData
    \/ Timeout
    \/ SelectAnswered
    \/ SelectedAsAsked
    \/ SelectedOther
    \/ LoopAnswered
    \/ DumpAnswered

Next ==
    \/ \E picks \in SUBSET Listed : OnBnClickedReceiveSamples(picks)
    \/ MainStep
    \/ MirageHandles
    \/ ReceiveMsg

(* The main thread is scheduled and every wait has a timeout.              *)
Spec == Init /\ [][Next]_vars /\ WF_vars(MainStep)

-----------------------------------------------------------------------------
TypeOK ==
    /\ pc \in {"pump", "select", "number", "loop", "dump"}
    /\ todo \in Seq(Wavesamples)
    /\ queue \in Seq({GetSamples} \cup {ReceivedMsg(w) : w \in Wavesamples})
    /\ midi_in_event \in BOOLEAN
    /\ m_WavesampleStatus \in Wavesamples
    /\ WavesampleStore \in Numbers
    /\ WaveSampleReceive \in [bank : Banks, LoopSwitch : BOOLEAN]
    /\ m_smiragesysex \in Wavesamples \cup {Garbled}
    /\ docs \in Seq([name : Wavesamples, data : Wavesamples \cup {Garbled},
                     loopOf : Wavesamples, looped : BOOLEAN])
    /\ table \in [Wavesamples -> BOOLEAN]
    /\ toMirage \in Seq(Commands)
    /\ selected \in Wavesamples
    /\ loop \in [Wavesamples -> BOOLEAN]
    /\ picked \in SUBSET Listed
    /\ sessions \in 0 .. MaxSessions
    /\ notes \in 0 .. MaxNotes
    /\ (pc = "pump") = (todo = <<>>)

OneSample == sessions = 1 /\ Cardinality(picked) = 1
Asked == CHOOSE w \in Lines("lower", picked) \cup Lines("upper", picked) : TRUE

NoGapBefore(w) == \A n \in Numbers : n < w[2] => n \in Valid[w[1]]

(* When a first session asks for one sample, its document holds the dump   *)
(* of the sample asked for, under its name and with its loop switch        *)
(* (GetSample, OnGotWaveData, GotSample), whatever short messages ended a  *)
(* wait early and however late the answers came.  That is the sample the   *)
(* user picked ("the place of the sample to get", mirage_receive.htm) as   *)
(* long as all wavesamples in front of it are in the list.                 *)
OneSampleFaithful ==
    OneSample =>
        /\ Len(docs) <= 1
        /\ \A i \in DOMAIN docs :
              /\ docs[i].name = Asked
              /\ docs[i].data = Asked
              /\ docs[i].looped = (Asked \in Looped)
              /\ Asked[1] = "lower" => docs[i].loopOf = Asked
              /\ (\A w \in picked : NoGapBefore(w)) => docs[i].data \in picked

(* After such a session every loop that GetSample switched off is on again *)
(* in the sampler (MirageSysex.cpp:287), once it has handled what was sent.*)
(* It needs the document: a dump lost to a message box leaves the loop off.*)
OneSampleLoopRestored ==
    OneSample /\ docs # <<>> /\ toMirage = <<>> => loop = [w \in Wavesamples |-> w \in Looped]

(* The main thread always comes back from OnGetSamplesList to its message  *)
(* pump, even if the sampler never answers: every wait has a timeout.      *)
ReceiveEnds == (pc # "pump") ~> (pc = "pump")

(* "Remember to switch the loop back on" (MirageSysex.cpp:287): once every *)
(* dump of the first session has become a document and the sampler has     *)
(* handled all commands, the loops are as they were.                       *)
LoopsSwitchedBack ==
    /\ sessions = 1 /\ pc = "pump" /\ queue = <<>> /\ toMirage = <<>>
    /\ Len(docs) = Cardinality(picked)
    => loop = [w \in Wavesamples |-> w \in Looped]

=============================================================================
