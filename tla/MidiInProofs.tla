---------------------------- MODULE MidiInProofs ----------------------------
(***************************************************************************)
(* Proofs about MidiIn: who may delete a header of SysXBuffer, and why a   *)
(* recording device has its buffer or gets it back.                        *)
(***************************************************************************)
EXTENDS MidiIn, SequenceTheorems, TLAPS

-----------------------------------------------------------------------------
(* The inductive invariant, in parts.                                      *)

\* Where the threads and the driver can stand, given the main thread.
Control ==
  /\ mainPc = "ready" => (mState = "CLOSED" /\ device = "closed")
                         \/ (mState = "RECORDING" /\ device = "started")
  /\ mainPc = "open" => mState = "CLOSED" /\ device = "closed"
  /\ mainPc \in {"prepare", "queue", "record", "remove", "close"} =>
       mState = "OPENED" /\ device = "open"
  /\ mainPc = "start" => mState = "RECORDING" /\ device = "open"
  /\ mainPc \in {"signal", "join", "reset"} => mState = "OPENED" /\ device = "started"
  /\ mainPc = "terminated" => device = "closed" /\ inDriver = <<>> /\ cbPc = "idle"
  /\ mainPc \in {"reset", "remove", "close", "open", "prepare", "queue", "record", "terminated"}
     \/ mState = "CLOSED" => workerPc \in {"none", "exited"}

\* The queue is of live headers, each once, and the header that AddSysExBuffer is about to
\* queue is a live one besides.
Queued ==
  /\ QueueIsLive
  /\ mainPc = "queue" => hdr \in live /\ hdr \notin ToSet(hdrQueue)

\* SysXBuffer is with the driver from AddSysExBuffer until midiInReset, but while MidiInProc
\* has it.
HasBuffer ==
  /\ mainPc \in {"queue", "record", "start"} => inDriver # <<>>
  /\ RecordingHasBuffer

\* The first session begins with nothing left over.
FirstStart ==
  /\ opens = 0 /\ mainPc # "terminated" =>
       mainPc \in {"ready", "open"} /\ mState = "CLOSED"
  /\ opens <= 1 /\ (opens = 0 \/ mainPc \in {"prepare", "queue", "record", "start"}) =>
       cbPc = "idle" /\ mEvent = 0
  /\ opens = 0 \/ (opens = 1 /\ mainPc = "prepare") => inDriver = <<>>
  /\ opens = 0 \/ (opens = 1 /\ mainPc \in {"prepare", "queue"}) => hdrQueue = <<>>

\* In the first session whoever signals the worker while it listens, and the worker when it
\* has heard a signal, finds the queue empty: the callback has emptied it before.
FirstSignals ==
  opens <= 1 /\ (\/ cbPc = "signal"
                 \/ mState = "RECORDING" /\ mEvent = 1
                 \/ mState = "RECORDING" /\ workerPc = "recheck"
                 \/ workerPc = "remove")
    => hdrQueue = <<>>

\* In the first session who empties the queue deletes no header of the driver: that one was
\* made by ReleaseBuffer and never queued.
FirstApart ==
  opens <= 1 /\ (cbPc # "idle" \/ mainPc = "remove") =>
    ToSet(inDriver) \cap ToSet(hdrQueue) = {}

IInv ==
  /\ TypeOK /\ Control /\ Queued /\ HasBuffer
  /\ FirstStart /\ FirstSessionOneBuffer /\ FirstSignals /\ FirstApart
  /\ FirstSessionKeepsHeaders

-----------------------------------------------------------------------------
\* The empty queue has no elements, and no two equal ones.
LEMMA ToSetEmpty ==
  /\ IsInjective(<<>>) /\ ToSet(<<>>) = {}
BY DEF IsInjective, ToSet

\* The elements of a queue, by their places.
LEMMA InToSet ==
  ASSUME NEW S, NEW s \in Seq(S)
  PROVE  ToSet(s) = {s[i] : i \in 1 .. Len(s)}
<1>1. DOMAIN s = 1 .. Len(s)
  OBVIOUS
<1> QED  BY <1>1, Zenon DEF ToSet

\* The elements of a queue that grew by one.
LEMMA ToSetAppend ==
  ASSUME NEW S, NEW s \in Seq(S), NEW e \in S
  PROVE  ToSet(Append(s, e)) = ToSet(s) \cup {e}
<1>1. /\ DOMAIN Append(s, e) = 1 .. Len(s) + 1 /\ DOMAIN s = 1 .. Len(s) /\ Len(s) \in Nat
      /\ Append(s, e)[Len(s) + 1] = e
      /\ \A i \in 1 .. Len(s) : Append(s, e)[i] = s[i]
  OBVIOUS
<1>2. \A i \in 1 .. Len(s) + 1 : i \in 1 .. Len(s) \/ i = Len(s) + 1
  BY <1>1
<1>3. Len(s) + 1 \in 1 .. Len(s) + 1 /\ 1 .. Len(s) \subseteq 1 .. Len(s) + 1
  BY <1>1
<1> QED  BY <1>1, <1>2, <1>3, Zenon DEF ToSet

\* The elements of a queue: its head and the elements of its tail.
LEMMA ToSetTail ==
  ASSUME NEW S, NEW s \in Seq(S), s # <<>>
  PROVE  ToSet(s) = {Head(s)} \cup ToSet(Tail(s))
<1>1. /\ Len(Tail(s)) = Len(s) - 1 /\ Len(s) \in Nat /\ Len(s) > 0
      /\ s[1] = Head(s)
      /\ \A i \in 1 .. Len(s) - 1 : Tail(s)[i] = s[i + 1]
  OBVIOUS
<1>2. /\ \A i \in 1 .. Len(s) : i = 1 \/ \E j \in 1 .. Len(s) - 1 : i = j + 1
      /\ 1 \in 1 .. Len(s) /\ \A j \in 1 .. Len(s) - 1 : j + 1 \in 1 .. Len(s)
  BY <1>1
<1>3. Tail(s) \in Seq(S)
  OBVIOUS
<1>4. ToSet(Tail(s)) = {Tail(s)[j] : j \in 1 .. Len(s) - 1}
  BY <1>1, <1>3, InToSet
<1>5. ToSet(s) = {s[i] : i \in 1 .. Len(s)}
  BY InToSet
<1>6. ASSUME NEW x \in ToSet(s), x # Head(s) PROVE x \in ToSet(Tail(s))
  BY <1>1, <1>2, <1>4, <1>5, <1>6
<1>7. ASSUME NEW x \in ToSet(Tail(s)) PROVE x \in ToSet(s)
  BY <1>1, <1>2, <1>4, <1>5, <1>7
<1>8. Head(s) \in ToSet(s)
  BY <1>1, <1>2, <1>5
<1> QED  BY <1>6, <1>7, <1>8

\* A queue without equal elements stays so when a new one is added.
LEMMA InjectiveAppend ==
  ASSUME NEW S, NEW s \in Seq(S), IsInjective(s), NEW e \in S, e \notin ToSet(s)
  PROVE  IsInjective(Append(s, e))
<1>1. \A i \in 1 .. Len(s) : s[i] # e
  BY DEF ToSet
<1> QED  BY <1>1 DEF IsInjective

\* It loses its head for good when the head is dropped.
LEMMA InjectiveTail ==
  ASSUME NEW S, NEW s \in Seq(S), IsInjective(s), s # <<>>
  PROVE  IsInjective(Tail(s)) /\ Head(s) \notin ToSet(Tail(s))
<1>1. \A i \in 1 .. Len(s) - 1 : Tail(s)[i] = s[i + 1] /\ s[i + 1] # s[1]
  BY DEF IsInjective
<1>2. IsInjective(Tail(s))
  BY DEF IsInjective
<1>3. Head(s) \notin ToSet(Tail(s))
  BY <1>1 DEF ToSet
<1> QED  BY <1>2, <1>3

\* The invariant holds in the constructed device.
LEMMA InitIInv == Init => IInv
<1> SUFFICES ASSUME Init PROVE IInv
  OBVIOUS
<1> USE DEF Init
<1>1. TypeOK /\ Control
  BY DEF TypeOK, CbPcs, WorkerPcs, MainPcs, Control
<1>2. ToSet(hdrQueue) = {} /\ IsInjective(hdrQueue) /\ ToSet(inDriver) = {}
  <2>1. hdrQueue \in Seq(Header) /\ hdrQueue = <<>> /\ inDriver = hdrQueue
    OBVIOUS
  <2> QED  BY <2>1, ToSetEmpty
<1>3. Queued /\ HasBuffer /\ FirstApart /\ FirstSessionKeepsHeaders
  BY <1>2 DEF Queued, QueueIsLive, HasBuffer, RecordingHasBuffer, FirstApart,
              FirstSessionKeepsHeaders
<1>4. FirstStart /\ FirstSessionOneBuffer /\ FirstSignals
  BY DEF FirstStart, FirstSessionOneBuffer, FirstSignals
<1> QED  BY <1>1, <1>3, <1>4 DEF IInv

\* Types are preserved by every step.
LEMMA TypeStep == TypeOK /\ Queued /\ [Next]_vars => TypeOK'
<1> SUFFICES ASSUME TypeOK, Queued, [Next]_vars PROVE TypeOK'
  OBVIOUS
<1>0. mainPc = "queue" => hdr \in Header
  BY DEF TypeOK, Queued
<1> USE DEF TypeOK, CbPcs, MainPcs, WorkerPcs, deviceVars, headerVars, cbVars, mainVars
<1>1. CASE StartMidiInput \/ OpenSucceeds
  BY <1>1 DEF StartMidiInput, OpenSucceeds
<1>2. ASSUME Terminate PROVE TypeOK'
  BY <1>2 DEF Terminate
<1>3. CASE OpenFails \/ StartFails \/ ReAddFails \/ CloseFails
  BY <1>2, <1>3 DEF OpenFails, StartFails, ReAddFails, CloseFails
<1>4. ASSUME NEW h \in Header, AddBuffer(h) PROVE TypeOK'
  BY <1>4 DEF AddBuffer
<1>5. CASE AddHeader
  BY <1>0, <1>5 DEF AddHeader
<1>6. CASE StartWorker \/ StartDevice
  BY <1>6 DEF StartWorker, StartDevice
<1>7. CASE LongData
  BY <1>7 DEF LongData
<1>8. CASE CallbackCheck \/ CallbackSignal
  BY <1>8 DEF CallbackCheck, CallbackSignal
<1>9. ASSUME NEW h \in Header, ReAddBuffer(h) PROVE TypeOK'
  BY <1>9 DEF ReAddBuffer
<1>10. CASE HeaderProc
  BY <1>10 DEF HeaderProc, WorkerLoop, WorkerWait, WorkerRecheck, RemoveHeader
<1>11. CASE CloseStart \/ StopSignal \/ StopJoin
  BY <1>11 DEF CloseStart, StopSignal, StopJoin
<1>12. CASE StopReset
  BY <1>12 DEF StopReset
<1>16. CASE CloseDevice
  BY <1>16 DEF CloseDevice
<1>14. CASE ReleaseRemoveAll
  BY <1>14 DEF ReleaseRemoveAll
<1>15. CASE StopRemoveAll
  BY <1>15 DEF StopRemoveAll
<1>13. CASE UNCHANGED vars
  BY <1>13 DEF vars
<1> QED
  BY <1>1, <1>3, <1>4, <1>5, <1>6, <1>7, <1>8, <1>9, <1>10, <1>11, <1>12, <1>13,
     <1>14, <1>15, <1>16 DEF Next, Start, MidiInProc, Close

\* The threads stay in step with the device.
LEMMA ControlStep == TypeOK /\ Control /\ [Next]_vars => Control'
<1> SUFFICES ASSUME TypeOK, Control, [Next]_vars PROVE Control'
  OBVIOUS
<1> USE DEF TypeOK, Control, CbPcs, MainPcs, WorkerPcs,
            deviceVars, headerVars, cbVars, mainVars
<1>1. CASE StartMidiInput \/ OpenSucceeds
  BY <1>1 DEF StartMidiInput, OpenSucceeds
<1>2. ASSUME Terminate PROVE Control'
  BY <1>2 DEF Terminate
<1>3. CASE OpenFails \/ StartFails \/ ReAddFails \/ CloseFails
  BY <1>2, <1>3 DEF OpenFails, StartFails, ReAddFails, CloseFails
<1>4. ASSUME NEW h \in Header, AddBuffer(h) PROVE Control'
  BY <1>4 DEF AddBuffer
<1>5. CASE AddHeader
  BY <1>5 DEF AddHeader
<1>6. CASE StartWorker \/ StartDevice
  BY <1>6 DEF StartWorker, StartDevice
<1>7. CASE LongData
  BY <1>7 DEF LongData
<1>8. CASE CallbackCheck \/ ReleaseRemoveAll \/ CallbackSignal
  BY <1>8 DEF CallbackCheck, ReleaseRemoveAll, CallbackSignal
<1>9. ASSUME NEW h \in Header, ReAddBuffer(h) PROVE Control'
  BY <1>9 DEF ReAddBuffer
<1>10. CASE HeaderProc
  BY <1>10 DEF HeaderProc, WorkerLoop, WorkerWait, WorkerRecheck, RemoveHeader
<1>11. CASE CloseStart \/ StopSignal \/ StopJoin
  BY <1>11 DEF CloseStart, StopSignal, StopJoin
<1>12. CASE StopReset \/ StopRemoveAll \/ CloseDevice
  BY <1>12 DEF StopReset, StopRemoveAll, CloseDevice
<1>13. CASE UNCHANGED vars
  BY <1>13 DEF vars
<1> QED
  BY <1>1, <1>3, <1>4, <1>5, <1>6, <1>7, <1>8, <1>9, <1>10, <1>11, <1>12, <1>13
     DEF Next, Start, MidiInProc, Close

\* Whoever deletes a header takes it from the queue, and only AddSysExBuffer queues one.
LEMMA QueuedStep == TypeOK /\ Queued /\ [Next]_vars => Queued'
<1> SUFFICES ASSUME TypeOK, Queued, [Next]_vars PROVE Queued'
  OBVIOUS
<1> USE DEF Queued, QueueIsLive
<1>0. hdrQueue \in Seq(Header) /\ (mainPc = "queue" => hdr \in Header)
  BY DEF TypeOK
<1>1. ASSUME hdrQueue' = hdrQueue, live \subseteq live',
             mainPc' = "queue" => mainPc = "queue" /\ hdr' = hdr
      PROVE  Queued'
  BY <1>1, Zenon
<1>2. ASSUME NEW h \in Header, AddBuffer(h) PROVE Queued'
  <2>1. hdrQueue' = hdrQueue /\ live' = live \cup {h} /\ hdr' = h /\ h \notin live
    BY <1>2 DEF AddBuffer, Free
  <2> QED  BY <2>1, Zenon
<1>3. CASE AddHeader
  <2>1. /\ hdr \in Header /\ hdrQueue' = Append(hdrQueue, hdr) /\ live' = live
        /\ mainPc' = "record"
    BY <1>0, <1>3 DEF AddHeader
  <2>2. ToSet(hdrQueue') = ToSet(hdrQueue) \cup {hdr} /\ IsInjective(hdrQueue')
    BY <1>0, <1>3, <2>1, ToSetAppend, InjectiveAppend DEF AddHeader
  <2> QED  BY <1>3, <2>1, <2>2 DEF AddHeader
<1>4. ASSUME hdrQueue' = <<>>, live' = live \ ToSet(hdrQueue), hdr' = hdr,
             mainPc' = "queue" => mainPc = "queue"
      PROVE  Queued'
  <2>1. ToSet(hdrQueue') = {} /\ IsInjective(hdrQueue')
    <3>1. hdrQueue' \in Seq(Header)
      BY <1>4
    <3> QED  BY <1>4, <3>1, ToSetEmpty
  <2> QED  BY <1>4, <2>1
<1>5. CASE ReleaseRemoveAll \/ StopRemoveAll
  BY <1>4, <1>5 DEF ReleaseRemoveAll, StopRemoveAll, mainVars
<1>6. CASE RemoveHeader
  <2>1. CASE hdrQueue = <<>>
    BY <1>1, <1>6, <2>1 DEF RemoveHeader, mainVars
  <2>2. CASE hdrQueue # <<>>
    <3>1. ToSet(hdrQueue) = {Head(hdrQueue)} \cup ToSet(Tail(hdrQueue))
      BY <1>0, <2>2, ToSetTail
    <3>2. IsInjective(Tail(hdrQueue)) /\ Head(hdrQueue) \notin ToSet(Tail(hdrQueue))
      BY <1>0, <2>2, InjectiveTail
    <3>3. /\ hdrQueue' = Tail(hdrQueue) /\ live' = live \ {Head(hdrQueue)}
          /\ hdr' = hdr /\ mainPc' = mainPc
      BY <1>6, <2>2 DEF RemoveHeader, mainVars
    <3> QED  BY <3>1, <3>2, <3>3
  <2> QED  BY <2>1, <2>2
<1>7. CASE StartMidiInput \/ OpenSucceeds \/ StartWorker \/ StartDevice
  BY <1>1, <1>7 DEF StartMidiInput, OpenSucceeds, StartWorker, StartDevice, headerVars
<1>8. CASE OpenFails \/ StartFails \/ ReAddFails \/ CloseFails
  BY <1>1, <1>8 DEF OpenFails, StartFails, ReAddFails, CloseFails, Terminate
<1>9. CASE LongData \/ CallbackCheck \/ CallbackSignal \/ \E h \in Header : ReAddBuffer(h)
  BY <1>1, <1>9 DEF LongData, CallbackCheck, CallbackSignal, ReAddBuffer, headerVars, mainVars
<1>10. CASE WorkerLoop \/ WorkerWait \/ WorkerRecheck
  BY <1>1, <1>10 DEF WorkerLoop, WorkerWait, WorkerRecheck, headerVars, mainVars
<1>11. CASE CloseStart \/ StopSignal \/ StopJoin \/ StopReset \/ CloseDevice
  BY <1>1, <1>11 DEF CloseStart, StopSignal, StopJoin, StopReset, CloseDevice, headerVars
<1>12. CASE UNCHANGED vars
  BY <1>1, <1>12 DEF vars
<1> QED
  BY <1>2, <1>3, <1>5, <1>6, <1>7, <1>8, <1>9, <1>10, <1>11, <1>12
     DEF Next, Start, MidiInProc, HeaderProc, Close

\* The buffer of a recording device is not lost.
LEMMA HasBufferStep == TypeOK /\ Control /\ HasBuffer /\ [Next]_vars => HasBuffer'
<1> SUFFICES ASSUME TypeOK, Control, HasBuffer, [Next]_vars PROVE HasBuffer'
  OBVIOUS
<1> USE DEF TypeOK, HasBuffer, RecordingHasBuffer, deviceVars, headerVars, cbVars, mainVars
<1>1. CASE StartMidiInput \/ OpenSucceeds
  BY <1>1 DEF StartMidiInput, OpenSucceeds, Control
<1>2. CASE OpenFails \/ StartFails \/ ReAddFails \/ CloseFails
  BY <1>2 DEF OpenFails, StartFails, ReAddFails, CloseFails, Terminate
<1>3. ASSUME NEW h \in Header, AddBuffer(h) PROVE HasBuffer'
  BY <1>3 DEF AddBuffer
<1>4. CASE AddHeader \/ StartWorker \/ StartDevice
  BY <1>4 DEF AddHeader, StartWorker, StartDevice
<1>5. CASE LongData
  BY <1>5 DEF LongData, Control
<1>6. CASE CallbackCheck
  BY <1>6 DEF CallbackCheck
<1>7. ASSUME NEW h \in Header, ReAddBuffer(h) PROVE HasBuffer'
  BY <1>7 DEF ReAddBuffer
<1>8. CASE ReleaseRemoveAll \/ CallbackSignal
  BY <1>8 DEF ReleaseRemoveAll, CallbackSignal
<1>9. CASE HeaderProc
  BY <1>9 DEF HeaderProc, WorkerLoop, WorkerWait, WorkerRecheck, RemoveHeader
<1>10. CASE CloseStart \/ StopSignal \/ StopJoin \/ StopReset \/ StopRemoveAll \/ CloseDevice
  BY <1>10 DEF CloseStart, StopSignal, StopJoin, StopReset, StopRemoveAll, CloseDevice
<1>11. CASE UNCHANGED vars
  BY <1>11 DEF vars
<1> QED
  BY <1>1, <1>2, <1>3, <1>4, <1>5, <1>6, <1>7, <1>8, <1>9, <1>10, <1>11
     DEF Next, Start, MidiInProc, Close

-----------------------------------------------------------------------------
(* The first session.                                                      *)

\* What a session finds when it begins.
LEMMA FirstStartStep ==
  TypeOK /\ Control /\ FirstStart /\ [Next]_vars => FirstStart'
<1> SUFFICES ASSUME TypeOK, Control, FirstStart, [Next]_vars PROVE FirstStart'
  OBVIOUS
<1> USE DEF TypeOK, FirstStart, deviceVars, headerVars, cbVars, mainVars
<1>1. CASE StartMidiInput \/ OpenSucceeds
  BY <1>1 DEF StartMidiInput, OpenSucceeds
<1>2. CASE OpenFails \/ StartFails \/ ReAddFails \/ CloseFails
  BY <1>2 DEF OpenFails, StartFails, ReAddFails, CloseFails, Terminate
<1>3. ASSUME NEW h \in Header, AddBuffer(h) PROVE FirstStart'
  BY <1>3 DEF AddBuffer
<1>4. CASE AddHeader \/ StartWorker \/ StartDevice
  BY <1>4 DEF AddHeader, StartWorker, StartDevice
<1>5. CASE LongData
  BY <1>5 DEF LongData, Control
<1>6. CASE CallbackCheck
  BY <1>6 DEF CallbackCheck
<1>7. ASSUME NEW h \in Header, ReAddBuffer(h) PROVE FirstStart'
  BY <1>7 DEF ReAddBuffer
<1>8. CASE ReleaseRemoveAll \/ CallbackSignal
  BY <1>8 DEF ReleaseRemoveAll, CallbackSignal
<1>9. CASE HeaderProc
  BY <1>9 DEF HeaderProc, WorkerLoop, WorkerWait, WorkerRecheck, RemoveHeader
<1>10. CASE CloseStart \/ StopSignal \/ StopJoin \/ StopReset \/ StopRemoveAll \/ CloseDevice
  BY <1>10 DEF CloseStart, StopSignal, StopJoin, StopReset, StopRemoveAll, CloseDevice
<1>11. CASE UNCHANGED vars
  BY <1>11 DEF vars
<1> QED
  BY <1>1, <1>2, <1>3, <1>4, <1>5, <1>6, <1>7, <1>8, <1>9, <1>10, <1>11
     DEF Next, Start, MidiInProc, Close

\* A buffer is handed over and never copied.
LEMMA OneBufferStep ==
  TypeOK /\ Control /\ FirstStart /\ FirstSessionOneBuffer /\ [Next]_vars
    => FirstSessionOneBuffer'
<1> SUFFICES ASSUME TypeOK, Control, FirstStart, FirstSessionOneBuffer, [Next]_vars
             PROVE  FirstSessionOneBuffer'
  OBVIOUS
<1> USE DEF TypeOK, FirstSessionOneBuffer, deviceVars, headerVars, cbVars, mainVars
<1>1. CASE StartMidiInput \/ OpenSucceeds
  BY <1>1 DEF StartMidiInput, OpenSucceeds
<1>2. CASE OpenFails \/ StartFails \/ ReAddFails \/ CloseFails
  BY <1>2 DEF OpenFails, StartFails, ReAddFails, CloseFails, Terminate
<1>3. ASSUME NEW h \in Header, AddBuffer(h) PROVE FirstSessionOneBuffer'
  BY <1>3 DEF AddBuffer, FirstStart
<1>4. CASE AddHeader \/ StartWorker \/ StartDevice
  BY <1>4 DEF AddHeader, StartWorker, StartDevice
<1>5. CASE LongData
  BY <1>5 DEF LongData
<1>6. CASE CallbackCheck
  BY <1>6 DEF CallbackCheck
<1>7. ASSUME NEW h \in Header, ReAddBuffer(h) PROVE FirstSessionOneBuffer'
  BY <1>7 DEF ReAddBuffer
<1>8. CASE ReleaseRemoveAll \/ CallbackSignal
  BY <1>8 DEF ReleaseRemoveAll, CallbackSignal
<1>9. CASE HeaderProc
  BY <1>9 DEF HeaderProc, WorkerLoop, WorkerWait, WorkerRecheck, RemoveHeader
<1>10. CASE CloseStart \/ StopSignal \/ StopJoin \/ StopReset \/ StopRemoveAll \/ CloseDevice
  BY <1>10 DEF CloseStart, StopSignal, StopJoin, StopReset, StopRemoveAll, CloseDevice
<1>11. CASE UNCHANGED vars
  BY <1>11 DEF vars
<1> QED
  BY <1>1, <1>2, <1>3, <1>4, <1>5, <1>6, <1>7, <1>8, <1>9, <1>10, <1>11
     DEF Next, Start, MidiInProc, Close

\* The worker hears of an empty queue only.
LEMMA SignalsStep ==
  TypeOK /\ Control /\ FirstStart /\ FirstSignals /\ [Next]_vars => FirstSignals'
<1> SUFFICES ASSUME TypeOK, Control, FirstStart, FirstSignals, [Next]_vars
             PROVE  FirstSignals'
  OBVIOUS
<1> USE DEF TypeOK, FirstSignals, deviceVars, headerVars, cbVars, mainVars
<1>1. CASE StartMidiInput \/ OpenSucceeds
  BY <1>1 DEF StartMidiInput, OpenSucceeds, Control, FirstStart
<1>2. CASE OpenFails \/ StartFails \/ ReAddFails \/ CloseFails
  BY <1>2 DEF OpenFails, StartFails, ReAddFails, CloseFails, Terminate
<1>3. ASSUME NEW h \in Header, AddBuffer(h) PROVE FirstSignals'
  BY <1>3 DEF AddBuffer
<1>4. CASE AddHeader \/ StartWorker \/ StartDevice
  BY <1>4 DEF AddHeader, StartWorker, StartDevice, Control, FirstStart
<1>5. CASE LongData \/ CallbackCheck
  BY <1>5 DEF LongData, CallbackCheck
<1>7. ASSUME NEW h \in Header, ReAddBuffer(h) PROVE FirstSignals'
  BY <1>7 DEF ReAddBuffer
<1>8. CASE ReleaseRemoveAll \/ CallbackSignal
  BY <1>8 DEF ReleaseRemoveAll, CallbackSignal
<1>9. CASE HeaderProc
  BY <1>9 DEF HeaderProc, WorkerLoop, WorkerWait, WorkerRecheck, RemoveHeader
<1>10. CASE CloseStart \/ StopSignal \/ StopJoin \/ StopReset \/ StopRemoveAll \/ CloseDevice
  BY <1>10 DEF CloseStart, StopSignal, StopJoin, StopReset, StopRemoveAll, CloseDevice, Control
<1>11. CASE UNCHANGED vars
  BY <1>11 DEF vars
<1> QED
  BY <1>1, <1>2, <1>3, <1>4, <1>5, <1>7, <1>8, <1>9, <1>10, <1>11
     DEF Next, Start, MidiInProc, Close

\* What the callback and Close delete, and what the driver has.
LEMMA ApartStep == IInv /\ [Next]_vars => FirstApart' /\ FirstSessionKeepsHeaders'
<1> SUFFICES ASSUME IInv, [Next]_vars PROVE FirstApart' /\ FirstSessionKeepsHeaders'
  OBVIOUS
<1> USE DEF FirstApart, FirstSessionKeepsHeaders
<1>0. /\ TypeOK /\ Control /\ QueueIsLive /\ FirstStart /\ FirstSessionOneBuffer
      /\ FirstSignals /\ FirstApart /\ FirstSessionKeepsHeaders
  BY DEF IInv, Queued
<1>a. /\ hdrQueue \in Seq(Header) /\ inDriver \in Seq(Header) /\ opens \in Nat
      /\ ToSet(hdrQueue) \subseteq live
  BY <1>0 DEF TypeOK, QueueIsLive
<1>1. ASSUME UNCHANGED <<hdrQueue, live, inDriver>>, opens' \in {opens, opens + 1},
             cbPc' # "idle" \/ mainPc' = "remove" => cbPc # "idle" \/ mainPc = "remove"
      PROVE  FirstApart' /\ FirstSessionKeepsHeaders'
  <2>1. opens' <= 1 => opens <= 1
    BY <1>1, <1>a
  <2> QED  BY <1>0, <1>1, <2>1, Zenon
<1>2. ASSUME inDriver' = <<>> PROVE FirstApart' /\ FirstSessionKeepsHeaders'
  <2>1. inDriver' \in Seq(Header)
    BY <1>2
  <2>2. ToSet(inDriver') = {}
    BY <1>2, <2>1, ToSetEmpty
  <2> QED  BY <2>2
<1>3. ASSUME NEW h \in Header, h \notin live, inDriver' = Append(inDriver, h), opens' = opens,
             live' = live \cup {h}, hdrQueue' = hdrQueue,
             cbPc' # "idle" \/ mainPc' = "remove" => cbPc # "idle" \/ mainPc = "remove"
      PROVE  FirstApart' /\ FirstSessionKeepsHeaders'
  <2>1. ToSet(inDriver') = ToSet(inDriver) \cup {h}
    BY <1>3, <1>a, ToSetAppend
  <2> QED  BY <1>0, <1>a, <1>3, <2>1
<1>4. ASSUME NEW h \in Header, AddBuffer(h) PROVE FirstApart' /\ FirstSessionKeepsHeaders'
  BY <1>3, <1>4, Zenon DEF AddBuffer, Free, deviceVars, cbVars
<1>5. ASSUME NEW h \in Header, ReAddBuffer(h) PROVE FirstApart' /\ FirstSessionKeepsHeaders'
  BY <1>3, <1>5, Zenon DEF ReAddBuffer, Free, deviceVars, cbVars, mainVars
<1>6. CASE AddHeader
  <2>1. opens' = opens /\ cbPc' = cbPc /\ mainPc' = "record" /\ mainPc = "queue"
        /\ live' = live /\ inDriver' = inDriver
    BY <1>6 DEF AddHeader, deviceVars, cbVars
  <2>2. opens' <= 1 => cbPc' = "idle"
    BY <1>0, <2>1 DEF FirstStart
  <2> QED  BY <1>0, <2>1, <2>2
<1>7. CASE LongData
  <2>1. inDriver # <<>> /\ inDriver' = Tail(inDriver) /\ cbPc = "idle" /\ opens' = opens
    BY <1>7 DEF LongData, deviceVars
  <2>2. CASE opens <= 1
    <3>1. inDriver' = <<>>
      BY <1>0, <1>a, <2>1, <2>2 DEF FirstSessionOneBuffer
    <3> QED  BY <1>2, <3>1
  <2> QED  BY <2>1, <2>2
<1>8. CASE ReleaseRemoveAll \/ StopRemoveAll
  <2>1. /\ hdrQueue' = <<>> /\ live' = live \ ToSet(hdrQueue) /\ inDriver' = inDriver
        /\ opens' = opens /\ (cbPc = "remove" \/ mainPc = "remove")
    BY <1>8 DEF ReleaseRemoveAll, StopRemoveAll, deviceVars
  <2>2. ToSet(hdrQueue') = {}
    <3>1. hdrQueue' \in Seq(Header)
      BY <2>1
    <3> QED  BY <2>1, <3>1, ToSetEmpty
  <2>3. opens <= 1 => ToSet(inDriver) \cap ToSet(hdrQueue) = {}
    BY <1>0, <2>1
  <2> QED  BY <1>0, <2>1, <2>2, <2>3
<1>9. CASE RemoveHeader
  <2>1. /\ opens' = opens /\ inDriver' = inDriver /\ cbPc' = cbPc /\ mainPc' = mainPc
        /\ workerPc = "remove"
    BY <1>9 DEF RemoveHeader, deviceVars, cbVars, mainVars
  <2>2. CASE opens <= 1
    <3>1. hdrQueue' = hdrQueue /\ live' = live
      BY <1>0, <1>9, <2>1, <2>2 DEF FirstSignals, RemoveHeader
    <3> QED  BY <1>0, <2>1, <3>1
  <2> QED  BY <2>1, <2>2
<1>10. CASE OpenSucceeds
  <2>1. UNCHANGED <<hdrQueue, live, inDriver, cbPc>> /\ opens' = opens + 1 /\ mainPc' = "prepare"
    BY <1>10, <1>a DEF OpenSucceeds, headerVars, cbVars
  <2> QED  BY <1>1, <2>1
<1>11. CASE StartMidiInput \/ StartWorker \/ StartDevice \/ CloseStart \/ StopSignal \/ StopJoin
            \/ CloseDevice
  <2>1. UNCHANGED <<hdrQueue, live, inDriver, cbPc, opens>> /\ mainPc' # "remove"
    BY <1>11 DEF StartMidiInput, StartWorker, StartDevice, CloseStart, StopSignal, StopJoin,
                 CloseDevice, deviceVars, headerVars, cbVars
  <2> QED  BY <1>1, <1>a, <2>1
<1>12. CASE CallbackCheck \/ CallbackSignal
  <2>1. UNCHANGED <<hdrQueue, live, inDriver, mainPc, opens>> /\ cbPc # "idle"
    BY <1>12 DEF CallbackCheck, CallbackSignal, deviceVars, headerVars, mainVars
  <2> QED  BY <1>1, <1>a, <2>1
<1>13. CASE WorkerLoop \/ WorkerWait \/ WorkerRecheck \/ UNCHANGED vars
  <2>1. UNCHANGED <<hdrQueue, live, inDriver, mainPc, cbPc, opens>>
    BY <1>13 DEF WorkerLoop, WorkerWait, WorkerRecheck, vars,
                 deviceVars, headerVars, cbVars, mainVars
  <2> QED  BY <1>1, <1>a, <2>1
<1>14. CASE StopReset \/ OpenFails \/ StartFails \/ ReAddFails \/ CloseFails
  BY <1>2, <1>14 DEF StopReset, OpenFails, StartFails, ReAddFails, CloseFails, Terminate
<1> QED
  BY <1>4, <1>5, <1>6, <1>7, <1>8, <1>9, <1>10, <1>11, <1>12, <1>13, <1>14
     DEF Next, Start, MidiInProc, HeaderProc, Close

-----------------------------------------------------------------------------
\* The invariant holds in every reachable state.
LEMMA Inductive == Spec => []IInv
<1>1. Init => IInv
  BY InitIInv
<1>2. IInv /\ [Next]_vars => IInv'
  BY TypeStep, ControlStep, QueuedStep, HasBufferStep, FirstStartStep, OneBufferStep,
     SignalsStep, ApartStep DEF IInv
<1> QED  BY <1>1, <1>2, PTL DEF Spec

\* The device's variables keep their types (CMIDIInDevice).
THEOREM TypeCorrect == Spec => []TypeOK
<1>1. IInv => TypeOK
  BY DEF IInv
<1> QED  BY <1>1, Inductive, PTL

\* However many headers and sessions there are, MidiInProc, HeaderProc and StopRecording
\* together delete no header twice.
THEOREM DeletesOnce == Spec => []QueueIsLive
<1>1. IInv => QueueIsLive
  BY DEF IInv, Queued
<1> QED  BY <1>1, Inductive, PTL

\* In every session, with whatever the sessions before left behind, a recording device has
\* a buffer or gets it back from ReleaseBuffer.
THEOREM NeverDeaf == Spec => []RecordingHasBuffer
<1>1. IInv => RecordingHasBuffer
  BY DEF IInv, HasBuffer
<1> QED  BY <1>1, Inductive, PTL

\* In the first session the driver fills no deleted header.
THEOREM KeepsHeaders == Spec => []FirstSessionKeepsHeaders
<1>1. IInv => FirstSessionKeepsHeaders
  BY DEF IInv
<1> QED  BY <1>1, Inductive, PTL

\* In the first session the driver never fills SysXBuffer while MidiInProc reads it.
THEOREM OneBuffer == Spec => []FirstSessionOneBuffer
<1>1. IInv => FirstSessionOneBuffer
  BY DEF IInv
<1> QED  BY <1>1, Inductive, PTL

=============================================================================
