------------------------------- MODULE MidiIn -------------------------------
(***************************************************************************)
(* CMIDIInDevice (Midi/MidiWrapper/MIDIInDevice.cpp) as the application    *)
(* uses it: one buffer, SysXBuffer, that the driver fills and the          *)
(* application hands back with ReleaseBuffer.                              *)
(*                                                                         *)
(*   main      calls StartMidiInput (Open, AddSysExBuffer, StartRecording) *)
(*             and Close; the receive dialog and the preferences restart   *)
(*             the device this way each time                               *)
(*   callback  MidiInProc, in a thread of the driver, for a filled buffer  *)
(*   worker    HeaderProc, which deletes one header per signalled m_Event  *)
(*                                                                         *)
(* The bytes in the buffer are left out: this module is about who owns the *)
(* headers that describe it.                                               *)
(***************************************************************************)
EXTENDS Naturals, Sequences, SequencesExt

CONSTANTS Header,    \* the header objects (CMIDIInHeader) the heap can hold
          NoHeader,  \* no header
          MaxOpens   \* bound on the calls of midiInOpen

ASSUME HeaderAssumption == NoHeader \notin Header
ASSUME MaxOpensAssumption == MaxOpens \in Nat

VARIABLES
  mState,    \* m_State
  mEvent,    \* m_Event, an auto-reset event: 1 when set
  hdrQueue,  \* m_HdrQueue, front first
  live,      \* headers constructed and not yet deleted
  device,    \* the driver: "closed", "open" or "started"
  inDriver,  \* headers given to the driver and not yet returned, oldest first
  cbPc,      \* where MidiInProc stands
  cbHdr,     \* the header MidiInProc was called with
  mainPc,    \* where the main thread stands
  hdr,       \* the local variable Header of AddSysExBuffer
  workerPc,  \* where the worker thread stands
  opens      \* calls of midiInOpen so far

vars == <<mState, mEvent, hdrQueue, live, device, inDriver, cbPc, cbHdr, mainPc, hdr,
          workerPc, opens>>

deviceVars == <<mState, device, opens>>
headerVars == <<hdrQueue, live, inDriver>>
cbVars == <<cbPc, cbHdr>>
mainVars == <<mainPc, hdr>>

CbPcs == {"idle", "check", "release", "remove", "signal"}
WorkerPcs == {"none", "loop", "wait", "recheck", "remove", "exited"}
MainPcs == {"ready", "signal", "join", "reset", "remove", "close", "closed", "open",
            "prepare", "queue", "record", "start", "terminated"}

\* The variant of the constructor that leaves m_State uninitialised.
InitWithoutState ==
  /\ mState \in {"CLOSED", "undefined"}
  /\ mEvent = 0
  /\ hdrQueue = <<>> /\ live = {} /\ inDriver = <<>>
  /\ device = "closed"
  /\ cbPc = "idle" /\ cbHdr = NoHeader
  /\ mainPc = "ready" /\ hdr = NoHeader
  /\ workerPc = "none"
  /\ opens = 0

\* A constructed device: closed, its event created and not set.
Init ==
  /\ mState = "CLOSED"
  /\ mEvent = 0
  /\ hdrQueue = <<>> /\ live = {} /\ inDriver = <<>>
  /\ device = "closed"
  /\ cbPc = "idle" /\ cbHdr = NoHeader
  /\ mainPc = "ready" /\ hdr = NoHeader
  /\ workerPc = "none"
  /\ opens = 0

\* Memory that is neither in use nor still known to the driver.
Free == Header \ (live \cup ToSet(inDriver) \cup {cbHdr})

\* An exception that nothing catches ends the program and its threads.
Terminate ==
  /\ mainPc' = "terminated"
  /\ workerPc' = "exited"
  /\ cbPc' = "idle" /\ cbHdr' = NoHeader
  /\ device' = "closed" /\ inDriver' = <<>>
  /\ UNCHANGED <<mState, opens, mEvent, hdrQueue, live, hdr>>

-----------------------------------------------------------------------------
(* StartMidiInput.                                                         *)

\* Open on a closed device: its call of Close does nothing.
StartMidiInput ==
  /\ mainPc = "ready" /\ mState = "CLOSED" /\ opens < MaxOpens
  /\ mainPc' = "open"
  /\ UNCHANGED <<deviceVars, mEvent, headerVars, cbVars, hdr, workerPc>>

OpenSucceeds ==
  /\ mainPc = "open"
  /\ opens' = opens + 1
  /\ device' = "open"
  /\ mState' = "OPENED"
  /\ mainPc' = "prepare"
  /\ UNCHANGED <<mEvent, headerVars, cbVars, hdr, workerPc>>

\* midiInOpen fails, and Open throws.
OpenFails ==
  /\ mainPc = "open"
  /\ Terminate

\* AddSysExBuffer: new CMIDIInHeader, then midiInAddBuffer.
AddBuffer(h) ==
  /\ mainPc = "prepare" /\ h \in Free
  /\ live' = live \cup {h}
  /\ inDriver' = Append(inDriver, h)
  /\ hdr' = h
  /\ mainPc' = "queue"
  /\ UNCHANGED <<deviceVars, mEvent, hdrQueue, cbVars, workerPc>>

\* AddSysExBuffer: m_HdrQueue.AddHeader.
AddHeader ==
  /\ mainPc = "queue"
  /\ hdrQueue' = Append(hdrQueue, hdr)
  /\ hdr' = NoHeader
  /\ mainPc' = "record"
  /\ UNCHANGED <<deviceVars, mEvent, live, inDriver, cbVars, workerPc>>

\* StartRecording: the new state, then the worker thread.
StartWorker ==
  /\ mainPc = "record"
  /\ mState' = "RECORDING"
  /\ workerPc' = "loop"
  /\ mainPc' = "start"
  /\ UNCHANGED <<device, opens, mEvent, headerVars, cbVars, hdr>>

\* StartRecording: midiInStart.
StartDevice ==
  /\ mainPc = "start"
  /\ device' = "started"
  /\ mainPc' = "ready"
  /\ UNCHANGED <<mState, opens, mEvent, headerVars, cbVars, hdr, workerPc>>

\* midiInStart fails: StartRecording stops the worker and throws.
StartFails ==
  /\ mainPc = "start"
  /\ Terminate

-----------------------------------------------------------------------------
(* MidiInProc, MIM_LONGDATA and MIM_LONGERROR, with the ReleaseBuffer that *)
(* ReceiveMsg and OnError end with.                                        *)

\* The driver has filled the buffer of its oldest header.
LongData ==
  /\ device = "started" /\ inDriver # <<>> /\ cbPc = "idle"
  /\ cbHdr' = Head(inDriver)
  /\ inDriver' = Tail(inDriver)
  /\ cbPc' = "check"
  /\ UNCHANGED <<deviceVars, mEvent, hdrQueue, live, mainVars, workerPc>>

\* if (Device->m_State == RECORDING)
CallbackCheck ==
  /\ cbPc = "check"
  /\ IF mState = "RECORDING"
     THEN cbPc' = "release" /\ UNCHANGED cbHdr
     ELSE cbPc' = "idle" /\ cbHdr' = NoHeader
  /\ UNCHANGED <<deviceVars, mEvent, headerVars, mainVars, workerPc>>

\* The variant that forgets to hand the buffer back.
ForgetBuffer(h) ==
  /\ cbPc = "release" /\ h \in Free
  /\ cbPc' = "remove"
  /\ UNCHANGED <<deviceVars, mEvent, headerVars, cbHdr, mainVars, workerPc>>

\* The variant of ReceiveMsg that also makes the call of AddSysExBuffer it has commented out.
ReAddBufferTwice(h) ==
  /\ cbPc = "release" /\ h \in Free
  /\ device # "closed"
  /\ \E g \in Free \ {h} :
       /\ live' = live \cup {g, h}
       /\ inDriver' = inDriver \o <<h, g>>
       /\ hdrQueue' = Append(hdrQueue, g)
  /\ cbPc' = "remove"
  /\ UNCHANGED <<deviceVars, mEvent, cbHdr, mainVars, workerPc>>

\* ReleaseBuffer: a new header for SysXBuffer goes to the device that is open now.
ReAddBuffer(h) ==
  /\ cbPc = "release" /\ h \in Free
  /\ device # "closed"
  /\ live' = live \cup {h}
  /\ inDriver' = Append(inDriver, h)
  /\ cbPc' = "remove"
  /\ UNCHANGED <<deviceVars, mEvent, hdrQueue, cbHdr, mainVars, workerPc>>

\* The device is closed by now: the constructor of the header throws.
ReAddFails ==
  /\ cbPc = "release" /\ device = "closed"
  /\ Terminate

\* The variant that deletes the headers and leaves them in the queue.
ReleaseKeepsQueue ==
  /\ cbPc = "remove"
  /\ live' = live \ ToSet(hdrQueue)
  /\ cbPc' = "signal"
  /\ UNCHANGED <<deviceVars, mEvent, hdrQueue, inDriver, cbHdr, mainVars, workerPc>>

\* ReleaseBuffer: m_HdrQueue.RemoveAll deletes the header of AddSysExBuffer.  The headers
\* ReleaseBuffer makes itself never enter the queue.
ReleaseRemoveAll ==
  /\ cbPc = "remove"
  /\ live' = live \ ToSet(hdrQueue)
  /\ hdrQueue' = <<>>
  /\ cbPc' = "signal"
  /\ UNCHANGED <<deviceVars, mEvent, inDriver, cbHdr, mainVars, workerPc>>

\* SetEvent, and MidiInProc returns.
CallbackSignal ==
  /\ cbPc = "signal"
  /\ mEvent' = 1
  /\ cbPc' = "idle" /\ cbHdr' = NoHeader
  /\ UNCHANGED <<deviceVars, headerVars, mainVars, workerPc>>

-----------------------------------------------------------------------------
(* HeaderProc, the worker thread.                                          *)

\* while (m_State == RECORDING)
WorkerLoop ==
  /\ workerPc = "loop"
  /\ workerPc' = IF mState = "RECORDING" THEN "wait" ELSE "exited"
  /\ UNCHANGED <<deviceVars, mEvent, headerVars, cbVars, mainVars>>

\* The variant whose wait has a time limit.
WorkerWaitTimeout ==
  /\ workerPc = "wait"
  /\ mEvent' = 0
  /\ workerPc' = "recheck"
  /\ UNCHANGED <<deviceVars, headerVars, cbVars, mainVars>>

\* WaitForSingleObject(m_Event) returns and resets the event.
WorkerWait ==
  /\ workerPc = "wait" /\ mEvent = 1
  /\ mEvent' = 0
  /\ workerPc' = "recheck"
  /\ UNCHANGED <<deviceVars, headerVars, cbVars, mainVars>>

\* if (m_State == RECORDING)
WorkerRecheck ==
  /\ workerPc = "recheck"
  /\ workerPc' = IF mState = "RECORDING" THEN "remove" ELSE "loop"
  /\ UNCHANGED <<deviceVars, mEvent, headerVars, cbVars, mainVars>>

\* RemoveHeader: delete the front header, if there is one.
RemoveHeader ==
  /\ workerPc = "remove"
  /\ IF hdrQueue = <<>>
     THEN UNCHANGED <<hdrQueue, live>>
     ELSE /\ live' = live \ {Head(hdrQueue)}
          /\ hdrQueue' = Tail(hdrQueue)
  /\ workerPc' = "loop"
  /\ UNCHANGED <<deviceVars, mEvent, inDriver, cbVars, mainVars>>

-----------------------------------------------------------------------------
(* Close of a recording device.                                            *)

\* StopRecording: the new state.
CloseStart ==
  /\ mainPc = "ready" /\ mState = "RECORDING"
  /\ mState' = "OPENED"
  /\ mainPc' = "signal"
  /\ UNCHANGED <<device, opens, mEvent, headerVars, cbVars, hdr, workerPc>>

\* The variant that waits for the worker without waking it.
StopWithoutSignal ==
  /\ mainPc = "signal"
  /\ mainPc' = "join"
  /\ UNCHANGED <<deviceVars, mEvent, headerVars, cbVars, hdr, workerPc>>

StopSignal ==
  /\ mainPc = "signal"
  /\ mEvent' = 1
  /\ mainPc' = "join"
  /\ UNCHANGED <<deviceVars, headerVars, cbVars, hdr, workerPc>>

\* WaitForSingleObject on the worker thread returns.
StopJoin ==
  /\ mainPc = "join" /\ workerPc = "exited"
  /\ mainPc' = "reset"
  /\ UNCHANGED <<deviceVars, mEvent, headerVars, cbVars, hdr, workerPc>>

\* midiInReset: the driver stops and returns its headers; MidiInProc ignores them, as the
\* state is OPENED.  A MidiInProc that is under way is not waited for.
StopReset ==
  /\ mainPc = "reset"
  /\ device' = "open"
  /\ inDriver' = <<>>
  /\ mainPc' = "remove"
  /\ UNCHANGED <<mState, opens, mEvent, hdrQueue, live, cbVars, hdr, workerPc>>

\* StopRecording: m_HdrQueue.RemoveAll.
StopRemoveAll ==
  /\ mainPc = "remove"
  /\ live' = live \ ToSet(hdrQueue)
  /\ hdrQueue' = <<>>
  /\ mainPc' = "close"
  /\ UNCHANGED <<deviceVars, mEvent, inDriver, cbVars, hdr, workerPc>>

\* midiInClose: the device has no buffers left.
CloseDevice ==
  /\ mainPc = "close" /\ inDriver = <<>>
  /\ device' = "closed"
  /\ mState' = "CLOSED"
  /\ mainPc' = "ready"
  /\ UNCHANGED <<opens, mEvent, headerVars, cbVars, hdr, workerPc>>

\* midiInClose fails with MIDIERR_STILLPLAYING, and Close throws.
CloseFails ==
  /\ mainPc = "close" /\ inDriver # <<>>
  /\ Terminate

-----------------------------------------------------------------------------
Start == OpenSucceeds \/ OpenFails \/ (\E h \in Header : AddBuffer(h)) \/ AddHeader
         \/ StartWorker \/ StartDevice \/ StartFails
Close == StopSignal \/ StopJoin \/ StopReset \/ StopRemoveAll \/ CloseDevice \/ CloseFails
MidiInProc == CallbackCheck \/ (\E h \in Header : ReAddBuffer(h)) \/ ReAddFails
              \/ ReleaseRemoveAll \/ CallbackSignal
HeaderProc == WorkerLoop \/ WorkerWait \/ WorkerRecheck \/ RemoveHeader

Next ==
  \/ StartMidiInput
  \/ Start
  \/ LongData
  \/ MidiInProc
  \/ HeaderProc
  \/ CloseStart
  \/ Close

\* Threads are scheduled: what the worker, the callback or a started call can do is done
\* eventually.  Nothing makes the Mirage send or the user restart the device.
Fairness ==
  WF_vars(HeaderProc) /\ WF_vars(MidiInProc) /\ WF_vars(Start) /\ WF_vars(Close)

Spec == Init /\ [][Next]_vars /\ Fairness

-----------------------------------------------------------------------------
(* Properties.                                                             *)

TypeOK ==
  /\ mState \in {"CLOSED", "OPENED", "RECORDING"}
  /\ mEvent \in 0..1
  /\ hdrQueue \in Seq(Header)
  /\ live \in SUBSET Header
  /\ device \in {"closed", "open", "started"}
  /\ inDriver \in Seq(Header)
  /\ cbPc \in CbPcs
  /\ cbHdr \in Header \cup {NoHeader}
  /\ mainPc \in MainPcs
  /\ hdr \in Header \cup {NoHeader}
  /\ workerPc \in WorkerPcs
  /\ opens \in Nat

\* The header the worker is about to delete.
AboutToRemove ==
  {h \in Header : workerPc = "remove" /\ hdrQueue # <<>> /\ h = Head(hdrQueue)}

\* "Remove the finished header" (HeaderProc): the worker deletes no header the driver still
\* has.  A signal left over from the session before makes it delete the first header of the
\* next one.
RemovesFinished == AboutToRemove \cap ToSet(inDriver) = {}

\* In the first session the driver never holds a header that was deleted, although the
\* callback, the worker and Close all delete headers.
FirstSessionKeepsHeaders == opens <= 1 => ToSet(inDriver) \subseteq live

\* There is one SysXBuffer, so in the first session at most one header for it is with the
\* driver, and none while the callback still reads it.
FirstSessionOneBuffer ==
  opens <= 1 => Len(inDriver) + (IF cbPc \in {"check", "release"} THEN 1 ELSE 0) <= 1

\* The queue holds no header twice and none that was deleted, so callback, worker and Close
\* together delete no header twice.
QueueIsLive == IsInjective(hdrQueue) /\ ToSet(hdrQueue) \subseteq live

\* A recording device is never deaf for good: a buffer is with the driver, or the callback is
\* about to hand it back.
RecordingHasBuffer ==
  mainPc = "ready" /\ mState = "RECORDING" => inDriver # <<>> \/ cbPc \in {"check", "release"}

\* A Close that has started returns, or ends the program with its exception: the worker is
\* always woken, also while MidiInProc runs.
CloseReturns == mainPc = "signal" ~> mainPc \in {"ready", "terminated"}

=============================================================================
