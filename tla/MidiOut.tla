------------------------------ MODULE MidiOut ------------------------------
(***************************************************************************)
(* CMIDIOutDevice (Midi/MidiWrapper/MIDIOutDevice.cpp): how the headers of *)
(* outgoing system exclusive messages are shared by three parties.         *)
(*                                                                         *)
(*   main    the thread that calls Open, SendMsg and Close                 *)
(*   driver  the Windows MIDI driver: plays the headers it was given in    *)
(*           order and runs MidiOutProc (MOM_DONE) after each one          *)
(*   worker  HeaderProc, which deletes one header per signalled m_Event    *)
(*                                                                         *)
(* m_Event is an auto-reset event: it remembers that it was set, not how   *)
(* often.                                                                  *)
(***************************************************************************)
EXTENDS Naturals, Sequences, SequencesExt

CONSTANTS Header,     \* the header objects (CMIDIOutHeader) the heap can hold
          NoHeader,   \* the local variable Header of SendMsg outside of a call
          MaxOpens    \* bound on the calls of midiOutOpen

ASSUME HeaderAssumption == NoHeader \notin Header
ASSUME MaxOpensAssumption == MaxOpens \in Nat

VARIABLES
  mState,      \* m_State
  mEvent,      \* m_Event: 1 when set, 0 when not
  hdrQueue,    \* m_HdrQueue, front first
  live,        \* headers constructed and not yet deleted
  inFlight,    \* headers given to the open device and not yet done, oldest first
  stray,       \* headers still with a device that midiOutClose could not close
  mainPc,      \* where the main thread stands
  hdr,         \* the local variable Header of SendMsg
  afterClose,  \* where the caller of Close goes on: "open" when Open called it
  workerPc,    \* where the worker thread stands
  opens        \* calls of midiOutOpen so far

vars == <<mState, mEvent, hdrQueue, live, inFlight, stray, mainPc, hdr, afterClose,
          workerPc, opens>>

deviceVars == <<mState, afterClose, opens>>

MainPcs == {"ready", "prepared", "accepted", "signal", "join", "release",
            "device", "open", "terminated"}
WorkerPcs == {"none", "loop", "wait", "recheck", "remove", "exited"}

\* The variant of the constructor that leaves m_State uninitialised.
InitWithoutState ==
  /\ mState \in {"OPENED", "CLOSED", "undefined"}
  /\ mEvent = 0
  /\ hdrQueue = <<>>
  /\ live = {}
  /\ inFlight = <<>>
  /\ stray = {}
  /\ mainPc = "ready"
  /\ hdr = NoHeader
  /\ afterClose = "ready"
  /\ workerPc = "none"
  /\ opens = 0

\* A constructed device: closed, its event created and not set.
Init ==
  /\ mState = "CLOSED"
  /\ mEvent = 0
  /\ hdrQueue = <<>>
  /\ live = {}
  /\ inFlight = <<>>
  /\ stray = {}
  /\ mainPc = "ready"
  /\ hdr = NoHeader
  /\ afterClose = "ready"
  /\ workerPc = "none"
  /\ opens = 0

-----------------------------------------------------------------------------
(* SendMsg(Msg, MsgLength), called by the main thread.                     *)

\* new CMIDIOutHeader: the header is prepared.  The memory of a header that a
\* driver still holds is not handed out again.
NewHeader(h) ==
  /\ mainPc = "ready" /\ mState = "OPENED"
  /\ h \notin live \cup ToSet(inFlight) \cup stray
  /\ live' = live \cup {h}
  /\ hdr' = h
  /\ mainPc' = "prepared"
  /\ UNCHANGED <<deviceVars, mEvent, hdrQueue, inFlight, stray, workerPc>>

\* midiOutLongMsg accepts the header: the driver owns it from here on.
LongMsgAccepted ==
  /\ mainPc = "prepared"
  /\ inFlight' = Append(inFlight, hdr)
  /\ mainPc' = "accepted"
  /\ UNCHANGED <<deviceVars, mEvent, hdrQueue, live, stray, hdr, workerPc>>

\* The variant that forgets the delete.
LongMsgRefusedLeaks ==
  /\ mainPc = "prepared"
  /\ hdr' = NoHeader
  /\ mainPc' = "ready"
  /\ UNCHANGED <<deviceVars, mEvent, hdrQueue, live, inFlight, stray, workerPc>>

\* midiOutLongMsg fails: the header is deleted and the exception rethrown.
LongMsgRefused ==
  /\ mainPc = "prepared"
  /\ live' = live \ {hdr}
  /\ hdr' = NoHeader
  /\ mainPc' = "ready"
  /\ UNCHANGED <<deviceVars, mEvent, hdrQueue, inFlight, stray, workerPc>>

\* AddHeader, after the driver has had the header for a while.
AddHeader ==
  /\ mainPc = "accepted"
  /\ hdrQueue' = Append(hdrQueue, hdr)
  /\ hdr' = NoHeader
  /\ mainPc' = "ready"
  /\ UNCHANGED <<deviceVars, mEvent, live, inFlight, stray, workerPc>>

-----------------------------------------------------------------------------
(* The driver and MidiOutProc.                                             *)

\* The oldest header is done: MidiOutProc sets the event.
MidiOutProc ==
  /\ inFlight # <<>>
  /\ inFlight' = Tail(inFlight)
  /\ mEvent' = 1
  /\ UNCHANGED <<deviceVars, hdrQueue, live, stray, mainPc, hdr, workerPc>>

\* The same for a header of a device that was left open: its MidiOutProc has the
\* same Instance, so it sets the same event.
StrayDone(h) ==
  /\ h \in stray
  /\ stray' = stray \ {h}
  /\ mEvent' = 1
  /\ UNCHANGED <<deviceVars, hdrQueue, live, inFlight, mainPc, hdr, workerPc>>

-----------------------------------------------------------------------------
(* HeaderProc, the worker thread.                                          *)

\* while (m_State == OPENED)
WorkerLoop ==
  /\ workerPc = "loop"
  /\ workerPc' = IF mState = "OPENED" THEN "wait" ELSE "exited"
  /\ UNCHANGED <<deviceVars, mEvent, hdrQueue, live, inFlight, stray, mainPc, hdr>>

\* The variant whose wait has a time limit.
WorkerWaitTimeout ==
  /\ workerPc = "wait"
  /\ mEvent' = 0
  /\ workerPc' = "recheck"
  /\ UNCHANGED <<deviceVars, hdrQueue, live, inFlight, stray, mainPc, hdr>>

\* WaitForSingleObject(m_Event) returns and resets the event.
WorkerWait ==
  /\ workerPc = "wait" /\ mEvent = 1
  /\ mEvent' = 0
  /\ workerPc' = "recheck"
  /\ UNCHANGED <<deviceVars, hdrQueue, live, inFlight, stray, mainPc, hdr>>

\* if (m_State == OPENED)
WorkerRecheck ==
  /\ workerPc = "recheck"
  /\ workerPc' = IF mState = "OPENED" THEN "remove" ELSE "loop"
  /\ UNCHANGED <<deviceVars, mEvent, hdrQueue, live, inFlight, stray, mainPc, hdr>>

\* The variant that deletes the newest header.
RemoveNewest ==
  /\ workerPc = "remove"
  /\ IF hdrQueue = <<>>
     THEN UNCHANGED <<hdrQueue, live>>
     ELSE /\ live' = live \ {Last(hdrQueue)}
          /\ hdrQueue' = Front(hdrQueue)
  /\ workerPc' = "loop"
  /\ UNCHANGED <<deviceVars, mEvent, inFlight, stray, mainPc, hdr>>

\* RemoveHeader: delete the front header, if there is one.
RemoveHeader ==
  /\ workerPc = "remove"
  /\ IF hdrQueue = <<>>
     THEN UNCHANGED <<hdrQueue, live>>
     ELSE /\ live' = live \ {Head(hdrQueue)}
          /\ hdrQueue' = Tail(hdrQueue)
  /\ workerPc' = "loop"
  /\ UNCHANGED <<deviceVars, mEvent, inFlight, stray, mainPc, hdr>>

-----------------------------------------------------------------------------
(* Close and Open, called by the main thread.                              *)

CloseStart ==
  /\ mainPc = "ready" /\ mState = "OPENED"
  /\ afterClose' \in {"ready"} \cup (IF opens < MaxOpens THEN {"open"} ELSE {})
  /\ mState' = "CLOSED"
  /\ mainPc' = "signal"
  /\ UNCHANGED <<mEvent, hdrQueue, live, inFlight, stray, hdr, workerPc, opens>>

\* The variant that waits for the worker without waking it.
CloseWithoutSignal ==
  /\ mainPc = "signal"
  /\ mainPc' = "join"
  /\ UNCHANGED <<deviceVars, mEvent, hdrQueue, live, inFlight, stray, hdr, workerPc>>

CloseSignal ==
  /\ mainPc = "signal"
  /\ mEvent' = 1
  /\ mainPc' = "join"
  /\ UNCHANGED <<deviceVars, hdrQueue, live, inFlight, stray, hdr, workerPc>>

\* WaitForSingleObject on the worker thread returns.
CloseJoin ==
  /\ mainPc = "join" /\ workerPc = "exited"
  /\ mainPc' = "release"
  /\ UNCHANGED <<deviceVars, mEvent, hdrQueue, live, inFlight, stray, hdr, workerPc>>

\* The variant that deletes one header only.
RemoveAllOnce ==
  /\ mainPc = "release"
  /\ live' = live \ {hdrQueue[i] : i \in {1} \cap DOMAIN hdrQueue}
  /\ hdrQueue' = IF hdrQueue = <<>> THEN <<>> ELSE Tail(hdrQueue)
  /\ mainPc' = "device"
  /\ UNCHANGED <<deviceVars, mEvent, inFlight, stray, hdr, workerPc>>

\* RemoveAll: every header in the queue is deleted, done or not.
RemoveAll ==
  /\ mainPc = "release"
  /\ live' = live \ ToSet(hdrQueue)
  /\ hdrQueue' = <<>>
  /\ mainPc' = "device"
  /\ UNCHANGED <<deviceVars, mEvent, inFlight, stray, hdr, workerPc>>

\* midiOutClose fails with MIDIERR_STILLPLAYING while the driver has headers; the
\* result is ignored and m_DevHandle is not used again.
CloseDevice ==
  /\ mainPc = "device"
  /\ stray' = stray \cup ToSet(inFlight)
  /\ inFlight' = <<>>
  /\ mainPc' = afterClose
  /\ afterClose' = "ready"
  /\ UNCHANGED <<mState, mEvent, hdrQueue, live, hdr, workerPc, opens>>

\* Open on a closed device: its call of Close does nothing.
OpenClosed ==
  /\ mainPc = "ready" /\ mState = "CLOSED" /\ opens < MaxOpens
  /\ mainPc' = "open"
  /\ UNCHANGED <<deviceVars, mEvent, hdrQueue, live, inFlight, stray, hdr, workerPc>>

OpenSucceeds ==
  /\ mainPc = "open"
  /\ opens' = opens + 1
  /\ mState' = "OPENED"
  /\ workerPc' = "loop"
  /\ mainPc' = "ready"
  /\ UNCHANGED <<mEvent, hdrQueue, live, inFlight, stray, hdr, afterClose>>

\* midiOutOpen fails: Open sets the event and waits for the worker of the session
\* before.  In a device that was never opened m_WorkerThread is a null pointer, and
\* the program ends there.
OpenFails ==
  /\ mainPc = "open"
  /\ opens' = opens + 1
  /\ mEvent' = 1
  /\ mainPc' = IF workerPc = "none" THEN "terminated" ELSE "ready"
  /\ UNCHANGED <<mState, hdrQueue, live, inFlight, stray, hdr, afterClose, workerPc>>

-----------------------------------------------------------------------------
SendMsg == (\E h \in Header : NewHeader(h)) \/ LongMsgAccepted \/ LongMsgRefused \/ AddHeader
HeaderProc == WorkerLoop \/ WorkerWait \/ WorkerRecheck \/ RemoveHeader
Close == CloseSignal \/ CloseJoin \/ RemoveAll \/ CloseDevice
Open == OpenSucceeds \/ OpenFails

Next ==
  \/ SendMsg
  \/ MidiOutProc
  \/ \E h \in stray : StrayDone(h)
  \/ HeaderProc
  \/ CloseStart
  \/ Close
  \/ OpenClosed
  \/ Open

\* Threads are scheduled: a step the worker or a started Close or Open can take is
\* eventually taken.  Nothing makes the user send or close, and the driver may be slow
\* for ever.
Fairness == WF_vars(HeaderProc) /\ WF_vars(Close) /\ WF_vars(Open)

Spec == Init /\ [][Next]_vars /\ Fairness

-----------------------------------------------------------------------------
(* Properties.                                                             *)

TypeOK ==
  /\ mState \in {"OPENED", "CLOSED"}
  /\ mEvent \in 0..1
  /\ hdrQueue \in Seq(Header)
  /\ live \in SUBSET Header
  /\ inFlight \in Seq(Header)
  /\ stray \in SUBSET Header
  /\ mainPc \in MainPcs
  /\ hdr \in Header \cup {NoHeader}
  /\ afterClose \in {"ready", "open"}
  /\ workerPc \in WorkerPcs
  /\ opens \in Nat

\* The header the worker is about to delete.
AboutToRemove ==
  {h \in Header : workerPc = "remove" /\ hdrQueue # <<>> /\ h = Head(hdrQueue)}

\* "Remove the finished header" (HeaderProc): what the worker deletes is a header the
\* driver has finished with.
RemovesFinished == AboutToRemove \cap (ToSet(inFlight) \cup stray) = {}

\* In the first session after construction the worker deletes only finished headers,
\* although MOM_DONE can come before AddHeader and two of them can set the event once.
FirstSessionRemovesFinished == opens <= 1 => RemovesFinished

\* In the first session no header is deleted while the driver still reads it, until the
\* RemoveAll of Close.
FirstSessionKeepsInFlight ==
  opens <= 1 /\ mainPc # "device" => ToSet(inFlight) \subseteq live

\* Every header that was constructed and not deleted has exactly one owner that will
\* delete it: the queue, or the SendMsg under way.  So no header is deleted twice, none is
\* leaked and the queue holds no dangling pointer, whatever the errors and restarts.
EveryHeaderOwnedOnce ==
  /\ live = ToSet(hdrQueue) \cup ({hdr} \ {NoHeader})
  /\ IsInjective(hdrQueue)
  /\ hdr \notin ToSet(hdrQueue)

\* When Close has returned no header of the session is left: what the worker missed,
\* because one signal stood for two headers or came before AddHeader, Close deletes.
ClosedIsEmpty == mainPc \in {"ready", "open"} /\ mState = "CLOSED" => live = {}

\* A Close that has started returns: the worker is always woken and always leaves.
CloseReturns == mainPc = "signal" ~> mainPc \in {"ready", "terminated"}

=============================================================================
