--------------------------- MODULE MidiOutProofs ---------------------------
(***************************************************************************)
(* Proofs about MidiOut: who owns a header, and why the worker of the      *)
(* first session only deletes finished ones.                               *)
(***************************************************************************)
EXTENDS MidiOut, SequenceTheorems, TLAPS

-----------------------------------------------------------------------------
(* The inductive invariant, in parts.                                      *)

\* Where each thread can stand, given the state of the device.
Control ==
  /\ mainPc \in {"prepared", "accepted"} <=> hdr # NoHeader
  /\ mainPc \in {"prepared", "accepted"} => mState = "OPENED"
  /\ mainPc \in {"signal", "join", "release", "device", "open", "terminated"} =>
       mState = "CLOSED"
  /\ mainPc \in {"release", "device"} => workerPc = "exited"
  /\ mainPc = "open" \/ (mainPc = "ready" /\ mState = "CLOSED") =>
       workerPc \in {"none", "exited"}

\* A closed device has nothing left, once Close has passed the queue.
ClosedClean ==
  /\ mainPc = "device" => hdrQueue = <<>>
  /\ mainPc = "open" \/ (mainPc = "ready" /\ mState = "CLOSED") =>
       hdrQueue = <<>> /\ inFlight = <<>>

\* Only a session that was opened and closed before leaves stray headers behind.
FirstSession ==
  /\ opens = 0 => /\ mState = "CLOSED" /\ mEvent = 0
                  /\ mainPc \in {"ready", "open"} /\ workerPc = "none"
  /\ opens <= 1 /\ (mState = "OPENED" \/ mainPc \in {"signal", "join", "release", "device"}) =>
       stray = {}
  /\ workerPc = "none" => stray = {}
  /\ mainPc = "terminated" =>
       hdrQueue = <<>> /\ inFlight = <<>> /\ stray = {} /\ workerPc = "none"

\* The headers the driver accepted and nobody deleted, oldest first: the one SendMsg is
\* about to queue comes last.
Accepted == IF mainPc = "accepted" THEN Append(hdrQueue, hdr) ELSE hdrQueue

\* The removals the worker is still entitled to: a signal it has not seen, and one it has.
Credits ==
  (IF mState = "OPENED" THEN mEvent ELSE 0)
    + (IF workerPc = "remove" \/ (workerPc = "recheck" /\ mState = "OPENED") THEN 1 ELSE 0)

\* In the first session what is in flight is the end of what was accepted, and each
\* removal to come is paid for by a finished header in front of it.
Paid ==
  opens <= 1 /\ mainPc # "device" =>
    /\ Len(inFlight) + Credits <= Len(Accepted)
    /\ \A i \in 1..Len(inFlight) :
         inFlight[i] = Accepted[Len(Accepted) - Len(inFlight) + i]

IInv == TypeOK /\ Control /\ ClosedClean /\ EveryHeaderOwnedOnce /\ FirstSession

-----------------------------------------------------------------------------
\* The empty queue has no elements, and no two equal ones.
LEMMA ToSetEmpty ==
  /\ IsInjective(<<>>) /\ ToSet(<<>>) = {}
BY DEF IsInjective, ToSet

\* The elements of a queue, by their places.
LEMMA InToSet ==
  ASSUME NEW S, NEW s \in Seq(S)
  PROVE  ToSet(s) = {s[i] : i \in 1 .. Len(s)}
<1>1. DOMAIN s = 1 .. Len(s)
  OBVIOUS
<1> QED  BY <1>1, Zenon DEF ToSet

\* The elements of a queue that grew by one.
LEMMA ToSetAppend ==
  ASSUME NEW S, NEW s \in Seq(S), NEW e \in S
  PROVE  ToSet(Append(s, e)) = ToSet(s) \cup {e}
<1>1. /\ DOMAIN Append(s, e) = 1 .. Len(s) + 1 /\ DOMAIN s = 1 .. Len(s) /\ Len(s) \in Nat
      /\ Append(s, e)[Len(s) + 1] = e
      /\ \A i \in 1 .. Len(s) : Append(s, e)[i] = s[i]
  OBVIOUS
<1>2. \A i \in 1 .. Len(s) + 1 : i \in 1 .. Len(s) \/ i = Len(s) + 1
  BY <1>1
<1>3. Len(s) + 1 \in 1 .. Len(s) + 1 /\ 1 .. Len(s) \subseteq 1 .. Len(s) + 1
  BY <1>1
<1> QED  BY <1>1, <1>2, <1>3, Zenon DEF ToSet

\* The elements of a queue: its head and the elements of its tail.
LEMMA ToSetTail ==
  ASSUME NEW S, NEW s \in Seq(S), s # <<>>
  PROVE  ToSet(s) = {Head(s)} \cup ToSet(Tail(s))
<1>1. /\ Len(Tail(s)) = Len(s) - 1 /\ Len(s) \in Nat /\ Len(s) > 0
      /\ s[1] = Head(s)
      /\ \A i \in 1 .. Len(s) - 1 : Tail(s)[i] = s[i + 1]
  OBVIOUS
<1>2. /\ \A i \in 1 .. Len(s) : i = 1 \/ \E j \in 1 .. Len(s) - 1 : i = j + 1
      /\ 1 \in 1 .. Len(s) /\ \A j \in 1 .. Len(s) - 1 : j + 1 \in 1 .. Len(s)
  BY <1>1
<1>3. Tail(s) \in Seq(S)
  OBVIOUS
<1>4. ToSet(Tail(s)) = {Tail(s)[j] : j \in 1 .. Len(s) - 1}
  BY <1>1, <1>3, InToSet
<1>5. ToSet(s) = {s[i] : i \in 1 .. Len(s)}
  BY InToSet
<1>6. ASSUME NEW x \in ToSet(s), x # Head(s) PROVE x \in ToSet(Tail(s))
  BY <1>1, <1>2, <1>4, <1>5, <1>6
<1>7. ASSUME NEW x \in ToSet(Tail(s)) PROVE x \in ToSet(s)
  BY <1>1, <1>2, <1>4, <1>5, <1>7
<1>8. Head(s) \in ToSet(s)
  BY <1>1, <1>2, <1>5
<1> QED  BY <1>6, <1>7, <1>8

\* A queue without equal elements stays so when a new one is added.
LEMMA InjectiveAppend ==
  ASSUME NEW S, NEW s \in Seq(S), IsInjective(s), NEW e \in S, e \notin ToSet(s)
  PROVE  IsInjective(Append(s, e))
<1>1. \A i \in 1 .. Len(s) : s[i] # e
  BY DEF ToSet
<1> QED  BY <1>1 DEF IsInjective

\* It loses its head for good when the head is dropped.
LEMMA InjectiveTail ==
  ASSUME NEW S, NEW s \in Seq(S), IsInjective(s), s # <<>>
  PROVE  IsInjective(Tail(s)) /\ Head(s) \notin ToSet(Tail(s))
<1>1. \A i \in 1 .. Len(s) - 1 : Tail(s)[i] = s[i + 1] /\ s[i + 1] # s[1]
  BY DEF IsInjective
<1>2. IsInjective(Tail(s))
  BY DEF IsInjective
<1>3. Head(s) \notin ToSet(Tail(s))
  BY <1>1 DEF ToSet
<1> QED  BY <1>2, <1>3

\* The elements of a queue are headers if it is a queue of headers.
LEMMA ToSetType ==
  ASSUME NEW S, NEW s \in Seq(S)
  PROVE  ToSet(s) \subseteq S
BY DEF ToSet

\* Dropping the head and adding an element commute.
LEMMA TailAppend ==
  ASSUME NEW S, NEW s \in Seq(S), s # <<>>, NEW e \in S
  PROVE  Append(s, e) # <<>> /\ Tail(Append(s, e)) = Append(Tail(s), e)
OBVIOUS

\* The invariant holds in the constructed device.
LEMMA InitIInv == Init => IInv /\ Paid
<1> SUFFICES ASSUME Init PROVE IInv /\ Paid
  OBVIOUS
<1> USE DEF Init
<1>1. TypeOK /\ Control /\ ClosedClean /\ FirstSession
  BY DEF TypeOK, MainPcs, WorkerPcs, Control, ClosedClean, FirstSession
<1>2. ToSet(hdrQueue) = {} /\ IsInjective(hdrQueue)
  <2>1. hdrQueue \in Seq(Header) /\ hdrQueue = <<>>
    OBVIOUS
  <2> QED  BY <2>1, ToSetEmpty
<1>3. EveryHeaderOwnedOnce
  BY <1>2, HeaderAssumption DEF EveryHeaderOwnedOnce
<1>4. Accepted = <<>> /\ Credits = 0
  BY DEF Accepted, Credits
<1>5. Paid
  BY <1>4 DEF Paid
<1> QED  BY <1>1, <1>3, <1>5 DEF IInv

\* Types are preserved by every step.
LEMMA TypeStep == TypeOK /\ Control /\ [Next]_vars => TypeOK'
<1> SUFFICES ASSUME TypeOK, Control, [Next]_vars PROVE TypeOK'
  OBVIOUS
<1>0. mainPc \in {"prepared", "accepted"} => hdr \in Header
  BY DEF TypeOK, Control
<1> USE DEF TypeOK, MainPcs, WorkerPcs, deviceVars
<1>1. ASSUME NEW h \in Header, NewHeader(h) PROVE TypeOK'
  BY <1>1 DEF NewHeader
<1>2. CASE LongMsgAccepted
  BY <1>0, <1>2 DEF LongMsgAccepted
<1>3. CASE LongMsgRefused
  BY <1>3 DEF LongMsgRefused
<1>4. CASE AddHeader
  BY <1>0, <1>4 DEF AddHeader
<1>5. CASE MidiOutProc
  BY <1>5 DEF MidiOutProc
<1>6. ASSUME NEW h \in stray, StrayDone(h) PROVE TypeOK'
  BY <1>6 DEF StrayDone
<1>7. CASE HeaderProc
  BY <1>7 DEF HeaderProc, WorkerLoop, WorkerWait, WorkerRecheck, RemoveHeader
<1>8. CASE CloseStart
  BY <1>8 DEF CloseStart
<1>9. CASE CloseSignal \/ CloseJoin
  BY <1>9 DEF CloseSignal, CloseJoin
<1>10. CASE RemoveAll
  BY <1>10 DEF RemoveAll
<1>11. CASE CloseDevice
  <2>1. ToSet(inFlight) \subseteq Header
    BY ToSetType
  <2> QED  BY <2>1, <1>11 DEF CloseDevice
<1>12. CASE OpenClosed
  BY <1>12 DEF OpenClosed
<1>13. CASE Open
  BY <1>13 DEF Open, OpenSucceeds, OpenFails
<1>14. CASE UNCHANGED vars
  BY <1>14 DEF vars
<1> QED
  BY <1>1, <1>2, <1>3, <1>4, <1>5, <1>6, <1>7, <1>8, <1>9, <1>10, <1>11, <1>12, <1>13, <1>14
     DEF Next, SendMsg, Close

\* The program counters agree with the state of the device.
LEMMA ControlStep == TypeOK /\ Control /\ [Next]_vars => Control'
<1> SUFFICES ASSUME TypeOK, Control, [Next]_vars PROVE Control'
  OBVIOUS
<1> USE DEF TypeOK, Control, MainPcs, WorkerPcs, deviceVars
<1>1. ASSUME NEW h \in Header, NewHeader(h) PROVE Control'
  BY <1>1, HeaderAssumption DEF NewHeader
<1>2. CASE LongMsgAccepted
  BY <1>2 DEF LongMsgAccepted
<1>3. CASE LongMsgRefused
  BY <1>3 DEF LongMsgRefused
<1>4. CASE AddHeader
  BY <1>4 DEF AddHeader
<1>5. CASE MidiOutProc
  BY <1>5 DEF MidiOutProc
<1>6. ASSUME NEW h \in stray, StrayDone(h) PROVE Control'
  BY <1>6 DEF StrayDone
<1>7. CASE WorkerLoop
  BY <1>7 DEF WorkerLoop
<1>8. CASE WorkerWait
  BY <1>8 DEF WorkerWait
<1>9. CASE WorkerRecheck
  BY <1>9 DEF WorkerRecheck
<1>10. CASE RemoveHeader
  BY <1>10 DEF RemoveHeader
<1>11. CASE CloseStart
  BY <1>11 DEF CloseStart
<1>12. CASE CloseSignal
  BY <1>12 DEF CloseSignal
<1>13. CASE CloseJoin
  BY <1>13 DEF CloseJoin
<1>14. CASE RemoveAll
  BY <1>14 DEF RemoveAll
<1>15. CASE CloseDevice
  BY <1>15 DEF CloseDevice
<1>16. CASE OpenClosed
  BY <1>16 DEF OpenClosed
<1>17. CASE OpenSucceeds
  BY <1>17 DEF OpenSucceeds
<1>18. CASE OpenFails
  BY <1>18 DEF OpenFails
<1>19. CASE UNCHANGED vars
  BY <1>19 DEF vars
<1> QED
  BY <1>1, <1>2, <1>3, <1>4, <1>5, <1>6, <1>7, <1>8, <1>9, <1>10,
     <1>11, <1>12, <1>13, <1>14, <1>15, <1>16, <1>17, <1>18, <1>19
     DEF Next, SendMsg, HeaderProc, Close, Open

\* A closed device stays empty.
LEMMA ClosedCleanStep == TypeOK /\ Control /\ ClosedClean /\ [Next]_vars => ClosedClean'
<1> SUFFICES ASSUME TypeOK, Control, ClosedClean, [Next]_vars PROVE ClosedClean'
  OBVIOUS
<1> USE DEF TypeOK, Control, ClosedClean, MainPcs, WorkerPcs, deviceVars
<1>1. ASSUME NEW h \in Header, NewHeader(h) PROVE ClosedClean'
  BY <1>1 DEF NewHeader
<1>2. CASE LongMsgAccepted
  BY <1>2 DEF LongMsgAccepted
<1>3. CASE LongMsgRefused
  BY <1>3 DEF LongMsgRefused
<1>4. CASE AddHeader
  BY <1>4 DEF AddHeader
<1>5. CASE MidiOutProc
  BY <1>5 DEF MidiOutProc
<1>6. ASSUME NEW h \in stray, StrayDone(h) PROVE ClosedClean'
  BY <1>6 DEF StrayDone
<1>7. CASE WorkerLoop
  BY <1>7 DEF WorkerLoop
<1>8. CASE WorkerWait
  BY <1>8 DEF WorkerWait
<1>9. CASE WorkerRecheck
  BY <1>9 DEF WorkerRecheck
<1>10. CASE RemoveHeader
  BY <1>10 DEF RemoveHeader
<1>11. CASE CloseStart
  BY <1>11 DEF CloseStart
<1>12. CASE CloseSignal
  BY <1>12 DEF CloseSignal
<1>13. CASE CloseJoin
  BY <1>13 DEF CloseJoin
<1>14. CASE RemoveAll
  BY <1>14 DEF RemoveAll
<1>15. CASE CloseDevice
  BY <1>15 DEF CloseDevice
<1>16. CASE OpenClosed
  BY <1>16 DEF OpenClosed
<1>17. CASE OpenSucceeds
  BY <1>17 DEF OpenSucceeds
<1>18. CASE OpenFails
  BY <1>18 DEF OpenFails
<1>19. CASE UNCHANGED vars
  BY <1>19 DEF vars
<1> QED
  BY <1>1, <1>2, <1>3, <1>4, <1>5, <1>6, <1>7, <1>8, <1>9, <1>10,
     <1>11, <1>12, <1>13, <1>14, <1>15, <1>16, <1>17, <1>18, <1>19
     DEF Next, SendMsg, HeaderProc, Close, Open

\* Stray headers come from a session before.
LEMMA FirstSessionStep == TypeOK /\ Control /\ ClosedClean /\ FirstSession /\ [Next]_vars => FirstSession'
<1> SUFFICES ASSUME TypeOK, Control, ClosedClean, FirstSession, [Next]_vars PROVE FirstSession'
  OBVIOUS
<1> USE DEF TypeOK, Control, ClosedClean, FirstSession, MainPcs, WorkerPcs, deviceVars
<1>1. ASSUME NEW h \in Header, NewHeader(h) PROVE FirstSession'
  BY <1>1 DEF NewHeader
<1>2. CASE LongMsgAccepted
  BY <1>2 DEF LongMsgAccepted
<1>3. CASE LongMsgRefused
  BY <1>3 DEF LongMsgRefused
<1>4. CASE AddHeader
  BY <1>4 DEF AddHeader
<1>5. CASE MidiOutProc
  BY <1>5 DEF MidiOutProc
<1>6. ASSUME NEW h \in stray, StrayDone(h) PROVE FirstSession'
  BY <1>6 DEF StrayDone
<1>7. CASE WorkerLoop
  BY <1>7 DEF WorkerLoop
<1>8. CASE WorkerWait
  BY <1>8 DEF WorkerWait
<1>9. CASE WorkerRecheck
  BY <1>9 DEF WorkerRecheck
<1>10. CASE RemoveHeader
  BY <1>10 DEF RemoveHeader
<1>11. CASE CloseStart
  BY <1>11 DEF CloseStart
<1>12. CASE CloseSignal
  BY <1>12 DEF CloseSignal
<1>13. CASE CloseJoin
  BY <1>13 DEF CloseJoin
<1>14. CASE RemoveAll
  BY <1>14 DEF RemoveAll
<1>15. CASE CloseDevice
  BY <1>15 DEF CloseDevice
<1>16. CASE OpenClosed
  BY <1>16 DEF OpenClosed
<1>17. CASE OpenSucceeds
  BY <1>17 DEF OpenSucceeds
<1>18. CASE OpenFails
  BY <1>18 DEF OpenFails
<1>19. CASE UNCHANGED vars
  BY <1>19 DEF vars
<1> QED
  BY <1>1, <1>2, <1>3, <1>4, <1>5, <1>6, <1>7, <1>8, <1>9, <1>10,
     <1>11, <1>12, <1>13, <1>14, <1>15, <1>16, <1>17, <1>18, <1>19
     DEF Next, SendMsg, HeaderProc, Close, Open

\* Each header has one owner, and the steps that hand it over keep it so.
LEMMA OwnedStep ==
  TypeOK /\ Control /\ EveryHeaderOwnedOnce /\ [Next]_vars => EveryHeaderOwnedOnce'
<1> SUFFICES ASSUME TypeOK, Control, EveryHeaderOwnedOnce, [Next]_vars
             PROVE  EveryHeaderOwnedOnce'
  OBVIOUS
<1> USE HeaderAssumption
<1>1. hdrQueue \in Seq(Header) /\ NoHeader \notin ToSet(hdrQueue)
  BY ToSetType DEF TypeOK
<1>2. mainPc \in {"prepared", "accepted"} <=> hdr \in Header
  BY DEF TypeOK, Control
<1>3. ASSUME NEW h \in Header, NewHeader(h) PROVE EveryHeaderOwnedOnce'
  <2>1. hdr = NoHeader
    BY <1>2, <1>3 DEF NewHeader, TypeOK
  <2> QED  BY <2>1, <1>3, Zenon DEF NewHeader, EveryHeaderOwnedOnce
<1>4. CASE LongMsgRefused
  BY <1>1, <1>4 DEF LongMsgRefused, EveryHeaderOwnedOnce
<1>5. CASE AddHeader
  <2>1. hdr \in Header /\ hdr # NoHeader
    BY <1>2, <1>5 DEF AddHeader
  <2>2. ToSet(Append(hdrQueue, hdr)) = ToSet(hdrQueue) \cup {hdr}
    BY <1>1, <2>1, ToSetAppend
  <2>3. IsInjective(Append(hdrQueue, hdr))
    BY <1>1, <2>1, InjectiveAppend DEF EveryHeaderOwnedOnce
  <2> QED  BY <1>1, <1>5, <2>1, <2>2, <2>3 DEF AddHeader, EveryHeaderOwnedOnce
<1>6. CASE RemoveHeader
  <2>1. CASE hdrQueue = <<>>
    BY <1>6, <2>1 DEF RemoveHeader, EveryHeaderOwnedOnce
  <2>2. CASE hdrQueue # <<>>
    <3>1. ToSet(hdrQueue) = {Head(hdrQueue)} \cup ToSet(Tail(hdrQueue))
      BY <1>1, <2>2, ToSetTail
    <3>2. IsInjective(Tail(hdrQueue)) /\ Head(hdrQueue) \notin ToSet(Tail(hdrQueue))
      BY <1>1, <2>2, InjectiveTail DEF EveryHeaderOwnedOnce
    <3> QED  BY <1>6, <2>2, <3>1, <3>2 DEF RemoveHeader, EveryHeaderOwnedOnce
  <2> QED  BY <2>1, <2>2
<1>7. CASE RemoveAll
  <2>1. hdr = NoHeader
    BY <1>2, <1>7 DEF RemoveAll, TypeOK
  <2>2. hdrQueue' \in Seq(Header) /\ hdrQueue' = <<>>
    BY <1>7 DEF RemoveAll
  <2>3. ToSet(hdrQueue') = {} /\ IsInjective(hdrQueue')
    BY <2>2, ToSetEmpty
  <2>4. live' = {} /\ hdr' = NoHeader
    BY <1>7, <2>1 DEF RemoveAll, EveryHeaderOwnedOnce
  <2> QED  BY <2>3, <2>4 DEF EveryHeaderOwnedOnce
<1>8. ASSUME UNCHANGED <<hdrQueue, live, hdr>> PROVE EveryHeaderOwnedOnce'
  BY <1>8, Zenon DEF EveryHeaderOwnedOnce
<1>9. CASE LongMsgAccepted \/ MidiOutProc \/ \E h \in stray : StrayDone(h)
  BY <1>8, <1>9 DEF LongMsgAccepted, MidiOutProc, StrayDone
<1>10. CASE WorkerLoop \/ WorkerWait \/ WorkerRecheck
  BY <1>8, <1>10 DEF WorkerLoop, WorkerWait, WorkerRecheck
<1>11. CASE CloseStart \/ CloseSignal \/ CloseJoin \/ CloseDevice
  BY <1>8, <1>11 DEF CloseStart, CloseSignal, CloseJoin, CloseDevice
<1>12. CASE OpenClosed \/ OpenSucceeds \/ OpenFails \/ UNCHANGED vars
  BY <1>8, <1>12 DEF OpenClosed, OpenSucceeds, OpenFails, vars
<1> QED
  BY <1>3, <1>4, <1>5, <1>6, <1>7, <1>9, <1>10, <1>11, <1>12
     DEF Next, SendMsg, HeaderProc, Close, Open

\* The worker's removals stay paid for.
LEMMA PaidStep == IInv /\ Paid /\ [Next]_vars => Paid'
<1> SUFFICES ASSUME IInv, Paid, [Next]_vars PROVE Paid'
  OBVIOUS
<1>0. TypeOK /\ Control /\ ClosedClean /\ FirstSession
  BY DEF IInv
<1>a. /\ mEvent \in 0..1 /\ hdrQueue \in Seq(Header) /\ inFlight \in Seq(Header)
      /\ opens \in Nat /\ (mainPc \in {"prepared", "accepted"} => hdr \in Header)
  BY <1>0 DEF TypeOK, Control
<1>b. ASSUME Accepted' = Accepted, inFlight' = inFlight, opens' = opens, mainPc' = mainPc,
             Credits \in Nat, Credits' \in Nat, Credits' <= Credits
      PROVE  Paid'
  <2>1. Len(Accepted) \in Nat /\ Len(inFlight) \in Nat
    BY <1>a DEF Accepted
  <2>2. opens <= 1 /\ mainPc # "device" => Len(inFlight) + Credits' <= Len(Accepted)
    BY <1>b, <2>1 DEF Paid
  <2> QED  BY <1>b, <2>2 DEF Paid
<1> USE DEF Paid, Accepted, Credits, deviceVars
<1>1. ASSUME NEW h \in Header, NewHeader(h) PROVE Paid'
  BY <1>1, <1>a DEF NewHeader
<1>2. CASE LongMsgAccepted
  BY <1>2, <1>a DEF LongMsgAccepted
<1>3. CASE LongMsgRefused
  BY <1>3, <1>a DEF LongMsgRefused
<1>4. CASE AddHeader
  BY <1>4, <1>a DEF AddHeader
<1>5. CASE MidiOutProc
  <2>1. Accepted' = Accepted /\ Accepted \in Seq(Header)
    BY <1>5, <1>a DEF MidiOutProc
  <2>2. Credits \in Nat /\ Credits' \in Nat /\ Credits' <= Credits + 1
    BY <1>5, <1>a DEF MidiOutProc
  <2>3. Len(inFlight') = Len(inFlight) - 1 /\ Len(inFlight) \in Nat \ {0}
        /\ inFlight' = Tail(inFlight) /\ mainPc' = mainPc /\ opens' = opens
    BY <1>5, <1>a DEF MidiOutProc
  <2> HIDE DEF Accepted, Credits
  <2> SUFFICES ASSUME opens <= 1, mainPc # "device"
               PROVE  /\ Len(inFlight') + Credits' <= Len(Accepted')
                      /\ \A i \in 1..Len(inFlight') :
                           inFlight'[i] = Accepted'[Len(Accepted') - Len(inFlight') + i]
    BY <2>3
  <2>4. Len(inFlight') + Credits' <= Len(Accepted')
    BY <2>1, <2>2, <2>3
  <2>5. ASSUME NEW i \in 1..Len(inFlight')
        PROVE  inFlight'[i] = Accepted'[Len(Accepted') - Len(inFlight') + i]
    <3>1. inFlight'[i] = inFlight[i + 1] /\ i + 1 \in 1..Len(inFlight)
      BY <2>3, <2>5, <1>a
    <3>2. Len(Accepted) - Len(inFlight) + (i + 1) = Len(Accepted') - Len(inFlight') + i
      BY <2>1, <2>3
    <3> QED  BY <2>1, <3>1, <3>2
  <2> QED  BY <2>4, <2>5
<1>6. ASSUME NEW h \in stray, StrayDone(h) PROVE Paid'
  <2>1. mState' = mState /\ (opens <= 1 => mState # "OPENED")
    BY <1>6, <1>0, <1>a DEF StrayDone, FirstSession, TypeOK
  <2> QED  BY <2>1, <1>6, <1>a DEF StrayDone
<1>7. CASE WorkerLoop
  <2>1. Accepted' = Accepted /\ inFlight' = inFlight /\ opens' = opens /\ mainPc' = mainPc
    BY <1>7 DEF WorkerLoop
  <2>2. Credits \in Nat /\ Credits' \in Nat /\ Credits' <= Credits
    BY <1>7, <1>a DEF WorkerLoop
  <2> HIDE DEF Paid, Accepted, Credits
  <2> QED  BY <2>1, <2>2, <1>b
<1>8. CASE WorkerWait
  <2>1. Accepted' = Accepted /\ inFlight' = inFlight /\ opens' = opens /\ mainPc' = mainPc
    BY <1>8 DEF WorkerWait
  <2>2. Credits \in Nat /\ Credits' \in Nat /\ Credits' <= Credits
    BY <1>8, <1>a DEF WorkerWait
  <2> HIDE DEF Paid, Accepted, Credits
  <2> QED  BY <2>1, <2>2, <1>b
<1>9. CASE WorkerRecheck
  <2>1. Accepted' = Accepted /\ inFlight' = inFlight /\ opens' = opens /\ mainPc' = mainPc
    BY <1>9 DEF WorkerRecheck
  <2>2. Credits \in Nat /\ Credits' \in Nat /\ Credits' <= Credits
    BY <1>9, <1>a DEF WorkerRecheck
  <2> HIDE DEF Paid, Accepted, Credits
  <2> QED  BY <2>1, <2>2, <1>b
<1>10. CASE RemoveHeader
  <2>1. CASE hdrQueue = <<>>
    BY <1>10, <2>1, <1>a DEF RemoveHeader
  <2>2. CASE hdrQueue # <<>>
    <3>1. Accepted \in Seq(Header) /\ Accepted # <<>> /\ Accepted' = Tail(Accepted)
      <4>1. CASE mainPc = "accepted"
        <5>1. hdr \in Header /\ hdr' = hdr /\ mainPc' = mainPc /\ hdrQueue' = Tail(hdrQueue)
          BY <1>10, <1>a, <2>2, <4>1 DEF RemoveHeader
        <5> QED  BY <1>a, <2>2, <4>1, <5>1, TailAppend
      <4>2. CASE mainPc # "accepted"
        BY <1>10, <2>2, <4>2, <1>a DEF RemoveHeader
      <4> QED  BY <4>1, <4>2
    <3>2. Credits \in Nat \ {0} /\ Credits' = Credits - 1
      BY <1>10, <1>a DEF RemoveHeader
    <3>3. inFlight' = inFlight /\ mainPc' = mainPc /\ opens' = opens
      BY <1>10 DEF RemoveHeader
    <3> HIDE DEF Accepted, Credits
    <3>4. Len(Accepted') = Len(Accepted) - 1 /\ Len(Accepted) \in Nat \ {0}
          /\ \A j \in 1..Len(Accepted') : Accepted'[j] = Accepted[j + 1]
      BY <3>1
    <3> SUFFICES ASSUME opens <= 1, mainPc # "device"
                 PROVE  /\ Len(inFlight') + Credits' <= Len(Accepted')
                        /\ \A i \in 1..Len(inFlight') :
                             inFlight'[i] = Accepted'[Len(Accepted') - Len(inFlight') + i]
      BY <3>3
    <3>5. Len(inFlight) \in Nat /\ Len(inFlight') + Credits' <= Len(Accepted')
      BY <3>2, <3>3, <3>4, <1>a
    <3>6. ASSUME NEW i \in 1..Len(inFlight')
          PROVE  inFlight'[i] = Accepted'[Len(Accepted') - Len(inFlight') + i]
      <4> DEFINE j == Len(Accepted') - Len(inFlight') + i
      <4>1. j \in 1..Len(Accepted') /\ j + 1 = Len(Accepted) - Len(inFlight) + i
        <5>1. i \in Nat /\ 1 <= i /\ i <= Len(inFlight) /\ Len(inFlight) <= Len(Accepted')
          BY <3>2, <3>3, <3>4, <3>5, <3>6
        <5>2. Len(inFlight') = Len(inFlight) /\ Len(Accepted') \in Nat
          BY <3>3, <3>4
        <5> QED  BY <3>4, <3>5, <5>1, <5>2
      <4>2. inFlight[i] = Accepted[Len(Accepted) - Len(inFlight) + i]
        BY <3>3, <3>6
      <4> QED  BY <3>3, <3>4, <4>1, <4>2
    <3> QED  BY <3>5, <3>6
  <2> QED  BY <2>1, <2>2
<1>11. CASE CloseStart
  BY <1>11, <1>a DEF CloseStart
<1>12. CASE CloseSignal
  BY <1>12, <1>0, <1>a DEF CloseSignal, Control
<1>13. CASE CloseJoin
  BY <1>13, <1>a DEF CloseJoin
<1>14. CASE RemoveAll
  BY <1>14 DEF RemoveAll
<1>15. CASE CloseDevice
  <2>1. /\ mState' = "CLOSED" /\ workerPc' = "exited" /\ mainPc' \in {"ready", "open"}
        /\ hdrQueue' = <<>> /\ inFlight' = <<>>
    BY <1>15, <1>0 DEF CloseDevice, Control, ClosedClean, TypeOK
  <2> QED  BY <2>1
<1>16. CASE OpenClosed
  BY <1>16, <1>a DEF OpenClosed
<1>17. CASE OpenSucceeds
  <2>1. hdrQueue' = <<>> /\ inFlight' = <<>> /\ mainPc' = "ready" /\ workerPc' = "loop"
    BY <1>17, <1>0 DEF OpenSucceeds, ClosedClean
  <2>2. opens' <= 1 => mEvent' = 0
    BY <1>17, <1>0, <1>a DEF OpenSucceeds, FirstSession
  <2> QED  BY <2>1, <2>2
<1>18. CASE OpenFails
  BY <1>18, <1>0, <1>a DEF OpenFails, Control
<1>19. CASE UNCHANGED vars
  BY <1>19 DEF vars
<1> QED
  BY <1>1, <1>2, <1>3, <1>4, <1>5, <1>6, <1>7, <1>8, <1>9, <1>10,
     <1>11, <1>12, <1>13, <1>14, <1>15, <1>16, <1>17, <1>18, <1>19
     DEF Next, SendMsg, HeaderProc, Close, Open

-----------------------------------------------------------------------------
\* The invariant and the account of the first session hold in every reachable state.
LEMMA Inductive == Spec => [](IInv /\ Paid)
<1>1. Init => IInv /\ Paid
  BY InitIInv
<1>2. IInv /\ Paid /\ [Next]_vars => (IInv /\ Paid)'
  BY TypeStep, ControlStep, ClosedCleanStep, FirstSessionStep, OwnedStep, PaidStep DEF IInv
<1> QED  BY <1>1, <1>2, PTL DEF Spec

\* The device's variables keep their types (CMIDIOutDevice).
THEOREM TypeCorrect == Spec => []TypeOK
<1>1. IInv => TypeOK
  BY DEF IInv
<1> QED  BY <1>1, Inductive, PTL

\* For any set of headers, each live header has one owner, through refused messages,
\* closes and reopenings: CMIDIOutDevice deletes no header twice and leaks none.
THEOREM OneOwner == Spec => []EveryHeaderOwnedOnce
<1>1. IInv => EveryHeaderOwnedOnce
  BY DEF IInv
<1> QED  BY <1>1, Inductive, PTL

\* A closed CMIDIOutDevice has no live header.
THEOREM NothingLeft == Spec => []ClosedIsEmpty
<1>1. IInv => ClosedIsEmpty
  <2> SUFFICES ASSUME IInv, mainPc \in {"ready", "open"}, mState = "CLOSED"
               PROVE  live = {}
    BY DEF ClosedIsEmpty
  <2>1. hdr = NoHeader /\ hdrQueue = <<>> /\ hdrQueue \in Seq(Header)
    BY DEF IInv, TypeOK, Control, ClosedClean
  <2>2. ToSet(hdrQueue) = {}
    BY <2>1, ToSetEmpty
  <2> QED  BY <2>1, <2>2 DEF IInv, EveryHeaderOwnedOnce
<1> QED  BY <1>1, Inductive, PTL

\* In the first session everything in flight is accepted and not deleted, and the header
\* at the front of a queue the worker may take from is not in flight.
LEMMA InFlightSuffix ==
  ASSUME IInv, Paid, opens <= 1, mainPc # "device"
  PROVE  /\ ToSet(inFlight) \subseteq live
         /\ workerPc = "remove" /\ hdrQueue # <<>> => Head(hdrQueue) \notin ToSet(inFlight)
<1>1. /\ hdrQueue \in Seq(Header) /\ inFlight \in Seq(Header) /\ mEvent \in 0..1
      /\ mainPc = "accepted" => hdr \in Header /\ hdr # NoHeader
  BY DEF IInv, TypeOK, Control
<1>2. /\ live = ToSet(hdrQueue) \cup ({hdr} \ {NoHeader}) /\ hdr \notin ToSet(hdrQueue)
      /\ IsInjective(hdrQueue)
  BY DEF IInv, EveryHeaderOwnedOnce
<1>3. Accepted \in Seq(Header) /\ IsInjective(Accepted) /\ ToSet(Accepted) \subseteq live
  <2>1. CASE mainPc = "accepted"
    <3>1. Accepted = Append(hdrQueue, hdr)
      BY <2>1 DEF Accepted
    <3>2. IsInjective(Accepted) /\ ToSet(Accepted) = ToSet(hdrQueue) \cup {hdr}
      BY <1>1, <1>2, <2>1, <3>1, InjectiveAppend, ToSetAppend
    <3> QED  BY <1>1, <1>2, <2>1, <3>1, <3>2
  <2>2. CASE mainPc # "accepted"
    BY <1>1, <1>2, <2>2 DEF Accepted
  <2> QED  BY <2>1, <2>2
<1>4. /\ Credits \in Nat /\ (workerPc = "remove" => Credits >= 1)
      /\ Len(inFlight) + Credits <= Len(Accepted)
      /\ \A i \in 1..Len(inFlight) :
           inFlight[i] = Accepted[Len(Accepted) - Len(inFlight) + i]
  <2>1. Credits \in Nat /\ (workerPc = "remove" => Credits >= 1)
    BY <1>1 DEF Credits
  <2> QED  BY <2>1 DEF Paid
<1>5. ASSUME NEW x \in ToSet(inFlight)
      PROVE  \E j \in 1..Len(Accepted) :
               x = Accepted[j] /\ (workerPc = "remove" => j # 1)
  <2>1. PICK i \in 1..Len(inFlight) : inFlight[i] = x
    BY <1>1, InToSet
  <2> DEFINE j == Len(Accepted) - Len(inFlight) + i
  <2>2. j \in 1..Len(Accepted) /\ (workerPc = "remove" => j # 1)
    BY <1>1, <1>3, <1>4, <2>1
  <2>3. x = Accepted[j]
    BY <1>4, <2>1
  <2> QED  BY <2>2, <2>3
<1>6. ToSet(inFlight) \subseteq live
  BY <1>3, <1>5, InToSet
<1>7. ASSUME workerPc = "remove", hdrQueue # <<>>, Head(hdrQueue) \in ToSet(inFlight)
      PROVE  FALSE
  <2>1. Head(hdrQueue) = Accepted[1] /\ 1 \in 1..Len(Accepted)
    BY <1>1, <1>7 DEF Accepted
  <2>2. PICK j \in 1..Len(Accepted) : Accepted[j] = Accepted[1] /\ j # 1
    BY <1>5, <1>7, <2>1
  <2> QED  BY <1>3, <2>1, <2>2 DEF IsInjective
<1> QED  BY <1>6, <1>7

\* In the first session of CMIDIOutDevice no header is deleted while it is in flight,
\* until Close deletes them all.
THEOREM KeepsInFlight == Spec => []FirstSessionKeepsInFlight
<1>1. IInv /\ Paid => FirstSessionKeepsInFlight
  BY InFlightSuffix DEF FirstSessionKeepsInFlight
<1> QED  BY <1>1, Inductive, PTL

\* HeaderProc of the first session deletes only headers the driver has finished with, for
\* any number of headers and any timing of the driver.
THEOREM RemovesOnlyFinished == Spec => []FirstSessionRemovesFinished
<1>1. IInv /\ Paid => FirstSessionRemovesFinished
  <2> SUFFICES ASSUME IInv, Paid, opens <= 1, NEW h \in AboutToRemove
               PROVE  h \notin ToSet(inFlight) \cup stray
    BY DEF FirstSessionRemovesFinished, RemovesFinished
  <2>1. workerPc = "remove" /\ hdrQueue # <<>> /\ h = Head(hdrQueue)
    BY DEF AboutToRemove
  <2>2. mainPc # "device" /\ stray = {}
    BY <2>1 DEF IInv, TypeOK, MainPcs, Control, ClosedClean, FirstSession
  <2> QED  BY <2>1, <2>2, InFlightSuffix
<1> QED  BY <1>1, Inductive, PTL

=============================================================================
