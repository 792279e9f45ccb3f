--------------------------- MODULE SysexInProofs ---------------------------
(***************************************************************************)
(* Proofs about SysexIn, for dumps of any number of chunks and any number  *)
(* of calls, losses and notes.                                             *)
(*                                                                         *)
(* TablesFaithful speaks of a call that nothing disturbs.  Asking says     *)
(* where the dump such a call waits for is at each moment (a request, the  *)
(* rest of its chunks on the wire and the first of them in the buffer, a   *)
(* message to decode, a table), and Undisturbed puts the two halves of the *)
(* call together: while the upper dump comes the lower table must not be   *)
(* touched again.                                                          *)
(***************************************************************************)
EXTENDS SysexIn, SequenceTheorems, TLAPS

Shows(bank) == \E v \in asked .. version : Table(bank) = Dump(bank, v)

(* The first k chunks of a dump have been put together.                    *)
Coming(bank, v, k) ==
    /\ callback = "idle"
    /\ Len(wire) = Parts - k
    /\ \A i \in 1 .. Len(wire) : wire[i] = Dump(bank, v)[i + k]
    /\ k > 0 => /\ Len(m_sysex_buffer) = k
                /\ \A i \in 1 .. k : m_sysex_buffer[i] = Dump(bank, v)[i]

Complete(bank, v) ==
    /\ callback = "parse" /\ wire = <<>>
    /\ Len(m_sysex_buffer) = Parts
    /\ \A i \in 1 .. Parts : m_sysex_buffer[i] = Dump(bank, v)[i]

Asking(bank) ==
    \/ toMirage = <<bank>> /\ wire = <<>> /\ callback = "idle" /\ ~midi_in_event
    \/ /\ toMirage = <<>> /\ ~midi_in_event
       /\ \E v \in asked .. version :
             (\E k \in 0 .. Parts - 1 : Coming(bank, v, k)) \/ Complete(bank, v)
    \/ /\ toMirage = <<>> /\ wire = <<>>
       /\ callback = IF midi_in_event THEN "idle" ELSE "signal"
       /\ Shows(bank)

Undisturbed ==
    clean =>
        /\ pc = "lower" => Asking("lower")
        /\ pc = "upper" => Asking("upper") /\ Shows("lower")
        /\ pc = "done" => Silence /\ Shows("lower") /\ Shows("upper")

AskedBefore == asked <= version

IInv == TypeOK /\ AskedBefore /\ Undisturbed

-----------------------------------------------------------------------------
LEMMA DumpType ==
  ASSUME NEW bank \in Banks, NEW v \in 1 .. MaxVersions
  PROVE  /\ Dump(bank, v) \in Seq(Chunk) /\ Len(Dump(bank, v)) = Parts
         /\ \A i \in 1 .. Parts :
               Dump(bank, v)[i] = [bank |-> bank, part |-> i, version |-> v]
BY SysexInAssumption DEF Dump, Chunk

LEMMA TypeInit == Init => TypeOK
<1> SUFFICES ASSUME Init PROVE TypeOK
  OBVIOUS
<1> USE SysexInAssumption DEF Init
<1>1. /\ pc \in {"idle", "lower", "upper", "done"} /\ callback \in {"idle", "parse", "signal"}
      /\ version \in 1 .. MaxVersions /\ asked \in 1 .. MaxVersions
      /\ calls \in 0 .. MaxCalls /\ lost \in 0 .. MaxLost /\ others \in 0 .. MaxOthers
  OBVIOUS
<1>0. midi_in_event \in BOOLEAN /\ clean \in BOOLEAN
  BY Zenon
<1>2. toMirage \in Seq(Banks) /\ wire \in Seq(Chunk) /\ m_sysex_buffer \in Seq(Chunk)
  OBVIOUS
<1>3. \A c \in Cells : ProgramDumpTable[c] \in Chunk \cup {NoChunk, Spoilt}
  OBVIOUS
<1>4. /\ last \in [Banks -> 0 .. MaxVersions] /\ lastBank \in Banks
      /\ whole \in Chunk \cup {NoChunk} /\ damaged \in SUBSET Banks
  BY DEF Banks
<1> QED
  BY <1>1, <1>2, <1>3, <1>4, <1>0, Zenon DEF TypeOK

LEMMA TypeStep == TypeOK /\ [Next]_vars => TypeOK'
<1> SUFFICES ASSUME TypeOK, [Next]_vars PROVE TypeOK'
  OBVIOUS
<1> USE SysexInAssumption DEF TypeOK, MainUnchanged, mainVars, mirageVars, inVars
<1>1. CASE GetSampleParameters
  <2>1. clean' \in BOOLEAN /\ midi_in_event' \in BOOLEAN
    BY <1>1, Zenon DEF GetSampleParameters, ResetAndSend, Silence
  <2>2. toMirage' \in Seq(Banks) /\ calls' \in 0 .. MaxCalls
    BY <1>1 DEF GetSampleParameters, ResetAndSend, Banks
  <2> QED
    BY <1>1, <2>1, <2>2 DEF GetSampleParameters
<1>2. CASE AskUpper
  <2>1. toMirage' \in Seq(Banks)
    BY <1>2 DEF AskUpper, ResetAndSend, Banks
  <2>2. midi_in_event' \in BOOLEAN
    BY <1>2, Zenon DEF AskUpper, ResetAndSend
  <2> QED
    BY <1>2, <2>1, <2>2 DEF AskUpper
<1>3. CASE ReturnTrue \/ Timeout
  BY <1>3 DEF ReturnTrue, Timeout
<1>4. CASE MirageHandles
  <2>1. Head(toMirage) \in Banks /\ Tail(toMirage) \in Seq(Banks)
    BY <1>4 DEF MirageHandles
  <2>2. wire \o Dump(Head(toMirage), version) \in Seq(Chunk)
    BY <2>1, DumpType, ConcatProperties
  <2>3. version \in 0 .. MaxVersions
    OBVIOUS
  <2> QED
    BY <1>4, <2>1, <2>2, <2>3 DEF MirageHandles
<1>5. CASE Panel
  BY <1>5 DEF Panel
<1>6. CASE LoseChunk
  <2>1. wire' \in Seq(Chunk) /\ lost' \in 0 .. MaxLost /\ damaged' \in SUBSET Banks
    BY <1>6 DEF LoseChunk
  <2>2. clean' \in BOOLEAN
    BY <1>6 DEF LoseChunk
  <2> QED
    BY <1>6, <2>1, <2>2 DEF LoseChunk
<1>7. CASE ReceiveOther
  <2>1. others' \in 0 .. MaxOthers
    BY <1>7 DEF ReceiveOther
  <2>2. clean' \in BOOLEAN /\ midi_in_event' \in BOOLEAN
    BY <1>7, Zenon DEF ReceiveOther
  <2> QED
    BY <1>7, <2>1, <2>2 DEF ReceiveOther
<1>8. CASE ReceiveMsg
  <2>1. Head(wire) \in Chunk /\ Tail(wire) \in Seq(Chunk)
    BY <1>8 DEF ReceiveMsg
  <2>2. Join(Head(wire)) \in Seq(Chunk) /\ Follows(Head(wire)) \in Chunk \cup {NoChunk}
    BY <2>1 DEF Join, Follows
  <2> QED
    BY <1>8, <2>1, <2>2 DEF ReceiveMsg
<1>9. CASE ParseSysEx
  <2>1. ASSUME NEW bank \in Banks, NEW c \in Cells
        PROVE  Decoded(bank)[c] \in Chunk \cup {NoChunk, Spoilt}
    BY DEF Decoded, Cells
  <2>2. \A c \in Cells : ProgramDumpTable'[c] \in Chunk \cup {NoChunk, Spoilt}
    BY <1>9, <2>1 DEF ParseSysEx
  <2> QED
    BY <1>9, <2>2 DEF ParseSysEx
<1>10. CASE Signal
  BY <1>10 DEF Signal
<1>11. CASE UNCHANGED vars
  BY <1>11 DEF vars
<1> QED
  BY <1>1, <1>2, <1>3, <1>4, <1>5, <1>6, <1>7, <1>8, <1>9, <1>10, <1>11 DEF Next

(* The states have their types, for any number of chunks (SysexIn.TypeOK). *)
THEOREM TypeCorrect == Spec => []TypeOK
BY TypeInit, TypeStep, PTL DEF Spec

-----------------------------------------------------------------------------
(* What a step does to the dump that a call waits for.                     *)

LEMMA ShowsStays ==
  ASSUME TypeOK, NEW bank \in Banks, Shows(bank),
         asked' = asked, version' \in Nat, version' >= version,
         \A i \in 1 .. Parts :
            ProgramDumpTable'[Offset(bank) + i] = ProgramDumpTable[Offset(bank) + i]
  PROVE  Shows(bank)'
<1>1. PICK v \in asked .. version : Table(bank) = Dump(bank, v)
  BY DEF Shows
<1>2. v \in asked' .. version'
  BY DEF TypeOK
<1>3. Table(bank)' = Table(bank)
  BY DEF Table
<1> QED
  BY <1>1, <1>2, <1>3 DEF Shows

LEMMA MirageStep ==
  ASSUME TypeOK, AskedBefore, NEW bank \in Banks, Asking(bank), MirageHandles
  PROVE  Asking(bank)'
<1> USE SysexInAssumption
<1>1. toMirage = <<bank>> /\ wire = <<>> /\ callback = "idle" /\ ~midi_in_event
  BY DEF Asking, MirageHandles
<1>2. Head(toMirage) = bank /\ toMirage' = <<>>
  BY <1>1 DEF MirageHandles
<1> DEFINE v == version
<1>3. v \in 1 .. MaxVersions /\ v \in asked .. version /\ asked' = asked /\ version' = version
  BY DEF TypeOK, AskedBefore, MirageHandles, mainVars
<1>4. wire' = Dump(bank, v)
  BY <1>1, <1>2, <1>3, DumpType DEF MirageHandles
<1> HIDE DEF v
<1>5. /\ callback' = "idle" /\ Len(wire') = Parts - 0
      /\ \A i \in 1 .. Len(wire') : wire'[i] = Dump(bank, v)[i + 0]
  BY <1>1, <1>3, <1>4, DumpType DEF MirageHandles
<1>6. ~midi_in_event' /\ 0 \in 0 .. Parts - 1
  BY <1>1 DEF MirageHandles
<1> QED
  BY <1>2, <1>3, <1>5, <1>6 DEF Asking, Coming

LEMMA PanelStep ==
  ASSUME TypeOK, NEW bank \in Banks, Asking(bank), Panel
  PROVE  Asking(bank)'
<1>1. /\ asked' = asked /\ toMirage' = toMirage /\ midi_in_event' = midi_in_event
      /\ wire' = wire /\ callback' = callback /\ m_sysex_buffer' = m_sysex_buffer
      /\ ProgramDumpTable' = ProgramDumpTable
  BY DEF Panel, mainVars, inVars
<1>2. version' \in Nat /\ version' >= version
  BY DEF Panel, TypeOK
<1>3. \A v \in asked .. version : v \in asked' .. version'
  BY <1>1, <1>2 DEF TypeOK
<1>4. \A v, k : (Coming(bank, v, k) => Coming(bank, v, k)')
                /\ (Complete(bank, v) => Complete(bank, v)')
  BY <1>1 DEF Coming, Complete
<1>5. Shows(bank) => Shows(bank)'
  BY <1>1, <1>2, ShowsStays
<1> QED
  BY <1>1, <1>3, <1>4, <1>5 DEF Asking

LEMMA ReceiveStep ==
  ASSUME TypeOK, NEW bank \in Banks, Asking(bank), ReceiveMsg
  PROVE  Asking(bank)'
<1> USE SysexInAssumption
<1>1. toMirage = <<>> /\ ~midi_in_event
  BY DEF Asking, ReceiveMsg
<1>2. PICK v \in asked .. version, k \in 0 .. Parts - 1 : Coming(bank, v, k)
  BY DEF Asking, Complete, ReceiveMsg
<1>3. v \in 1 .. MaxVersions /\ v \in asked' .. version'
  BY <1>2 DEF TypeOK, ReceiveMsg, mainVars, mirageVars
<1>4. toMirage' = <<>> /\ ~midi_in_event'
  BY <1>1 DEF ReceiveMsg, mirageVars
<1> DEFINE chunk == Head(wire)
<1>5. /\ Len(wire) = Parts - k /\ wire \in Seq(Chunk) /\ wire' = Tail(wire)
      /\ chunk = Dump(bank, v)[k + 1]
  BY <1>2 DEF Coming, ReceiveMsg, TypeOK
<1>6. chunk.part = k + 1
  <2>1. k + 1 \in 1 .. Parts
    OBVIOUS
  <2>2. Dump(bank, v)[k + 1] = [bank |-> bank, part |-> k + 1, version |-> v]
    BY <1>3, <2>1, DumpType
  <2> QED
    BY <1>5, <2>2
<1>7. /\ Len(wire') = Parts - (k + 1)
      /\ \A i \in 1 .. Len(wire') : wire'[i] = Dump(bank, v)[i + (k + 1)]
  BY <1>2, <1>5 DEF Coming
<1>8. /\ Len(m_sysex_buffer') = k + 1
      /\ \A i \in 1 .. k + 1 : m_sysex_buffer'[i] = Dump(bank, v)[i]
  <2>1. CASE k = 0
    BY <2>1, <1>5, <1>6 DEF ReceiveMsg, Join
  <2>2. CASE k > 0
    <3>1. /\ m_sysex_buffer \in Seq(Chunk) /\ Len(m_sysex_buffer) = k
          /\ \A i \in 1 .. k : m_sysex_buffer[i] = Dump(bank, v)[i]
      BY <2>2, <1>2 DEF Coming, TypeOK
    <3>2. m_sysex_buffer' = Append(m_sysex_buffer, chunk)
      BY <2>2, <1>6 DEF ReceiveMsg, Join
    <3>3. /\ Len(m_sysex_buffer') = k + 1 /\ m_sysex_buffer'[k + 1] = chunk
          /\ \A i \in 1 .. k : m_sysex_buffer'[i] = m_sysex_buffer[i]
      BY <3>1, <3>2
    <3> QED
      BY <3>1, <3>3, <1>5
  <2> QED
    BY <2>1, <2>2
<1>9. CASE k + 1 < Parts
  <2>1. callback' = "idle"
    BY <1>6, <1>9 DEF ReceiveMsg
  <2>2. Coming(bank, v, k + 1)' /\ k + 1 \in 0 .. Parts - 1
    BY <1>7, <1>8, <1>9, <2>1 DEF Coming
  <2> QED
    BY <1>3, <1>4, <2>2 DEF Asking
<1>10. CASE k + 1 = Parts
  <2>1. callback' = "parse" /\ wire' = <<>>
    BY <1>5, <1>6, <1>7, <1>10 DEF ReceiveMsg
  <2>2. Complete(bank, v)'
    BY <1>8, <1>10, <2>1 DEF Complete
  <2> QED
    BY <1>3, <1>4, <2>2 DEF Asking
<1> QED
  BY <1>9, <1>10

(* The one step that writes the tables: the message is of the bank asked   *)
(* for, and an upper one leaves every cell of the lower table alone.       *)
LEMMA ParseStep ==
  ASSUME TypeOK, NEW bank \in Banks, Asking(bank), ParseSysEx
  PROVE  /\ Asking(bank)'
         /\ bank = "upper" /\ Shows("lower") => Shows("lower")'
<1> USE SysexInAssumption
<1>1. toMirage = <<>> /\ ~midi_in_event
  BY DEF Asking, ParseSysEx
<1>2. PICK v \in asked .. version : Complete(bank, v)
  BY DEF Asking, Coming, ParseSysEx
<1>3. v \in 1 .. MaxVersions /\ v \in asked' .. version'
  BY <1>2 DEF TypeOK, ParseSysEx, mainVars, mirageVars
<1>4. /\ toMirage' = <<>> /\ ~midi_in_event' /\ wire' = <<>> /\ callback' = "signal"
      /\ asked' = asked /\ version' = version
  BY <1>1, <1>2 DEF ParseSysEx, mirageVars, mainVars, Complete
<1>5. Destinations = {bank}
  <2>1. m_sysex_buffer[1] = [bank |-> bank, part |-> 1, version |-> v]
    BY <1>2, <1>3, DumpType DEF Complete
  <2> QED
    BY <2>1 DEF Destinations
<1>6. ProgramDumpTable' = Decoded(bank)
  <2>1. PICK to \in {bank} :
            ProgramDumpTable' \in
                CASE to \in Banks -> {Decoded(to)}
                  [] to = "config" -> {ProgramDumpTable, [c \in Cells |-> Spoilt]}
                  [] OTHER -> {ProgramDumpTable}
    BY <1>5, Zenon DEF ParseSysEx
  <2>2. to = bank /\ to \in Banks /\ to # "config"
    BY <2>1 DEF Banks
  <2> QED
    BY <2>1, <2>2
<1>7. Len(m_sysex_buffer) = Parts
      /\ \A i \in 1 .. Parts : m_sysex_buffer[i] = Dump(bank, v)[i]
  BY <1>2 DEF Complete
<1>8. \A i \in 1 .. Parts : ProgramDumpTable'[Offset(bank) + i] = Dump(bank, v)[i]
  <2> SUFFICES ASSUME NEW i \in 1 .. Parts
               PROVE  ProgramDumpTable'[Offset(bank) + i] = Dump(bank, v)[i]
    OBVIOUS
  <2>1. Offset(bank) + i \in Cells /\ (Offset(bank) + i) - Offset(bank) = i
    BY DEF Offset, Cells, Banks
  <2>2. Decoded(bank)[Offset(bank) + i] = m_sysex_buffer[(Offset(bank) + i) - Offset(bank)]
    <3> DEFINE c == Offset(bank) + i
    <3>1. /\ c \in Cells /\ c - Offset(bank) \in 1 .. Len(m_sysex_buffer)
          /\ c # Offset(bank) + Len(m_sysex_buffer) + 1
      BY <1>7, <2>1 DEF Offset
    <3> HIDE DEF c
    <3> QED
      BY <3>1 DEF Decoded, c
  <2> QED
    BY <1>6, <1>7, <2>1, <2>2
<1>9. Table(bank)' = Dump(bank, v)
  BY <1>8 DEF Table, Dump
<1>10. Asking(bank)'
  BY <1>3, <1>4, <1>9 DEF Asking, Shows
<1>11. ASSUME bank = "upper", Shows("lower") PROVE Shows("lower")'
  <2>1. ASSUME NEW i \in 1 .. Parts
        PROVE  ProgramDumpTable'[Offset("lower") + i] = ProgramDumpTable[Offset("lower") + i]
    <3>1. Offset("lower") + i \in Cells /\ Offset(bank) = Parts /\ Offset("lower") + i <= Parts
      BY <1>11 DEF Offset, Cells
    <3> DEFINE c == Offset("lower") + i
    <3>2. /\ c \in Cells /\ c - Offset(bank) \notin 1 .. Len(m_sysex_buffer)
          /\ c # Offset(bank) + Len(m_sysex_buffer) + 1
      BY <1>7, <3>1 DEF Offset
    <3> HIDE DEF c
    <3>3. Decoded(bank)[c] = ProgramDumpTable[c]
      BY <3>2 DEF Decoded
    <3> QED
      BY <1>6, <3>3 DEF c
  <2>2. version' \in Nat /\ version' >= version /\ "lower" \in Banks
    BY <1>4 DEF TypeOK, Banks
  <2> QED
    BY <1>4, <1>11, <2>1, <2>2, ShowsStays
<1> QED
  BY <1>10, <1>11

LEMMA SignalStep ==
  ASSUME TypeOK, NEW bank \in Banks, Asking(bank), Signal
  PROVE  Asking(bank)'
<1>1. toMirage = <<>> /\ wire = <<>> /\ Shows(bank)
  BY DEF Asking, Coming, Complete, Signal
<1>2. /\ toMirage' = <<>> /\ wire' = <<>> /\ midi_in_event' /\ callback' = "idle"
      /\ asked' = asked /\ version' = version /\ ProgramDumpTable' = ProgramDumpTable
  BY <1>1 DEF Signal, mirageVars, mainVars
<1>3. Shows(bank)'
  BY <1>1, <1>2, ShowsStays DEF TypeOK
<1> QED
  BY <1>2, <1>3 DEF Asking

-----------------------------------------------------------------------------
(* The order of a call's two dumps is kept by every step.                  *)

LEMMA UndisturbedInit == Init => Undisturbed
BY DEF Init, Undisturbed

LEMMA AskedStep == TypeOK /\ AskedBefore /\ [Next]_vars => AskedBefore'
<1> SUFFICES ASSUME TypeOK, AskedBefore, [Next]_vars PROVE AskedBefore'
  OBVIOUS
<1>1. \/ asked' = version /\ version' = version
      \/ asked' = asked /\ version' \in {version, version + 1}
  BY DEF Next, vars, GetSampleParameters, AskUpper, ReturnTrue, Timeout, MirageHandles, Panel,
         LoseChunk, ReceiveOther, ReceiveMsg, ParseSysEx, Signal,
         MainUnchanged, mainVars, mirageVars
<1> QED
  BY <1>1 DEF AskedBefore, TypeOK

LEMMA UndisturbedStep == IInv /\ [Next]_vars => Undisturbed'
<1> SUFFICES ASSUME TypeOK, AskedBefore, Undisturbed, [Next]_vars, clean'
             PROVE  /\ pc' = "lower" => Asking("lower")'
                    /\ pc' = "upper" => Asking("upper")' /\ Shows("lower")'
                    /\ pc' = "done" => Silence' /\ Shows("lower")' /\ Shows("upper")'
  BY DEF IInv, Undisturbed
<1> USE DEF MainUnchanged, mainVars, mirageVars, inVars
<1>a. "lower" \in Banks /\ "upper" \in Banks
  BY DEF Banks
<1>1. CASE GetSampleParameters
  <2>1. Silence
    BY <1>1 DEF GetSampleParameters
  <2>2. /\ pc' = "lower" /\ toMirage' = <<"lower">> /\ wire' = <<>> /\ callback' = "idle"
        /\ ~midi_in_event'
    BY <1>1, <2>1 DEF GetSampleParameters, ResetAndSend, Silence
  <2> QED
    BY <2>2 DEF Asking
<1>b. ASSUME ~GetSampleParameters
      PROVE  /\ pc = "lower" => Asking("lower")
             /\ pc = "upper" => Asking("upper") /\ Shows("lower")
             /\ pc = "done" => Silence /\ Shows("lower") /\ Shows("upper")
  <2>1. clean
    BY <1>b DEF Next, vars, AskUpper, ReturnTrue, Timeout, MirageHandles, Panel, LoseChunk,
              ReceiveOther, ReceiveMsg, ParseSysEx, Signal
  <2> QED
    BY <2>1 DEF Undisturbed
<1>c. ASSUME NEW bank \in Banks, Shows(bank), asked' = asked,
             version' \in {version, version + 1}, ProgramDumpTable' = ProgramDumpTable
      PROVE  Shows(bank)'
  <2>1. version' \in Nat /\ version' >= version
    BY <1>c DEF TypeOK
  <2> QED
    BY <1>c, <2>1, ShowsStays
<1>2. CASE AskUpper
  <2>1. pc = "lower" /\ midi_in_event /\ pc' = "upper" /\ Asking("lower")
    BY <1>2, <1>b DEF AskUpper, GetSampleParameters
  <2>2. toMirage = <<>> /\ wire = <<>> /\ callback = "idle" /\ Shows("lower")
    BY <2>1 DEF Asking
  <2>3. /\ toMirage' = <<"upper">> /\ wire' = <<>> /\ callback' = "idle" /\ ~midi_in_event'
        /\ asked' = asked /\ version' = version /\ ProgramDumpTable' = ProgramDumpTable
    BY <1>2, <2>2 DEF AskUpper, ResetAndSend
  <2>4. Shows("lower")'
    BY <1>a, <1>c, <2>2, <2>3
  <2> QED
    BY <2>1, <2>3, <2>4 DEF Asking
<1>3. CASE ReturnTrue
  <2>1. pc = "upper" /\ midi_in_event /\ pc' = "done" /\ Asking("upper") /\ Shows("lower")
    BY <1>3, <1>b DEF ReturnTrue, GetSampleParameters
  <2>2. Silence /\ Shows("upper")
    BY <2>1 DEF Asking, Silence
  <2>3. Silence' /\ asked' = asked /\ version' = version /\ ProgramDumpTable' = ProgramDumpTable
    BY <1>3, <2>2 DEF ReturnTrue, Silence
  <2> QED
    BY <1>a, <1>c, <2>1, <2>2, <2>3
<1>4. CASE Timeout
  BY <1>4 DEF Timeout
<1>5. CASE Panel
  <2>1. /\ pc' = pc /\ asked' = asked /\ ProgramDumpTable' = ProgramDumpTable
        /\ version' = version + 1 /\ (Silence => Silence') /\ ~GetSampleParameters
    BY <1>5 DEF Panel, GetSampleParameters, Silence, TypeOK
  <2> QED
    BY <1>5, <1>a, <1>b, <1>c, <2>1, PanelStep
<1>6. CASE MirageHandles
  <2>1. /\ pc' = pc /\ asked' = asked /\ ProgramDumpTable' = ProgramDumpTable
        /\ version' = version /\ ~Silence /\ ~GetSampleParameters
    BY <1>6 DEF MirageHandles, GetSampleParameters, Silence, ResetAndSend, TypeOK
  <2> QED
    BY <1>6, <1>a, <1>b, <1>c, <2>1, MirageStep
<1>7. CASE LoseChunk \/ ReceiveOther
  BY <1>7 DEF LoseChunk, ReceiveOther
<1>8. CASE ReceiveMsg
  <2>1. /\ pc' = pc /\ asked' = asked /\ ProgramDumpTable' = ProgramDumpTable
        /\ version' = version /\ ~Silence /\ ~GetSampleParameters
    BY <1>8 DEF ReceiveMsg, GetSampleParameters, Silence, TypeOK
  <2> QED
    BY <1>8, <1>a, <1>b, <1>c, <2>1, ReceiveStep
<1>9. CASE ParseSysEx
  <2>1. pc' = pc /\ ~Silence /\ ~GetSampleParameters
    BY <1>9 DEF ParseSysEx, GetSampleParameters, Silence
  <2> QED
    BY <1>9, <1>a, <1>b, <2>1, ParseStep
<1>10. CASE Signal
  <2>1. /\ pc' = pc /\ asked' = asked /\ ProgramDumpTable' = ProgramDumpTable
        /\ version' = version /\ ~Silence /\ ~GetSampleParameters
    BY <1>10 DEF Signal, GetSampleParameters, Silence
  <2> QED
    BY <1>10, <1>a, <1>b, <1>c, <2>1, SignalStep
<1>11. CASE UNCHANGED vars
  <2>1. /\ pc' = pc /\ clean' = clean
        /\ (Asking("lower") => Asking("lower")') /\ (Asking("upper") => Asking("upper")')
        /\ (Shows("lower") => Shows("lower")') /\ (Shows("upper") => Shows("upper")')
        /\ (Silence => Silence')
    BY <1>11 DEF vars, Asking, Shows, Coming, Complete, Table, Silence
  <2> QED
    BY <2>1 DEF Undisturbed
<1> QED
  BY <1>1, <1>2, <1>3, <1>4, <1>5, <1>6, <1>7, <1>8, <1>9, <1>10, <1>11 DEF Next

(* A call that nothing disturbed and that returned TRUE leaves both tables *)
(* whole, of dumps made after it began (SysexIn.TablesFaithful), however   *)
(* many chunks a dump has and whatever came before the call.               *)
THEOREM UndisturbedCall == Spec => []TablesFaithful
<1>1. Init => IInv
  BY TypeInit, UndisturbedInit DEF Init, IInv, AskedBefore
<1>2. IInv /\ [Next]_vars => IInv'
  BY TypeStep, AskedStep, UndisturbedStep DEF IInv
<1>3. IInv => TablesFaithful
  BY DEF IInv, Undisturbed, Shows, TablesFaithful, Banks
<1> QED
  BY <1>1, <1>2, <1>3, PTL DEF Spec

-----------------------------------------------------------------------------
(* TablesSettle: what becomes of any mixture of dumps, whole and broken.   *)

Continues(c, d) == IF c.part < Parts THEN d = [c EXCEPT !.part = @ + 1] ELSE d.part = 1

(* The sampler sends whole dumps, and only the front one may have lost its *)
(* first chunks.                                                           *)
WireShape ==
    /\ wire # <<>> => wire[Len(wire)].part = Parts /\ wire[Len(wire)].bank = lastBank
    /\ \A j \in 1 .. Len(wire) - 1 : Continues(wire[j], wire[j + 1])

(* The last dump of a bank on the wire is the last one it was made of.     *)
Latest ==
    \A j \in 1 .. Len(wire) :
        \/ wire[j].version = last[wire[j].bank]
        \/ \E k \in j + 1 .. Len(wire) : wire[k].bank = wire[j].bank

(* A message without a gap so far is in the buffer, whatever came before.  *)
Buffered ==
    /\ callback # "idle" => whole = NoChunk \/ whole.part = Parts
    /\ whole # NoChunk /\ (callback = "parse" \/ (callback = "idle" /\ whole.part < Parts)) =>
        /\ Len(m_sysex_buffer) = whole.part
        /\ \A i \in 1 .. whole.part : m_sysex_buffer[i] = Dump(whole.bank, whole.version)[i]

(* When a dump has come whole since the last loss, every chunk follows the *)
(* one before.                                                             *)
InOrder ==
    damaged # Banks =>
        /\ IF whole.part \in 1 .. Parts - 1
           THEN wire # <<>> /\ wire[1] = [whole EXCEPT !.part = @ + 1]
           ELSE wire # <<>> => wire[1].part = 1
        /\ callback = "parse" => whole # NoChunk
        /\ wire = <<>> /\ whole # NoChunk => whole.bank = lastBank

Arrived(bank) == \A j \in 1 .. Len(wire) : wire[j].bank # bank

ShowsLast(bank) ==
    \A i \in 1 .. Parts :
        \/ bank = "upper" /\ i = 1 /\ lastBank = "lower"
        \/ ProgramDumpTable[Offset(bank) + i] = Dump(bank, last[bank])[i]

(* A bank that is not damaged and has nothing left on the wire shows its   *)
(* last dump, or will when the message in the buffer is decoded.           *)
SettledBank(bank) ==
    bank \notin damaged /\ last[bank] # 0 /\ Arrived(bank) =>
        IF callback = "parse" /\ whole.bank = bank THEN whole.version = last[bank]
        ELSE ShowsLast(bank)

Settled == \A bank \in Banks : SettledBank(bank)

Mixture == WireShape /\ Latest /\ Buffered /\ InOrder /\ Settled

LEMMA MixtureInit == Init => Mixture
BY SysexInAssumption DEF Init, Mixture, WireShape, Latest, Buffered, InOrder, Settled,
                         SettledBank, NoChunk, Banks

LEMMA MixtureStays ==
  ASSUME Mixture,
         UNCHANGED <<wire, last, lastBank, callback, whole, m_sysex_buffer, damaged,
                     ProgramDumpTable>>
  PROVE  Mixture'
BY Zenon DEF Mixture, WireShape, Latest, Buffered, InOrder, Settled, SettledBank, Arrived,
             ShowsLast

LEMMA WireGrows ==
  ASSUME TypeOK, MirageHandles
  PROVE  \E bank \in Banks, v \in 1 .. MaxVersions :
            /\ last' = [last EXCEPT ![bank] = v] /\ lastBank' = bank
            /\ Len(wire') = Len(wire) + Parts
            /\ \A j \in 1 .. Len(wire) : wire'[j] = wire[j]
            /\ \A j \in Len(wire) + 1 .. Len(wire) + Parts :
                  wire'[j] = [bank |-> bank, part |-> j - Len(wire), version |-> v]
<1> USE SysexInAssumption
<1> DEFINE bank == Head(toMirage)
           v == version
<1>1. bank \in Banks /\ v \in 1 .. MaxVersions /\ wire \in Seq(Chunk)
  BY DEF MirageHandles, TypeOK
<1>2. /\ last' = [last EXCEPT ![bank] = v] /\ lastBank' = bank
      /\ wire' = wire \o Dump(bank, v)
  BY DEF MirageHandles
<1> HIDE DEF bank, v
<1>3. /\ Dump(bank, v) \in Seq(Chunk) /\ Len(Dump(bank, v)) = Parts
      /\ \A i \in 1 .. Parts : Dump(bank, v)[i] = [bank |-> bank, part |-> i, version |-> v]
  BY <1>1, DumpType
<1> DEFINE D == Dump(bank, v)
<1> HIDE DEF D
<1>4. /\ Len(wire \o D) = Len(wire) + Len(D)
      /\ \A j \in 1 .. Len(wire) : (wire \o D)[j] = wire[j]
      /\ \A i \in 1 .. Len(D) : (wire \o D)[Len(wire) + i] = D[i]
  BY <1>1, <1>3 DEF D
<1>5. Len(wire') = Len(wire) + Parts /\ (\A j \in 1 .. Len(wire) : wire'[j] = wire[j])
  BY <1>2, <1>3, <1>4 DEF D
<1>6. ASSUME NEW j \in Len(wire) + 1 .. Len(wire) + Parts
      PROVE  wire'[j] = [bank |-> bank, part |-> j - Len(wire), version |-> v]
  <2> DEFINE i == j - Len(wire)
  <2>1. i \in 1 .. Parts /\ j = Len(wire) + i
    BY <1>1
  <2> HIDE DEF i
  <2>2. wire'[j] = D[i] /\ D[i] = [bank |-> bank, part |-> i, version |-> v]
    BY <1>2, <1>3, <1>4, <2>1 DEF D
  <2> QED
    BY <2>2 DEF i
<1> QED
  BY <1>1, <1>2, <1>5, <1>6

LEMMA MixtureGrows ==
  ASSUME TypeOK, Mixture, MirageHandles
  PROVE  Mixture'
<1> USE SysexInAssumption
<1> DEFINE n == Len(wire)
<1>1. PICK bank \in Banks, v \in 1 .. MaxVersions :
            /\ last' = [last EXCEPT ![bank] = v] /\ lastBank' = bank
            /\ Len(wire') = n + Parts
            /\ \A j \in 1 .. n : wire'[j] = wire[j]
            /\ \A j \in n + 1 .. n + Parts :
                  wire'[j] = [bank |-> bank, part |-> j - n, version |-> v]
  BY WireGrows
<1>2. /\ UNCHANGED <<callback, whole, m_sysex_buffer, damaged, ProgramDumpTable>>
  BY DEF MirageHandles
<1>3. /\ n \in Nat /\ (n = 0 <=> wire = <<>>) /\ wire' # <<>>
      /\ \A j \in 1 .. n : wire[j] \in Chunk
      /\ last \in [Banks -> 0 .. MaxVersions] /\ lastBank \in Banks
      /\ whole \in Chunk \cup {NoChunk}
  <2>1. wire \in Seq(Chunk)
    BY DEF TypeOK
  <2>2. wire' # <<>>
    BY <1>1, <2>1
  <2> QED
    BY <2>1, <2>2 DEF TypeOK
<1>4. /\ last'[bank] = v
      /\ \A b \in Banks \ {bank} : last'[b] = last[b]
  BY <1>1, <1>3
<1>5. WireShape /\ Latest /\ Buffered /\ InOrder /\ Settled
  BY DEF Mixture
<1> HIDE DEF n
<1>a. ASSUME NEW j \in n + 1 .. n + Parts
      PROVE  wire'[j].bank = bank /\ wire'[j].part = j - n /\ wire'[j].version = v
  <2>1. wire'[j] = [bank |-> bank, part |-> j - n, version |-> v]
    BY <1>1
  <2> QED
    BY <2>1
<1>b. n + 1 \in n + 1 .. n + Parts /\ (n + 1) - n = 1
  BY <1>3
<1>c. wire'[n + 1].bank = bank /\ wire'[n + 1].part = 1
  BY <1>a, <1>b
<1>6. WireShape'
  <2>1. wire'[n + Parts] = [bank |-> bank, part |-> Parts, version |-> v]
    BY <1>1, <1>3
  <2>2. ASSUME NEW j \in 1 .. (n + Parts) - 1 PROVE Continues(wire'[j], wire'[j + 1])
    <3>1. CASE j < n
      <4>1. wire'[j] = wire[j] /\ wire'[j + 1] = wire[j + 1] /\ j \in 1 .. n - 1
        BY <1>1, <1>3, <3>1
      <4> QED
        BY <1>5, <4>1 DEF WireShape, n
    <3>2. CASE j = n
      <4>1. wire'[j] = wire[n] /\ wire'[j + 1] = wire'[n + 1] /\ wire # <<>>
        BY <1>1, <1>3, <3>2
      <4>2. wire[n].part = Parts /\ wire'[n + 1].part = 1
        BY <1>5, <1>c, <4>1 DEF WireShape, n
      <4> QED
        BY <4>1, <4>2 DEF Continues
    <3>3. CASE j > n
      <4>1. /\ j \in n + 1 .. n + Parts /\ j + 1 \in n + 1 .. n + Parts
            /\ (j + 1) - n = (j - n) + 1 /\ j - n < Parts
        BY <1>3, <3>3
      <4>2. /\ wire'[j] = [bank |-> bank, part |-> j - n, version |-> v]
            /\ wire'[j + 1] = [bank |-> bank, part |-> (j - n) + 1, version |-> v]
        BY <1>1, <4>1
      <4> QED
        BY <4>1, <4>2 DEF Continues
    <3> QED
      BY <1>3, <3>1, <3>2, <3>3
  <2> QED
    BY <1>1, <2>1, <2>2 DEF WireShape
<1>7. Latest'
  <2> SUFFICES ASSUME NEW j \in 1 .. n + Parts
               PROVE  \/ wire'[j].version = last'[wire'[j].bank]
                      \/ \E k \in j + 1 .. n + Parts : wire'[k].bank = wire'[j].bank
    BY <1>1 DEF Latest
  <2>1. CASE j \in 1 .. n
    <3>1. wire'[j] = wire[j] /\ wire[j].bank \in Banks
      BY <1>1, <1>3, <2>1 DEF Chunk
    <3>2. CASE wire[j].bank = bank
      <4>1. n + 1 \in j + 1 .. n + Parts /\ wire'[n + 1].bank = bank
        BY <1>3, <1>c, <2>1
      <4> QED
        BY <3>1, <3>2, <4>1
    <3>3. CASE wire[j].bank # bank /\ wire[j].version = last[wire[j].bank]
      BY <1>4, <3>1, <3>3
    <3>4. CASE \E k \in j + 1 .. n : wire[k].bank = wire[j].bank
      <4>1. PICK k \in j + 1 .. n : wire[k].bank = wire[j].bank
        BY <3>4
      <4>2. k \in 1 .. n /\ k \in j + 1 .. n + Parts
        BY <1>3, <2>1, <4>1
      <4> QED
        BY <1>1, <3>1, <4>1, <4>2
    <3> QED
      BY <1>5, <2>1, <3>2, <3>3, <3>4 DEF Latest, n
  <2>2. CASE j \notin 1 .. n
    <3>1. j \in n + 1 .. n + Parts
      BY <1>3, <2>2
    <3>2. wire'[j].version = v /\ wire'[j].bank = bank
      BY <1>a, <3>1
    <3> QED
      BY <1>4, <3>2
  <2> QED
    BY <2>1, <2>2
<1>8. Buffered'
  BY <1>2, <1>5, Zenon DEF Buffered
<1>9. InOrder'
  <2>1. n > 0 => wire'[1] = wire[1]
    BY <1>1, <1>3
  <2>2. n = 0 => wire'[1].part = 1
    BY <1>c
  <2> QED
    BY <1>2, <1>3, <1>5, <2>1, <2>2 DEF InOrder
<1>10. ASSUME NEW b \in Banks, b \notin damaged', last'[b] # 0, Arrived(b)'
       PROVE  IF callback' = "parse" /\ whole'.bank = b THEN whole'.version = last'[b]
              ELSE ShowsLast(b)'
  <2>1. b # bank
    <3>1. n + 1 \in 1 .. Len(wire') /\ wire'[n + 1].bank = bank
      BY <1>1, <1>3, <1>c
    <3> QED
      BY <1>10, <3>1 DEF Arrived
  <2>2. Arrived(b)
    BY <1>1, <1>3, <1>10 DEF Arrived, n
  <2>3. last'[b] = last[b] /\ (b = "upper" => lastBank' = "lower")
    BY <1>1, <1>4, <2>1 DEF Banks
  <2>4. IF callback = "parse" /\ whole.bank = b THEN whole.version = last[b] ELSE ShowsLast(b)
    BY <1>2, <1>5, <1>10, <2>2, <2>3 DEF Settled, SettledBank
  <2>5. ShowsLast(b) => ShowsLast(b)'
    BY <1>2, <2>3 DEF ShowsLast
  <2> QED
    BY <1>2, <2>3, <2>4, <2>5
<1> QED
  BY <1>6, <1>7, <1>8, <1>9, <1>10 DEF Mixture, Settled, SettledBank

LEMMA WireShrinks ==
  ASSUME TypeOK, WireShape, Latest, wire # <<>>, wire' = Tail(wire),
         last' = last, lastBank' = lastBank
  PROVE  /\ WireShape' /\ Latest'
         /\ wire' # <<>> => wire'[1] = wire[2] /\ Continues(wire[1], wire[2])
         /\ wire' = <<>> => wire[1].part = Parts /\ wire[1].bank = lastBank
         /\ \A j \in 1 .. Len(wire') : wire'[j] = wire[j + 1]
         /\ Len(wire') = Len(wire) - 1 /\ Len(wire) \in Nat
         /\ wire' = <<>> <=> Len(wire) = 1
         /\ wire[1] \in Chunk /\ Head(wire) = wire[1]
<1> DEFINE n == Len(wire)
<1>1. /\ n \in Nat \ {0} /\ Len(wire') = n - 1 /\ Head(wire) = wire[1] /\ wire[1] \in Chunk
      /\ \A j \in 1 .. n - 1 : wire'[j] = wire[j + 1]
      /\ (wire' = <<>> <=> n = 1)
  <2>1. wire \in Seq(Chunk)
    BY DEF TypeOK
  <2>2. n \in Nat \ {0} /\ Head(wire) = wire[1] /\ wire[1] \in Chunk
    BY <2>1
  <2>3. Len(wire') = n - 1 /\ \A j \in 1 .. n - 1 : wire'[j] = wire[j + 1]
    BY <2>1
  <2>4. wire' \in Seq(Chunk)
    BY <2>1
  <2>5. wire' = <<>> <=> Len(wire') = 0
    BY <2>4, EmptySeq
  <2> QED
    BY <2>2, <2>3, <2>5
<1> HIDE DEF n
<1>2. WireShape'
  <2>1. wire' # <<>> => wire'[n - 1] = wire[n]
    BY <1>1
  <2>2. ASSUME NEW j \in 1 .. n - 2 PROVE Continues(wire'[j], wire'[j + 1])
    <3>1. /\ wire'[j] = wire[j + 1] /\ wire'[j + 1] = wire[(j + 1) + 1]
          /\ j + 1 \in 1 .. n - 1
      BY <1>1
    <3> QED
      BY <3>1 DEF WireShape, n
  <2> QED
    BY <1>1, <2>1, <2>2 DEF WireShape, n
<1>3. Latest'
  <2> SUFFICES ASSUME NEW j \in 1 .. n - 1
               PROVE  \/ wire'[j].version = last[wire'[j].bank]
                      \/ \E k \in j + 1 .. n - 1 : wire'[k].bank = wire'[j].bank
    BY <1>1 DEF Latest
  <2>1. wire'[j] = wire[j + 1] /\ j + 1 \in 1 .. n
    BY <1>1
  <2>2. ASSUME NEW m \in (j + 1) + 1 .. n, wire[m].bank = wire[j + 1].bank
        PROVE  \E k \in j + 1 .. n - 1 : wire'[k].bank = wire'[j].bank
    <3>1. m - 1 \in j + 1 .. n - 1 /\ wire'[m - 1] = wire[(m - 1) + 1] /\ (m - 1) + 1 = m
      BY <1>1
    <3> QED
      BY <2>1, <2>2, <3>1
  <2> QED
    BY <2>1, <2>2 DEF Latest, n
<1>4. wire' # <<>> => wire'[1] = wire[2] /\ Continues(wire[1], wire[2])
  <2>1. wire' # <<>> => 1 \in 1 .. n - 1 /\ 1 + 1 = 2
    BY <1>1
  <2> QED
    BY <1>1, <2>1 DEF WireShape, n
<1>5. wire' = <<>> => wire[1].part = Parts /\ wire[1].bank = lastBank
  BY <1>1 DEF WireShape, n
<1> QED
  BY <1>1, <1>2, <1>3, <1>4, <1>5 DEF n

LEMMA MixtureLoses ==
  ASSUME TypeOK, Mixture, LoseChunk
  PROVE  Mixture'
<1>1. /\ wire # <<>> /\ wire' = Tail(wire) /\ damaged' = Banks
      /\ UNCHANGED <<last, lastBank, callback, whole, m_sysex_buffer, ProgramDumpTable>>
  BY DEF LoseChunk, mirageVars
<1>2. WireShape' /\ Latest'
  BY <1>1, WireShrinks DEF Mixture
<1>3. Buffered'
  BY <1>1, Zenon DEF Mixture, Buffered
<1>4. InOrder' /\ Settled'
  BY <1>1, Zenon DEF InOrder, Settled, SettledBank
<1> QED
  BY <1>2, <1>3, <1>4 DEF Mixture

LEMMA MixtureReceives ==
  ASSUME TypeOK, Mixture, ReceiveMsg
  PROVE  Mixture'
<1> USE SysexInAssumption
<1> DEFINE chunk == wire[1]
<1>1. /\ callback = "idle" /\ wire # <<>> /\ wire' = Tail(wire)
      /\ UNCHANGED <<last, lastBank, ProgramDumpTable>>
      /\ WireShape /\ Latest /\ Buffered /\ InOrder /\ Settled
  BY DEF ReceiveMsg, mirageVars, Mixture
<1>2. /\ WireShape' /\ Latest'
      /\ wire' # <<>> => wire'[1] = wire[2] /\ Continues(wire[1], wire[2])
      /\ wire' = <<>> => wire[1].part = Parts /\ wire[1].bank = lastBank
      /\ \A j \in 1 .. Len(wire') : wire'[j] = wire[j + 1]
      /\ Len(wire') = Len(wire) - 1 /\ Len(wire) \in Nat
      /\ wire' = <<>> <=> Len(wire) = 1
      /\ chunk \in Chunk /\ Head(wire) = chunk
  BY <1>1, WireShrinks
<1> HIDE DEF chunk
<1>3. /\ m_sysex_buffer' = Join(chunk) /\ whole' = Follows(chunk)
      /\ callback' = IF chunk.part = Parts THEN "parse" ELSE "idle"
      /\ damaged' = IF Follows(chunk).part = Parts THEN damaged \ {chunk.bank} ELSE damaged
  BY <1>2 DEF ReceiveMsg
<1>4. /\ chunk.part \in 1 .. Parts /\ chunk.bank \in Banks /\ NoChunk.part = 0
      /\ whole \in Chunk \cup {NoChunk} /\ NoChunk \notin Chunk /\ m_sysex_buffer \in Seq(Chunk)
      /\ damaged \in SUBSET Banks
  BY <1>2 DEF Chunk, NoChunk, TypeOK
<1>5. Follows(chunk) \in {chunk, NoChunk}
  BY DEF Follows
<1>6. Buffered'
  <2>1. CASE Follows(chunk) = NoChunk
    BY <1>3, <2>1 DEF Buffered
  <2>2. CASE Follows(chunk) = chunk /\ chunk.part = 1
    <3>1. whole' = chunk /\ m_sysex_buffer' = <<chunk>>
      BY <1>3, <2>2 DEF Join
    <3>2. Dump(chunk.bank, chunk.version)[1] = chunk
      BY <1>2, <1>4, <2>2 DEF Dump, Chunk
    <3> QED
      BY <1>3, <1>4, <2>2, <3>1, <3>2 DEF Buffered
  <2>3. CASE Follows(chunk) = chunk /\ chunk.part # 1
    <3> DEFINE k == whole.part
               D == Dump(chunk.bank, chunk.version)
    <3>1. whole = [chunk EXCEPT !.part = @ - 1] /\ whole # NoChunk
      BY <1>2, <1>4, <2>3 DEF Follows, Chunk
    <3>2. /\ k \in 1 .. Parts - 1 /\ chunk.part = k + 1
          /\ whole.bank = chunk.bank /\ whole.version = chunk.version
      BY <1>2, <1>4, <2>3, <3>1 DEF Chunk
    <3>3. Len(m_sysex_buffer) = k /\ \A i \in 1 .. k : m_sysex_buffer[i] = D[i]
      BY <1>1, <3>1, <3>2 DEF Buffered
    <3>4. D[k + 1] = chunk
      BY <1>2, <1>4, <3>2 DEF Dump, Chunk
    <3>5. whole' = chunk /\ m_sysex_buffer' = Append(m_sysex_buffer, chunk)
      BY <1>3, <2>3 DEF Join
    <3> HIDE DEF k, D
    <3>6. /\ Len(m_sysex_buffer') = k + 1 /\ m_sysex_buffer'[k + 1] = chunk
          /\ \A i \in 1 .. k : m_sysex_buffer'[i] = m_sysex_buffer[i]
      BY <1>4, <3>3, <3>5
    <3>7. \A i \in 1 .. k + 1 : m_sysex_buffer'[i] = D[i]
      BY <3>2, <3>3, <3>4, <3>6
    <3>8. callback' # "idle" => whole'.part = Parts
      BY <1>3, <3>5
    <3> QED
      BY <3>2, <3>5, <3>6, <3>7, <3>8 DEF Buffered, D
  <2> QED
    BY <1>5, <2>1, <2>2, <2>3
<1>7. damaged' # Banks => Follows(chunk) = chunk
  <2>1. CASE damaged = Banks
    BY <1>3, <1>4, <1>5, <2>1
  <2>2. CASE damaged # Banks
    <3>1. CASE whole.part \in 1 .. Parts - 1
      <4>1. chunk = [whole EXCEPT !.part = @ + 1] /\ whole \in Chunk
        BY <1>1, <1>4, <2>2, <3>1 DEF InOrder, chunk
      <4>2. whole = [chunk EXCEPT !.part = @ - 1]
        <5>1. PICK c \in Banks, k \in 1 .. Parts, v \in 1 .. MaxVersions :
                  whole = [bank |-> c, part |-> k, version |-> v]
          BY <4>1 DEF Chunk
        <5>2. chunk = [bank |-> c, part |-> k + 1, version |-> v] /\ (k + 1) - 1 = k
          BY <4>1, <5>1
        <5> QED
          BY <5>1, <5>2
      <4> QED
        BY <4>2 DEF Follows
    <3>2. CASE whole.part \notin 1 .. Parts - 1
      BY <1>1, <2>2, <3>2 DEF InOrder, Follows, chunk
    <3> QED
      BY <3>1, <3>2
  <2> QED
    BY <2>1, <2>2
<1>8. InOrder'
  <2> SUFFICES ASSUME damaged' # Banks
               PROVE  /\ IF whole'.part \in 1 .. Parts - 1
                         THEN wire' # <<>> /\ wire'[1] = [whole' EXCEPT !.part = @ + 1]
                         ELSE wire' # <<>> => wire'[1].part = 1
                      /\ callback' = "parse" => whole' # NoChunk
                      /\ wire' = <<>> /\ whole' # NoChunk => whole'.bank = lastBank'
    BY DEF InOrder
  <2>1. whole' = chunk /\ whole' # NoChunk
    BY <1>2, <1>3, <1>4, <1>7
  <2>2. chunk.part < Parts \/ chunk.part = Parts
    BY <1>4
  <2>3. CASE wire' = <<>>
    <3>1. chunk.part = Parts /\ chunk.bank = lastBank
      BY <1>2, <2>3 DEF chunk
    <3> QED
      BY <1>1, <2>1, <2>3, <3>1
  <2>4. CASE wire' # <<>>
    <3>1. wire'[1] = wire[2] /\ Continues(chunk, wire[2])
      BY <1>2, <2>4 DEF chunk
    <3> QED
      BY <1>4, <2>1, <2>2, <2>4, <3>1 DEF Continues
  <2> QED
    BY <2>3, <2>4
<1>9. ASSUME NEW b \in Banks, b \notin damaged', last'[b] # 0, Arrived(b)'
      PROVE  IF callback' = "parse" /\ whole'.bank = b THEN whole'.version = last'[b]
             ELSE ShowsLast(b)'
  <2>1. ASSUME NEW j \in 2 .. Len(wire) PROVE wire[j].bank # b
    <3>1. j - 1 \in 1 .. Len(wire') /\ wire'[j - 1] = wire[(j - 1) + 1] /\ (j - 1) + 1 = j
      BY <1>2
    <3> QED
      BY <1>9, <3>1 DEF Arrived
  <2>2. whole' = chunk
    BY <1>3, <1>4, <1>7, <1>9
  <2>3. CASE chunk.bank = b
    <3>1. chunk.part = Parts
      <4>1. CASE wire' = <<>>
        BY <1>2, <4>1 DEF chunk
      <4>2. CASE wire' # <<>>
        <5>1. Len(wire') # 0
          BY <1>2, <4>2
        <5>2. 2 \in 2 .. Len(wire)
          BY <1>2, <5>1
        <5>3. wire[2].bank # b
          BY <2>1, <5>2
        <5>4. Continues(chunk, wire[2])
          BY <1>2, <4>2 DEF chunk
        <5>5. chunk.part < Parts => wire[2].bank = chunk.bank
          BY <1>2, <5>4 DEF Continues, Chunk
        <5> QED
          BY <1>4, <2>3, <5>3, <5>5
      <4> QED
        BY <4>1, <4>2
    <3>2. chunk.version = last[b]
      <4>1. 1 \in 1 .. Len(wire) /\ \A k \in 1 + 1 .. Len(wire) : k \in 2 .. Len(wire)
        BY <1>1, <1>2
      <4> QED
        BY <1>1, <2>1, <2>3, <4>1 DEF Latest, chunk
    <3> QED
      BY <1>1, <1>3, <2>2, <2>3, <3>1, <3>2
  <2>4. CASE chunk.bank # b
    <3>1. Arrived(b)
      BY <1>2, <2>1, <2>4 DEF Arrived, chunk
    <3>2. b \notin damaged
      BY <1>3, <1>9, <2>4
    <3>3. ShowsLast(b)
      BY <1>1, <1>9, <3>1, <3>2 DEF Settled, SettledBank
    <3>4. ShowsLast(b)'
      BY <1>1, <3>3 DEF ShowsLast
    <3> QED
      BY <2>2, <2>4, <3>4
  <2> QED
    BY <2>3, <2>4
<1> QED
  BY <1>2, <1>6, <1>8, <1>9 DEF Mixture, Settled, SettledBank

LEMMA MixtureParses ==
  ASSUME TypeOK, Mixture, ParseSysEx
  PROVE  Mixture'
<1> USE SysexInAssumption
<1>1. /\ callback = "parse" /\ callback' = "signal"
      /\ UNCHANGED <<wire, last, lastBank, whole, m_sysex_buffer, damaged>>
      /\ WireShape /\ Latest /\ Buffered /\ InOrder /\ Settled
  BY DEF ParseSysEx, mirageVars, Mixture
<1>2. WireShape' /\ Latest'
  BY <1>1, Zenon DEF WireShape, Latest
<1>3. Buffered' /\ InOrder'
  BY <1>1 DEF Buffered, InOrder
<1>4. ASSUME NEW b \in Banks, b \notin damaged, last[b] # 0, Arrived(b)
      PROVE  ShowsLast(b)'
  <2> DEFINE c == whole.bank
             v == whole.version
  <2>1. /\ whole \in Chunk /\ whole.part = Parts /\ c \in Banks /\ v \in 1 .. MaxVersions
        /\ Len(m_sysex_buffer) = Parts
        /\ \A i \in 1 .. Parts : m_sysex_buffer[i] = Dump(c, v)[i]
    <3>1. whole # NoChunk
      BY <1>1, <1>4 DEF InOrder
    <3>2. whole \in Chunk /\ whole.part = Parts
      BY <1>1, <3>1 DEF TypeOK, Buffered
    <3>3. c \in Banks /\ v \in 1 .. MaxVersions
      BY <3>2 DEF Chunk
    <3>4. /\ Len(m_sysex_buffer) = Parts
          /\ \A i \in 1 .. Parts : m_sysex_buffer[i] = Dump(c, v)[i]
      BY <1>1, <3>1, <3>2 DEF Buffered
    <3> QED
      BY <3>2, <3>3, <3>4
  <2> HIDE DEF c, v
  <2>2. ProgramDumpTable' = Decoded(c)
    <3>1. m_sysex_buffer[1] = [bank |-> c, part |-> 1, version |-> v]
      BY <2>1, DumpType
    <3>2. Destinations = {c}
      BY <3>1 DEF Destinations
    <3>3. PICK to \in {c} :
              ProgramDumpTable' \in
                  CASE to \in Banks -> {Decoded(to)}
                    [] to = "config" -> {ProgramDumpTable, [x \in Cells |-> Spoilt]}
                    [] OTHER -> {ProgramDumpTable}
      BY <3>2, Zenon DEF ParseSysEx
    <3>4. to = c /\ to \in Banks /\ to # "config"
      BY <2>1, <3>3 DEF Banks
    <3> QED
      BY <3>3, <3>4
  <2>3. ASSUME NEW i \in 1 .. Parts PROVE Decoded(c)[Offset(c) + i] = Dump(c, v)[i]
    <3> DEFINE x == Offset(c) + i
    <3>1. /\ x \in Cells /\ x - Offset(c) = i /\ x - Offset(c) \in 1 .. Len(m_sysex_buffer)
          /\ x # Offset(c) + Len(m_sysex_buffer) + 1
      BY <2>1 DEF Offset, Cells, Banks
    <3> HIDE DEF x
    <3>2. Decoded(c)[x] = m_sysex_buffer[x - Offset(c)]
      BY <3>1 DEF Decoded
    <3> QED
      BY <2>1, <3>1, <3>2 DEF x
  <2>4. CASE c = b
    <3>1. v = last[b]
      BY <1>1, <1>4, <2>4 DEF Settled, SettledBank, c, v
    <3> QED
      BY <1>1, <2>2, <2>3, <2>4, <3>1 DEF ShowsLast
  <2>5. CASE c # b
    <3>1. ShowsLast(b)
      BY <1>1, <1>4, <2>5 DEF Settled, SettledBank, c
    <3>2. b = "upper" => lastBank = "lower"
      <4>1. CASE wire = <<>>
        BY <1>1, <1>4, <2>1, <2>5, <4>1 DEF InOrder, Banks, NoChunk, c
      <4>2. CASE wire # <<>>
        <5>1. Len(wire) \in 1 .. Len(wire) /\ wire[Len(wire)].bank = lastBank
          BY <1>1, <4>2 DEF WireShape, TypeOK
        <5>2. lastBank # b
          BY <1>4, <5>1 DEF Arrived
        <5> QED
          BY <5>2 DEF TypeOK, Banks
      <4> QED
        BY <4>1, <4>2
    <3>3. ASSUME NEW i \in 1 .. Parts, ~(b = "upper" /\ i = 1)
          PROVE  Decoded(c)[Offset(b) + i] = ProgramDumpTable[Offset(b) + i]
      <4> DEFINE x == Offset(b) + i
      <4>1. /\ x \in Cells /\ x - Offset(c) \notin 1 .. Len(m_sysex_buffer)
            /\ x # Offset(c) + Len(m_sysex_buffer) + 1
        BY <2>1, <2>5, <3>3 DEF Offset, Cells, Banks
      <4> HIDE DEF x
      <4>2. Decoded(c)[x] = ProgramDumpTable[x]
        BY <4>1 DEF Decoded
      <4> QED
        BY <4>2 DEF x
    <3> QED
      BY <1>1, <2>2, <3>1, <3>2, <3>3 DEF ShowsLast
  <2> QED
    BY <2>4, <2>5
<1>5. Settled'
  BY <1>1, <1>4 DEF Settled, SettledBank, Arrived
<1> QED
  BY <1>2, <1>3, <1>5 DEF Mixture

LEMMA MixtureSignals ==
  ASSUME TypeOK, Mixture, Signal
  PROVE  Mixture'
<1> USE SysexInAssumption
<1>1. /\ callback = "signal" /\ callback' = "idle"
      /\ UNCHANGED <<wire, last, lastBank, whole, damaged, ProgramDumpTable>>
      /\ WireShape /\ Latest /\ Buffered /\ InOrder /\ Settled
  BY DEF Signal, mirageVars, Mixture
<1>2. WireShape' /\ Latest'
  BY <1>1, Zenon DEF WireShape, Latest
<1>3. Buffered' /\ InOrder'
  BY <1>1 DEF Buffered, InOrder
<1>4. Settled'
  BY <1>1 DEF Settled, SettledBank, Arrived, ShowsLast
<1> QED
  BY <1>2, <1>3, <1>4 DEF Mixture

LEMMA MixtureStep == TypeOK /\ Mixture /\ [Next]_vars => Mixture'
<1> SUFFICES ASSUME TypeOK, Mixture, [Next]_vars PROVE Mixture'
  OBVIOUS
<1>1. CASE \/ GetSampleParameters \/ AskUpper \/ ReturnTrue \/ Timeout
           \/ Panel \/ ReceiveOther \/ UNCHANGED vars
  <2>1. UNCHANGED <<wire, last, lastBank, callback, whole, m_sysex_buffer, damaged,
                    ProgramDumpTable>>
    BY <1>1 DEF GetSampleParameters, AskUpper, ReturnTrue, Timeout, Panel, ReceiveOther, vars,
                MainUnchanged, mirageVars, inVars
  <2> QED
    BY <2>1, MixtureStays
<1> QED
  BY <1>1, MixtureGrows, MixtureLoses, MixtureReceives, MixtureParses, MixtureSignals DEF Next

(* Whatever was lost, asked twice, given up or interrupted by a note: when *)
(* all has come to rest, a table shows the last dump of its bank if that   *)
(* came whole after the last loss (SysexIn.TablesSettle), but for the byte *)
(* too many that ParseSysEx writes into the upper table's first cell.      *)
THEOREM AlwaysSettles == Spec => []TablesSettle
<1>1. Init => TypeOK /\ Mixture
  BY TypeInit, MixtureInit
<1>2. TypeOK /\ Mixture /\ [Next]_vars => (TypeOK /\ Mixture)'
  BY TypeStep, MixtureStep
<1>3. TypeOK /\ Mixture => TablesSettle
  <2> SUFFICES ASSUME TypeOK, Mixture, Silence, NEW b \in Banks \ damaged, last[b] # 0,
                      NEW i \in 1 .. Parts
               PROVE  \/ b = "upper" /\ i = 1 /\ lastBank = "lower"
                      \/ Table(b)[i] = Dump(b, last[b])[i]
    BY DEF TablesSettle
  <2>1. Arrived(b) /\ callback # "parse"
    BY DEF Silence, Arrived
  <2>2. ShowsLast(b)
    BY <2>1 DEF Mixture, Settled, SettledBank
  <2> QED
    BY <2>2 DEF ShowsLast, Table
<1> QED
  BY <1>1, <1>2, <1>3, PTL DEF Spec

=============================================================================
