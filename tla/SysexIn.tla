------------------------------ MODULE SysexIn ------------------------------
(***************************************************************************)
(* How the two program dump tables come from the sampler: the main thread  *)
(* asks for the lower and then for the upper one (GetSampleParameters, and *)
(* GetAvailableSamples in the same way), the driver delivers a dump in     *)
(* chunks as large as SysXBuffer, ReceiveMsg puts them together and        *)
(* ParseSysEx decodes them.                                                *)
(*                                                                         *)
(* The tables lie in memory one behind the other, a cell for each chunk.   *)
(* A dump bears the version of the sampler's settings it was made of.      *)
(***************************************************************************)
EXTENDS Naturals, Sequences

CONSTANTS Parts,       \* chunks of a program dump
          MaxCalls,    \* bounds: calls of GetSampleParameters,
          MaxVersions, \* versions of the sampler's settings,
          MaxLost,     \* chunks that are lost,
          MaxOthers    \* messages other than a dump

ASSUME SysexInAssumption ==
    /\ Parts \in Nat \ {0, 1}
    /\ MaxCalls \in Nat /\ MaxVersions \in Nat \ {0}
    /\ MaxLost \in Nat /\ MaxOthers \in Nat

Banks == {"lower", "upper"}
Offset(bank) == IF bank = "lower" THEN 0 ELSE Parts
Cells == 1 .. 2 * Parts

Dump(bank, version) ==
    [i \in 1 .. Parts |-> [bank |-> bank, part |-> i, version |-> version]]

Chunk == [bank : Banks, part : 1 .. Parts, version : 1 .. MaxVersions]

(* What is no chunk: nothing, and a cell with bytes of somewhere else.     *)
NoChunk == [bank |-> "none", part |-> 0, version |-> 0]
Spoilt == [bank |-> "spoilt", part |-> 0, version |-> 0]

VARIABLES
    pc,             \* where the main thread is
    midi_in_event,  \* the manual-reset event its waits wait for
    toMirage,       \* requests on their way to the sampler
    version,        \* of the sampler's settings
    wire,           \* chunks on their way from the sampler
    m_sysex_buffer, \* chunks put together so far
    callback,       \* where the driver's thread is
    ProgramDumpTable,
    calls, lost, others, \* counters for the bounds
    asked,          \* history: the version when the call began
    clean,          \* history: the call began in silence, and nothing but its
                    \* answers has come since
    last,           \* history: the version of each bank's last dump, 0 for none,
    lastBank,       \* and whose dump was the last one
    whole,          \* history: the last chunk, if all before it came, else NoChunk
    damaged         \* history: the banks with no whole dump since a loss

mainVars == <<pc, calls, asked>>
mirageVars == <<toMirage, version, last, lastBank>>
inVars == <<wire, m_sysex_buffer, callback, ProgramDumpTable, whole, damaged>>
vars == <<mainVars, mirageVars, inVars, midi_in_event, lost, others, clean>>

Silence == toMirage = <<>> /\ wire = <<>> /\ callback = "idle"

-----------------------------------------------------------------------------
(* GetSampleParameters, on the main thread.                                *)

ResetAndSend(bank) ==
    /\ midi_in_event' = FALSE
    /\ toMirage' = Append(toMirage, bank)

MainUnchanged == UNCHANGED <<version, last, lastBank, inVars, lost, others>>

GetSampleParameters ==
    /\ pc \in {"idle", "done"} /\ calls < MaxCalls
    /\ pc' = "lower"
    /\ calls' = calls + 1
    /\ asked' = version
    /\ clean' = Silence
    /\ ResetAndSend("lower")
    /\ MainUnchanged

(* Without another ResetEvent.                                             *)
AskUpperOnly ==
    /\ pc = "lower" /\ midi_in_event
    /\ pc' = "upper"
    /\ toMirage' = Append(toMirage, "upper")
    /\ UNCHANGED <<midi_in_event, calls, asked, clean>>
    /\ MainUnchanged

AskUpper ==
    /\ pc = "lower" /\ midi_in_event
    /\ pc' = "upper"
    /\ ResetAndSend("upper")
    /\ UNCHANGED <<calls, asked, clean>>
    /\ MainUnchanged

(* The call returns TRUE.                                                  *)
ReturnTrue ==
    /\ pc = "upper" /\ midi_in_event
    /\ pc' = "done"
    /\ UNCHANGED <<calls, asked, clean, midi_in_event, toMirage>>
    /\ MainUnchanged

(* The call stays in its box.                                              *)
TimeoutInBox ==
    /\ pc \in {"lower", "upper"} /\ ~midi_in_event
    /\ pc' = "box"
    /\ UNCHANGED <<calls, asked, clean, midi_in_event, toMirage>>
    /\ MainUnchanged

(* A message box and FALSE, which two of the four callers do not look at.  *)
Timeout ==
    /\ pc \in {"lower", "upper"} /\ ~midi_in_event
    /\ pc' = "idle"
    /\ UNCHANGED <<calls, asked, clean, midi_in_event, toMirage>>
    /\ MainUnchanged

-----------------------------------------------------------------------------
(* The sampler, and what becomes of its chunks.                            *)

MirageHandles ==
    /\ toMirage # <<>>
    /\ LET bank == Head(toMirage) IN
       /\ wire' = wire \o Dump(bank, version)
       /\ last' = [last EXCEPT ![bank] = version]
       /\ lastBank' = bank
    /\ toMirage' = Tail(toMirage)
    /\ UNCHANGED <<mainVars, version, m_sysex_buffer, callback, ProgramDumpTable, whole,
                   damaged, midi_in_event, lost, others, clean>>

(* Settings changed on the sampler's panel.                                *)
Panel ==
    /\ version < MaxVersions
    /\ version' = version + 1
    /\ UNCHANGED <<mainVars, toMirage, last, lastBank, inVars, midi_in_event, lost, others, clean>>

(* The driver has no buffer for a chunk.  What is left of its message may  *)
(* be joined to another one and end up in either table.                    *)
LoseChunk ==
    /\ wire # <<>> /\ lost < MaxLost
    /\ wire' = Tail(wire)
    /\ lost' = lost + 1
    /\ damaged' = Banks
    /\ clean' = FALSE
    /\ UNCHANGED <<mainVars, mirageVars, m_sysex_buffer, callback, ProgramDumpTable, whole,
                   midi_in_event, others>>

-----------------------------------------------------------------------------
(* The driver's thread.                                                    *)

(* A note, or a message from the panel.                                    *)
ReceiveOther ==
    /\ callback = "idle" /\ others < MaxOthers
    /\ others' = others + 1
    /\ midi_in_event' = TRUE
    /\ clean' = FALSE
    /\ UNCHANGED <<mainVars, mirageVars, inVars, lost>>

(* Always appended, as the buffer is cleared after every message.          *)
JoinAppend(chunk) == Append(m_sysex_buffer, chunk)

(* assign for a chunk with the start byte, else append.                    *)
Join(chunk) == IF chunk.part = 1 THEN <<chunk>> ELSE Append(m_sysex_buffer, chunk)

Follows(chunk) ==
    IF chunk.part = 1 \/ whole = [chunk EXCEPT !.part = @ - 1] THEN chunk ELSE NoChunk

ReceiveMsg ==
    /\ callback = "idle" /\ wire # <<>>
    /\ LET chunk == Head(wire) IN
       /\ m_sysex_buffer' = Join(chunk)
       /\ callback' = IF chunk.part = Parts THEN "parse" ELSE "idle"
       /\ whole' = Follows(chunk)
       /\ damaged' = IF Follows(chunk).part = Parts THEN damaged \ {chunk.bank} ELSE damaged
    /\ wire' = Tail(wire)
    /\ UNCHANGED <<mainVars, mirageVars, ProgramDumpTable, midi_in_event, lost, others, clean>>

(* The table the message is for, "none", or ConfigDump.  A message without *)
(* its first chunk has a data byte where the number should be: that may be *)
(* the lower dump's, not the upper's.                                      *)
Destinations ==
    IF m_sysex_buffer[1].part = 1 THEN {m_sysex_buffer[1].bank}
    ELSE {"lower", "config", "none"}

(* The loop runs once too often and leaves a byte from behind the message  *)
(* in the next cell.  What lies behind both tables is not modelled.        *)
Decoded(bank) ==
    [c \in Cells |->
        CASE c - Offset(bank) \in 1 .. Len(m_sysex_buffer) -> m_sysex_buffer[c - Offset(bank)]
          [] c = Offset(bank) + Len(m_sysex_buffer) + 1 -> Spoilt
          [] OTHER -> ProgramDumpTable[c]]

(* ConfigDump is too small for a program dump: its end lies anywhere.      *)
ParseSysEx ==
    /\ callback = "parse"
    /\ callback' = "signal"
    /\ \E to \in Destinations :
          ProgramDumpTable' \in
              CASE to \in Banks -> {Decoded(to)}
                [] to = "config" -> {ProgramDumpTable, [c \in Cells |-> Spoilt]}
                [] OTHER -> {ProgramDumpTable}
    /\ UNCHANGED <<mainVars, mirageVars, wire, m_sysex_buffer, whole, damaged, midi_in_event,
                   lost, others, clean>>

Signal ==
    /\ callback = "signal"
    /\ callback' = "idle"
    /\ m_sysex_buffer' = <<>>
    /\ midi_in_event' = TRUE
    /\ UNCHANGED <<mainVars, mirageVars, wire, ProgramDumpTable, whole, damaged,
                   lost, others, clean>>

-----------------------------------------------------------------------------
Init ==
    /\ pc = "idle" /\ midi_in_event = FALSE
    /\ toMirage = <<>> /\ version = 1 /\ wire = <<>>
    /\ m_sysex_buffer = <<>> /\ callback = "idle"
    /\ ProgramDumpTable = [c \in Cells |-> NoChunk]
    /\ calls = 0 /\ lost = 0 /\ others = 0
    /\ asked = 1 /\ clean = FALSE
    /\ last = [b \in Banks |-> 0] /\ lastBank = "upper"
    /\ whole = NoChunk /\ damaged = {}

Next ==
    \/ GetSampleParameters \/ AskUpper \/ ReturnTrue \/ Timeout
    \/ MirageHandles \/ Panel \/ LoseChunk
    \/ ReceiveOther \/ ReceiveMsg \/ ParseSysEx \/ Signal

Spec == Init /\ [][Next]_vars

-----------------------------------------------------------------------------
(* Each variable has its type; the callback is at one of its three places. *)
TypeOK ==
    /\ pc \in {"idle", "lower", "upper", "done"}
    /\ midi_in_event \in BOOLEAN
    /\ toMirage \in Seq(Banks)
    /\ version \in 1 .. MaxVersions
    /\ wire \in Seq(Chunk) /\ m_sysex_buffer \in Seq(Chunk)
    /\ callback \in {"idle", "parse", "signal"}
    /\ \A c \in Cells : ProgramDumpTable[c] \in Chunk \cup {NoChunk, Spoilt}
    /\ calls \in 0 .. MaxCalls /\ lost \in 0 .. MaxLost /\ others \in 0 .. MaxOthers
    /\ asked \in 1 .. MaxVersions /\ clean \in BOOLEAN
    /\ last \in [Banks -> 0 .. MaxVersions] /\ lastBank \in Banks
    /\ whole \in Chunk \cup {NoChunk} /\ damaged \in SUBSET Banks

Table(bank) == [i \in 1 .. Parts |-> ProgramDumpTable[Offset(bank) + i]]

(* When GetSampleParameters has returned TRUE, both tables are dumps made  *)
(* after the call, to the last cell, provided that nothing was on its way  *)
(* when it began and nothing but its answers has come.  Earlier losses,    *)
(* notes and timeouts do not count, and the byte too many of the lower     *)
(* dump is written before the upper one comes (MirageSysex.cpp:96-121).    *)
TablesFaithful ==
    pc = "done" /\ clean =>
        \A b \in Banks : \E v \in asked .. version : Table(b) = Dump(b, v)

(* Whatever has ended a wait early or too late: when all has come to rest, *)
(* the tables show the last dump of their bank, if it came whole after the *)
(* last loss; but for the upper table's first cell when the last dump was  *)
(* a lower one.                                                            *)
TablesSettle ==
    Silence =>
        \A b \in Banks \ damaged : last[b] # 0 =>
            \A i \in 1 .. Parts :
                \/ b = "upper" /\ i = 1 /\ lastBank = "lower"
                \/ Table(b)[i] = Dump(b, last[b])[i]
=============================================================================
