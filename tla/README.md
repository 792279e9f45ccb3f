# Formal model of the Mirage Sound Editor

The Mirage Sound Editor (`src/src`) is a Windows MFC program that edits the samples of an
Ensoniq Mirage sampler and exchanges them with the sampler by MIDI system exclusive
messages. This directory holds TLA+ models of its concurrent and stateful parts, TLC
configurations that check them on small instances, and TLAPS proofs of the properties that
matter most. Paths below are relative to `src/src` unless they start with `src/`.

## 1. The system

### Threads

| Thread | What it runs |
| --- | --- |
| main | the MFC message pump: menu commands, dialogs, `OnGetSamplesList`, `OnGotWaveData`, and inside them the blocking exchanges with the sampler |
| driver callback | `CMIDIInDevice::MidiInProc` (which runs `ReceiveMsg` and `ParseSysEx`) and `CMIDIOutDevice::MidiOutProc` |
| MIDI in worker, MIDI out worker | `HeaderProc`: delete one buffer header per signalled event |
| MIDI monitor | `CMidiMonThread`: shows every message |
| play threads | `PlayWaveData` and the loop editor's `PlayLoop` |

The threads share plain globals without a lock: `midi_in_event` (a manual-reset event),
`m_WavesampleStatus`, `m_smiragesysex`, the two MIDI devices with their header queues, the
monitor's string, and the wave in memory while it is played.

### Components

| Component | State | Operations | What makes it correct |
| --- | --- | --- | --- |
| MIDI output device (`Midi/MidiWrapper/MIDIOutDevice.cpp`, `Midi/SendSysex.cpp`) | `m_State`, `m_Event`, `m_HdrQueue`, the driver's headers | `Open`, `SendMsg`, `Close`, `MidiOutProc`, `HeaderProc` | a header is deleted once, by one owner, after the driver is done with it; `Close` returns and leaves nothing behind |
| MIDI input device (`Midi/MidiWrapper/MIDIInDevice.cpp`) | the same, and `SysXBuffer` | `Open`, `AddSysExBuffer`, `StartRecording`, `StopRecording`, `Close`, `MidiInProc`, `ReleaseBuffer`, `HeaderProc` | as above; a recording device always has a buffer |
| Undo (`undo.h`) | `m_undolist`, `m_redolist` | `CheckPoint`, `Undo`, `Redo` | a bounded history: nothing that was saved is lost before the limit |
| Wave document and view (`WaveApi/Wave Doc.cpp`, `WaveApi/Wave View.cpp`, `Menus/*.cpp`) | the wave, its history, `m_FromMirage`, the modified flag, the selection | the Edit and Tools menus, mouse, open, save, receive | the history matches what the user sees; the flags tell the truth about the wave |
| Receiving (`Dialogs/Dialog_ReceiveSamples.cpp`, `Midi/MirageSysex.cpp`, `Midi/SysexParser.cpp`, `Mirage Editor.cpp`, `WaveApi/wavesamples.cpp`) | select lists, event, status, dump string, posted messages, the sampler | `OnBnClickedReceiveSamples`, `OnGetSamplesList`, `GetSample`, `ParseSysEx`, `OnGotWaveData`, `GotSample` | the document holds the sample asked for; the sampler is left as it was; the main thread comes back |
| Transmitting (`PutSample`, `ChangeParameter`, `SendConfigParms` in `Midi/MirageSysex.cpp`) | parameters of the sampler, last received value | select, dump, parameter changes one step at a time | the target value is reached; the order of end point and loop points is legal |
| Coding of dumps (`Midi/Nybble.cpp`, `Midi/Mirage Helpers.cpp`, `ParseSysEx`, tuning) | none | nybbles, page count, checksum, tuning search | decoding inverts coding; no index leaves its table |
| Sizes (`Menus/Menu_Edit.cpp`, `Menus/Menu_Tools.cpp`, `WaveApi/Wavapi.cpp`, `WaveApi/Wave View.cpp`, `Gui/LoopView.cpp`) | data size, loop points, RIFF size, selection | cut, paste, truncate, resample, drag, loop editor, save and open | loop points stay inside the data; no command leaves the block; the file holds all of the wave |
| Monitor (`Midi/Monitor`) | shared string, bounded line list | `PostMidiMonitor`, `OnPutData` | each message is shown as it was |
| Program dump tables (`GetSampleParameters`, `ReceiveMsg`, `ParseSysEx`) | two tables, reassembly buffer, event | ask, join chunks, decode | after TRUE the tables are whole and new; after a disturbance they settle |
| Playing (`WaveApi/wavesamples.cpp`, `Dialogs/Dialog_LoopEdit.cpp`) | two events, threads, the driver's buffers | play, play loop, close dialog or window | one player; no buffer outlived by the driver; what was begun ends |
| Disk images (`DiskImage/DiskImage.cpp`) | read position | list, extract | sector layout |
| Dialogs over dump tables, controls, update check | form fields | - | - |
| DSP code and bundled libraries | - | - | third-party or numerical |

### What is hard here

* Header ownership is spread over three threads that share an auto-reset event, which
  remembers that it was set but not how often.
* The same event ends a wait for any incoming message, so answers and waits drift apart.
* Dumps wait as messages of the main thread while that thread is busy asking for more; they
  carry a pointer into one shared string.
* Commands change a document without saving a state, or change it without its flags.
* A message comes in chunks with no number on them: what a lost chunk leaves behind is joined
  to the next message.
* A wave lies in a block of fixed size; each command tests its own number against it, on
  unsigned fields and a selection that may be older than the wave.
* A play thread tests an event and sets it in two steps, and plays from its own stack.
* A value is set by pressing keys and reading back: a late answer is a stale reading, and the
  loop that corrects it has no limit.

`PROJECT.json` lists the hazards with their lines and the properties that would notice them.

## 2. Modules

| Module | Models | Checked by |
| --- | --- | --- |
| `MidiOut` | output device | `MCMidiOut`, proofs in `MidiOutProofs` |
| `MidiIn` | input device as the application uses it | `MCMidiIn`, proofs in `MidiInProofs` |
| `UndoHistory` | abstract specification: a tape of states and a cursor | property of `Undo` |
| `Undo` | `CUndo` | `MCUndo`, proofs in `DocumentProofs` |
| `Document` | document and view commands, on top of `Undo` | `MCDocument`, proofs in `DocumentProofs` |
| `SampleReceive` | the receive path: main thread, callback, sampler | `MCSampleReceive`, proofs in `SampleReceiveProofs` |
| `SampleTransmit` | the transmit path: `PutSample`, `ChangeParameter`, callback, sampler | `MCSampleTransmit`, proofs in `SampleTransmitProofs` |
| `SysexIn` | how both program dump tables come: request, chunks, reassembly, decoding | `MCSysexIn`, proofs in `SysexInProofs` |
| `WaveSizes` | sizes, loop points and selection under every command that changes them | `MCWaveSizes`, proofs in `WaveSizesProofs` |
| `Playing` | play threads, loop threads, their events, the audio driver | `MCPlaying`, proofs in `PlayingProofs` |

Every module carries, in front of some definitions, a *variant* of it (named for what it
gets wrong, such as `LongMsgRefusedLeaks`). No specification uses a variant; each one is a
plausible mistake in that piece of code, kept to show that the properties notice it.

### MidiOut

`mState`, `mEvent`, `hdrQueue` are the members; `live` is the set of constructed headers,
`inFlight` the driver's. `mainPc` and `workerPc` say where the two threads stand. A call
is split where another thread can see the difference: `SendMsg` is `NewHeader`,
`LongMsgAccepted` or `LongMsgRefused`, `AddHeader`, because the driver may finish the header
before it is queued; `Close` is `CloseStart`, `CloseSignal`, `CloseJoin`, `RemoveAll`,
`CloseDevice`; the worker's loop has four steps. `midiOutClose` refuses while headers are
outstanding and `Close` ignores it: those headers become `stray` and still signal later.
An exception returns to the caller, which may go on; the program itself has no handler for
it and would stop, so the model has more behaviours than the program. The program opens the
output device once, so the properties of the first session are about the program; the
second session is about the class.

### MidiIn

The same structure for one shared buffer, whose headers are made by `AddSysExBuffer` once
and by `ReleaseBuffer` in the callback each time, and deleted by three parties. The receive
dialog and the preferences close and restart the device each time. Exceptions are not
caught (the `catch` clauses name the device class, not the exception): `Terminate`. A
header's bytes and their reassembly are left out.

### Undo, UndoHistory, Document

A state is an opaque value. `History` in `Undo` folds the tape around the undo list: the
reversed undo list followed by the redo list, with the cursor at the fold. `Edit` stands for
any change without a `CheckPoint`, such as `LoopToggle`. In `Document`
every command is one step, as the main thread runs it to its end; its data are a rate and an
opaque value (samples and loop points), since the properties tell rates apart but not
samples. Each command is its calls to `CheckPoint`, `SetModifiedFlag`, `NotFromMirage` and
its effect on selection and clipboard. Closing the document ends it. `OnSaveDocument` is the
save that succeeds: a failure to open or write the file returns and leaves all as it was, and
`SaveWAV` returns FALSE, with the flag cleared already (`WaveApi/Wave Doc.cpp:239`), only when
there is no wave in memory, which an open document has. `Document` extends `Undo`:
it has the variables of its CUndo and calls its operations, with a wave for the content of a
state (`WaveAssumption`), so that what is proved of `Undo` is proved of every document.

### SampleReceive

`pc` names the wait in which the main thread stands inside `GetSample`, `todo` the rest of
the two select lists, which hold positions of selected lines (`Requests`). `toMirage` is the stream of commands; the sampler (external) handles
them in order at its own pace and its answer may be lost. `queue` holds the posted thread
messages. A message box may lose them, as its own message loop has no window to give them
to. What `OnGotWaveData` reads through its pointer is `BytesAt`: the string's present
value, or for a string that was reassigned since also freed memory. The checksum's outcome
is open. Timeouts can happen whenever the event is unset: no timing is assumed. Left out:
commands the user gives while a message box is open.

### SampleTransmit

The other direction. Once the wave is dumped, `PutSample` has to bring the sampler's end
point, loop points and tuning to those of the document, and the Mirage has no message that
sets a parameter: `ChangeParameter` selects it, asks for its value, presses a value key and
asks again until what it reads is what it wants. `plan` is the list of changes `PutSample`
has still to make (`EndPlan`, `LoopPlan`, `TuningPlan`, in the order of the code, with
`unsigned char` arithmetic), `change` the call in progress, `pc` its wait. `selected` and
`value` are the sampler's. The callback is three steps, as `ParseSysEx` stores first the
number and then the value, and the event is set last.

A wait ends by the event or after 100 ms. A timeout while an answer is on its way makes that
answer a *late* one; late answers, lost answers and short messages (which set the event too)
are *faults*, at most `MaxFaults` together. One kind of late answer has no bounded effect:
if a wait ends between the two stores of the callback, the test of the number passes and the
value read is that of any earlier answer. The history flag `torn` marks it, and the
properties speak of transmissions without it.

The sampler is external. What is assumed of it is: one selected parameter, keys move it by 1,
and it refuses to move the sample end below the loop end (the comment at
`Midi/MirageSysex.cpp:447`) or a parameter out of its range. Documents and slots are given
by the constants; `TransmitAssumption` says what is assumed of them: a wave has a page
(`GetNumberOfPages` returns no 0) and its loop lies inside. The latter the code does not always
guarantee: a command that `LoopStaysInside` of `WaveSizes` excepts may have lost the loop, and
for such a wave `ChangeParameter` would press a key that the sampler refuses, without end. `Fits` says
that the new end point is still a page of the bank. Left out: the bytes of the dump, the
exchange of `DoSampleSelect` (its failure ends `PutSample`; its waits are those of
`SampleReceive`), `SendConfigParms`.

### SysexIn

The main thread asks for the lower and then the upper table, waiting for `midi_in_event`
each time. The driver hands over a dump in chunks as large as `SysXBuffer`; `ReceiveMsg`
starts a new message at a chunk with the start byte and appends any other, and decodes when
a chunk ends with the end byte. A table is a cell for each chunk, the two tables one behind
the other as in `_program_dump_table_`, so that the byte too many `ParseSysEx` decodes of
the lower dump falls into the first cell of the upper one. Chunks may be lost, notes set the event, and a
timeout may come whenever the event is unset. A message that lost its first chunk has a data
byte where `ParseSysEx` looks for the number of the message; `Destinations` says what it may
be taken for. `version` counts changes of the sampler's settings, so that an old dump can be
told from a new one; `clean`, `last`, `whole` and `damaged` are history.

### WaveSizes

One action per command that changes RIFF size, data size, loop points or selection. A field
of the header is a DWORD (`Plus`, `Minus` wrap around), a selection an int with -1 for none,
and the masks `& 0xFF00` drop the upper half of a DWORD as well (`PageOf`). What a command
reads and writes is given by `Fits`: if it leaves the block of the wave, `broken` names it
and the behaviour ends, since nothing is known of the memory any more. Cut, Paste, the three
special pastes, the four truncations, both ways to resample, the mouse with the left and the
right button, every button of the loop editor, and save followed by open. The real numbers
(a page of 256, a bank of 65535, the header of a file, the 84 bytes `ReadWAVFile` loses of a
file without loop points) are constants.

### Playing

`player` and `looper` say where each thread stands, split where another thread can see the
difference: `PlayWaveData` tests the event, sets it, copies the wave (which a closed window
may have freed: `stale`), gives the driver a buffer it must have back, and resets the event. `PlayLoop` reads the
handle of the *dialog's* event in each round, so a thread that outlives its dialog reads the
next one's. `raced` is history: two threads stood between test and set at the same time.
Left out: that Windows may give the value of a closed event's handle to another object, whose
state the old loop thread would then read (`Dialogs/Dialog_LoopEdit.cpp:100`, read at `:239`),
and that the document's destructor frees the handle of a wave `OnCloseWindow` has freed
(`WaveApi/Wave Doc.cpp:85`, after `:431`).

## 3. Runs

| Run | Instance | Shows |
| --- | --- | --- |
| `MidiOut` | 3 headers, 2 opens | the six properties of the output device |
| `MidiIn` | 4 headers, 2 opens | the six properties of the input device |
| `MidiInRestart` (violated) | same | `RemovesFinished` fails after a restart, see findings |
| `Undo` | 3 states, limit 3 | `WithinLevels` and the refinement of `UndoHistory` |
| `Document` | 2 rates, 2 contents, limit 2 | `FlagKeepsRate`, that only the commands named leave the modified flag behind (`FlagTold`), and that the document is a `CUndo` |
| `DocumentHead` (violated) | limit 4 | `HeadIsCurrent` fails |
| `SampleReceive` | 3 wavesamples a bank, 3 listed, up to 2 picked, 2 sessions, 1 note | one sample arrives as asked, loops restored, the main thread comes back |
| `SampleTransmit` | bytes of 2 bits, 3 slots, 3 documents, 2 faults | the sampler ends with the document's end and loop points (`Settled`), refuses no key (`NothingRefused`), and `PutSample` ends (`TransmitEnds`) |
| `SampleReceiveLoops` (violated) | same | `LoopsSwitchedBack` fails for two samples |
| `SysexIn` | 3 chunks a dump, 3 calls, 2 versions, 2 losses, 2 notes | a call nothing disturbed leaves both tables whole and new (`TablesFaithful`); after any disturbance they settle on the last whole dumps (`TablesSettle`) |
| `WaveSizes` | pages of 4, a bank of 11 (3 pages less a byte), 78 values a DWORD; 3 sizes, 5 places to point to, 2 clips, 2 ratios | which commands lose the RIFF size, the loop or the block, and in exactly which case |
| `Playing` | 2 play threads, 2 loop threads | `OnePlayer`, `BufferOutlivesDriver`, `RoundOnlyWhenOn`, and that playing ends (`PlayEnds`, `LoopStops`) |

*Why the bounds are enough.* Three headers let one be in flight, one queued and one under
construction; the errors these properties exclude need two. Input needs one more, as the
callback makes a new header while the old one is known to the driver. Two opens are one
restart, and the state a restart inherits (event, stray headers, ended worker) does not
depend on how many came before. The limit of the history is met and passed with 2 or 3
levels, and three contents tell neighbours of the tape apart. In `SampleTransmit` the slots
are one that shrinks, one that grows and one at the end of the bank, so that either branch
of the end point, keys in both directions and the highest value of a byte occur; two faults
let a late answer meet a lost one in one exchange. Two requests, one note and two
sessions let answers, dumps and statuses of one request meet the waits of the next. A dump of three chunks has a first, a middle and a last
one, which are the three kinds `ReceiveMsg` tells apart, and the third call can meet what two
disturbed ones left. In `WaveSizes` a page has a middle and a bank several pages, the last of
which is not full, so that every comparison with a page, the last page and the bank goes both
ways; a tail of 2 bytes lets the loop's end that the program puts there come before the start
of a page; `DWords` is large enough for three blocks on either side of zero, so that a value
that wrapped around is told from one that did not. The constraint stops where the wave has
outgrown the block and where a button of the loop editor has wrapped a point around. Two threads of each kind are enough for a race
at the test and for a loop thread that meets the next dialog. What the proofs cover does not
depend on these bounds.

The properties of `WaveSizes` name exceptions. They are not there to make the runs pass: each
one is a case in which the code does lose the loop or leave the block, and the property says
that there are no others and how narrow each is (with an exception left out, TLC shows the
case). A property without them would be violated on the first command.

*Bounds in the models*: `MaxOpens`, `MaxPicks`, `MaxSessions`, `MaxNotes`, `MaxFaults`, `ByteSize`
(256 in the program), the size of `Header` (the heap), `MaxCalls`, `MaxVersions`, `MaxLost`,
`MaxOthers`, and in `WaveSizes` the sets of sizes, places, clips, repeats and ratios and the
constraint `Bounded` of `MCWaveSizes`. `MaxFaults` is also a statement:
with 3 faults a key can be pressed once too often at a limit of the sampler
(`NothingRefused` fails, `Settled` holds), with 4 the value left behind can be wrong.

*Deadlock* is not checked in `MidiOut`, `MidiIn`, `SampleReceive`, `SampleTransmit` and
`SysexIn`: with the bounds used up the program is idle, and in the first two it may also have
ended. In `WaveSizes` a behaviour ends when the block is left, in `Playing` when the program
has crashed. `Undo` and `Document`
check it.

*Fairness*: weak fairness for the threads (worker, a call of the main thread that has
begun, the callback), because Windows schedules runnable threads; in `SampleReceive` weak
fairness of the main thread, whose waits all have a timeout, so that one of its steps is
always enabled in a wait. In `Playing` weak fairness for every thread, and for the
audio device, which plays a finite buffer to its end and then marks it done. None for the
user, the MIDI driver or the sampler: they may stay silent for ever, and the liveness properties hold nevertheless. `SampleTransmit` is the
exception: `ChangeParameter` has no limit of its own, so that it ends needs a sampler that
handles what it is sent and a callback that runs (`Fairness` there); with a sampler that is
switched off, or one that sends MIDI clock, it does not end.

### Findings

1. `HeaderProc` of the input device deletes a header the driver owns after a restart: the
   worker can leave through its loop condition, `StopRecording`'s signal stays set, and the
   next worker takes it for a finished header (`RemovesFinished`).
2. `Undo` after Truncate After Loop, the loop button or during a drag of a loop point takes
   back two changes (`HeadIsCurrent`).
3. Receiving several samples leaves loops switched off in the sampler
   (`LoopsSwitchedBack`).

While modelling, under no violated run of its own. Where a property of a passing run states
the exception, it is named.

*Documents.* No Edit command marks a document as modified, so a cut or pasted wave can be
closed without a question (`FlagTold` says which commands do tell). `InitWAVData` frees a
wave that is too long or not mono, and `OnOpenDocument` saves a state of it afterwards
(`WaveApi/Wave Doc.cpp:199`). `m_FromMirage` is not initialised for a file (`:45`); both
values are initial states of `Document`.

*Receiving.* The list position is used as wavesample number, so behind a gap in the list
another sample is received (`OneSampleFaithful` asks for a list without one). `GotSample`
passes `ul_Wavesample >> 4`, which is 0 for both banks, so an upper sample gets the loop
points of the lower bank; the same property speaks of the loop points of lower samples only.
`OnGotWaveData` counts decoded bytes up to half of the payload and takes a data byte for the
checksum (`Mirage Editor.cpp:473`).

*Transmitting.* `PutSample` adds the first page of the slot to the low byte of the loop end,
which is no page, so the loop's end arrives only in a slot at page 0 (`Settled` says so).
The transmit dialog lists a slot that is one page too small
(`Dialogs/Dialog_TransmitSamples.cpp:71,82`), and it too uses a list position as wavesample
number (`:134`). "Send Looppoints" sets the end point as well, and for a wave that is not
from the Mirage a tuning worked out from a key that was never set
(`Midi/MirageSysex.cpp:535`). A coarse tuning of 0 is never sent (`:571`). The search in the
tuning table runs over an unsigned char with `<= 255` and reads the entry before the first
(`:520`). `SendConfigParms` returns while the driver still reads its stack (`:624`).

*Program dump tables.* The decoding loop of `ParseSysEx` stores one byte too many, for a lower
dump into the first byte of the upper table; it is repaired when the upper dump follows, so
`TablesFaithful` holds and `TablesSettle` excepts that cell. A message that lost its first
chunk may be decoded into the lower table or into the configuration's, which is smaller.
The results of `GetSampleParameters` and `GetAvailableSamples` are ignored by
`Dialogs/Dialog_KeyMapper.cpp:158`, `Midi/MirageSysex.cpp:434` and
`Dialogs/Dialog_ReceiveSamples.cpp:69`.

*Sizes.* Paste writes the data size as RIFF size (`FileWhole`), and without a selection it
overwrites the data header (`StaysInBlock`). Append, Prepend and Multiple copies test another
number than the one they copy; all 256 pages for Resample are one byte more than its buffer;
the wheel can grow a wave beyond the block (`StaysInBlock`). Cut leaves the loop points where
they are when the selection ends on one of them; Truncate After Loop and Only Keep Loop round
down in the last page, and Only Keep Loop also when the loop ends on a page and does not
begin on one; keeping a selection that does not hold the loop wraps its points around; a
resampled loop may end one byte behind the data (`LoopStaysInside`). So may a loop that is
switched off and ends in the first page: dragging its start into the last 16 bytes of the data
puts the end in front of the start (`WaveApi/Wave View.cpp:554`, also `LoopStaysInside`; the
attempt to prove the property without that case brought it up). Four buttons of the loop
editor wrap below zero or round the end out of the data (`DialogKeepsLoop`). After a
right drag with Shift `m_endpoint_selected` stays set until the next move with a button or a
key, so a drag without Shift moves the end too (`WaveApi/Wave View.cpp:425`, against
`src/hlp/view_waveform.htm:13`). A first click behind the data makes a selection, as `&&`
binds stronger than `||` (`:582`). A file without `smpl` and `inst` chunks loses its last 84
bytes. Two commands write outside the wave without a change to a number of its header, and so
are outside `WaveSizes` and `StaysInBlock`: `AlternateLoop` when the loop ends before it starts
(`Gui/LoopView.cpp:454`), and Reverse on a wave of 16 bytes or less, whose length less 16 or
less its counter wraps around (`Menus/Menu_Tools.cpp:58`).

*Playing and devices.* Closing a window frees the wave under a play thread (`PlayEnds` allows
the crash). Two clicks can both pass the test of the event (`OnePlayer` is about everything
else). The `CWinThread` object of a worker deletes itself when the worker ends, and `Close`
reads its handle (`Midi/MidiWrapper/MIDIOutDevice.cpp:267`). The main thread and the driver's
assign one monitor string and post pointers into it (`Mirage Editor.cpp:246`).

## 4. Proofs

TLAPS checks these for every value of the constants.

* `MidiOutProofs`: `TypeCorrect`, `OneOwner`, `NothingLeft`, `KeepsInFlight`,
  `RemovesOnlyFinished`. The inductive invariant `IInv` adds three parts to the properties:
  `Control` relates `mState`, `mainPc` and `workerPc` (a worker is running only while the
  device is open or being closed), `ClosedClean` says when no header is left, and
  `FirstSession` that stray headers come from an earlier session. On top of it, `Paid` keeps
  the account of a first session: what is in flight is the end of what was accepted (the
  queue and the header `SendMsg` still has to add), and every deletion the worker may still
  make, for a signal it has seen or not, is paid for by a finished header in front of it.
  Without that account `FirstSessionRemovesFinished` is not inductive, as a signal may come
  before `AddHeader` or stand for two headers. Assumptions: `NoHeader` is no header, the
  bound on opens is a natural number.
* `DocumentProofs`, on `Undo`: `UndoTypeCorrect`, `Bounded`, `Refinement`. `WithinLevels`
  bounds the lists *together*; it is what makes `Redo`'s `AddUndo` never drop a state, and so
  what the refinement needs. Each operation maps to one step of `UndoHistory`, on facts about
  reversed sequences (`ReverseShape`). Assumption: the limit is a natural number. (The module
  is one of `Document`, but these proofs look into no wave.)
* `DocumentProofs`, on `Document`: `TypeCorrect`, `RateKept`, `HistoryImplements`,
  `ModifiedTold` (`FlagTold`). `FlagKeepsRate` is
  inductive because it speaks of both lists: Undo moves the wave among them and changes no
  flag. `StepKinds` reduces every command to one of four effects on the history, and the
  invariant is proved once for each. From `HistoryImplements` and the results about `Undo`
  follow `DocumentHistory` and `DocumentBounded`: a document's Undo and Redo walk over its
  saved waves as `UndoHistory` says, whatever commands came between. Assumptions: `NoRate` is
  no rate, and a state of the document is a wave.
* `PlayingProofs`: `TypeCorrect`, `Exclusive`, `NeverStuck`, `StackOutlivesDriver`,
  `SilentWhenOff`. `OnePlayer` is not inductive, as it does not speak of the threads between test and
  set. `OneInside` does: without a race only one thread is past the test, and the event tells
  whether it has been set. A race ends when its last thread returns, and that all is in order
  then needs `ButtonAlive`, which holds in a race too. `BufferOutlivesDriver` is inductive.
  `RoundOnlyWhenOn` needs that the dialog's event is set only while the button is down.
  Assumptions: the threads form a finite set, and the two kinds are disjoint.
* `WaveSizesProofs`: `TypeCorrect`, `OnlyPasteBreaksFile`, `FileKeepsWave`, `BlockKept`,
  `ButtonsKeepLoop`. The type invariant carries the others: a field stays a DWORD because it
  wraps around, and what is taken from it is a DWORD only if the selection is never turned
  around, which is `SelectionOrder`: the mouse keeps start before end in whatever order it is
  pressed, moved and pressed with Shift. `FileKeepsWave`, `BlockKept` and `ButtonsKeepLoop`
  are about a single step from a sound wave and need the arithmetic of pages (`PageOf`,
  `Places`). `LoopKept` (`LoopStaysInside`) is about a step from a sound loop, but in a wave
  that a paste may already have grown: it holds because the data stays a block away from where
  a sum of fields wraps around (`DataBounded`). Resampling is the hard case: start and length
  are rounded on their own, each by half a byte at most, so the end is at most one byte out.
  Assumptions: the page is even, the bank is a byte less than whole pages, and six times the
  largest block fits in a DWORD.
* `SysexInProofs`: `TypeCorrect`, `UndisturbedCall`. `TablesFaithful` speaks of the end of a
  call. `Asking` follows the dump such a call waits for through its four places: a request,
  chunks on the wire and in the buffer, a message to decode, a table. `Undisturbed` adds that
  the lower table is whole from the first signal on and not touched again. `AlwaysSettles`
  (`TablesSettle`) covers the disturbed calls: `Mixture` says of any chunks on the wire that
  they keep their shape and order, and of the wire, the buffer, the message and the table of
  each bank which dump the table will end as. Assumption: a dump has at least two chunks.
* `MidiInProofs`: `TypeCorrect`, `DeletesOnce` (`QueueIsLive`), `NeverDeaf`
  (`RecordingHasBuffer`), `KeepsHeaders`, `OneBuffer`. `Control` relates `mState`, `mainPc`
  and `workerPc`, as for the output device; `Queued` knows the header that is with the driver
  and not in the queue yet, between `AddBuffer` and `AddHeader`; `HasBuffer` says
  that from `AddBuffer` until recording has begun the driver has the buffer. The two properties
  of a first session need `FirstSignals` (whenever the worker is signalled, the callback has
  emptied the queue before) and `FirstApart` (what empties the queue deletes no header the
  driver still has). Assumptions: `NoHeader` is no header, the bound on opens is a natural
  number.
* `SampleReceiveProofs`: `TypeCorrect`, `OneArrives` (`OneSampleFaithful`), `LoopRestored`
  (`OneSampleLoopRestored`). A note, a late answer or a timeout may end any wait, and a first
  answer may even be the status the program started with; what holds all the same is that the
  commands of one sample leave in one order and the sampler handles them in that order.
  `Exchange` therefore describes a first session for one sample by how many of its commands
  have been handled: those on the line are the next ones (`Line`), the main thread's place, the
  sampler's selection and loops, the posted message and the document follow from that number
  and the length of the line. `OneRequest` reduces the dialog's lists to the one line picked,
  and `PositionType` says when that line is the sample of its number. Assumption: the
  wavesamples of a bank are numbered from 0 without a gap.

* `SampleTransmitProofs`: `TypeCorrect`, `KeysTaken` (`NothingRefused`) and `PointsSet`
  (`Settled`), the last two in every state reached with at most two faults. They hold for any
  `MaxFaults`: it is `faults` itself that is bounded, in a run that may go on to have more.
  `Work` says what is still to be done (the change under way and the plan are one of eleven
  suffixes of what `PutSample` worked out) and what the sampler's values are by then, so that
  when nothing is left to be done the points are those of the document. A step of
  the plan is taken off when its value is reached (`WorkAdvances`), and the sampler's other
  values do not matter to it (`WorkKeeps`). A key that goes towards the target of the change
  under way stays within the sampler's limits (`WorkLegal`), and this is where the order of the
  changes is needed: the loop is moved before the end.
  That a key does go towards its target needs that the value read is the
  sampler's, and here the proof counts faults. Call an answer stale when a key pressed since
  changes its value. Without a fault a question is asked on a silent line (`NoFault`), so
  there is no other answer to take. With one fault no stale answer is on the line (`OneFault`):
  the fault that lets `GotParameter` leave its wait early leaves behind an event, but no key and
  no other value. With two faults a stale answer may be on the line, but the wait for the value
  can then end in silence only, after the answer to the last question, which was asked behind
  every key (`Reads`). `Selects` and `Keys` say which parameter the sampler has selected when a
  key reaches it, and that one key at a time is on its way. Two is the limit: a third fault can
  have a stale value read and a key pressed too often, and TLC shows it (section 3).
  Assumptions: a loop lies in its wave and a slot's loop in the slot, a wave has a page.

Of the proved type invariants, those of `Document` and `Playing` are not checked by TLC again.

The inductive invariant of `SampleTransmitProofs` was an invariant of a TLC run before it was
proved, on the instance above with three faults, so that the hypothesis on their number is met
and left.

Model-checked only: the liveness properties (`CloseReturns` of both devices, `ReceiveEnds`,
`TransmitEnds`, `PlayEnds`, `LoopStops`), since liveness under fairness is beyond the prover.
Every other property of a passing run is stated by a theorem.

## 5. Not modelled, and the plan

The next work:

1. Undo under a selection: `WaveSizes` composed with `Document`.
2. `Settled` with three faults: TLC finds no counterexample on the small instance, but a key
   can then go the wrong way, so it needs another invariant than `Keys` and `Reads`.

Left out for good:

* *MIDI monitor.* A thread that shows messages. Main thread and driver's thread assign one
  string without a lock and post pointers into it: nothing can be promised of what it shows,
  and nothing else depends on it.
* *Wave dump coding.* Nybbles, page counts, checksum and tuning table are arithmetic on one
  message without state; what depends on them is left open where it matters (the checksum's
  outcome in `SampleReceive`) or given as values (the tuning in `SampleTransmit`).
* *Disk images.* One pass over a file, sector by sector. The sizes and loop points it gives a
  document are initial states of `WaveSizes`.
* *Windows, controls, the piano keyboard, forms over the dump tables, the update check.* No
  state the Mirage or a document depends on.
* *Signal processing and bundled libraries* (SndObj, libsamplerate, FFTW, RotaryFaderMFC):
  numerical or third-party code, which makes up the greatest part of the repository. Its
  longest files are tables of filter coefficients and generated transforms, which have no
  states to check; the program's own code is about an eighth of the repository.
