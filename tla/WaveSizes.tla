----------------------------- MODULE WaveSizes -----------------------------
(***************************************************************************)
(* The numbers in the header of a document's wave (RIFF size, data size,   *)
(* loop start and end) and the selection, under the commands that change   *)
(* them: the Edit menu, dragging in the wave view, resampling and the loop *)
(* editor.  The samples themselves are left out; what counts is where the  *)
(* commands read and write.  Header fields are DWORDs and wrap around; a   *)
(* selection is a signed int with -1 for none.                             *)
(*                                                                         *)
(* The wave lies in a block of fixed size.  `broken' names the command that *)
(* has worked outside of it, or on the header in front of the samples; the *)
(* behaviour ends there, as nothing is known of the memory any more.       *)
(***************************************************************************)
EXTENDS Integers

CONSTANTS Page,    \* MIRAGE_PAGESIZE
          Bank,    \* MAX_WAVESIZE, which is also the size of SampleData
          DWords,  \* how many values a DWORD has
          Header,  \* the header's share of the RIFF size
          Tail,    \* from the default loop end to the end of the data
          NearEnd, \* a loop end this close to a page's end gets one page more
          Sizes,   \* bounds: data sizes a wave comes with,
          Points,  \* places in the wave the mouse can point to,
          Clips,   \* data sizes on the clipboard, from whatever document,
          Repeats, \* how often the clipboard is repeated,
          Ratios   \* <<m, n>>: the wheel's ratios, m / n

Word == Bank + 1
Block == Bank + 2 \* from the first sample to the end of _WaveSample_
DWORD == 0 .. DWords - 1

ASSUME WaveSizesAssumption ==
    /\ Page \in Nat \ {0} /\ Page % 2 = 0 /\ Bank \in Nat /\ Word % Page = 0
    /\ DWords \in Nat /\ 6 * Block <= DWords
    /\ Header \in 0 .. Block
    /\ Tail \in 0 .. Page /\ NearEnd \in 0 .. Page
    /\ Sizes \subseteq 1 .. Bank
    /\ Points \subseteq 0 .. 2 * Bank
    /\ Clips \subseteq 0 .. Bank
    /\ Repeats \subseteq Nat \ {0}
    /\ Ratios \subseteq (Nat \ {0}) \X (Nat \ {0})

VARIABLES
    wave,     \* riffSIZE, dataSIZE, dwStart and dwEnd
    sel,      \* SelectionStart and SelectionEnd
    m_endpoint_selected, \* the mouse has the loop end
    dialog,   \* the loop editor (modal) is open
    loop,     \* its m_LoopStart and m_LoopEnd
    broken    \* the command that left the block, or "no"

vars == <<wave, sel, m_endpoint_selected, dialog, loop, broken>>

Plus(a, b) == IF a + b < DWords THEN a + b ELSE a + b - DWords
Minus(a, b) == IF a >= b THEN a - b ELSE a - b + DWords
Dword(i) == IF i < 0 THEN i + DWords ELSE i
Long(d) == IF 2 * d < DWords THEN d ELSE d - DWords

\* x & 0xFF and x & 0xFF00: the higher half of a DWORD is dropped.
LowByte(x) == x % Page
PageOf(x) == (x % Word) - ((x % Word) % Page)

NoSelection == [start |-> -1, end |-> -1]
NoLoop == [start |-> 0, end |-> 0]

Whole(w) == w.riff = Plus(Header, w.data)

-----------------------------------------------------------------------------
(* The end of every command here: what it made of the wave, or the block   *)
(* overrun.                                                                *)

Fits(offset, length) == offset + length <= Block

Command(name, ok, newWave, newSel) ==
    /\ ~dialog
    /\ IF ok
       THEN wave' = newWave /\ sel' = newSel /\ UNCHANGED broken
       ELSE broken' = name /\ UNCHANGED <<wave, sel>>
    /\ UNCHANGED <<m_endpoint_selected, dialog, loop>>

(* ResizeRiff takes the same number from both sizes.                       *)
ResizeData(w, size) == [w EXCEPT !.data = Minus(@, Minus(w.data, size))]
ResizeRiff(w, size) == [ResizeData(w, size) EXCEPT !.riff = Minus(@, Minus(w.data, size))]

(* Cut, Copy and Delete are enabled with a selection (OnUpdateEditMenu).   *)
HasSelection == sel.start > -1 /\ sel.end > -1
SelectionSize == sel.end - sel.start

(* The start stays behind when the selection reaches over it.              *)
CutStartLate ==
    IF sel.end < wave.start THEN Minus(wave.start, SelectionSize) ELSE wave.start

(* Where the loop points go when the selection is cut out.                 *)
CutEnd ==
    CASE sel.end < wave.end \/ sel.end < wave.start -> Minus(wave.end, SelectionSize)
      [] sel.end > wave.end /\ sel.start < wave.end -> sel.start
      [] OTHER -> wave.end

CutStart ==
    CASE sel.end < wave.start -> Minus(wave.start, SelectionSize)
      [] sel.start < wave.start /\ sel.end > wave.start -> sel.start
      [] OTHER -> wave.start

OnEditCut ==
    /\ HasSelection
    /\ Command("Cut", sel.end <= wave.data /\ Fits(0, wave.data),
               [riff |-> Minus(wave.riff, SelectionSize),
                data |-> Minus(wave.data, SelectionSize),
                start |-> CutStart, end |-> CutEnd],
               NoSelection)

(* Without a selection the first byte lands in the data header.            *)
PasteFits(clip) ==
    /\ sel.start >= 0 \/ clip = 0
    /\ Fits(sel.start, clip)
    /\ SelectionSize # clip =>
          /\ sel.end <= wave.data
          /\ Fits(0, wave.data) /\ Fits(sel.start + clip, wave.data - sel.end)

PasteSize(clip) == Plus(Minus(wave.data, SelectionSize), clip)
Pasted(clip) ==
    IF SelectionSize = clip THEN wave
    ELSE [wave EXCEPT !.data = PasteSize(clip), !.riff = PasteSize(clip)]

(* Without a look at MAX_WAVESIZE.                                         *)
OnEditPasteAnySize(clip) == Command("Paste", PasteFits(clip), Pasted(clip), sel)

(* Both sizes become that of the data.                                     *)
OnEditPaste(clip) ==
    /\ Plus(wave.data, clip) <= Bank
    /\ Command("Paste", PasteFits(clip), Pasted(clip), sel)

(* Append and Prepend move as many bytes as the wave has, less the clip's, *)
(* away from one end of the selection.  Whether the rates differ, which    *)
(* forbids them, is left open.                                             *)
PasteAt(name, place, clip) ==
    /\ Plus(wave.data, clip) <= Bank
    /\ Command(name,
               /\ place >= 0 \/ clip = 0
               /\ clip <= wave.data
               /\ Fits(place, wave.data),
               [wave EXCEPT !.data = Plus(@, clip), !.riff = Plus(@, clip)],
               sel)

OnPastespecialAppend(clip) == PasteAt("Append", sel.end, clip)
OnPastespecialPrepend(clip) == PasteAt("Prepend", sel.start, clip)

(* The check counts the clipboard once.                                    *)
OnPastespecialMultiplecopies(clip, count) ==
    /\ Plus(wave.data, clip) <= Bank
    /\ Command("Multiple copies", Fits(0, count * clip),
               LET more == count * clip - clip IN
               [wave EXCEPT !.data = Plus(@, more), !.riff = Plus(@, more)],
               sel)

-----------------------------------------------------------------------------
(* Truncate.                                                               *)

(* length in pages, rounded as the loop end's place in its page demands.   *)
Rounded(length) ==
    LET up == wave.end > PageOf(wave.end) /\ PageOf(wave.end) < PageOf(Bank)
        pages == IF up THEN PageOf(Plus(length, Page)) ELSE PageOf(length)
    IN  IF Page - 1 - LowByte(wave.end) < NearEnd THEN pages + Page ELSE pages

OnTruncateAfterloop ==
    /\ Rounded(wave.end) < wave.data
    /\ Command("After loop", TRUE, ResizeRiff(wave, Rounded(wave.end)), sel)

(* The loop's bytes move to the front and its points with them.            *)
KeepLoop(name, size) ==
    Command(name, Fits(wave.start, size),
            [ResizeRiff(wave, size) EXCEPT !.start = 0, !.end = Minus(@, wave.start)],
            NoSelection)

OnTruncateBeforeloop == KeepLoop("Before loop", Minus(wave.end, wave.start))
OnTruncateOnlykeeploop == KeepLoop("Only keep loop", Rounded(Minus(wave.end, wave.start)))

KeepOnlySelection ==
    /\ sel.start >= 0 /\ sel.end <= wave.data
    /\ Command("Keep selection", Fits(sel.start, SelectionSize),
               [ResizeRiff(wave, SelectionSize) EXCEPT !.start = Minus(@, sel.start),
                                                       !.end = Minus(@, sel.start)],
               NoSelection)

-----------------------------------------------------------------------------
(* Resampling.                                                             *)

(* lrint(v * m / n): to the nearest, half to even; LONG_MIN when too big.  *)
Scaled(v, m, n) ==
    LET q == (v * m) \div n
        r == 2 * ((v * m) % n)
        near == IF r > n \/ (r = n /\ q % 2 = 1) THEN q + 1 ELSE q
    IN  IF 2 * near < DWords THEN near ELSE DWords \div 2

ResampleTo(name, ok, size, m, n) ==
    LET start == PageOf(Scaled(wave.start, m, n))
    IN  Command(name, ok /\ Fits(0, wave.data),
                [riff |-> Plus(Header, size), data |-> size, start |-> start,
                 end |-> Plus(start, Scaled(Minus(wave.end, wave.start), m, n))],
                sel)

(* To a number of pages.  256 pages are one byte more than the buffer for  *)
(* the result has; the converter may or may not use it.                    *)
OnToolsResample(pages) ==
    LET size == pages * Page IN
    /\ wave.data > 0
    /\ \E ok \in {TRUE, size <= Bank} : ResampleTo("Resample", ok, size, size, wave.data)

(* By a turn of the wheel.  RemoveZeroSamples looks one byte further.      *)
Resample(m, n) ==
    LET size == (wave.data * m) \div n IN
    /\ wave.data > 0
    /\ ResampleTo("wheel", Fits(0, size + 1), size, m, n)

-----------------------------------------------------------------------------
(* The mouse in the wave view (OnMouseMove).                               *)

MouseUnchanged == UNCHANGED <<dialog, loop, broken>>

(* A press of the left button; with Shift it clears nothing.               *)
OnLButtonDown ==
    /\ ~dialog
    /\ sel' = NoSelection
    /\ UNCHANGED <<wave, m_endpoint_selected>> /\ MouseUnchanged

(* Selects whole pages.                                                    *)
DragSelectionByPage(x, shift) ==
    /\ ~dialog
    /\ sel' = [start |-> PageOf(x), end |-> x]
    /\ m_endpoint_selected' = FALSE
    /\ UNCHANGED wave /\ MouseUnchanged

(* && binds stronger than ||, so a first click may lie behind the data.    *)
DragSelection(x, shift) ==
    LET anew == \/ (shift \/ sel.end = -1) /\ x <= Long(wave.data)
                \/ sel.start = -1
        start == IF anew /\ ~(sel.end # -1 /\ x > sel.end) THEN x ELSE sel.start
        end == IF x > start /\ x < Long(wave.data) THEN x
               ELSE IF anew /\ sel.end = -1 THEN start
               ELSE sel.end
    IN  /\ ~dialog
        /\ sel' = [start |-> start, end |-> end]
        /\ m_endpoint_selected' = FALSE
        /\ UNCHANGED wave /\ MouseUnchanged

(* Any other move with a button or a key.  A move with none returns before *)
(* the flag is reset, so the flag outlives the drag.                       *)
OtherMove ==
    /\ ~dialog
    /\ m_endpoint_selected' = FALSE
    /\ UNCHANGED <<wave, sel>> /\ MouseUnchanged

MoveStart(x, off) ==
    /\ PageOf(x) < Minus(wave.end, Page) /\ PageOf(x) < wave.data
    /\ PageOf(x) < wave.end \/ off

MoveEnd(x) == x > Long(Plus(wave.start, Page)) /\ x < Long(wave.data)

(* The right button has the start; with Shift it has the end, and without  *)
(* it still has the end if the flag is left over.  Both conditions look at *)
(* the points of before the move; off says whether the loop is switched off. *)
DragLoop(x, shift, off) ==
    LET hasEnd == shift \/ m_endpoint_selected
        start == ~shift /\ MoveStart(x, off)
        end == hasEnd /\ MoveEnd(x)
    IN  /\ ~dialog
        /\ m_endpoint_selected' = hasEnd
        /\ wave' = [wave EXCEPT
              !.start = IF start THEN PageOf(x) ELSE @,
              !.end = IF end THEN x
                      ELSE IF start /\ @ < PageOf(x) THEN Minus(wave.data, Tail)
                      ELSE @]
        /\ UNCHANGED sel /\ MouseUnchanged

-----------------------------------------------------------------------------
(* The loop editor works on its own copy of the two points.                *)

(* OnInitialUpdate copies as many bytes as the RIFF size says; with fewer  *)
(* than the header has the points are not among them.                      *)
OnToolsLoopwindow ==
    /\ ~dialog
    /\ IF wave.riff \in Header .. Header + Block
       THEN dialog' = TRUE /\ loop' = [start |-> wave.start, end |-> wave.end] /\ UNCHANGED broken
       ELSE broken' = "Loop editor" /\ UNCHANGED <<dialog, loop>>
    /\ UNCHANGED <<wave, sel, m_endpoint_selected>>

LoopMoves(start, end) ==
    /\ dialog
    /\ loop' = [start |-> start, end |-> end]
    /\ UNCHANGED <<wave, sel, m_endpoint_selected, dialog, broken>>

LoopEndF == Minus(loop.end, Page) > loop.start /\ LoopMoves(loop.start, Minus(loop.end, Page))
LoopEndBToo == Plus(loop.end, Page) # wave.data /\ LoopMoves(loop.start, Plus(loop.end, Page))
LoopEndB == Plus(loop.end, Page) < wave.data /\ LoopMoves(loop.start, Plus(loop.end, Page))
LoopEndFineF == Minus(loop.end, 1) > loop.start /\ LoopMoves(loop.start, Minus(loop.end, 1))
LoopEndFineB == Plus(loop.end, 1) < wave.data /\ LoopMoves(loop.start, Plus(loop.end, 1))
LoopStartF == loop.start # 0 /\ LoopMoves(Minus(loop.start, Page), loop.end)
LoopStartB == Plus(loop.start, Page) < loop.end /\ LoopMoves(Plus(loop.start, Page), loop.end)

LoopEndPage ==
    LET page == IF LowByte(loop.end) >= Page \div 2 THEN PageOf(Plus(loop.end, Page))
                ELSE PageOf(loop.end)
    IN  LoopMoves(loop.start, Minus(page, 1))

LoopButton ==
    \/ LoopEndF \/ LoopEndB \/ LoopEndFineF \/ LoopEndFineB
    \/ LoopStartF \/ LoopStartB \/ LoopEndPage

(* OK, with UseLoop, and Cancel.  The points mean nothing afterwards.      *)
EndDialog(use) ==
    /\ dialog
    /\ wave' = IF use THEN [wave EXCEPT !.start = loop.start, !.end = loop.end] ELSE wave
    /\ dialog' = FALSE
    /\ loop' = NoLoop
    /\ UNCHANGED <<sel, m_endpoint_selected, broken>>

-----------------------------------------------------------------------------
(* SaveWAV writes as many bytes as the RIFF size says, and ReadWAVFile     *)
(* makes a wave of them again.                                             *)

Readable(w) == w.data > 0 /\ Header + w.data <= w.riff

(* The new RIFF size is the size of the file.                              *)
ReadBackFileSize(w) == [w EXCEPT !.riff = Plus(@, 8), !.start = PageOf(@)]

(* More than SampleData holds is resampled to its size.                    *)
ReadBack(w) ==
    LET size == IF w.data > Bank THEN Bank ELSE w.data IN
    [riff |-> Plus(Header, IF w.riff > Header + Block THEN Bank ELSE size),
     data |-> size,
     start |-> PageOf(Scaled(w.start, size, w.data)),
     end |-> Scaled(w.end, size, w.data)]

(* Saved and opened again; SaveWAV copies the wave to its stack first.     *)
Reopen ==
    /\ Readable(wave)
    /\ Command("SaveWAV", wave.riff <= Header + Block, ReadBack(wave), NoSelection)

-----------------------------------------------------------------------------
(* A file without loop points gets them at its end.                        *)
DefaultLoop(size) ==
    [riff |-> Plus(Header, size), data |-> size,
     start |-> Minus(size, Page), end |-> Minus(size, Tail)]

(* From a file with loop points, the Mirage or a disk image.               *)
GivenLoop(size, start, end) ==
    [riff |-> Plus(Header, size), data |-> size, start |-> PageOf(start), end |-> end]

Init ==
    /\ \E size \in Sizes :
          \/ wave = DefaultLoop(size)
          \/ \E start, end \in 0 .. size : start <= end /\ wave = GivenLoop(size, start, end)
    /\ sel = NoSelection /\ m_endpoint_selected = FALSE
    /\ dialog = FALSE /\ loop = NoLoop
    /\ broken = "no"

Edit ==
    \/ OnEditCut
    \/ \E clip \in Clips :
          \/ OnEditPaste(clip)
          \/ OnPastespecialAppend(clip) \/ OnPastespecialPrepend(clip)
          \/ \E count \in Repeats : OnPastespecialMultiplecopies(clip, count)
    \/ OnTruncateAfterloop \/ OnTruncateBeforeloop \/ OnTruncateOnlykeeploop
    \/ KeepOnlySelection

Tools ==
    \/ \E pages \in 1 .. Word \div Page : OnToolsResample(pages)
    \/ \E r \in Ratios : Resample(r[1], r[2])
    \/ Reopen
    \/ OnToolsLoopwindow \/ LoopButton
    \/ \E use \in BOOLEAN : EndDialog(use)

Mouse ==
    \/ OnLButtonDown \/ OtherMove
    \/ \E x \in Points, shift \in BOOLEAN :
          \/ DragSelection(x, shift)
          \/ \E off \in BOOLEAN : DragLoop(x, shift, off)

Next == broken = "no" /\ (Edit \/ Tools \/ Mouse)

Spec == Init /\ [][Next]_vars

-----------------------------------------------------------------------------
(* Every number of the header stays a DWORD, and the selection is made of  *)
(* places the mouse has pointed to.                                        *)
TypeOK ==
    /\ wave \in [riff : DWORD, data : DWORD, start : DWORD, end : DWORD]
    /\ sel \in [start : Points \cup {-1}, end : Points \cup {-1}]
    /\ m_endpoint_selected \in BOOLEAN /\ dialog \in BOOLEAN
    /\ loop \in [start : DWORD, end : DWORD]

(* A wave whose RIFF size is that of header and data, which is what SaveWAV *)
(* needs to write all of it, keeps such a size under every command but      *)
(* Paste (Menu_Edit.cpp:263 takes the data size for it).                    *)
FileWhole == [][Whole(wave) => Whole(wave') \/ \E clip \in Clips : OnEditPaste(clip)]_vars

Inside(w) == w.start <= w.end /\ w.end <= w.data

(* What SaveWAV writes of such a wave, ReadWAVFile can read, and it is the *)
(* same wave but for the page its loop starts on.                          *)
RoundTrip ==
    Whole(wave) /\ wave.data \in 1 .. Bank /\ Inside(wave) =>
        Readable(wave) /\ ReadBack(wave) = [wave EXCEPT !.start = PageOf(@)]

Resampled ==
    \/ Reopen
    \/ \E pages \in 1 .. Word \div Page : OnToolsResample(pages)
    \/ \E r \in Ratios : Resample(r[1], r[2])

(* The loop points stay in their order and inside the data, which the      *)
(* sampler and the loop players take for granted.  The commands that can   *)
(* lose them are named with when they do: Cut when the selection ends on a *)
(* loop point, Paste over a longer selection, the two truncations that     *)
(* round the loop down (in the last page, and for a loop that ends on a    *)
(* page but does not start on one), keeping a selection that does not hold *)
(* the loop, OK in a loop editor whose own points are lost already, and a  *)
(* drag of the start of a loop that is switched off and ends in the first  *)
(* page, into the last bytes of the data: the end is then set before it.   *)
(* Resampling rounds the end up by at most one byte.                       *)
LoopStaysInside ==
    [][Inside(wave) =>
        \/ Inside(wave')
        \/ OnEditCut /\ sel.end \in {wave.start, wave.end}
        \/ \E clip \in Clips : OnEditPaste(clip) /\ SelectionSize > clip
        \/ OnTruncateAfterloop /\ wave.end >= PageOf(Bank)
        \/ OnTruncateOnlykeeploop /\ (wave.end >= PageOf(Bank) \/ LowByte(wave.end) = 0)
        \/ KeepOnlySelection /\ ~(sel.start <= wave.start /\ wave.end <= sel.end)
        \/ dialog /\ ~Inside([wave EXCEPT !.start = loop.start, !.end = loop.end])
        \/ \E x \in Points : /\ DragLoop(x, FALSE, TRUE)
                             /\ wave.end < Page /\ wave.data - PageOf(x) < Tail
        \/ Resampled /\ Inside([wave' EXCEPT !.data = @ + 1])]_vars

(* A command does not leave the block from a sound wave whose selection,   *)
(* if there is one, lies inside of it.  Not so are: the pastes without a   *)
(* selection, Append, Prepend and Multiple copies, whose one test is of    *)
(* another number, Only keep loop in the last two pages, which it rounds   *)
(* up to, all 256 pages for Resample, and a turn of the wheel that makes   *)
(* the wave too long.                                                      *)
Sound == Whole(wave) /\ wave.data <= Bank /\ Inside(wave) /\ sel.end <= wave.data

Overruns(clip) ==
    \/ ~HasSelection /\ OnEditPaste(clip)
    \/ OnPastespecialAppend(clip) /\ (~HasSelection \/ clip > wave.data \/ ~Fits(sel.end, wave.data))
    \/ OnPastespecialPrepend(clip) /\ (~HasSelection \/ clip > wave.data \/ ~Fits(sel.start, wave.data))
    \/ \E count \in Repeats : OnPastespecialMultiplecopies(clip, count) /\ ~Fits(0, count * clip)

StaysInBlock ==
    [][Sound /\ broken' # "no" =>
        \/ \E clip \in Clips : Overruns(clip)
        \/ OnTruncateOnlykeeploop /\ ~Fits(wave.end, 2 * Page)
        \/ OnToolsResample(Word \div Page)
        \/ \E r \in Ratios : Resample(r[1], r[2]) /\ (wave.data * r[1]) \div r[2] > Bank]_vars

(* No button of the loop editor takes the loop of a wave that is no longer *)
(* than the bank (and the byte that all 256 pages have more) out of the    *)
(* data or turns it around, but for three that subtract without a look at  *)
(* zero (a page from the end, or one from an end at 0, or a page from the  *)
(* start) and the rounding to a page, which needs half a page of room on   *)
(* both sides.                                                             *)
LoopSound(l) == l.start <= l.end /\ l.end <= wave.data

DialogKeepsLoop ==
    [][dialog /\ dialog' /\ wave.data <= Word /\ LoopSound(loop) =>
        \/ LoopSound(loop')
        \/ LoopEndF /\ loop.end < Page
        \/ LoopEndFineF /\ loop.end = 0
        \/ LoopStartF /\ loop.start < Page
        \/ /\ LoopEndPage
           /\ 2 * (loop.end - loop.start) < Page \/ 2 * (wave.data - loop.end) <= Page]_vars
=============================================================================
