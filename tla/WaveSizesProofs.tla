-------------------------- MODULE WaveSizesProofs --------------------------
(***************************************************************************)
(* Proofs about WaveSizes, for pages, banks and DWORDs of any size.        *)
(*                                                                         *)
(* All of them rest on the type invariant, which is not only about types:  *)
(* a field stays a DWORD because it wraps around, and it can be subtracted *)
(* from only by a DWORD, so that a selection must not be turned around.    *)
(* SelectionOrder says that the mouse never does that, whatever order it   *)
(* is pressed, moved and pressed with Shift in.                            *)
(***************************************************************************)
EXTENDS WaveSizes, TLAPS

SelectionOrder == sel = NoSelection \/ (0 <= sel.start /\ sel.start <= sel.end)

IInv == TypeOK /\ SelectionOrder

Waves == [riff : DWORD, data : DWORD, start : DWORD, end : DWORD]

-----------------------------------------------------------------------------
(* Arithmetic of the header.                                               *)

LEMMA Constants ==
  /\ Page \in Nat \ {0} /\ Bank \in Nat /\ DWords \in Nat
  /\ Page <= Word /\ 6 * Block <= DWords
  /\ Header \in 0 .. Block /\ Tail \in 0 .. Page /\ NearEnd \in 0 .. Page
  /\ Sizes \subseteq 1 .. Bank /\ Points \subseteq 0 .. 2 * Bank /\ Clips \subseteq 0 .. Bank
<1>1. ASSUME NEW w \in Nat \ {0}, NEW p \in Nat \ {0}, w % p = 0 PROVE p <= w
  BY <1>1, SMT
<1> QED
  BY <1>1, WaveSizesAssumption DEF Word, Block

LEMMA PlusMinus ==
  ASSUME NEW a \in DWORD, NEW b \in DWORD
  PROVE  /\ Plus(a, b) \in DWORD /\ Minus(a, b) \in DWORD
         /\ a + b < DWords => Plus(a, b) = a + b
         /\ b <= a => Minus(a, b) = a - b
BY Constants DEF Plus, Minus, DWORD

(* What is taken from both sizes, or added to both, leaves the RIFF size   *)
(* that of header and data.                                                *)
LEMMA BothSizes ==
  ASSUME NEW data \in DWORD, NEW x \in DWORD
  PROVE  /\ Minus(Plus(Header, data), x) = Plus(Header, Minus(data, x))
         /\ Plus(Plus(Header, data), x) = Plus(Header, Plus(data, x))
BY Constants DEF Plus, Minus, DWORD, Block

LEMMA PageOfBounds ==
  ASSUME NEW x \in Nat
  PROVE  /\ PageOf(x) \in 0 .. Bank /\ PageOf(x) <= x
         /\ LowByte(x) \in 0 .. Page - 1
<1>1. ASSUME NEW w \in Nat \ {0}, NEW p \in Nat \ {0}
      PROVE  /\ x % w \in 0 .. w - 1 /\ x % w <= x
             /\ (x % w) % p \in 0 .. x % w /\ x % p \in 0 .. p - 1
  BY SMT
<1>2. Word \in Nat \ {0} /\ Page \in Nat \ {0} /\ Word - 1 = Bank
  BY Constants DEF Word
<1>3. /\ x % Word \in 0 .. Word - 1 /\ x % Word <= x
      /\ (x % Word) % Page \in 0 .. x % Word /\ x % Page \in 0 .. Page - 1
  BY <1>1, <1>2
<1> QED
  BY <1>2, <1>3, Constants DEF PageOf, LowByte

LEMMA RoundedBounds ==
  ASSUME TypeOK, NEW length \in DWORD
  PROVE  Rounded(length) \in DWORD /\ Rounded(length) <= length + 2 * Page
<1>1. DWORD \subseteq Nat /\ Page \in DWORD /\ Plus(length, Page) <= length + Page
  BY Constants DEF DWORD, Plus, Word, Block
<1>2. Plus(length, Page) \in DWORD
  BY <1>1, PlusMinus
<1>3. PageOf(length) \in 0 .. Bank /\ PageOf(length) <= length
  BY <1>1, PageOfBounds
<1>4. PageOf(Plus(length, Page)) \in 0 .. Bank /\ PageOf(Plus(length, Page)) <= length + Page
  BY <1>1, <1>2, PageOfBounds, Constants DEF DWORD
<1> QED
  BY <1>1, <1>3, <1>4, Constants DEF Rounded, DWORD, Word, Block

LEMMA ScaledBounds ==
  ASSUME NEW v \in DWORD, NEW m \in Nat, NEW n \in Nat \ {0}
  PROVE  Scaled(v, m, n) \in DWORD
<1>1. (v * m) \div n \in Nat
  <2>1. v * m \in Nat
    BY DEF DWORD
  <2> QED
    BY <2>1, SMT
<1> QED
  BY <1>1, Constants DEF Scaled, DWORD, Block

(* Scaling to the size it has changes no number of a wave that fits.       *)
LEMMA ScaledSame ==
  ASSUME NEW v \in 0 .. Bank, NEW n \in Nat \ {0}
  PROVE  Scaled(v, n, n) = v
<1>1. (v * n) \div n = v /\ (v * n) % n = 0
  BY Constants, SMT
<1> QED
  BY <1>1, Constants DEF Scaled, Block

-----------------------------------------------------------------------------
(* Types.                                                                  *)

LEMMA TypeInit == Init => IInv
<1> SUFFICES ASSUME Init PROVE IInv
  OBVIOUS
<1>1. /\ sel = NoSelection /\ m_endpoint_selected = FALSE
      /\ dialog = FALSE /\ loop = NoLoop
  BY DEF Init
<1>2. 0 \in DWORD
  BY Constants DEF DWORD, Block
<1>3. wave \in Waves => IInv
  BY <1>2, <1>1 DEF IInv, TypeOK, SelectionOrder, NoSelection, NoLoop, Waves
<1>4. PICK size \in Sizes :
         \/ wave = DefaultLoop(size)
         \/ \E start, end \in 0 .. size : wave = GivenLoop(size, start, end)
  BY DEF Init
<1>5. size \in DWORD /\ size \in 0 .. Bank /\ Page \in DWORD /\ Tail \in DWORD /\ Header \in DWORD
  BY Constants DEF DWORD, Word, Block
<1>6. CASE wave = DefaultLoop(size)
  <2>1. wave \in Waves
    BY <1>5, <1>6, PlusMinus DEF DefaultLoop, Waves
  <2> QED
    BY <1>3, <2>1
<1>7. ASSUME NEW start \in 0 .. size, NEW end \in 0 .. size, wave = GivenLoop(size, start, end)
      PROVE  IInv
  <2>1. PageOf(start) \in DWORD /\ end \in DWORD
    BY <1>5, PageOfBounds, Constants DEF DWORD, Block
  <2>2. wave \in Waves
    BY <1>5, <1>7, <2>1, PlusMinus DEF GivenLoop, Waves
  <2> QED
    BY <1>3, <2>2
<1> QED
  BY <1>4, <1>6, <1>7

(* What a selection is good for.                                           *)
LEMMA SelectionSizes ==
  ASSUME IInv
  PROVE  /\ sel.start \in Points \cup {-1} /\ sel.end \in Points \cup {-1}
         /\ sel.start \in Int /\ sel.end \in Int
         /\ SelectionSize \in DWORD
         /\ sel.start >= 0 => sel.start \in DWORD /\ sel.end \in DWORD
         /\ wave.riff \in DWORD /\ wave.data \in DWORD
         /\ wave.start \in DWORD /\ wave.end \in DWORD /\ wave \in Waves
<1>1. Points \cup {-1} \subseteq -1 .. 2 * Bank /\ 0 .. 2 * Bank \subseteq DWORD
  BY Constants DEF DWORD, Block
<1>2. /\ sel.start \in Points \cup {-1} /\ sel.end \in Points \cup {-1}
      /\ wave \in Waves
  BY DEF IInv, TypeOK, Waves
<1>3. sel.start \in -1 .. 2 * Bank /\ sel.end \in -1 .. 2 * Bank /\ sel.start <= sel.end
  BY <1>1, <1>2 DEF IInv, SelectionOrder, NoSelection
<1>4. SelectionSize \in 0 .. 2 * Bank + 1
  BY <1>3, Constants DEF SelectionSize, IInv, SelectionOrder, NoSelection
<1>5. 0 .. 2 * Bank + 1 \subseteq DWORD
  BY Constants DEF DWORD, Block
<1> QED
  BY <1>1, <1>2, <1>3, <1>4, <1>5, Constants DEF Waves

LEMMA FitsIsBoolean == \A offset, length : Fits(offset, length) \in BOOLEAN
BY DEF Fits

(* A command whose wave is made of DWORDs keeps the types.                 *)
LEMMA CommandKeeps ==
  ASSUME IInv, NEW name, NEW ok \in BOOLEAN, NEW w, NEW s, Command(name, ok, w, s),
         ok => w \in Waves, s \in {sel, NoSelection}
  PROVE  IInv'
<1>1. wave' \in Waves /\ sel' \in {sel, NoSelection} /\ UNCHANGED <<m_endpoint_selected, dialog, loop>>
  BY DEF Command, IInv, TypeOK, Waves
<1>2. NoSelection \in [start : Points \cup {-1}, end : Points \cup {-1}]
  BY DEF NoSelection
<1> QED
  BY <1>1, <1>2 DEF IInv, TypeOK, SelectionOrder, Waves

LEMMA ResizeTypes ==
  ASSUME NEW w \in Waves, NEW size \in DWORD
  PROVE  ResizeData(w, size) \in Waves /\ ResizeRiff(w, size) \in Waves
<1>1. Minus(w.data, size) \in DWORD
  BY PlusMinus DEF Waves
<1>2. Minus(w.data, Minus(w.data, size)) \in DWORD /\ Minus(w.riff, Minus(w.data, size)) \in DWORD
  BY <1>1, PlusMinus DEF Waves
<1> QED
  BY <1>2 DEF ResizeData, ResizeRiff, Waves

LEMMA CutTypes == IInv /\ OnEditCut => IInv'
<1> SUFFICES ASSUME IInv, OnEditCut PROVE IInv'
  OBVIOUS
<1>1. SelectionSize \in DWORD /\ sel.start \in DWORD
  BY SelectionSizes DEF OnEditCut, HasSelection
<1>2. CutStart \in DWORD /\ CutEnd \in DWORD
  BY <1>1, SelectionSizes, PlusMinus DEF CutStart, CutEnd
<1>3. /\ Minus(wave.riff, SelectionSize) \in DWORD
      /\ Minus(wave.data, SelectionSize) \in DWORD
  BY <1>1, SelectionSizes, PlusMinus
<1> QED
  BY <1>2, <1>3, CommandKeeps DEF OnEditCut, Waves

LEMMA PasteTypes ==
  ASSUME IInv, NEW clip \in Clips
  PROVE  /\ OnEditPaste(clip) => IInv'
         /\ OnPastespecialAppend(clip) => IInv'
         /\ OnPastespecialPrepend(clip) => IInv'
         /\ \A count \in Repeats : OnPastespecialMultiplecopies(clip, count) => IInv'
<1>1. clip \in DWORD /\ clip \in Nat /\ clip <= Bank
  BY Constants DEF DWORD, Block
<1>2. PasteSize(clip) \in DWORD
  BY <1>1, SelectionSizes, PlusMinus DEF PasteSize
<1>3. PasteFits(clip) \in BOOLEAN /\ Pasted(clip) \in Waves
  BY <1>2, SelectionSizes DEF Pasted, PasteFits, Waves
<1>4. ASSUME OnEditPaste(clip) PROVE IInv'
  BY <1>3, <1>4, CommandKeeps DEF OnEditPaste
<1>5. ASSUME NEW more \in DWORD
      PROVE  [wave EXCEPT !.data = Plus(@, more), !.riff = Plus(@, more)] \in Waves
  <2>1. Plus(wave.data, more) \in DWORD /\ Plus(wave.riff, more) \in DWORD
    BY SelectionSizes, PlusMinus
  <2> QED
    BY <2>1, SelectionSizes DEF Waves
<1>6. ASSUME NEW name, NEW place, PasteAt(name, place, clip) PROVE IInv'
  BY <1>1, <1>5, <1>6, CommandKeeps DEF PasteAt
<1>7. ASSUME NEW count \in Repeats, OnPastespecialMultiplecopies(clip, count) PROVE IInv'
  <2>1. count * clip \in Nat /\ count * clip - clip \in Nat
    <3>1. ASSUME NEW k \in Nat \ {0}, NEW c \in Nat PROVE k * c \in Nat /\ k * c - c \in Nat
      BY SMT
    <3> QED
      BY <1>1, <3>1, WaveSizesAssumption
  <2>2. Fits(0, count * clip) => count * clip - clip \in DWORD
    BY <1>1, <2>1, Constants DEF Fits, DWORD, Block
  <2> DEFINE more == count * clip - clip
             w == [wave EXCEPT !.data = Plus(@, more), !.riff = Plus(@, more)]
  <2>3. Fits(0, count * clip) => w \in Waves
    BY <1>5, <2>2
  <2>4. Command("Multiple copies", Fits(0, count * clip), w, sel)
    BY <1>7, Zenon DEF OnPastespecialMultiplecopies
  <2> HIDE DEF w
  <2> QED
    BY <2>3, <2>4, CommandKeeps, FitsIsBoolean
<1> QED
  BY <1>4, <1>6, <1>7 DEF OnPastespecialAppend, OnPastespecialPrepend

LEMMA TruncateTypes ==
  IInv /\ (OnTruncateAfterloop \/ OnTruncateBeforeloop \/ OnTruncateOnlykeeploop
           \/ KeepOnlySelection) => IInv'
<1> SUFFICES ASSUME IInv PROVE
      /\ OnTruncateAfterloop => IInv'
      /\ OnTruncateBeforeloop => IInv'
      /\ OnTruncateOnlykeeploop => IInv'
      /\ KeepOnlySelection => IInv'
  OBVIOUS
<1>1. TypeOK /\ Minus(wave.end, wave.start) \in DWORD
  BY SelectionSizes, PlusMinus DEF IInv
<1>2. Rounded(wave.end) \in DWORD /\ Rounded(Minus(wave.end, wave.start)) \in DWORD
  BY <1>1, SelectionSizes, RoundedBounds
<1>3. ASSUME OnTruncateAfterloop PROVE IInv'
  <2>1. ResizeRiff(wave, Rounded(wave.end)) \in Waves
    BY <1>2, SelectionSizes, ResizeTypes
  <2> QED
    BY <1>3, <2>1, CommandKeeps DEF OnTruncateAfterloop
<1>4. ASSUME NEW name, NEW size \in DWORD, KeepLoop(name, size) PROVE IInv'
  <2>1. 0 \in DWORD
    BY Constants DEF DWORD, Block
  <2>2. ResizeRiff(wave, size) \in Waves /\ ResizeRiff(wave, size).end = wave.end
    BY <1>4, SelectionSizes, ResizeTypes DEF ResizeRiff, ResizeData, Waves
  <2> DEFINE w == [ResizeRiff(wave, size) EXCEPT !.start = 0, !.end = Minus(@, wave.start)]
  <2>3. w \in Waves
    BY <1>1, <2>1, <2>2 DEF Waves
  <2>4. Command(name, Fits(wave.start, size), w, NoSelection)
    BY <1>4, Zenon DEF KeepLoop
  <2> HIDE DEF w
  <2> QED
    BY <2>3, <2>4, CommandKeeps, FitsIsBoolean
<1>5. ASSUME KeepOnlySelection PROVE IInv'
  <2>1. SelectionSize \in DWORD /\ sel.start \in DWORD
    BY <1>5, SelectionSizes DEF KeepOnlySelection
  <2>2. /\ ResizeRiff(wave, SelectionSize) \in Waves
        /\ ResizeRiff(wave, SelectionSize).start = wave.start
        /\ ResizeRiff(wave, SelectionSize).end = wave.end
    BY <2>1, SelectionSizes, ResizeTypes DEF ResizeRiff, ResizeData, Waves
  <2>3. Minus(wave.start, sel.start) \in DWORD /\ Minus(wave.end, sel.start) \in DWORD
    BY <2>1, SelectionSizes, PlusMinus
  <2> DEFINE w == [ResizeRiff(wave, SelectionSize) EXCEPT !.start = Minus(@, sel.start),
                                                          !.end = Minus(@, sel.start)]
  <2>4. w \in Waves
    BY <2>2, <2>3 DEF Waves
  <2>5. Command("Keep selection", Fits(sel.start, SelectionSize), w, NoSelection)
    BY <1>5, Zenon DEF KeepOnlySelection
  <2> HIDE DEF w
  <2> QED
    BY <2>4, <2>5, CommandKeeps, FitsIsBoolean
<1> QED
  BY <1>1, <1>2, <1>3, <1>4, <1>5 DEF OnTruncateBeforeloop, OnTruncateOnlykeeploop

LEMMA ResampleToKeeps ==
  ASSUME IInv, NEW name, NEW ok \in BOOLEAN, NEW size \in DWORD,
         NEW m \in Nat, NEW n \in Nat \ {0}, ResampleTo(name, ok, size, m, n)
  PROVE  IInv'
<1>1. Header \in DWORD /\ DWORD \subseteq Nat
  BY Constants DEF DWORD, Block
<1>2. Scaled(wave.start, m, n) \in DWORD /\ Minus(wave.end, wave.start) \in DWORD
  BY SelectionSizes, ScaledBounds, PlusMinus
<1>3. Scaled(Minus(wave.end, wave.start), m, n) \in DWORD
  BY <1>2, ScaledBounds
<1>4. PageOf(Scaled(wave.start, m, n)) \in DWORD
  BY <1>1, <1>2, PageOfBounds, Constants DEF DWORD, Block
<1> DEFINE start == PageOf(Scaled(wave.start, m, n))
           w == [riff |-> Plus(Header, size), data |-> size, start |-> start,
                 end |-> Plus(start, Scaled(Minus(wave.end, wave.start), m, n))]
<1>5. w \in Waves
  BY <1>1, <1>3, <1>4, PlusMinus DEF Waves
<1>6. Command(name, ok /\ Fits(0, wave.data), w, sel)
  BY Zenon DEF ResampleTo
<1> HIDE DEF w
<1>7. (ok /\ Fits(0, wave.data)) \in BOOLEAN
  BY DEF Fits
<1> QED
  BY <1>5, <1>6, <1>7, CommandKeeps

(* No number of pages up to that of the bank makes more than a Word.       *)
LEMMA PagesFit ==
  ASSUME NEW pages \in 1 .. Word \div Page
  PROVE  /\ pages \in Nat /\ pages * Page \in 0 .. Word
         /\ pages # Word \div Page => pages * Page <= Bank
<1>1. ASSUME NEW w \in Nat, NEW p \in Nat \ {0}, NEW k \in 1 .. w \div p
      PROVE  /\ w \div p \in Nat /\ k * p \in 0 .. w
             /\ k # w \div p => (k + 1) * p <= w
  <2>1. w \div p \in Nat /\ (w \div p) * p <= w
    BY SMT
  <2>2. k * p \in Nat /\ (k + 1) * p = k * p + p
    BY <2>1, SMT
  <2>3. k <= w \div p /\ k * p <= (w \div p) * p
    BY <2>1, SMT
  <2>4. ASSUME k # w \div p PROVE (k + 1) * p <= (w \div p) * p
    <3>1. k + 1 <= w \div p
      BY <2>1, <2>3, <2>4
    <3> QED
      BY <2>1, <3>1, SMT
  <2> QED
    BY <2>1, <2>2, <2>3, <2>4, SMT
<1>2. Word \in Nat /\ Page \in Nat \ {0} /\ Word = Bank + 1 /\ Bank \in Nat
  BY Constants DEF Word
<1>3. /\ Word \div Page \in Nat /\ pages * Page \in 0 .. Word
      /\ pages # Word \div Page => (pages + 1) * Page <= Word
  BY <1>1, <1>2
<1>4. (pages + 1) * Page = pages * Page + Page
  BY <1>2, <1>3, SMT
<1> QED
  BY <1>2, <1>3, <1>4

LEMMA ResampleTypes ==
  ASSUME IInv
  PROVE  /\ \A pages \in 1 .. Word \div Page : OnToolsResample(pages) => IInv'
         /\ \A r \in Ratios : Resample(r[1], r[2]) => IInv'
<1>1. wave.data \in Nat /\ DWORD \subseteq Nat
  BY SelectionSizes DEF DWORD
<1>2. ASSUME NEW pages \in 1 .. Word \div Page, OnToolsResample(pages) PROVE IInv'
  <2> DEFINE size == pages * Page
  <2>1. size \in DWORD /\ size \in Nat
    BY PagesFit, Constants DEF Word, Block, DWORD
  <2>2. wave.data \in Nat \ {0}
    BY <1>1, <1>2 DEF OnToolsResample
  <2>3. PICK ok \in BOOLEAN : ResampleTo("Resample", ok, size, size, wave.data)
    <3>1. \E ok \in {TRUE, size <= Bank} : ResampleTo("Resample", ok, size, size, wave.data)
      BY <1>2, Zenon DEF OnToolsResample
    <3>2. (size <= Bank) \in BOOLEAN
      OBVIOUS
    <3> QED
      BY <3>1, <3>2, Zenon
  <2> HIDE DEF size
  <2> QED
    BY <2>1, <2>2, <2>3, ResampleToKeeps
<1>3. ASSUME NEW r \in Ratios, Resample(r[1], r[2]) PROVE IInv'
  <2>1. r[1] \in Nat \ {0} /\ r[2] \in Nat \ {0}
    BY WaveSizesAssumption
  <2> DEFINE size == (wave.data * r[1]) \div r[2]
  <2>2. size \in Nat
    <3>1. wave.data * r[1] \in Nat
      BY <1>1, <2>1, SMT
    <3> QED
      BY <2>1, <3>1, SMT
  <2>3. ResampleTo("wheel", Fits(0, size + 1), size, r[1], r[2])
    BY <1>3, Zenon DEF Resample
  <2> HIDE DEF size
  <2>4. CASE Fits(0, size + 1)
    <3>1. size \in DWORD
      BY <2>2, <2>4, Constants DEF Fits, DWORD, Block
    <3> QED
      BY <2>1, <2>3, <3>1, FitsIsBoolean, ResampleToKeeps
  <2>5. CASE ~Fits(0, size + 1)
    <3>1. UNCHANGED <<wave, sel, m_endpoint_selected, dialog, loop>>
      BY <2>3, <2>5 DEF ResampleTo, Command
    <3> QED
      BY <3>1 DEF IInv, TypeOK, SelectionOrder, NoSelection
  <2> QED
    BY <2>4, <2>5
<1> QED
  BY <1>2, <1>3

LEMMA ReopenTypes == IInv /\ Reopen => IInv'
<1> SUFFICES ASSUME IInv, Reopen PROVE IInv'
  OBVIOUS
<1> DEFINE size == IF wave.data > Bank THEN Bank ELSE wave.data
<1>1. wave.data \in Nat \ {0} /\ DWORD \subseteq Nat /\ Bank \in DWORD /\ Header \in DWORD
  BY SelectionSizes, Constants DEF Reopen, Readable, DWORD, Block
<1>2. size \in DWORD /\ size \in Nat
  BY <1>1, SelectionSizes
<1>3. /\ Scaled(wave.end, size, wave.data) \in DWORD
      /\ Scaled(wave.start, size, wave.data) \in DWORD
  BY <1>1, <1>2, SelectionSizes, ScaledBounds
<1>4. PageOf(Scaled(wave.start, size, wave.data)) \in DWORD
  BY <1>1, <1>3, PageOfBounds, Constants DEF DWORD, Block
<1>5. ReadBack(wave) \in Waves
  BY <1>1, <1>2, <1>3, <1>4, PlusMinus DEF ReadBack, Waves
<1>6. Command("SaveWAV", wave.riff <= Header + Block, ReadBack(wave), NoSelection)
  BY Zenon DEF Reopen
<1>7. (wave.riff <= Header + Block) \in BOOLEAN
  OBVIOUS
<1> QED
  BY <1>5, <1>6, <1>7, CommandKeeps

LEMMA MouseTypes ==
  ASSUME IInv
  PROVE  /\ OnLButtonDown => IInv'
         /\ OtherMove => IInv'
         /\ \A x \in Points, shift \in BOOLEAN : DragSelection(x, shift) => IInv'
         /\ \A x \in Points, shift, off \in BOOLEAN : DragLoop(x, shift, off) => IInv'
<1>1. ASSUME UNCHANGED <<wave, dialog, loop>>, m_endpoint_selected' \in BOOLEAN,
             sel' \in [start : Points \cup {-1}, end : Points \cup {-1}], SelectionOrder'
      PROVE  IInv'
  BY <1>1 DEF IInv, TypeOK
<1>2. CASE OnLButtonDown
  BY <1>1, <1>2 DEF OnLButtonDown, MouseUnchanged, NoSelection, SelectionOrder, IInv, TypeOK
<1>3. CASE OtherMove
  BY <1>1, <1>3 DEF OtherMove, MouseUnchanged, NoSelection, SelectionOrder, IInv, TypeOK
<1>4. ASSUME NEW x \in Points, NEW shift \in BOOLEAN, DragSelection(x, shift) PROVE IInv'
  <2>1. /\ x \in Nat /\ x \in Points \cup {-1}
        /\ sel.start \in Points \cup {-1} /\ sel.end \in Points \cup {-1}
        /\ sel.start \in Int /\ sel.end \in Int
        /\ sel.start = -1 => sel.end = -1
        /\ sel.start <= sel.end
    BY SelectionSizes, Constants DEF IInv, SelectionOrder, NoSelection
  <2> DEFINE anew == \/ (shift \/ sel.end = -1) /\ x <= Long(wave.data)
                     \/ sel.start = -1
             start == IF anew /\ ~(sel.end # -1 /\ x > sel.end) THEN x ELSE sel.start
             end == IF x > start /\ x < Long(wave.data) THEN x
                    ELSE IF anew /\ sel.end = -1 THEN start
                    ELSE sel.end
  <2>2. /\ start \in Points \cup {-1} /\ end \in Points \cup {-1}
        /\ start \in Int /\ end \in Int
    BY <2>1
  <2>3. (start = -1 /\ end = -1) \/ (0 <= start /\ start <= end)
    <3>1. CASE anew /\ sel.end = -1
      BY <2>1, <3>1
    <3>2. CASE anew /\ sel.end # -1
      BY <2>1, <3>2, Constants DEF IInv, SelectionOrder, NoSelection
    <3>3. CASE ~anew
      BY <2>1, <3>3, Constants DEF IInv, SelectionOrder, NoSelection
    <3> QED
      BY <3>1, <3>2, <3>3
  <2>4. sel' = [start |-> start, end |-> end]
    BY <1>4, Zenon DEF DragSelection
  <2> HIDE DEF start, end
  <2>5. SelectionOrder' /\ sel' \in [start : Points \cup {-1}, end : Points \cup {-1}]
    BY <2>2, <2>3, <2>4 DEF SelectionOrder, NoSelection
  <2>6. UNCHANGED <<wave, dialog, loop>> /\ m_endpoint_selected' \in BOOLEAN
    BY <1>4 DEF DragSelection, MouseUnchanged
  <2> QED
    BY <1>1, <2>5, <2>6
<1>5. ASSUME NEW x \in Points, NEW shift \in BOOLEAN, NEW off \in BOOLEAN,
             DragLoop(x, shift, off)
      PROVE  IInv'
  <2>1. x \in DWORD /\ x \in Nat /\ Tail \in DWORD
    BY Constants DEF DWORD, Block, Word
  <2>2. PageOf(x) \in DWORD /\ Minus(wave.data, Tail) \in DWORD
    <3>1. PageOf(x) \in DWORD
      BY <2>1, PageOfBounds, Constants DEF DWORD, Block
    <3> QED
      BY <2>1, <3>1, SelectionSizes, PlusMinus
  <2>3. wave' \in Waves
    BY <1>5, <2>1, <2>2, SelectionSizes DEF DragLoop, Waves
  <2>4. m_endpoint_selected' \in BOOLEAN /\ UNCHANGED <<sel, dialog, loop>>
    BY <1>5 DEF DragLoop, MouseUnchanged, IInv, TypeOK
  <2> QED
    BY <2>3, <2>4 DEF IInv, TypeOK, SelectionOrder, NoSelection, Waves
<1> QED
  BY <1>2, <1>3, <1>4, <1>5

LEMMA DialogTypes ==
  ASSUME IInv
  PROVE  /\ OnToolsLoopwindow => IInv'
         /\ LoopButton => IInv'
         /\ \A use \in BOOLEAN : EndDialog(use) => IInv'
<1>1. /\ loop.start \in DWORD /\ loop.end \in DWORD /\ loop \in [start : DWORD, end : DWORD]
      /\ Page \in DWORD /\ 0 \in DWORD /\ 1 \in DWORD /\ DWORD \subseteq Nat
  BY Constants DEF IInv, TypeOK, DWORD, Word, Block
<1>2. CASE OnToolsLoopwindow
  <2>1. loop' \in [start : DWORD, end : DWORD] /\ dialog' \in BOOLEAN
    <3>1. [start |-> wave.start, end |-> wave.end] \in [start : DWORD, end : DWORD]
      BY SelectionSizes
    <3>2. \/ loop' = [start |-> wave.start, end |-> wave.end] /\ dialog' = TRUE
          \/ UNCHANGED <<loop, dialog>>
      BY <1>2, Zenon DEF OnToolsLoopwindow
    <3>3. dialog \in BOOLEAN
      BY DEF IInv, TypeOK
    <3> QED
      BY <1>1, <3>1, <3>2, <3>3
  <2>2. UNCHANGED <<wave, sel, m_endpoint_selected>>
    BY <1>2 DEF OnToolsLoopwindow
  <2> QED
    BY <2>1, <2>2 DEF IInv, TypeOK, SelectionOrder, NoSelection
<1>3. ASSUME NEW start \in DWORD, NEW end \in DWORD, LoopMoves(start, end) PROVE IInv'
  BY <1>3 DEF LoopMoves, IInv, TypeOK, SelectionOrder, NoSelection
<1>4. CASE LoopButton
  <2>1. /\ Minus(loop.end, Page) \in DWORD /\ Plus(loop.end, Page) \in DWORD
        /\ Minus(loop.end, 1) \in DWORD /\ Plus(loop.end, 1) \in DWORD
        /\ Minus(loop.start, Page) \in DWORD /\ Plus(loop.start, Page) \in DWORD
    BY <1>1, PlusMinus
  <2>2. CASE LoopEndF \/ LoopEndB \/ LoopEndFineF \/ LoopEndFineB
    BY <1>1, <1>3, <2>1, <2>2 DEF LoopEndF, LoopEndB, LoopEndFineF, LoopEndFineB
  <2>3. CASE LoopStartF \/ LoopStartB
    BY <1>1, <1>3, <2>1, <2>3 DEF LoopStartF, LoopStartB
  <2>4. CASE LoopEndPage
    <3> DEFINE page == IF LowByte(loop.end) >= Page \div 2 THEN PageOf(Plus(loop.end, Page))
                       ELSE PageOf(loop.end)
    <3>1. page \in DWORD
      BY <1>1, <2>1, PageOfBounds, Constants DEF DWORD, Block
    <3>2. LoopMoves(loop.start, Minus(page, 1))
      BY <2>4, Zenon DEF LoopEndPage
    <3> HIDE DEF page
    <3>3. Minus(page, 1) \in DWORD
      BY <1>1, <3>1, PlusMinus
    <3> QED
      BY <1>1, <1>3, <3>2, <3>3
  <2> QED
    BY <1>4, <2>2, <2>3, <2>4 DEF LoopButton
<1>5. ASSUME NEW use \in BOOLEAN, EndDialog(use) PROVE IInv'
  <2>1. wave' \in Waves
    BY <1>1, <1>5, SelectionSizes DEF EndDialog, Waves
  <2> QED
    BY <1>1, <1>5, <2>1 DEF EndDialog, IInv, TypeOK, SelectionOrder, NoSelection, NoLoop, Waves
<1> QED
  BY <1>2, <1>4, <1>5

LEMMA TypeStep == IInv /\ [Next]_vars => IInv'
<1> SUFFICES ASSUME IInv, [Next]_vars PROVE IInv'
  OBVIOUS
<1>1. CASE Edit
  BY <1>1, CutTypes, PasteTypes, TruncateTypes DEF Edit
<1>2. CASE Tools
  BY <1>2, ResampleTypes, ReopenTypes, DialogTypes DEF Tools
<1>3. CASE Mouse
  BY <1>3, MouseTypes DEF Mouse
<1>4. CASE UNCHANGED vars
  BY <1>4 DEF vars, IInv, TypeOK, SelectionOrder, NoSelection
<1> QED
  BY <1>1, <1>2, <1>3, <1>4 DEF Next

(* Every number of the header stays a DWORD and every selection is made of *)
(* places in the wave view, for any bank (WaveSizes.TypeOK).               *)
THEOREM TypeCorrect == Spec => []TypeOK
<1>1. IInv => TypeOK
  BY DEF IInv
<1> QED
  BY <1>1, TypeInit, TypeStep, PTL DEF Spec

LEMMA Invariance == Spec => []IInv
BY TypeInit, TypeStep, PTL DEF Spec

-----------------------------------------------------------------------------
(* What the file holds.                                                    *)

(* A command that takes the same number from both sizes, or adds it.       *)
LEMMA ResizeWhole ==
  ASSUME NEW w \in Waves, Whole(w), NEW size \in DWORD
  PROVE  Whole(ResizeRiff(w, size))
<1>1. Minus(w.data, size) \in DWORD
  BY PlusMinus DEF Waves
<1>2. /\ ResizeRiff(w, size).riff = Minus(w.riff, Minus(w.data, size))
      /\ ResizeRiff(w, size).data = Minus(w.data, Minus(w.data, size))
  BY DEF ResizeRiff, ResizeData, Waves
<1> QED
  BY <1>1, <1>2, BothSizes DEF Whole, Waves

LEMMA CommandWhole ==
  ASSUME NEW name, NEW ok \in BOOLEAN, NEW w, NEW s, Command(name, ok, w, s),
         Whole(wave), ok => Whole(w)
  PROVE  Whole(wave')
BY DEF Command, Whole

LEMMA EditWhole ==
  ASSUME IInv, Edit, Whole(wave)
  PROVE  Whole(wave') \/ \E clip \in Clips : OnEditPaste(clip)
<1>1. CASE OnEditCut
  <2>1. SelectionSize \in DWORD
    BY SelectionSizes
  <2> DEFINE w == [riff |-> Minus(wave.riff, SelectionSize),
                   data |-> Minus(wave.data, SelectionSize),
                   start |-> CutStart, end |-> CutEnd]
  <2>2. Whole(w)
    BY <2>1, SelectionSizes, BothSizes DEF Whole
  <2>3. Command("Cut", sel.end <= wave.data /\ Fits(0, wave.data), w, NoSelection)
    BY <1>1, Zenon DEF OnEditCut
  <2> HIDE DEF w
  <2>4. (sel.end <= wave.data /\ Fits(0, wave.data)) \in BOOLEAN
    BY DEF Fits
  <2> QED
    BY <2>2, <2>3, <2>4, CommandWhole
<1>2. ASSUME NEW more \in DWORD
      PROVE  Whole([wave EXCEPT !.data = Plus(@, more), !.riff = Plus(@, more)])
  <2> DEFINE w == [wave EXCEPT !.data = Plus(@, more), !.riff = Plus(@, more)]
  <2>1. w.riff = Plus(wave.riff, more) /\ w.data = Plus(wave.data, more)
    BY SelectionSizes DEF Waves
  <2> HIDE DEF w
  <2>2. Whole(w)
    BY <2>1, SelectionSizes, BothSizes DEF Whole
  <2> QED
    BY <2>2 DEF w
<1>3. ASSUME NEW clip \in Clips, NEW name, NEW place, PasteAt(name, place, clip)
      PROVE  Whole(wave')
  <2> DEFINE ok == /\ place >= 0 \/ clip = 0
                   /\ clip <= wave.data
                   /\ Fits(place, wave.data)
             w == [wave EXCEPT !.data = Plus(@, clip), !.riff = Plus(@, clip)]
  <2>1. clip \in DWORD
    BY Constants DEF DWORD, Block
  <2>2. Whole(w)
    BY <1>2, <2>1
  <2>3. Command(name, ok, w, sel)
    BY <1>3, Zenon DEF PasteAt
  <2>4. ok \in BOOLEAN
    BY DEF Fits
  <2> HIDE DEF w, ok
  <2> QED
    BY <2>2, <2>3, <2>4, CommandWhole
<1>4. ASSUME NEW clip \in Clips, NEW count \in Repeats,
             OnPastespecialMultiplecopies(clip, count)
      PROVE  Whole(wave')
  <2>1. clip \in Nat /\ count \in Nat \ {0}
    BY Constants, WaveSizesAssumption
  <2>2. count * clip \in Nat /\ count * clip - clip \in Nat
    BY <2>1, SMT
  <2> DEFINE more == count * clip - clip
             w == [wave EXCEPT !.data = Plus(@, more), !.riff = Plus(@, more)]
  <2>3. Fits(0, count * clip) => Whole(w)
    <3>1. Fits(0, count * clip) => more \in DWORD
      BY <2>1, <2>2, Constants DEF Fits, DWORD, Block
    <3> HIDE DEF more
    <3> QED
      BY <1>2, <3>1
  <2>4. Command("Multiple copies", Fits(0, count * clip), w, sel)
    BY <1>4, Zenon DEF OnPastespecialMultiplecopies
  <2> HIDE DEF w
  <2> QED
    BY <2>3, <2>4, FitsIsBoolean, CommandWhole
<1>5. TypeOK /\ Minus(wave.end, wave.start) \in DWORD
  BY SelectionSizes, PlusMinus DEF IInv
<1>6. Rounded(wave.end) \in DWORD /\ Rounded(Minus(wave.end, wave.start)) \in DWORD
  BY <1>5, SelectionSizes, RoundedBounds
<1>7. CASE OnTruncateAfterloop
  <2>1. Whole(ResizeRiff(wave, Rounded(wave.end)))
    BY <1>6, SelectionSizes, ResizeWhole
  <2> QED
    BY <1>7, <2>1, CommandWhole DEF OnTruncateAfterloop
<1>8. ASSUME NEW size \in DWORD, NEW w, wave' = w,
             w.riff = ResizeRiff(wave, size).riff, w.data = ResizeRiff(wave, size).data
      PROVE  Whole(wave')
  <2>1. Whole(ResizeRiff(wave, size))
    BY SelectionSizes, ResizeWhole
  <2> QED
    BY <1>8, <2>1 DEF Whole
<1>9. ASSUME NEW name, NEW size \in DWORD, KeepLoop(name, size) PROVE Whole(wave')
  <2> DEFINE w == [ResizeRiff(wave, size) EXCEPT !.start = 0, !.end = Minus(@, wave.start)]
  <2>1. ResizeRiff(wave, size) \in Waves
    BY SelectionSizes, ResizeTypes
  <2>2. w.riff = ResizeRiff(wave, size).riff /\ w.data = ResizeRiff(wave, size).data
    BY <2>1 DEF Waves
  <2>3. wave' = w \/ wave' = wave
    BY <1>9, Zenon DEF KeepLoop, Command
  <2> HIDE DEF w
  <2> QED
    BY <1>8, <2>2, <2>3
<1>10. CASE KeepOnlySelection
  <2> DEFINE r == ResizeRiff(wave, SelectionSize)
             w == [r EXCEPT !.start = Minus(@, sel.start), !.end = Minus(@, sel.start)]
  <2>1. r \in Waves /\ SelectionSize \in DWORD
    BY SelectionSizes, ResizeTypes
  <2>2. w.riff = r.riff /\ w.data = r.data
    BY <2>1 DEF Waves
  <2>3. wave' = w \/ wave' = wave
    BY <1>10, Zenon DEF KeepOnlySelection, Command
  <2> HIDE DEF w
  <2> QED
    BY <1>8, <2>1, <2>2, <2>3
<1> QED
  BY <1>1, <1>3, <1>4, <1>5, <1>6, <1>7, <1>9, <1>10
     DEF Edit, OnPastespecialAppend, OnPastespecialPrepend,
         OnTruncateBeforeloop, OnTruncateOnlykeeploop

LEMMA OtherWhole ==
  ASSUME IInv, Tools \/ Mouse, Whole(wave)
  PROVE  Whole(wave')
<1>1. ASSUME NEW name, NEW ok, NEW size, NEW m, NEW n, ResampleTo(name, ok, size, m, n)
      PROVE  Whole(wave')
  <2>1. \/ wave' = wave
        \/ wave'.riff = Plus(Header, size) /\ wave'.data = size
    BY <1>1 DEF ResampleTo, Command
  <2> QED
    BY <2>1 DEF Whole
<1>2. CASE Reopen
  <2>1. CASE wave' = wave
    BY <2>1
  <2>2. CASE wave' = ReadBack(wave) /\ wave.riff <= Header + Block
    <3>1. ~(wave.riff > Header + Block)
      BY <2>2, SelectionSizes, Constants DEF DWORD, Block
    <3> QED
      BY <2>2, <3>1 DEF ReadBack, Whole
  <2> QED
    BY <1>2, <2>1, <2>2 DEF Reopen, Command
<1>3. CASE UNCHANGED <<wave.riff, wave.data>>
  BY <1>3 DEF Whole
<1>4. CASE OnToolsLoopwindow \/ LoopButton \/ \E use \in BOOLEAN : EndDialog(use)
  <2>1. wave' = wave \/ wave' = [wave EXCEPT !.start = loop.start, !.end = loop.end]
    BY <1>4, Zenon DEF OnToolsLoopwindow, LoopButton, LoopEndF, LoopEndB, LoopEndFineF, LoopEndFineB,
                LoopStartF, LoopStartB, LoopEndPage, LoopMoves, EndDialog
  <2> QED
    BY <1>3, <2>1, SelectionSizes DEF Waves
<1>5. CASE Mouse
  <2>1. ASSUME NEW x \in Points, NEW shift \in BOOLEAN, NEW off \in BOOLEAN, DragLoop(x, shift, off)
        PROVE  UNCHANGED <<wave.riff, wave.data>>
    BY <2>1, SelectionSizes DEF DragLoop, Waves
  <2> QED
    BY <1>3, <1>5, <2>1 DEF Mouse, OnLButtonDown, OtherMove, DragSelection
<1> QED
  BY <1>1, <1>2, <1>4, <1>5 DEF Tools, OnToolsResample, Resample

(* No command but Paste makes the RIFF size wrong (WaveSizes.FileWhole).   *)
THEOREM OnlyPasteBreaksFile == Spec => FileWhole
<1>1. ASSUME IInv, [Next]_vars
      PROVE  [Whole(wave) => Whole(wave') \/ \E clip \in Clips : OnEditPaste(clip)]_vars
  BY <1>1, EditWhole, OtherWhole DEF Next
<1> QED
  BY <1>1, Invariance, PTL DEF Spec, FileWhole

(* Saved and opened again a sound wave is the same but for the page its    *)
(* loop starts on, for any bank and any header (WaveSizes.RoundTrip).      *)
THEOREM FileKeepsWave == Spec => []RoundTrip
<1>1. ASSUME TypeOK PROVE RoundTrip
  <2> SUFFICES ASSUME Whole(wave), wave.data \in 1 .. Bank, Inside(wave)
               PROVE  Readable(wave) /\ ReadBack(wave) = [wave EXCEPT !.start = PageOf(@)]
    BY DEF RoundTrip
  <2>1. /\ wave \in [riff : DWORD, data : DWORD, start : DWORD, end : DWORD]
        /\ wave.start \in 0 .. Bank /\ wave.end \in 0 .. Bank /\ wave.data \in Nat \ {0}
    BY <1>1, Constants DEF TypeOK, Inside, DWORD
  <2>2. wave.riff = Header + wave.data /\ Plus(Header, wave.data) = wave.riff
    BY Constants DEF Whole, Plus, Block
  <2>3. ~(wave.riff > Header + Block) /\ ~(wave.data > Bank) /\ Readable(wave)
    BY <2>2, Constants DEF Block, Readable
  <2>4. /\ Scaled(wave.start, wave.data, wave.data) = wave.start
        /\ Scaled(wave.end, wave.data, wave.data) = wave.end
    BY <2>1, ScaledSame
  <2>5. ReadBack(wave) = [riff |-> wave.riff, data |-> wave.data,
                          start |-> PageOf(wave.start), end |-> wave.end]
    BY <2>2, <2>3, <2>4 DEF ReadBack
  <2> QED
    BY <2>1, <2>3, <2>5
<1> QED
  BY <1>1, TypeCorrect, PTL

-----------------------------------------------------------------------------
(* The block of memory.                                                    *)

LEMMA CommandBreaks ==
  ASSUME NEW name, NEW ok \in BOOLEAN, NEW w, NEW s, Command(name, ok, w, s),
         broken = "no", broken' # "no"
  PROVE  ~ok
BY DEF Command

LEMMA EditInBlock ==
  ASSUME IInv, Edit, Sound, broken = "no", broken' # "no"
  PROVE  \/ \E clip \in Clips : Overruns(clip)
         \/ OnTruncateOnlykeeploop /\ ~Fits(wave.end, 2 * Page)
<1>1. /\ wave.data \in 0 .. Bank /\ wave.start \in 0 .. wave.end /\ wave.end \in 0 .. wave.data
      /\ sel.start \in Int /\ sel.end \in Int /\ sel.end <= wave.data
      /\ HasSelection => sel.start \in 0 .. sel.end
      /\ sel.start >= 0 => HasSelection
      /\ Block = Bank + 2 /\ Bank \in Nat
  BY SelectionSizes, Constants
     DEF Sound, Inside, IInv, SelectionOrder, NoSelection, HasSelection, DWORD, Block
<1>2. ASSUME OnEditCut PROVE FALSE
  <2>1. ~(sel.end <= wave.data /\ Fits(0, wave.data))
    BY <1>2, CommandBreaks, Zenon DEF OnEditCut
  <2> QED
    BY <1>1, <2>1 DEF Fits
<1>3. ASSUME NEW clip \in Clips, HasSelection, OnEditPaste(clip) PROVE FALSE
  <2>1. ~PasteFits(clip) /\ Plus(wave.data, clip) <= Bank
    BY <1>3, CommandBreaks DEF OnEditPaste, PasteFits
  <2>2. clip \in 0 .. Bank
    BY Constants
  <2>3. wave.data + clip <= Bank
    BY <1>1, <2>1, <2>2, Constants DEF Plus
  <2> QED
    BY <1>1, <1>3, <2>1, <2>2, <2>3 DEF PasteFits, Fits
<1>4. ASSUME NEW clip \in Clips, OnPastespecialAppend(clip)
      PROVE  ~HasSelection \/ clip > wave.data \/ ~Fits(sel.end, wave.data)
  <2>1. ~(/\ sel.end >= 0 \/ clip = 0
          /\ clip <= wave.data
          /\ Fits(sel.end, wave.data))
    BY <1>4, CommandBreaks, FitsIsBoolean DEF OnPastespecialAppend, PasteAt
  <2> QED
    BY <1>1, <2>1, Constants DEF HasSelection
<1>5. ASSUME NEW clip \in Clips, OnPastespecialPrepend(clip)
      PROVE  ~HasSelection \/ clip > wave.data \/ ~Fits(sel.start, wave.data)
  <2>1. ~(/\ sel.start >= 0 \/ clip = 0
          /\ clip <= wave.data
          /\ Fits(sel.start, wave.data))
    BY <1>5, CommandBreaks, FitsIsBoolean DEF OnPastespecialPrepend, PasteAt
  <2> QED
    BY <1>1, <2>1, Constants DEF HasSelection
<1>6. ASSUME NEW clip \in Clips, NEW count \in Repeats,
             OnPastespecialMultiplecopies(clip, count)
      PROVE  ~Fits(0, count * clip)
  BY <1>6, Zenon DEF OnPastespecialMultiplecopies, Command
<1>7. ASSUME OnTruncateAfterloop PROVE FALSE
  BY <1>7 DEF OnTruncateAfterloop, Command
<1>8. Minus(wave.end, wave.start) = wave.end - wave.start /\ wave.end - wave.start \in DWORD
  BY <1>1, Constants DEF Minus, DWORD, Block
<1>9. ASSUME NEW name, NEW size, KeepLoop(name, size) PROVE ~Fits(wave.start, size)
  BY <1>9, Zenon DEF KeepLoop, Command
<1>10. ASSUME OnTruncateBeforeloop PROVE FALSE
  <2>1. ~Fits(wave.start, wave.end - wave.start)
    BY <1>8, <1>9, <1>10 DEF OnTruncateBeforeloop
  <2> QED
    BY <1>1, <2>1 DEF Fits
<1>11. ASSUME OnTruncateOnlykeeploop PROVE ~Fits(wave.end, 2 * Page)
  <2>1. /\ Rounded(wave.end - wave.start) <= wave.end - wave.start + 2 * Page
        /\ Rounded(wave.end - wave.start) \in DWORD
    BY <1>8, RoundedBounds DEF IInv
  <2>2. ~Fits(wave.start, Rounded(wave.end - wave.start))
    BY <1>8, <1>9, <1>11 DEF OnTruncateOnlykeeploop
  <2> QED
    BY <1>1, <2>1, <2>2, Constants DEF Fits, DWORD
<1>12. ASSUME KeepOnlySelection PROVE FALSE
  <2>1. ~Fits(sel.start, SelectionSize) /\ sel.start >= 0
    BY <1>12, Zenon DEF KeepOnlySelection, Command
  <2> QED
    BY <1>1, <2>1 DEF Fits, SelectionSize
<1> QED
  BY <1>2, <1>3, <1>4, <1>5, <1>6, <1>7, <1>10, <1>11, <1>12 DEF Edit, Overruns

LEMMA ToolsInBlock ==
  ASSUME IInv, Tools \/ Mouse, Sound, broken = "no", broken' # "no"
  PROVE  \/ OnToolsResample(Word \div Page)
         \/ \E r \in Ratios : Resample(r[1], r[2]) /\ (wave.data * r[1]) \div r[2] > Bank
<1>1. /\ wave.data \in 0 .. Bank /\ wave.riff = Header + wave.data
      /\ Fits(0, wave.data) /\ Header \in Nat /\ Bank \in Nat /\ Block = Bank + 2
  BY SelectionSizes, Constants DEF Sound, Whole, Plus, DWORD, Fits, Block
<1>2. ASSUME NEW name, NEW ok \in BOOLEAN, NEW size, NEW m, NEW n, ResampleTo(name, ok, size, m, n)
      PROVE  ~ok
  <2>1. ~(ok /\ Fits(0, wave.data))
    BY <1>2, Zenon DEF ResampleTo, Command
  <2> QED
    BY <1>1, <2>1
<1>3. ASSUME NEW pages \in 1 .. Word \div Page, OnToolsResample(pages)
      PROVE  pages = Word \div Page
  <2> DEFINE size == pages * Page
  <2>1. PICK ok \in {TRUE, size <= Bank} :
           ResampleTo("Resample", ok, size, size, wave.data)
    BY <1>3, Zenon DEF OnToolsResample
  <2>2. ~ok
    <3>1. (size <= Bank) \in BOOLEAN
      OBVIOUS
    <3>2. ok \in BOOLEAN
      BY <3>1, Zenon
    <3> HIDE DEF size
    <3> QED
      BY <1>2, <2>1, <3>2
  <2>3. ~(size <= Bank)
    BY <2>2, Zenon
  <2> QED
    BY <2>3, PagesFit
<1>4. ASSUME NEW r \in Ratios, Resample(r[1], r[2])
      PROVE  (wave.data * r[1]) \div r[2] > Bank
  <2> DEFINE size == (wave.data * r[1]) \div r[2]
  <2>1. size \in Nat
    <3>1. r[1] \in Nat \ {0} /\ r[2] \in Nat \ {0} /\ wave.data \in Nat
      BY <1>1, WaveSizesAssumption
    <3>2. wave.data * r[1] \in Nat
      BY <3>1, SMT
    <3> QED
      BY <3>1, <3>2, SMT
  <2>2. ResampleTo("wheel", Fits(0, size + 1), size, r[1], r[2])
    BY <1>4, Zenon DEF Resample
  <2> HIDE DEF size
  <2>3. ~Fits(0, size + 1)
    BY <1>2, <2>2, FitsIsBoolean
  <2>4. size > Bank
    BY <1>1, <2>1, <2>3 DEF Fits
  <2> QED
    BY <2>4 DEF size
<1>5. ASSUME OnToolsLoopwindow PROVE FALSE
  <2>1. wave.riff \notin Header .. Header + Block
    BY <1>5, Zenon DEF OnToolsLoopwindow
  <2> QED
    BY <1>1, <2>1
<1>6. ASSUME Reopen PROVE FALSE
  <2>1. ~(wave.riff <= Header + Block)
    BY <1>6, Zenon DEF Reopen, Command
  <2> QED
    BY <1>1, <2>1
<1>7. CASE LoopButton \/ (\E use \in BOOLEAN : EndDialog(use)) \/ Mouse
  BY <1>7, Zenon DEF LoopButton, LoopEndF, LoopEndB, LoopEndFineF, LoopEndFineB, LoopStartF,
                     LoopStartB, LoopEndPage, LoopMoves, EndDialog, Mouse, OnLButtonDown,
                     OtherMove, DragSelection, DragLoop, MouseUnchanged
<1> QED
  BY <1>3, <1>4, <1>5, <1>6, <1>7 DEF Tools

(* From a sound wave only the commands named leave the block, and each     *)
(* only in the case named, for any bank (WaveSizes.StaysInBlock).          *)
THEOREM BlockKept == Spec => StaysInBlock
<1>1. ASSUME IInv, [Next]_vars
      PROVE  [Sound /\ broken' # "no" =>
                 \/ \E clip \in Clips : Overruns(clip)
                 \/ OnTruncateOnlykeeploop /\ ~Fits(wave.end, 2 * Page)
                 \/ OnToolsResample(Word \div Page)
                 \/ \E r \in Ratios : Resample(r[1], r[2]) /\ (wave.data * r[1]) \div r[2] > Bank]_vars
  BY <1>1, EditInBlock, ToolsInBlock DEF Next
<1> QED
  BY <1>1, Invariance, PTL DEF Spec, StaysInBlock

-----------------------------------------------------------------------------
(* The loop editor.                                                        *)

LEMMA DivMod ==
  ASSUME NEW p \in Nat \ {0}, NEW x \in Nat
  PROVE  \E q \in Nat, r \in 0 .. p - 1 : x = p * q + r /\ x % p = r
<1>1. x % p = x - (x \div p) * p
  BY SMT
<1>2. x - (x \div p) * p \in 0 .. p - 1 /\ x \div p \in Nat
  BY SMT
<1> DEFINE q == x \div p
           r == x % p
<1> HIDE DEF q, r
<1>3. r = x - q * p /\ r \in 0 .. p - 1 /\ q \in Nat
  BY <1>1, <1>2 DEF q, r
<1>4. x = p * q + r
  BY <1>3, SMT
<1> QED
  BY <1>3, <1>4 DEF r

LEMMA ModUnique ==
  ASSUME NEW p \in Nat \ {0}, NEW q \in Int, NEW r \in 0 .. p - 1
  PROVE  (p * q + r) % p = r
BY SMT

(* Pages are counted from 0, and the bank ends with one.                   *)
Places(w, p, x) ==
    /\ x % w = x
    /\ x % p \in 0 .. p - 1 /\ x % p <= x
    /\ (x + p) % p = x % p
    /\ x >= w - p => x % p = x - (w - p)

LEMMA PlacesInPage ==
  ASSUME NEW w \in Nat \ {0}, NEW p \in Nat \ {0}, w % p = 0, NEW x \in 0 .. w - 1
  PROVE  Places(w, p, x)
<1>1. x % w = x /\ x % p \in 0 .. p - 1 /\ x % p <= x
  BY SMT
<1>2. PICK q \in Nat, r \in 0 .. p - 1 : x = p * q + r /\ x % p = r
  <2>1. x \in Nat
    OBVIOUS
  <2> QED
    BY <2>1, DivMod, Zenon
<1>3. (x + p) % p = x % p
  <2>1. x + p = p * (q + 1) + r /\ q + 1 \in Int
    BY <1>2, SMT
  <2> QED
    BY <1>2, <2>1, ModUnique
<1>4. ASSUME x >= w - p PROVE x % p = x - (w - p)
  <2>1. PICK k \in Nat : w = p * k
    BY DivMod
  <2>2. /\ x = p * (k - 1) + (x - (w - p))
        /\ k - 1 \in Int /\ x - (w - p) \in 0 .. p - 1
    BY <1>4, <2>1, SMT
  <2> QED
    BY <2>2, ModUnique
<1> QED
  BY <1>1, <1>3, <1>4 DEF Places

LEMMA PagePlaces ==
  ASSUME NEW x \in 0 .. Bank
  PROVE  /\ LowByte(x) \in 0 .. Page - 1 /\ LowByte(x) <= x
         /\ PageOf(x) = x - LowByte(x)
         /\ LowByte(x + Page) = LowByte(x)
         /\ x >= Word - Page => LowByte(x) = x - (Word - Page)
<1>1. Page \in Nat \ {0} /\ Word \in Nat \ {0} /\ x \in 0 .. Word - 1 /\ Word % Page = 0
  BY Constants, WaveSizesAssumption DEF Word
<1>2. /\ x % Word = x
      /\ x % Page \in 0 .. Page - 1 /\ x % Page <= x
      /\ (x + Page) % Page = x % Page
      /\ x >= Word - Page => x % Page = x - (Word - Page)
  <2>1. Places(Word, Page, x)
    BY <1>1, PlacesInPage
  <2> QED
    BY <2>1, Zenon DEF Places
<1>3. (x % Word) - ((x % Word) % Page) = x - (x % Page)
  BY <1>2, Zenon
<1> QED
  BY <1>2, <1>3, Zenon DEF PageOf, LowByte

LEMMA EndPageKeepsLoop ==
  ASSUME NEW start \in Nat, NEW end \in Nat, NEW data \in 0 .. Word,
         start <= end, 2 * (end - start) >= Page, 2 * (data - end) > Page,
         NEW page, page = IF LowByte(end) >= Page \div 2 THEN PageOf(Plus(end, Page))
                          ELSE PageOf(end)
  PROVE  start <= Minus(page, 1) /\ Minus(page, 1) <= data
<1>1. /\ Page \in Nat \ {0} /\ Word = Bank + 1 /\ Bank \in Nat /\ DWords \in Nat
      /\ Page <= Word /\ Word + Page < DWords
      /\ 2 * (Page \div 2) = Page
  BY Constants, WaveSizesAssumption DEF Word, Block
<1>2. end \in 0 .. Bank
  BY <1>1
<1>3. /\ LowByte(end) \in 0 .. Page - 1 /\ LowByte(end) <= end
      /\ PageOf(end) = end - LowByte(end)
      /\ LowByte(end + Page) = LowByte(end)
      /\ end >= Word - Page => LowByte(end) = end - (Word - Page)
  BY <1>2, PagePlaces
<1>4. CASE LowByte(end) < Page \div 2
  <2>1. page = end - LowByte(end)
    BY <1>1, <1>3, <1>4
  <2>2. Minus(page, 1) = page - 1
    BY <1>1, <1>2, <1>3, <1>4, <2>1 DEF Minus
  <2> QED
    BY <1>1, <1>2, <1>3, <1>4, <2>1, <2>2
<1>5. CASE LowByte(end) >= Page \div 2
  <2>1. end < Word - Page
    BY <1>1, <1>2, <1>3, <1>5
  <2>2. Plus(end, Page) = end + Page /\ end + Page \in 0 .. Bank
    BY <1>1, <1>2, <2>1 DEF Plus
  <2>3. PageOf(end + Page) = (end + Page) - LowByte(end + Page)
    <3> DEFINE y == end + Page
    <3>1. y \in 0 .. Bank
      BY <2>2
    <3> HIDE DEF y
    <3>2. PageOf(y) = y - LowByte(y)
      BY <3>1, PagePlaces
    <3> QED
      BY <3>2, Zenon DEF y
  <2>4. page = (end + Page) - LowByte(end)
    <3>1. page = PageOf(Plus(end, Page))
      BY <1>5
    <3>2. PageOf(Plus(end, Page)) = PageOf(end + Page)
      BY <2>2, Zenon
    <3> QED
      BY <1>3, <2>3, <3>1, <3>2, Zenon
  <2>5. Minus(page, 1) = page - 1
    BY <1>1, <1>2, <1>3, <2>4 DEF Minus
  <2> QED
    BY <1>1, <1>2, <1>3, <1>5, <2>4, <2>5
<1> QED
  BY <1>1, <1>3, <1>4, <1>5

LEMMA ButtonKeepsLoop ==
  ASSUME IInv, LoopButton, wave.data <= Word, LoopSound(loop)
  PROVE  \/ LoopSound(loop')
         \/ LoopEndF /\ loop.end < Page
         \/ LoopEndFineF /\ loop.end = 0
         \/ LoopStartF /\ loop.start < Page
         \/ /\ LoopEndPage
            /\ 2 * (loop.end - loop.start) < Page \/ 2 * (wave.data - loop.end) <= Page
<1>1. /\ loop.start \in Nat /\ loop.end \in Nat /\ wave.data \in 0 .. Word
      /\ loop.start <= loop.end /\ loop.end <= wave.data
      /\ Page \in Nat \ {0} /\ Word + Page < DWords /\ DWords \in Nat /\ Word \in Nat
  BY SelectionSizes, Constants DEF IInv, TypeOK, LoopSound, DWORD, Word, Block
<1>2. ASSUME NEW start, NEW end, LoopMoves(start, end), start <= end, end <= wave.data
      PROVE  LoopSound(loop')
  BY <1>2 DEF LoopMoves, LoopSound
<1>3. /\ Plus(loop.end, Page) = loop.end + Page /\ Plus(loop.start, Page) = loop.start + Page
      /\ Plus(loop.end, 1) = loop.end + 1
      /\ loop.end >= Page => Minus(loop.end, Page) = loop.end - Page
      /\ loop.end >= 1 => Minus(loop.end, 1) = loop.end - 1
      /\ loop.start >= Page => Minus(loop.start, Page) = loop.start - Page
  BY <1>1 DEF Plus, Minus
<1>4. CASE LoopEndF /\ loop.end >= Page
  BY <1>1, <1>2, <1>3, <1>4 DEF LoopEndF
<1>5. CASE LoopEndB
  BY <1>1, <1>2, <1>3, <1>5 DEF LoopEndB
<1>6. CASE LoopEndFineF /\ loop.end >= 1
  BY <1>1, <1>2, <1>3, <1>6 DEF LoopEndFineF
<1>7. CASE LoopEndFineB
  BY <1>1, <1>2, <1>3, <1>7 DEF LoopEndFineB
<1>8. CASE LoopStartF /\ loop.start >= Page
  BY <1>1, <1>2, <1>3, <1>8 DEF LoopStartF
<1>9. CASE LoopStartB
  BY <1>1, <1>2, <1>3, <1>9 DEF LoopStartB
<1>10. ASSUME LoopEndPage, 2 * (loop.end - loop.start) >= Page, 2 * (wave.data - loop.end) > Page
       PROVE  LoopSound(loop')
  <2> DEFINE page == IF LowByte(loop.end) >= Page \div 2 THEN PageOf(Plus(loop.end, Page))
                     ELSE PageOf(loop.end)
  <2>1. loop.start <= Minus(page, 1) /\ Minus(page, 1) <= wave.data
    BY <1>1, <1>10, EndPageKeepsLoop
  <2>2. LoopMoves(loop.start, Minus(page, 1))
    BY <1>10, Zenon DEF LoopEndPage
  <2> HIDE DEF page
  <2> QED
    BY <1>2, <2>1, <2>2
<1> QED
  BY <1>1, <1>4, <1>5, <1>6, <1>7, <1>8, <1>9, <1>10 DEF LoopButton

(* The buttons that can lose the loop of a wave in the bank are the four   *)
(* named, each only in the case named (WaveSizes.DialogKeepsLoop).         *)
THEOREM ButtonsKeepLoop == Spec => DialogKeepsLoop
<1>1. ASSUME IInv, Next, dialog, dialog' PROVE LoopButton \/ UNCHANGED loop
  BY <1>1, Zenon DEF Next, Edit, Tools, Mouse, OnEditCut, OnEditPaste, OnPastespecialAppend,
       OnPastespecialPrepend, PasteAt, OnPastespecialMultiplecopies, OnTruncateAfterloop,
       OnTruncateBeforeloop, OnTruncateOnlykeeploop, KeepLoop, KeepOnlySelection, Command,
       OnToolsResample, Resample, ResampleTo, Reopen, OnToolsLoopwindow, EndDialog,
       OnLButtonDown, OtherMove, DragSelection, DragLoop
<1>2. ASSUME IInv, [Next]_vars
      PROVE  [dialog /\ dialog' /\ wave.data <= Word /\ LoopSound(loop) =>
                 \/ LoopSound(loop')
                 \/ LoopEndF /\ loop.end < Page
                 \/ LoopEndFineF /\ loop.end = 0
                 \/ LoopStartF /\ loop.start < Page
                 \/ /\ LoopEndPage
                    /\ 2 * (loop.end - loop.start) < Page \/ 2 * (wave.data - loop.end) <= Page]_vars
  BY <1>1, <1>2, ButtonKeepsLoop DEF LoopSound
<1> QED
  BY <1>2, Invariance, PTL DEF Spec, DialogKeepsLoop

-----------------------------------------------------------------------------
(* The loop points.                                                        *)

(* A field that grows past DWORDs would lose the loop to the wrap around.  *)
(* No command gets there: each is held by the block or by Bank, only       *)
(* Multiple copies by the one before and the other after.                  *)
DataBounded == wave.data <= Bank + Block

LEMMA Numbers ==
  ASSUME IInv, DataBounded
  PROVE  /\ wave.data \in Nat /\ wave.start \in Nat /\ wave.end \in Nat
         /\ wave.data <= Bank + Block
         /\ Bank \in Nat /\ Block = Bank + 2 /\ Word = Bank + 1
         /\ DWords \in Nat /\ 6 * Block <= DWords
BY SelectionSizes, Constants DEF DataBounded, DWORD, Block, Word

(* A command either did what it should or left the wave alone.             *)
LEMMA Outcome ==
  ASSUME NEW name, NEW ok, NEW w, NEW s, Command(name, ok, w, s)
  PROVE  wave' = wave \/ (ok /\ wave' = w)
BY Zenon DEF Command

LEMMA SameLoop ==
  ASSUME wave' = wave, DataBounded
  PROVE  DataBounded' /\ (Inside(wave) => Inside(wave'))
BY DEF DataBounded, Inside

LEMMA ResizedWave ==
  ASSUME NEW w \in Waves, NEW size \in DWORD
  PROVE  /\ ResizeRiff(w, size) \in Waves
         /\ ResizeRiff(w, size).data = size
         /\ ResizeRiff(w, size).start = w.start
         /\ ResizeRiff(w, size).end = w.end
<1>1. Minus(w.data, Minus(w.data, size)) = size
  BY Constants DEF Waves, Minus, DWORD
<1>2. ResizeRiff(w, size) \in Waves
  BY ResizeTypes
<1> QED
  BY <1>1, <1>2 DEF ResizeRiff, ResizeData, Waves

LEMMA CutLoop ==
  ASSUME IInv, DataBounded, OnEditCut
  PROVE  /\ DataBounded'
         /\ Inside(wave) => Inside(wave') \/ sel.end \in {wave.start, wave.end}
<1> DEFINE n == SelectionSize
           w == [riff |-> Minus(wave.riff, n), data |-> Minus(wave.data, n),
                 start |-> CutStart, end |-> CutEnd]
<1>1. wave' = wave \/ (sel.end <= wave.data /\ wave' = w)
  <2>1. Command("Cut", sel.end <= wave.data /\ Fits(0, wave.data), w, NoSelection)
    BY Zenon DEF OnEditCut
  <2> HIDE DEF w
  <2> QED
    BY <2>1, Outcome
<1>2. CASE wave' = wave
  BY <1>2, SameLoop
<1>3. CASE sel.end <= wave.data /\ wave' = w
  <2>1. /\ sel.start \in Nat /\ sel.end \in Nat /\ n = sel.end - sel.start /\ n \in Nat
        /\ sel.start <= sel.end
    BY SelectionSizes DEF OnEditCut, HasSelection, SelectionSize, IInv, SelectionOrder, NoSelection
  <2>2. n <= wave.data /\ n \in DWORD
    BY <1>3, <2>1, Numbers, SelectionSizes
  <2> HIDE DEF n
  <2>3. wave'.data = wave.data - n
    BY <1>3, <2>1, <2>2, Numbers DEF Minus
  <2>4. DataBounded'
    BY <2>1, <2>3, Numbers DEF DataBounded
  <2>5. ASSUME Inside(wave), sel.end \notin {wave.start, wave.end}
        PROVE  Inside(wave')
    <3>1. wave.start <= wave.end /\ wave.end <= wave.data
      BY <2>5 DEF Inside
    <3>2. wave'.start = CutStart /\ wave'.end = CutEnd
      BY <1>3
    <3>3. /\ n <= wave.start => Minus(wave.start, n) = wave.start - n
          /\ n <= wave.end => Minus(wave.end, n) = wave.end - n
      BY <2>1, Numbers DEF Minus
    <3>4. CASE sel.end < wave.start
      <4>1. CutStart = wave.start - n
        BY <2>1, <3>1, <3>3, <3>4, Numbers DEF CutStart, n
      <4>2. CutEnd = wave.end - n
        BY <2>1, <3>1, <3>3, <3>4, Numbers DEF CutEnd, n
      <4> QED
        BY <2>1, <2>3, <3>1, <3>2, <3>4, <4>1, <4>2, Numbers DEF Inside
    <3>5. CASE wave.start < sel.end /\ sel.end < wave.end
      <4>1. CutStart = IF sel.start < wave.start THEN sel.start ELSE wave.start
        BY <2>1, <3>1, <3>5, Numbers DEF CutStart
      <4>2. CutEnd = wave.end - n
        BY <2>1, <3>1, <3>3, <3>5, Numbers DEF CutEnd, n
      <4> QED
        BY <2>1, <2>3, <3>1, <3>2, <3>5, <4>1, <4>2, Numbers DEF Inside
    <3>6. CASE wave.end < sel.end
      <4>1. CutStart = IF sel.start < wave.start THEN sel.start ELSE wave.start
        BY <2>1, <3>1, <3>6, Numbers DEF CutStart
      <4>2. CutEnd = IF sel.start < wave.end THEN sel.start ELSE wave.end
        BY <2>1, <3>1, <3>3, <3>6, Numbers DEF CutEnd
      <4> QED
        BY <1>3, <2>1, <2>3, <3>1, <3>2, <3>6, <4>1, <4>2, Numbers DEF Inside
    <3> QED
      BY <2>1, <2>5, <3>1, <3>4, <3>5, <3>6, Numbers
  <2> QED
    BY <2>4, <2>5
<1> QED
  BY <1>1, <1>2, <1>3

LEMMA PasteLoop ==
  ASSUME IInv, DataBounded, NEW clip \in Clips, OnEditPaste(clip)
  PROVE  /\ DataBounded'
         /\ Inside(wave) => Inside(wave') \/ SelectionSize > clip
<1>1. clip \in Nat /\ clip <= Bank /\ SelectionSize \in DWORD /\ SelectionSize \in Nat
  BY SelectionSizes, Constants DEF DWORD
<1>2. CASE wave' = wave
  BY <1>2, SameLoop
<1>3. CASE SelectionSize # clip /\ PasteFits(clip) /\ wave' = Pasted(clip)
  <2>1. SelectionSize <= wave.data
    <3>1. sel.start \in Nat /\ SelectionSize = sel.end - sel.start /\ sel.end <= wave.data
      BY <1>1, <1>3, SelectionSizes DEF PasteFits, SelectionSize, IInv, SelectionOrder, NoSelection
    <3> QED
      BY <3>1, SelectionSizes, Numbers
  <2>2. wave.data + clip <= Bank
    BY <1>1, Numbers DEF OnEditPaste, Plus
  <2>3. PasteSize(clip) = wave.data - SelectionSize + clip
    BY <1>1, <2>1, <2>2, Numbers DEF PasteSize, Minus, Plus
  <2>4. /\ wave'.data = wave.data - SelectionSize + clip
        /\ wave'.start = wave.start /\ wave'.end = wave.end
    BY <1>3, <2>3, SelectionSizes DEF Pasted, Waves
  <2> QED
    BY <1>1, <2>2, <2>4, Numbers DEF DataBounded, Inside
<1>4. wave' = wave \/ (PasteFits(clip) /\ wave' = Pasted(clip))
  BY Outcome, Zenon DEF OnEditPaste
<1>5. SelectionSize = clip => Pasted(clip) = wave
  BY DEF Pasted
<1> QED
  BY <1>2, <1>3, <1>4, <1>5, Zenon

LEMMA GrowingLoop ==
  ASSUME IInv, DataBounded, NEW more \in Nat, wave.data + more <= Bank + Block,
         wave' = [wave EXCEPT !.data = Plus(@, more), !.riff = Plus(@, more)]
  PROVE  DataBounded' /\ (Inside(wave) => Inside(wave'))
<1>1. /\ wave'.data = wave.data + more
      /\ wave'.start = wave.start /\ wave'.end = wave.end
  BY SelectionSizes, Numbers DEF Plus, Waves
<1> QED
  BY <1>1, Numbers DEF DataBounded, Inside

LEMMA PasteSpecialLoop ==
  ASSUME IInv, DataBounded, NEW clip \in Clips,
         \/ OnPastespecialAppend(clip) \/ OnPastespecialPrepend(clip)
         \/ \E count \in Repeats : OnPastespecialMultiplecopies(clip, count)
  PROVE  DataBounded' /\ (Inside(wave) => Inside(wave'))
<1>1. clip \in Nat /\ clip <= Bank
  BY Constants
<1>2. ASSUME Plus(wave.data, clip) <= Bank PROVE wave.data + clip <= Bank
  BY <1>1, <1>2, Numbers DEF Plus
<1>3. ASSUME NEW name, NEW place, PasteAt(name, place, clip)
      PROVE  DataBounded' /\ (Inside(wave) => Inside(wave'))
  <2>1. wave' = wave \/ wave' = [wave EXCEPT !.data = Plus(@, clip), !.riff = Plus(@, clip)]
    BY <1>3, Zenon DEF PasteAt, Command
  <2>2. wave.data + clip <= Bank + Block
    BY <1>1, <1>2, <1>3, Numbers DEF PasteAt
  <2> QED
    BY <1>1, <2>1, <2>2, SameLoop, GrowingLoop, Zenon
<1>4. ASSUME NEW count \in Repeats, OnPastespecialMultiplecopies(clip, count)
      PROVE  DataBounded' /\ (Inside(wave) => Inside(wave'))
  <2> DEFINE more == count * clip - clip
  <2>1. wave.data + clip <= Bank
    BY <1>2, <1>4 DEF OnPastespecialMultiplecopies
  <2>2. more \in Nat
    <3>1. ASSUME NEW k \in Nat \ {0}, NEW c \in Nat PROVE k * c - c \in Nat
      BY SMT
    <3> QED
      BY <1>1, <3>1, WaveSizesAssumption
  <2>3. wave' = wave \/
        (Fits(0, count * clip) /\
         wave' = [wave EXCEPT !.data = Plus(@, more), !.riff = Plus(@, more)])
    BY <1>4, Zenon DEF OnPastespecialMultiplecopies, Command
  <2>4. Fits(0, count * clip) => more + clip <= Block
    <3>1. count * clip \in Int /\ more + clip = count * clip
      <4>1. count \in Nat
        BY WaveSizesAssumption
      <4>2. count * clip \in Int
        BY <1>1, <4>1, SMT
      <4> QED
        BY <1>1, <4>2
    <3> QED
      BY <3>1 DEF Fits
  <2> HIDE DEF more
  <2>5. Fits(0, count * clip) => wave.data + more <= Bank + Block
    BY <1>1, <2>1, <2>2, <2>4, Numbers
  <2> QED
    BY <2>2, <2>3, <2>5, SameLoop, GrowingLoop
<1> QED
  BY <1>3, <1>4 DEF OnPastespecialAppend, OnPastespecialPrepend

(* In front of the last page, rounding up to a page loses nothing.         *)
LEMMA RoundedKeeps ==
  ASSUME TypeOK, wave.end < PageOf(Bank), NEW length \in 0 .. wave.end,
         length = wave.end \/ LowByte(wave.end) # 0
  PROVE  Rounded(length) >= length
<1>1. /\ Page \in Nat \ {0} /\ Bank \in Nat /\ Word = Bank + 1 /\ Page <= Word
      /\ DWords \in Nat /\ 6 * Block <= DWords /\ Block = Bank + 2
      /\ wave.end \in Nat /\ length \in Nat /\ length <= wave.end
  BY Constants DEF Word, Block, TypeOK, DWORD
<1>2. PageOf(Bank) = Word - Page
  <2>1. Bank \in 0 .. Bank /\ Bank >= Word - Page
    BY <1>1
  <2>2. LowByte(Bank) = Bank - (Word - Page) /\ PageOf(Bank) = Bank - LowByte(Bank)
    BY <2>1, PagePlaces
  <2> QED
    BY <1>1, <2>2
<1>3. wave.end \in 0 .. Bank /\ wave.end < Word - Page
  BY <1>1, <1>2
<1>4. LowByte(wave.end) \in 0 .. Page - 1 /\ PageOf(wave.end) = wave.end - LowByte(wave.end)
  BY <1>3, PagePlaces
<1> DEFINE up == wave.end > PageOf(wave.end) /\ PageOf(wave.end) < PageOf(Bank)
           pages == IF up THEN PageOf(Plus(length, Page)) ELSE PageOf(length)
<1>5. Rounded(length) = IF Page - 1 - LowByte(wave.end) < NearEnd THEN pages + Page ELSE pages
  BY Zenon DEF Rounded
<1>6. pages \in Int /\ pages >= length
  <2>1. CASE LowByte(wave.end) # 0
    <3> DEFINE y == length + Page
    <3>1. Plus(length, Page) = y /\ y \in 0 .. Bank
      BY <1>1, <1>3 DEF Plus
    <3>2. LowByte(y) \in 0 .. Page - 1 /\ PageOf(y) = y - LowByte(y)
      <4> HIDE DEF y
      <4> QED
        BY <3>1, PagePlaces
    <3>3. up
      BY <1>1, <1>2, <1>3, <1>4, <2>1
    <3>4. pages = PageOf(y)
      BY <3>1, <3>3, Zenon
    <3> QED
      BY <1>1, <3>1, <3>2, <3>4
  <2>2. CASE LowByte(wave.end) = 0
    <3>1. ~up /\ length = wave.end
      BY <1>1, <1>4, <2>2
    <3>2. pages = PageOf(wave.end)
      BY <3>1, Zenon
    <3> QED
      BY <1>1, <1>4, <2>2, <3>1, <3>2
  <2> QED
    BY <2>1, <2>2
<1> HIDE DEF pages
<1> QED
  BY <1>1, <1>5, <1>6

LEMMA TruncateLoop ==
  ASSUME IInv, DataBounded
  PROVE  /\ OnTruncateAfterloop =>
              DataBounded' /\ (Inside(wave) => Inside(wave') \/ wave.end >= PageOf(Bank))
         /\ OnTruncateBeforeloop => DataBounded' /\ (Inside(wave) => Inside(wave'))
         /\ OnTruncateOnlykeeploop =>
              /\ DataBounded'
              /\ Inside(wave) => \/ Inside(wave')
                                 \/ wave.end >= PageOf(Bank) \/ LowByte(wave.end) = 0
         /\ KeepOnlySelection =>
              /\ DataBounded'
              /\ Inside(wave) => \/ Inside(wave')
                                 \/ ~(sel.start <= wave.start /\ wave.end <= sel.end)
<1>1. TypeOK /\ Minus(wave.end, wave.start) \in DWORD /\ DWORD \subseteq Nat
      /\ PageOf(Bank) \in Nat
  <2>1. TypeOK /\ Minus(wave.end, wave.start) \in DWORD
    BY SelectionSizes, PlusMinus DEF IInv
  <2>2. PageOf(Bank) \in 0 .. Bank
    BY Numbers, PageOfBounds
  <2> QED
    BY <2>1, <2>2 DEF DWORD
<1>2. Rounded(wave.end) \in DWORD /\ Rounded(Minus(wave.end, wave.start)) \in DWORD
  BY <1>1, SelectionSizes, RoundedBounds
<1>3. Inside(wave) => /\ wave.start <= wave.end /\ wave.end <= wave.data
                      /\ Minus(wave.end, wave.start) = wave.end - wave.start
                      /\ wave.end - wave.start \in 0 .. wave.end
  BY Numbers DEF Inside, Minus
<1>4. ASSUME OnTruncateAfterloop
      PROVE  DataBounded' /\ (Inside(wave) => Inside(wave') \/ wave.end >= PageOf(Bank))
  <2> DEFINE size == Rounded(wave.end)
  <2>1. wave' = ResizeRiff(wave, size) /\ size < wave.data
    BY <1>4, Zenon DEF OnTruncateAfterloop, Command
  <2>2. Inside(wave) /\ wave.end < PageOf(Bank) => wave.end <= size
    <3>1. wave.end \in 0 .. wave.end
      BY Numbers
    <3>2. wave.end < PageOf(Bank) => size >= wave.end
      BY <1>1, <3>1, RoundedKeeps
    <3> QED
      BY <1>2, <3>2, Numbers
  <2>3. size \in Nat /\ size \in DWORD
    BY <1>1, <1>2
  <2> HIDE DEF size
  <2>4. wave'.data = size /\ wave'.start = wave.start /\ wave'.end = wave.end
    BY <2>1, <2>3, SelectionSizes, ResizedWave
  <2>5. DataBounded'
    BY <2>1, <2>3, <2>4, Numbers DEF DataBounded
  <2> QED
    BY <1>1, <2>2, <2>4, <2>5, Numbers DEF Inside
<1>5. ASSUME NEW name, NEW size \in DWORD, KeepLoop(name, size)
      PROVE  /\ DataBounded'
             /\ Inside(wave) /\ wave.end - wave.start <= size => Inside(wave')
  <2> DEFINE r == ResizeRiff(wave, size)
             w == [r EXCEPT !.start = 0, !.end = Minus(@, wave.start)]
  <2>1. r \in Waves /\ r.data = size /\ r.end = wave.end
    BY SelectionSizes, ResizedWave
  <2>2. wave' = wave \/ (Fits(wave.start, size) /\ wave' = w)
    <3>1. Command(name, Fits(wave.start, size), w, NoSelection)
      BY <1>5, Zenon DEF KeepLoop
    <3> HIDE DEF w
    <3> QED
      BY <3>1, Outcome
  <2> HIDE DEF r
  <2>3. w.data = size /\ w.start = 0 /\ w.end = Minus(wave.end, wave.start)
    BY <2>1 DEF Waves
  <2> HIDE DEF w
  <2>4. CASE Fits(wave.start, size) /\ wave' = w
    <3>1. size \in Nat /\ size <= Block
      BY <1>1, <2>4, Numbers DEF Fits
    <3>2. wave'.data = size /\ wave'.start = 0 /\ wave'.end = Minus(wave.end, wave.start)
      BY <2>3, <2>4
    <3> QED
      BY <1>3, <3>1, <3>2, Numbers DEF DataBounded, Inside
  <2> QED
    BY <2>2, <2>4, SameLoop
<1>6. ASSUME OnTruncateBeforeloop PROVE DataBounded' /\ (Inside(wave) => Inside(wave'))
  <2>1. /\ DataBounded'
        /\ Inside(wave) /\ wave.end - wave.start <= Minus(wave.end, wave.start) => Inside(wave')
    BY <1>1, <1>5, <1>6 DEF OnTruncateBeforeloop
  <2> QED
    BY <1>3, <2>1, Numbers
<1>7. ASSUME OnTruncateOnlykeeploop
      PROVE  /\ DataBounded'
             /\ Inside(wave) => \/ Inside(wave')
                                \/ wave.end >= PageOf(Bank) \/ LowByte(wave.end) = 0
  <2> DEFINE size == Rounded(Minus(wave.end, wave.start))
  <2>1. /\ DataBounded'
        /\ Inside(wave) /\ wave.end - wave.start <= size => Inside(wave')
    BY <1>2, <1>5, <1>7 DEF OnTruncateOnlykeeploop
  <2>2. ASSUME Inside(wave), wave.end < PageOf(Bank), LowByte(wave.end) # 0
        PROVE  wave.end - wave.start <= size
    <3>1. size >= wave.end - wave.start
      BY <1>1, <1>3, <2>2, RoundedKeeps
    <3>2. size \in Int
      BY <1>2 DEF DWORD
    <3> HIDE DEF size
    <3> QED
      BY <3>1, <3>2, Numbers
  <2> HIDE DEF size
  <2> QED
    BY <1>1, <2>1, <2>2, Numbers
<1>8. ASSUME KeepOnlySelection
      PROVE  /\ DataBounded'
             /\ Inside(wave) => \/ Inside(wave')
                                \/ ~(sel.start <= wave.start /\ wave.end <= sel.end)
  <2>1. /\ sel.start \in Nat /\ sel.end \in Nat /\ sel.start <= sel.end
        /\ SelectionSize = sel.end - sel.start
        /\ SelectionSize \in DWORD /\ SelectionSize \in Nat
    <3>1. sel.start >= 0
      BY <1>8, Zenon DEF KeepOnlySelection
    <3> QED
      BY <3>1, SelectionSizes DEF SelectionSize, IInv, SelectionOrder, NoSelection, DWORD
  <2> DEFINE r == ResizeRiff(wave, SelectionSize)
             w == [r EXCEPT !.start = Minus(@, sel.start), !.end = Minus(@, sel.start)]
  <2>2. r \in Waves /\ r.data = SelectionSize /\ r.start = wave.start /\ r.end = wave.end
    BY <2>1, SelectionSizes, ResizedWave
  <2>3. wave' = wave \/ (Fits(sel.start, SelectionSize) /\ wave' = w)
    <3>1. Command("Keep selection", Fits(sel.start, SelectionSize), w, NoSelection)
      BY <1>8, Zenon DEF KeepOnlySelection
    <3> HIDE DEF w
    <3> QED
      BY <3>1, Outcome
  <2> HIDE DEF r
  <2>4. /\ w.data = SelectionSize
        /\ w.start = Minus(wave.start, sel.start) /\ w.end = Minus(wave.end, sel.start)
    BY <2>2 DEF Waves
  <2> HIDE DEF w
  <2>5. CASE Fits(sel.start, SelectionSize) /\ wave' = w
    <3>1. SelectionSize <= Block
      BY <2>1, <2>5, Numbers DEF Fits
    <3>2. /\ wave'.data = SelectionSize
          /\ wave'.start = Minus(wave.start, sel.start)
          /\ wave'.end = Minus(wave.end, sel.start)
      BY <2>4, <2>5
    <3>3. DataBounded'
      BY <2>1, <3>1, <3>2, Numbers DEF DataBounded
    <3>4. ASSUME Inside(wave), sel.start <= wave.start, wave.end <= sel.end PROVE Inside(wave')
      <4>1. /\ Minus(wave.start, sel.start) = wave.start - sel.start
            /\ Minus(wave.end, sel.start) = wave.end - sel.start
        BY <2>1, <3>4, Numbers DEF Minus, Inside
      <4> QED
        BY <2>1, <3>2, <3>4, <4>1, Numbers DEF Inside
    <3> QED
      BY <3>3, <3>4
  <2> QED
    BY <2>3, <2>5, SameLoop
<1> QED
  BY <1>4, <1>6, <1>7, <1>8

LEMMA Products ==
  ASSUME NEW n \in Nat, NEW a \in Nat, NEW b \in Nat
  PROVE  /\ n * a \in Nat /\ a * n = n * a
         /\ a <= b => n * a <= n * b
         /\ n * (a + b) = n * a + n * b /\ n * (a + 1) = n * a + n
<1>1. n * a \in Nat /\ a * n = n * a /\ n * (a + b) = n * a + n * b /\ n * (a + 1) = n * a + n
  BY SMT
<1>2. ASSUME a <= b PROVE n * a <= n * b
  <2>1. PICK k \in Nat : b = a + k
    <3>1. b - a \in Nat /\ b = a + (b - a)
      BY <1>2
    <3> QED
      BY <3>1
  <2>2. n * b = n * a + n * k /\ n * k \in Nat /\ n * a \in Nat
    BY <2>1, SMT
  <2> QED
    BY <2>2
<1> QED
  BY <1>1, <1>2

(* lrint: the nearest number is at most half away.                         *)
LEMMA Nearest ==
  ASSUME NEW x \in Nat, NEW n \in Nat \ {0}, NEW near,
         near = IF 2 * (x % n) > n \/ (2 * (x % n) = n /\ (x \div n) % 2 = 1)
                THEN x \div n + 1 ELSE x \div n
  PROVE  near \in Nat /\ 2 * (n * near) <= 2 * x + n /\ 2 * x <= 2 * (n * near) + n
<1> DEFINE q == x \div n
           r == x % n
<1>1. r = x - q * n
  BY SMT
<1>2. x - q * n \in 0 .. n - 1 /\ q \in Nat
  BY SMT
<1>3. near = IF 2 * r > n \/ (2 * r = n /\ q % 2 = 1) THEN q + 1 ELSE q
  OBVIOUS
<1> HIDE DEF q, r
<1>4. n * q \in Nat /\ q * n = n * q /\ n * (q + 1) = n * q + n
  BY <1>2, Products
<1>5. x = n * q + r /\ r \in 0 .. n - 1
  BY <1>1, <1>2, <1>4
<1>6. CASE near = q + 1 /\ 2 * r >= n
  BY <1>2, <1>4, <1>5, <1>6
<1>7. CASE near = q /\ 2 * r <= n
  BY <1>2, <1>4, <1>5, <1>7
<1>8. \/ near = q + 1 /\ 2 * r >= n
      \/ near = q /\ 2 * r <= n
  <2>1. r \in Int /\ n \in Int
    BY <1>5
  <2>2. CASE 2 * r > n \/ (2 * r = n /\ q % 2 = 1)
    <3>1. near = q + 1
      BY <1>3, <2>2, Zenon
    <3> QED
      BY <2>1, <2>2, <3>1
  <2>3. CASE ~(2 * r > n \/ (2 * r = n /\ q % 2 = 1))
    <3>1. near = q
      BY <1>3, <2>3, Zenon
    <3> QED
      BY <2>1, <2>3, <3>1
  <2> QED
    BY <2>2, <2>3
<1> QED
  BY <1>6, <1>7, <1>8

(* A number of a wave that shrinks or grows to size.                       *)
LEMMA ScaledNear ==
  ASSUME NEW v \in Nat, NEW m \in Nat, NEW n \in Nat \ {0}, NEW size \in Nat,
         v * m < n * (size + 1), size <= Word
  PROVE  /\ Scaled(v, m, n) \in 0 .. size + 1
         /\ 2 * (n * Scaled(v, m, n)) <= 2 * (v * m) + n
         /\ 2 * (v * m) <= 2 * (n * Scaled(v, m, n)) + n
<1> DEFINE x == v * m
           near == IF 2 * (x % n) > n \/ (2 * (x % n) = n /\ (x \div n) % 2 = 1)
                   THEN x \div n + 1 ELSE x \div n
<1>1. x \in Nat
  BY Products
<1>2. Scaled(v, m, n) = IF 2 * near < DWords THEN near ELSE DWords \div 2
  BY Zenon DEF Scaled
<1>3. near \in Nat /\ 2 * (n * near) <= 2 * x + n /\ 2 * x <= 2 * (n * near) + n
  <2> HIDE DEF x
  <2> QED
    BY <1>1, Nearest
<1>4. x < n * (size + 1)
  OBVIOUS
<1> HIDE DEF x, near
<1>5. near <= size + 1
  <2> SUFFICES ASSUME size + 2 <= near PROVE FALSE
    BY <1>3
  <2>1. /\ n * (size + 2) <= n * near /\ n * (size + 1) \in Nat /\ n * near \in Nat
        /\ n * ((size + 1) + 1) = n * (size + 1) + n
    BY <1>3, Products
  <2>2. (size + 1) + 1 = size + 2
    OBVIOUS
  <2>3. n * (size + 1) + n <= n * near
    BY <2>1, <2>2
  <2> QED
    BY <1>1, <1>3, <1>4, <2>1, <2>3
<1>6. 2 * near < DWords
  BY <1>3, <1>5, Constants DEF Word, Block
<1>7. Scaled(v, m, n) = near
  BY <1>2, <1>6
<1> QED
  BY <1>3, <1>5, <1>7 DEF x

(* The start and the length of the loop are rounded, and so its end may    *)
(* come to lie one byte behind the data.                                   *)
LEMMA ScaledLoop ==
  ASSUME NEW start \in Nat, NEW end \in Nat, NEW data \in Nat, start <= end, end <= data,
         NEW m \in Nat, NEW n \in Nat \ {0}, NEW size \in Nat,
         data * m < n * (size + 1), size <= Word
  PROVE  /\ Scaled(start, m, n) \in 0 .. size + 1
         /\ Scaled(end, m, n) \in 0 .. size + 1
         /\ Scaled(start, m, n) <= Scaled(end, m, n)
         /\ Scaled(end - start, m, n) \in 0 .. size + 1
         /\ Scaled(start, m, n) + Scaled(end - start, m, n) <= size + 1
<1> DEFINE length == end - start
           a == Scaled(start, m, n)
           b == Scaled(length, m, n)
           e == Scaled(end, m, n)
<1>1. length \in Nat /\ end = start + length
  OBVIOUS
<1> HIDE DEF length
<1>2. /\ start * m = m * start /\ length * m = m * length /\ end * m = m * end
      /\ data * m = m * data
      /\ m * start \in Nat /\ m * length \in Nat /\ m * end \in Nat /\ m * data \in Nat
      /\ m * end <= m * data
  BY <1>1, Products
<1>3. m * end = m * start + m * length
  BY <1>1, Products
<1>4. n * (size + 1) \in Nat
  BY Products
<1>5. /\ start * m < n * (size + 1) /\ length * m < n * (size + 1)
      /\ end * m < n * (size + 1)
  BY <1>2, <1>3, <1>4
<1>6. a \in 0 .. size + 1 /\ 2 * (n * a) <= 2 * (m * start) + n
  BY <1>2, <1>5, ScaledNear
<1>7. b \in 0 .. size + 1 /\ 2 * (n * b) <= 2 * (m * length) + n
  BY <1>1, <1>2, <1>5, ScaledNear
<1>8. e \in 0 .. size + 1 /\ 2 * (m * end) <= 2 * (n * e) + n
  BY <1>2, <1>5, ScaledNear
<1>9. a + b <= size + 1
  <2> HIDE DEF a, b
  <2> SUFFICES ASSUME size + 2 <= a + b PROVE FALSE
    BY <1>6, <1>7
  <2>1. /\ n * (size + 2) <= n * (a + b) /\ n * (a + b) = n * a + n * b
        /\ n * ((size + 1) + 1) = n * (size + 1) + n
        /\ n * a \in Nat /\ n * b \in Nat
    BY <1>6, <1>7, Products
  <2>2. (size + 1) + 1 = size + 2
    OBVIOUS
  <2>3. n * (size + 1) + n <= n * a + n * b
    BY <2>1, <2>2
  <2> QED
    BY <1>2, <1>3, <1>4, <1>6, <1>7, <2>1, <2>3
<1>10. a <= e
  <2>1. start * m = end * m => a = e
    BY Zenon DEF Scaled
  <2> HIDE DEF a, e
  <2> SUFFICES ASSUME e + 1 <= a PROVE FALSE
    BY <1>6, <1>8
  <2>2. n * (e + 1) <= n * a /\ n * (e + 1) = n * e + n /\ n * e \in Nat /\ n * a \in Nat
    BY <1>6, <1>8, Products
  <2>3. m * start = m * end
    BY <1>2, <1>3, <1>6, <1>8, <2>2
  <2> QED
    BY <1>2, <1>6, <1>8, <2>1, <2>3
<1> QED
  BY <1>6, <1>7, <1>8, <1>9, <1>10 DEF length

(* Inside but for the byte that resampling may round the end up by.        *)
Nearly(w) == Inside([w EXCEPT !.data = @ + 1])

LEMMA ResampleToLoop ==
  ASSUME IInv, DataBounded, NEW name, NEW ok \in BOOLEAN, NEW size \in Nat, ok => size <= Word,
         NEW m \in Nat, NEW n \in Nat \ {0}, wave.data * m < n * (size + 1),
         ResampleTo(name, ok, size, m, n)
  PROVE  DataBounded' /\ (Inside(wave) => Inside(wave') \/ Nearly(wave'))
<1> DEFINE start == PageOf(Scaled(wave.start, m, n))
           w == [riff |-> Plus(Header, size), data |-> size, start |-> start,
                 end |-> Plus(start, Scaled(Minus(wave.end, wave.start), m, n))]
<1>1. wave' = wave \/ (ok /\ wave' = w)
  <2>1. Command(name, ok /\ Fits(0, wave.data), w, sel)
    BY Zenon DEF ResampleTo
  <2> HIDE DEF w
  <2> QED
    BY <2>1, Outcome
<1>2. CASE ok /\ wave' = w
  <2>1. wave'.data = size /\ size <= Word
    BY <1>2
  <2>2. DataBounded'
    BY <2>1, Numbers DEF DataBounded
  <2>3. ASSUME Inside(wave) PROVE Nearly(wave')
    <3> DEFINE a == Scaled(wave.start, m, n)
               b == Scaled(wave.end - wave.start, m, n)
    <3>1. wave.start <= wave.end /\ wave.end <= wave.data
      BY <2>3 DEF Inside
    <3>2. a \in 0 .. size + 1 /\ b \in 0 .. size + 1 /\ a + b <= size + 1
      BY <2>1, <3>1, Numbers, ScaledLoop
    <3>3. Minus(wave.end, wave.start) = wave.end - wave.start
      BY <3>1, Numbers DEF Minus
    <3>4. w = [riff |-> Plus(Header, size), data |-> size, start |-> PageOf(a),
               end |-> Plus(PageOf(a), b)]
      BY <3>3, Zenon
    <3> HIDE DEF a, b, w
    <3>5. PageOf(a) \in Nat /\ PageOf(a) <= a
      BY <3>2, PageOfBounds
    <3>6. Plus(PageOf(a), b) = PageOf(a) + b
      BY <2>1, <3>2, <3>5, Numbers DEF Plus
    <3>7. /\ Nearly(wave') <=> PageOf(a) <= PageOf(a) + b /\ PageOf(a) + b <= size + 1
      BY <1>2, <3>4, <3>6 DEF Nearly, Inside
    <3> QED
      BY <3>2, <3>5, <3>7
  <2> QED
    BY <2>2, <2>3
<1> QED
  BY <1>1, <1>2, SameLoop

LEMMA ResampleLoop ==
  ASSUME IInv, DataBounded
  PROVE  /\ \A pages \in 1 .. Word \div Page : OnToolsResample(pages) =>
              DataBounded' /\ (Inside(wave) => Inside(wave') \/ Nearly(wave'))
         /\ \A r \in Ratios : Resample(r[1], r[2]) =>
              DataBounded' /\ (Inside(wave) => Inside(wave') \/ Nearly(wave'))
<1>1. ASSUME NEW pages \in 1 .. Word \div Page, OnToolsResample(pages)
      PROVE  DataBounded' /\ (Inside(wave) => Inside(wave') \/ Nearly(wave'))
  <2> DEFINE size == pages * Page
  <2>1. size \in Nat /\ size <= Word
    BY PagesFit
  <2>2. wave.data \in Nat \ {0}
    BY <1>1, Numbers DEF OnToolsResample
  <2>3. PICK ok \in BOOLEAN : ResampleTo("Resample", ok, size, size, wave.data)
    <3>1. \E ok \in {TRUE, size <= Bank} : ResampleTo("Resample", ok, size, size, wave.data)
      BY <1>1, Zenon DEF OnToolsResample
    <3>2. (size <= Bank) \in BOOLEAN
      OBVIOUS
    <3> QED
      BY <3>1, <3>2, Zenon
  <2> HIDE DEF size
  <2>4. wave.data * size < wave.data * (size + 1)
    BY <2>1, <2>2, Products
  <2> QED
    BY <2>1, <2>2, <2>3, <2>4, ResampleToLoop
<1>2. ASSUME NEW r \in Ratios, Resample(r[1], r[2])
      PROVE  DataBounded' /\ (Inside(wave) => Inside(wave') \/ Nearly(wave'))
  <2>1. r[1] \in Nat /\ r[2] \in Nat \ {0}
    BY WaveSizesAssumption
  <2> DEFINE x == wave.data * r[1]
             size == x \div r[2]
  <2>2. x \in Nat
    BY <2>1, Numbers, Products
  <2>3. size \in Nat /\ x < r[2] * (size + 1)
    <3> HIDE DEF x
    <3>1. ASSUME NEW n \in Nat \ {0} PROVE x \div n \in Nat /\ x < n * (x \div n + 1)
      <4>1. x \div n \in Nat /\ x - (x \div n) * n \in 0 .. n - 1
        BY <2>2, SMT
      <4>2. n * (x \div n + 1) = (x \div n) * n + n /\ (x \div n) * n \in Nat
        BY <4>1, Products
      <4> QED
        BY <2>2, <4>1, <4>2
    <3> QED
      BY <2>1, <3>1
  <2>4. ResampleTo("wheel", Fits(0, size + 1), size, r[1], r[2])
    BY <1>2, Zenon DEF Resample
  <2>5. x < r[2] * (size + 1) /\ x = wave.data * r[1]
    BY <2>3
  <2> HIDE DEF size, x
  <2>6. Fits(0, size + 1) => size <= Word
    BY <2>3, Numbers DEF Fits
  <2> QED
    BY <2>1, <2>3, <2>4, <2>5, <2>6, FitsIsBoolean, ResampleToLoop
<1> QED
  BY <1>1, <1>2

LEMMA ReopenLoop ==
  ASSUME IInv, DataBounded, Reopen
  PROVE  DataBounded' /\ (Inside(wave) => Inside(wave') \/ Nearly(wave'))
<1> DEFINE size == IF wave.data > Bank THEN Bank ELSE wave.data
<1>1. wave.data \in Nat \ {0}
  BY Numbers DEF Reopen, Readable
<1>2. size \in Nat /\ size <= Word /\ size <= Bank
  BY <1>1, Numbers
<1> DEFINE a == Scaled(wave.start, size, wave.data)
           e == Scaled(wave.end, size, wave.data)
<1>3. wave' = wave \/ wave' = ReadBack(wave)
  BY Outcome, Zenon DEF Reopen
<1>4. /\ ReadBack(wave).data = size /\ ReadBack(wave).start = PageOf(a)
      /\ ReadBack(wave).end = e
      /\ [ReadBack(wave) EXCEPT !.data = @ + 1] =
            [riff |-> ReadBack(wave).riff, data |-> size + 1, start |-> PageOf(a), end |-> e]
  BY DEF ReadBack
<1> HIDE DEF size
<1>5. CASE wave' = ReadBack(wave)
  <2>1. DataBounded'
    BY <1>2, <1>4, <1>5, Numbers DEF DataBounded
  <2>2. ASSUME Inside(wave) PROVE Nearly(wave')
    <3>1. /\ wave.start \in Nat /\ wave.end \in Nat
          /\ wave.start <= wave.end /\ wave.end <= wave.data
      BY <2>2, Numbers DEF Inside
    <3>2. wave.data * size < wave.data * (size + 1)
      BY <1>1, <1>2, Products
    <3>3. a \in 0 .. size + 1 /\ e \in 0 .. size + 1 /\ a <= e
      BY <1>1, <1>2, <3>1, <3>2, ScaledLoop
    <3> HIDE DEF a, e
    <3>4. PageOf(a) \in Nat /\ PageOf(a) <= a
      BY <3>3, PageOfBounds
    <3>5. Nearly(wave') <=> PageOf(a) <= e /\ e <= size + 1
      BY <1>4, <1>5 DEF Nearly, Inside
    <3> QED
      BY <3>3, <3>4, <3>5
  <2> QED
    BY <2>1, <2>2
<1> QED
  BY <1>3, <1>5, SameLoop

LEMMA DragLoopLoop ==
  ASSUME IInv, DataBounded, NEW x \in Points, NEW shift \in BOOLEAN, NEW off \in BOOLEAN,
         DragLoop(x, shift, off)
  PROVE  /\ DataBounded'
         /\ Inside(wave) =>
               \/ Inside(wave')
               \/ DragLoop(x, FALSE, TRUE) /\ wave.end < Page /\ wave.data - PageOf(x) < Tail
<1>1. /\ x \in Nat /\ PageOf(x) \in Nat /\ PageOf(x) <= x
      /\ Page \in Nat /\ Tail \in Nat /\ Tail <= Page /\ Page <= Word
      /\ Long(wave.data) = wave.data
  <2>1. x \in Nat
    BY Constants
  <2>2. PageOf(x) \in Nat /\ PageOf(x) <= x
    BY <2>1, PageOfBounds
  <2>3. Long(wave.data) = wave.data
    BY Numbers DEF Long
  <2> QED
    BY <2>1, <2>2, <2>3, Constants
<1> DEFINE hasEnd == shift \/ m_endpoint_selected
           toStart == ~shift /\ MoveStart(x, off)
           toEnd == hasEnd /\ MoveEnd(x)
<1>2. wave' = [wave EXCEPT
                 !.start = IF toStart THEN PageOf(x) ELSE @,
                 !.end = IF toEnd THEN x
                         ELSE IF toStart /\ @ < PageOf(x) THEN Minus(wave.data, Tail)
                         ELSE @]
  BY Zenon DEF DragLoop
<1> HIDE DEF toStart, toEnd
<1>3. /\ wave'.data = wave.data
      /\ wave'.start = IF toStart THEN PageOf(x) ELSE wave.start
      /\ wave'.end = IF toEnd THEN x
                     ELSE IF toStart /\ wave.end < PageOf(x) THEN Minus(wave.data, Tail)
                     ELSE wave.end
  BY <1>2, SelectionSizes DEF Waves
<1>4. DataBounded'
  BY <1>3 DEF DataBounded
<1>5. ASSUME Inside(wave)
      PROVE  \/ Inside(wave')
             \/ DragLoop(x, FALSE, TRUE) /\ wave.end < Page /\ wave.data - PageOf(x) < Tail
  <2>1. wave.start <= wave.end /\ wave.end <= wave.data
    BY <1>5 DEF Inside
  <2>2. CASE toEnd
    <3>1. x < wave.data /\ x > Long(Plus(wave.start, Page))
      BY <1>1, <2>2 DEF toEnd, MoveEnd
    <3>2. x > wave.start
      <4>1. Plus(wave.start, Page) = wave.start + Page
        BY <1>1, <2>1, Numbers DEF Plus
      <4>2. Long(wave.start + Page) = wave.start + Page
        BY <1>1, <2>1, Numbers DEF Long
      <4> QED
        BY <1>1, <3>1, <4>1, <4>2, Numbers
    <3>3. wave'.start \in {wave.start, PageOf(x)} /\ wave'.end = x /\ wave'.data = wave.data
      BY <1>3, <2>2, Zenon
    <3>4. wave'.start <= wave'.end /\ wave'.end <= wave'.data
      BY <1>1, <2>1, <3>1, <3>2, <3>3, Numbers
    <3> QED
      BY <3>4 DEF Inside
  <2>3. CASE ~toEnd /\ ~toStart
    BY <1>3, <1>5, <2>3 DEF Inside
  <2>4. CASE ~toEnd /\ toStart /\ ~(wave.end < PageOf(x))
    <3>1. wave'.start = PageOf(x) /\ wave'.end = wave.end /\ wave'.data = wave.data
      BY <1>3, <2>4, Zenon
    <3>2. wave'.start <= wave'.end /\ wave'.end <= wave'.data
      BY <1>1, <2>1, <2>4, <3>1, Numbers
    <3> QED
      BY <3>2 DEF Inside
  <2>5. CASE ~toEnd /\ toStart /\ wave.end < PageOf(x)
    <3>1. /\ PageOf(x) < Minus(wave.end, Page) /\ PageOf(x) < wave.data
          /\ ~shift /\ (PageOf(x) < wave.end \/ off)
      BY <2>5 DEF toStart, MoveStart
    <3>2. wave.end < Page
      BY <1>1, <2>5, <3>1, Numbers DEF Minus
    <3>3. shift = FALSE /\ off = TRUE
      BY <1>1, <2>5, <3>1, Numbers
    <3>4. ASSUME wave.data - PageOf(x) >= Tail PROVE Inside(wave')
      <4>1. Minus(wave.data, Tail) = wave.data - Tail
        BY <1>1, <3>4, Numbers DEF Minus
      <4> QED
        BY <1>1, <1>3, <2>5, <3>4, <4>1, Numbers DEF Inside
    <3>5. DragLoop(x, FALSE, TRUE)
      BY <3>3, Zenon
    <3>6. wave.data - PageOf(x) < Tail \/ wave.data - PageOf(x) >= Tail
      BY <1>1, Numbers
    <3> QED
      BY <3>2, <3>4, <3>5, <3>6, Zenon
  <2> QED
    BY <2>2, <2>3, <2>4, <2>5, Zenon
<1> QED
  BY <1>4, <1>5

LEMMA OtherLoop ==
  ASSUME IInv, DataBounded,
         \/ OnToolsLoopwindow \/ LoopButton \/ \E use \in BOOLEAN : EndDialog(use)
         \/ OnLButtonDown \/ OtherMove
         \/ \E x \in Points, shift \in BOOLEAN : DragSelection(x, shift)
  PROVE  /\ DataBounded'
         /\ Inside(wave) =>
               \/ Inside(wave')
               \/ dialog /\ ~Inside([wave EXCEPT !.start = loop.start, !.end = loop.end])
<1>1. \/ wave' = wave
      \/ dialog /\ wave' = [wave EXCEPT !.start = loop.start, !.end = loop.end]
  BY Zenon DEF OnToolsLoopwindow, LoopButton, LoopEndF, LoopEndB, LoopEndFineF, LoopEndFineB,
               LoopStartF, LoopStartB, LoopEndPage, LoopMoves, EndDialog,
               OnLButtonDown, OtherMove, DragSelection
<1>2. CASE dialog /\ wave' = [wave EXCEPT !.start = loop.start, !.end = loop.end]
  <2>1. wave'.data = wave.data
    BY <1>2, SelectionSizes DEF Waves
  <2>2. DataBounded'
    BY <2>1 DEF DataBounded
  <2> QED
    BY <1>2, <2>2, Zenon
<1> QED
  BY <1>1, <1>2, SameLoop, Zenon

LEMMA BoundedInit == Init => DataBounded
<1> SUFFICES ASSUME Init PROVE DataBounded
  OBVIOUS
<1>1. PICK size \in Sizes :
         \/ wave = DefaultLoop(size)
         \/ \E start, end \in 0 .. size : wave = GivenLoop(size, start, end)
  BY DEF Init
<1>2. wave.data = size /\ size \in 1 .. Bank
  BY <1>1, Constants DEF DefaultLoop, GivenLoop
<1> QED
  BY <1>2, Constants DEF DataBounded, Block

LEMMA LoopStep ==
  ASSUME IInv, DataBounded, Next
  PROVE  /\ DataBounded'
         /\ Inside(wave) =>
               \/ Inside(wave')
               \/ OnEditCut /\ sel.end \in {wave.start, wave.end}
               \/ \E clip \in Clips : OnEditPaste(clip) /\ SelectionSize > clip
               \/ OnTruncateAfterloop /\ wave.end >= PageOf(Bank)
               \/ OnTruncateOnlykeeploop /\ (wave.end >= PageOf(Bank) \/ LowByte(wave.end) = 0)
               \/ KeepOnlySelection /\ ~(sel.start <= wave.start /\ wave.end <= sel.end)
               \/ dialog /\ ~Inside([wave EXCEPT !.start = loop.start, !.end = loop.end])
               \/ \E x \in Points : /\ DragLoop(x, FALSE, TRUE)
                                    /\ wave.end < Page /\ wave.data - PageOf(x) < Tail
               \/ Resampled /\ Inside([wave' EXCEPT !.data = @ + 1])
<1>1. CASE OnEditCut
  BY <1>1, CutLoop, Zenon
<1>2. ASSUME NEW clip \in Clips, OnEditPaste(clip)
      PROVE  DataBounded' /\ (Inside(wave) => Inside(wave') \/ SelectionSize > clip)
  BY <1>2, PasteLoop, Zenon
<1>3. ASSUME NEW clip \in Clips,
             \/ OnPastespecialAppend(clip) \/ OnPastespecialPrepend(clip)
             \/ \E count \in Repeats : OnPastespecialMultiplecopies(clip, count)
      PROVE  DataBounded' /\ (Inside(wave) => Inside(wave'))
  BY <1>3, PasteSpecialLoop, Zenon
<1>4. CASE OnTruncateAfterloop \/ OnTruncateBeforeloop \/ OnTruncateOnlykeeploop \/ KeepOnlySelection
  BY <1>4, TruncateLoop, Zenon
<1>5. CASE Resampled
  BY <1>5, ResampleLoop, ReopenLoop, Zenon DEF Resampled, Nearly
<1>6. CASE \/ OnToolsLoopwindow \/ LoopButton \/ \E use \in BOOLEAN : EndDialog(use)
           \/ OnLButtonDown \/ OtherMove
           \/ \E x \in Points, shift \in BOOLEAN : DragSelection(x, shift)
  BY <1>6, OtherLoop, Zenon
<1>7. ASSUME NEW x \in Points, NEW shift \in BOOLEAN, NEW off \in BOOLEAN, DragLoop(x, shift, off)
      PROVE  /\ DataBounded'
             /\ Inside(wave) =>
                   \/ Inside(wave')
                   \/ DragLoop(x, FALSE, TRUE) /\ wave.end < Page /\ wave.data - PageOf(x) < Tail
  BY <1>7, DragLoopLoop, Zenon
<1> QED
  <2>1. CASE Edit
    BY <1>1, <1>2, <1>3, <1>4, <2>1, Zenon DEF Edit
  <2>2. CASE Tools
    BY <1>5, <1>6, <2>2, Zenon DEF Tools, Resampled
  <2>3. CASE Mouse
    BY <1>6, <1>7, <2>3, Zenon DEF Mouse
  <2> QED
    BY <2>1, <2>2, <2>3 DEF Next

(* The loop stays inside the data but for the commands named, each only in *)
(* the case named, for pages, banks and tails of any size                  *)
(* (WaveSizes.LoopStaysInside).                                            *)
THEOREM LoopKept == Spec => LoopStaysInside
<1>1. IInv /\ DataBounded /\ [Next]_vars => DataBounded'
  <2>1. ASSUME UNCHANGED vars, DataBounded PROVE DataBounded'
    BY <2>1 DEF vars, DataBounded
  <2> QED
    BY <2>1, LoopStep
<1>2. Spec => [](IInv /\ DataBounded)
  BY <1>1, BoundedInit, Invariance, PTL DEF Spec
<1>3. ASSUME IInv, DataBounded, [Next]_vars
      PROVE  [Inside(wave) =>
               \/ Inside(wave')
               \/ OnEditCut /\ sel.end \in {wave.start, wave.end}
               \/ \E clip \in Clips : OnEditPaste(clip) /\ SelectionSize > clip
               \/ OnTruncateAfterloop /\ wave.end >= PageOf(Bank)
               \/ OnTruncateOnlykeeploop /\ (wave.end >= PageOf(Bank) \/ LowByte(wave.end) = 0)
               \/ KeepOnlySelection /\ ~(sel.start <= wave.start /\ wave.end <= sel.end)
               \/ dialog /\ ~Inside([wave EXCEPT !.start = loop.start, !.end = loop.end])
               \/ \E x \in Points : /\ DragLoop(x, FALSE, TRUE)
                                    /\ wave.end < Page /\ wave.data - PageOf(x) < Tail
               \/ Resampled /\ Inside([wave' EXCEPT !.data = @ + 1])]_vars
  BY <1>3, LoopStep, Zenon
<1> QED
  BY <1>2, <1>3, PTL DEF Spec, LoopStaysInside
=============================================================================
