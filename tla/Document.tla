------------------------------ MODULE Document ------------------------------
(***************************************************************************)
(* A wave document and the commands of its view: CMirageEditorDoc          *)
(* (WaveApi/Wave Doc.cpp) and CMirageEditorView (WaveApi/Wave View.cpp,    *)
(* Menus/Menu_Edit.cpp, Menus/Menu_Tools.cpp).  The document keeps its     *)
(* history in a CUndo (module Undo); the commands decide when it saves a   *)
(* state, when the document counts as modified and whether it still is     *)
(* what the Mirage sent.                                                   *)
(*                                                                         *)
(* Every command runs to its end in the main thread, so each is one step.  *)
(* The samples and the loop points of a wave are one value of Data: a      *)
(* command that computes new ones may arrive at any.                       *)
(***************************************************************************)
EXTENDS Undo

CONSTANTS Data,         \* sample data and loop points of a wave
          Rate,         \* sample rates
          NoRate        \* the clipboard without a wave; the source of a file

\* The document's CUndo keeps the wave in memory (m_hWAV).
Wave == [rate : Rate, data : Data]

ASSUME WaveAssumption == Content = Wave
ASSUME NoRateAssumption == NoRate \notin Rate

VARIABLES
  m_FromMirage,   \* PutSample leaves the tuning alone when it is set
  m_Modified,     \* the flag of SetModifiedFlag: closing asks to save
  saved,          \* the wave as it was opened, received or written last
  received,       \* the rate the wave had when the Mirage or a disk image gave it
  m_selection,    \* the left button went down in the view
  selected,       \* SelectionStart and SelectionEnd hold a selection
  clip            \* the rate of the wave in the clipboard

vars == <<undoVars, m_FromMirage, m_Modified, saved, received, m_selection, selected, clip>>

originVars == <<m_FromMirage, received>>
fileVars == <<m_Modified, saved>>
viewVars == <<m_selection, selected>>

InitView ==
  /\ UndoInit
  /\ m_Modified = FALSE
  /\ saved = doc
  /\ m_selection = FALSE /\ selected = FALSE
  /\ clip \in Rate \cup {NoRate}

\* CreateNewFromMirage.
CreateNewFromMirage ==
  /\ InitView
  /\ m_FromMirage = TRUE
  /\ received = doc.rate

\* OnOpenDocument of a .wav file.  The constructor does not initialise m_FromMirage.
OnOpenDocument ==
  /\ InitView
  /\ m_FromMirage \in BOOLEAN
  /\ received = NoRate

Init == CreateNewFromMirage \/ OnOpenDocument

-----------------------------------------------------------------------------
(* Edit menu.  None of these commands calls SetModifiedFlag.               *)

\* The variant that saves the state before the command changes it.
OnEditCutEarly(d) ==
  /\ selected
  /\ doc' = [doc EXCEPT !.data = d]
  /\ m_undolist' = AddUndo(m_undolist, doc) /\ m_redolist' = <<>>
  /\ clip' = doc.rate
  /\ selected' = FALSE
  /\ UNCHANGED <<originVars, fileVars, m_selection>>

OnEditCut(d) ==
  /\ selected
  /\ CheckPoint([doc EXCEPT !.data = d])
  /\ clip' = doc.rate
  /\ selected' = FALSE
  /\ UNCHANGED <<originVars, fileVars, m_selection>>

OnEditCopy ==
  /\ selected
  /\ clip' = doc.rate
  /\ UNCHANGED <<undoVars, originVars, fileVars, viewVars>>

\* The check of the two rates is commented out: any wave can be pasted.
OnEditPaste(d) ==
  /\ clip # NoRate
  /\ CheckPoint([doc EXCEPT !.data = d])
  /\ UNCHANGED <<originVars, fileVars, viewVars, clip>>

\* Append, Prepend and Multiple Copies refuse a wave of another rate.
OnPastespecial(d) ==
  /\ clip = doc.rate
  /\ CheckPoint([doc EXCEPT !.data = d])
  /\ UNCHANGED <<originVars, fileVars, viewVars, clip>>

\* Truncate After Loop saves no state.
OnTruncateAfterloop(d) ==
  /\ Edit([doc EXCEPT !.data = d])
  /\ UNCHANGED <<originVars, fileVars, viewVars, clip>>

\* Truncate Before Loop, Keep Loop Only and KeepOnlySelection clear the selection.
OnTruncate(d) ==
  /\ CheckPoint([doc EXCEPT !.data = d])
  /\ selected' = FALSE
  /\ UNCHANGED <<originVars, fileVars, m_selection, clip>>

\* The variant that takes the flag of the restored wave for granted.
OnEditUndoFromMirage ==
  /\ DoUndo
  /\ m_FromMirage' = (received # NoRate)
  /\ UNCHANGED <<received, fileVars, viewVars, clip>>

OnEditUndo ==
  /\ DoUndo
  /\ UNCHANGED <<originVars, fileVars, viewVars, clip>>

OnEditRedo ==
  /\ DoRedo
  /\ UNCHANGED <<originVars, fileVars, viewVars, clip>>

-----------------------------------------------------------------------------
(* Tools menu and the loop button.                                         *)

\* Loop Window, Reverse, Normalize and Resynthesize.
OnTools(d) ==
  /\ CheckPoint([doc EXCEPT !.data = d])
  /\ m_Modified' = TRUE
  /\ UNCHANGED <<saved, originVars, viewVars, clip>>

\* The variant that tells the source and forgets the file.
ResampleUntold(d, r) ==
  /\ CheckPoint([rate |-> r, data |-> d])
  /\ m_FromMirage' = FALSE
  /\ UNCHANGED <<fileVars, received, viewVars, clip>>

\* OnToolsResample and Resample: the wave is no longer what the Mirage sent.
Resample(d, r) ==
  /\ CheckPoint([rate |-> r, data |-> d])
  /\ m_Modified' = TRUE
  /\ m_FromMirage' = FALSE
  /\ UNCHANGED <<saved, received, viewVars, clip>>

\* LoopToggle changes dwPlayCount and saves no state.
LoopToggle(d) ==
  /\ Edit([doc EXCEPT !.data = d])
  /\ UNCHANGED <<originVars, fileVars, viewVars, clip>>

-----------------------------------------------------------------------------
(* The mouse.                                                              *)

OnLButtonDown(shift) ==
  /\ ~m_selection
  /\ m_selection' = TRUE
  /\ selected' = (selected /\ shift)
  /\ UNCHANGED <<undoVars, originVars, fileVars, clip>>

\* OnMouseMove with the left button: the selection.
DragSelection ==
  /\ selected' = TRUE
  /\ UNCHANGED <<undoVars, originVars, fileVars, m_selection, clip>>

\* OnMouseMove with the right button: a loop point moves, and no state is saved.
DragLoopPoint(d) ==
  /\ Edit([doc EXCEPT !.data = d])
  /\ UNCHANGED <<originVars, fileVars, viewVars, clip>>

\* Releasing the button saves a state, also when only the selection has changed.
OnLButtonUp ==
  /\ m_selection
  /\ m_selection' = FALSE
  /\ CheckPoint(doc)
  /\ UNCHANGED <<originVars, fileVars, selected, clip>>

OnRButtonUp ==
  /\ CheckPoint(doc)
  /\ UNCHANGED <<originVars, fileVars, viewVars, clip>>

-----------------------------------------------------------------------------
\* OnSaveDocument, when the file can be written.  When opening or writing it fails,
\* the exception is reported and nothing changes.  The flag is cleared before SaveWAV's
\* result is looked at, but SaveWAV fails only when there is no wave in memory.
OnSaveDocument ==
  /\ saved' = doc
  /\ m_Modified' = FALSE
  /\ UNCHANGED <<undoVars, originVars, viewVars, clip>>

\* A command of another document or program puts a wave in the clipboard.
ClipboardElsewhere(r) ==
  /\ clip' = r
  /\ UNCHANGED <<undoVars, originVars, fileVars, viewVars>>

EditMenu ==
  \/ \E d \in Data : OnEditCut(d) \/ OnEditPaste(d) \/ OnPastespecial(d)
                     \/ OnTruncateAfterloop(d) \/ OnTruncate(d)
  \/ OnEditCopy
  \/ OnEditUndo
  \/ OnEditRedo

ToolsMenu ==
  \/ \E d \in Data : OnTools(d) \/ LoopToggle(d)
  \/ \E d \in Data, r \in Rate : Resample(d, r)

Mouse ==
  \/ \E shift \in BOOLEAN : OnLButtonDown(shift)
  \/ DragSelection
  \/ \E d \in Data : DragLoopPoint(d)
  \/ OnLButtonUp
  \/ OnRButtonUp

Next ==
  \/ EditMenu
  \/ ToolsMenu
  \/ Mouse
  \/ OnSaveDocument
  \/ \E r \in Rate \cup {NoRate} : ClipboardElsewhere(r)

Spec == Init /\ [][Next]_vars

-----------------------------------------------------------------------------
(* Properties.                                                             *)

TypeOK ==
  /\ doc \in Wave /\ saved \in Wave
  /\ m_undolist \in Seq(Wave)
  /\ m_redolist \in Seq(Wave)
  /\ m_FromMirage \in BOOLEAN
  /\ m_Modified \in BOOLEAN
  /\ m_selection \in BOOLEAN
  /\ selected \in BOOLEAN
  /\ received \in Rate \cup {NoRate}
  /\ clip \in Rate \cup {NoRate}

\* The waves that Undo and Redo can bring back, and the one there is.
Reachable == {doc} \cup ToSet(m_undolist) \cup ToSet(m_redolist)

\* "If we received the sample from the Mirage we do not change the tuning parameters"
\* (PutSample): a received document that still has the flag has the rate it came with, and
\* so has every state that Undo and Redo can bring back, although they do not restore the
\* flag.  The sample that goes back to the Mirage then sounds at its old tuning.
FlagKeepsRate ==
  received # NoRate /\ m_FromMirage => \A w \in Reachable : w.rate = received

\* Whatever the order of the commands, the document and its two lists are a CUndo.
UsesUndo == UndoSpec

\* "Remember that the head of the undo list is the current state" (CUndo::Undo): the state
\* Undo moves to the redo list is the one the user sees.  OnTruncateAfterloop, LoopToggle and
\* an unfinished drag of a loop point change the document and save no state.
HeadIsCurrent == [][OnEditUndo => doc = Head(m_undolist)]_vars

Told == ~m_Modified => doc = saved

\* "start off with unmodified", "back to unmodified" (Wave Doc.cpp): a document without the
\* flag is the one in the file.  It stays so whatever is done, in whatever order, but for the
\* commands that never set the flag: the Edit menu, Undo and Redo in it, the loop button and
\* the drag of a loop point.
FlagTold ==
  [][Told => Told' \/ EditMenu \/ \E d \in Data : LoopToggle(d) \/ DragLoopPoint(d)]_vars

=============================================================================
