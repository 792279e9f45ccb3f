-------------------------------- MODULE Undo --------------------------------
(***************************************************************************)
(* CUndo (undo.h): the undo and redo lists of a document.  The head of each *)
(* list comes first.  A state is a copy of the document's memory: Serialize *)
(* writes it to the CMemFile and Load copies it back.                       *)
(***************************************************************************)
EXTENDS Naturals, Sequences, SequencesExt

CONSTANTS Content,     \* the states of a document
          m_undoLevels \* the constructor's undolevels

ASSUME LevelsAssumption == m_undoLevels \in Nat

VARIABLES
  doc,         \* the document
  m_undolist,  \* saved states; the head is the one saved or loaded last
  m_redolist   \* states that were undone

undoVars == <<doc, m_undolist, m_redolist>>

CanUndo == Len(m_undolist) > 1
CanRedo == Len(m_redolist) > 0

\* The variant without a limit.
AddUndoNoLimit(list, file) == <<file>> \o list

\* A list that is over the limit loses its oldest state before the new one is added.
AddUndo(list, file) ==
  <<file>> \o (IF Len(list) > m_undoLevels THEN Front(list) ELSE list)

\* A document as it is opened: one state is saved.
UndoInit ==
  /\ doc \in Content
  /\ m_undolist = <<doc>>
  /\ m_redolist = <<>>

-----------------------------------------------------------------------------
\* The document's owner changes it without saving the state.
Edit(c) ==
  /\ doc' = c
  /\ UNCHANGED <<m_undolist, m_redolist>>

\* CheckPoint, when the document has become c: Store, AddUndo, ClearRedoList.
CheckPoint(c) ==
  /\ doc' = c
  /\ m_undolist' = AddUndo(m_undolist, c)
  /\ m_redolist' = <<>>

\* The variant that loads the state it has just moved.
UndoLoadsMoved ==
  /\ CanUndo
  /\ m_redolist' = <<Head(m_undolist)>> \o m_redolist
  /\ m_undolist' = Tail(m_undolist)
  /\ doc' = Head(m_undolist)

\* The variant that undoes the last state too, and loads nothing.
UndoLastState ==
  /\ m_undolist # <<>>
  /\ m_redolist' = <<Head(m_undolist)>> \o m_redolist
  /\ m_undolist' = Tail(m_undolist)
  /\ doc' = IF m_undolist' = <<>> THEN <<>> ELSE Head(m_undolist')

\* Undo: the head moves to the redo list and the state below it is loaded.
DoUndo ==
  /\ CanUndo
  /\ m_redolist' = <<Head(m_undolist)>> \o m_redolist
  /\ m_undolist' = Tail(m_undolist)
  /\ doc' = Head(m_undolist')

\* Redo: the head of the redo list moves back, through AddUndo, and is loaded.
DoRedo ==
  /\ CanRedo
  /\ m_redolist' = Tail(m_redolist)
  /\ m_undolist' = AddUndo(m_undolist, Head(m_redolist))
  /\ doc' = Head(m_redolist)

UndoNext ==
  \/ \E c \in Content : Edit(c) \/ CheckPoint(c)
  \/ DoUndo
  \/ DoRedo

UndoSpec == UndoInit /\ [][UndoNext]_undoVars

-----------------------------------------------------------------------------
(* Properties.                                                             *)

UndoTypeOK ==
  /\ doc \in Content
  /\ m_undolist \in Seq(Content)
  /\ m_redolist \in Seq(Content)

\* The two lists together never outgrow the limit, so the AddUndo that Redo calls never
\* drops a state: what was undone can be redone to the last step.  And one saved state
\* always stays behind for Undo to load.
WithinLevels ==
  /\ Len(m_undolist) + Len(m_redolist) <= m_undoLevels + 1
  /\ m_undolist # <<>>

\* The tape the two lists are folded around, and the place of the fold.
History == INSTANCE UndoHistory
  WITH UndoLevels <- m_undoLevels,
       tape <- Reverse(m_undolist) \o m_redolist,
       cursor <- Len(m_undolist)

\* CUndo keeps the promise of UndoHistory: Undo and Redo walk over the saved states and
\* forget none of them.
Implements == History!Spec

=============================================================================
