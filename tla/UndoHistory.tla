---------------------------- MODULE UndoHistory ----------------------------
(***************************************************************************)
(* What undo and redo promise: a tape of the states that were saved, oldest *)
(* first, and a cursor on the one that is current.  Undo and Redo move the  *)
(* cursor and load the state it stands on; they never change the tape.      *)
(***************************************************************************)
EXTENDS Naturals, Sequences, SequencesExt

CONSTANTS Content,    \* the states a document can be in
          UndoLevels  \* how many states can be undone

VARIABLES doc, tape, cursor

vars == <<doc, tape, cursor>>

Init ==
  /\ doc \in Content
  /\ tape = <<doc>>
  /\ cursor = 1

\* The document changes and nobody saves the change.
Edit(c) ==
  /\ doc' = c
  /\ UNCHANGED <<tape, cursor>>

\* The document becomes c and is saved: what was undone is dropped, and the oldest state
\* when the tape is full.
Commit(c) ==
  LET kept == SubSeq(tape, 1, cursor)
  IN  /\ doc' = c
      /\ tape' = Append(IF cursor > UndoLevels THEN Tail(kept) ELSE kept, c)
      /\ cursor' = Len(tape')

Undo ==
  /\ cursor > 1
  /\ cursor' = cursor - 1
  /\ doc' = tape[cursor']
  /\ UNCHANGED tape

Redo ==
  /\ cursor < Len(tape)
  /\ cursor' = cursor + 1
  /\ doc' = tape[cursor']
  /\ UNCHANGED tape

Next ==
  \/ \E c \in Content : Edit(c) \/ Commit(c)
  \/ Undo
  \/ Redo

Spec == Init /\ [][Next]_vars

=============================================================================
