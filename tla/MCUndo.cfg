CONSTANTS
  c1 = c1
  c2 = c2
  c3 = c3
  Content <- MCContent
  m_undoLevels = 3
SPECIFICATION UndoSpec
INVARIANTS UndoTypeOK WithinLevels
PROPERTY Implements
