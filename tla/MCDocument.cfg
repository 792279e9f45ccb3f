CONSTANTS
  d1 = d1
  d2 = d2
  r1 = r1
  r2 = r2
  NoRate = NoRate
  Data <- MCData
  Rate <- MCRate
  Content <- MCContent
  m_undoLevels = 2
SPECIFICATION Spec
INVARIANT FlagKeepsRate
PROPERTIES UsesUndo FlagTold
