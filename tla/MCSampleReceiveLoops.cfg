SPECIFICATION Spec
CONSTANTS
  Numbers <- MCNumbers
  Valid <- MCValid
  Looped <- MCLooped
  MaxPicks = 2
  MaxSessions = 2
  MaxNotes = 1
INVARIANT LoopsSwitchedBack
CHECK_DEADLOCK FALSE
