SPECIFICATION Spec
CONSTANTS
  Numbers <- MCNumbers
  Valid <- MCValid
  Looped <- MCLooped
  MaxPicks = 2
  MaxSessions = 2
  MaxNotes = 1
INVARIANTS TypeOK OneSampleFaithful OneSampleLoopRestored
PROPERTY ReceiveEnds
CHECK_DEADLOCK FALSE
