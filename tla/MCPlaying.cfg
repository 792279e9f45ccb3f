SPECIFICATION Spec
CONSTANTS
  p1 = p1
  p2 = p2
  l1 = l1
  l2 = l2
  Players <- MCPlayers
  Loopers <- MCLoopers
INVARIANTS OnePlayer BufferOutlivesDriver
PROPERTIES RoundOnlyWhenOn PlayEnds LoopStops
CHECK_DEADLOCK FALSE
