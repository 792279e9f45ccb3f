CONSTANTS
  h1 = h1
  h2 = h2
  h3 = h3
  Header <- MCHeader
  NoHeader = NoHeader
  MaxOpens = 2
SPECIFICATION Spec
INVARIANTS TypeOK FirstSessionRemovesFinished FirstSessionKeepsInFlight EveryHeaderOwnedOnce ClosedIsEmpty
PROPERTY CloseReturns
\* the program may end, and the bound on opens stops it
CHECK_DEADLOCK FALSE
