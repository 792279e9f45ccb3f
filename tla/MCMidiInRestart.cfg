CONSTANTS
  h1 = h1
  h2 = h2
  h3 = h3
  h4 = h4
  NoHeader = NoHeader
  Header <- MCHeader
  MaxOpens = 2
SPECIFICATION Spec
CHECK_DEADLOCK FALSE
INVARIANT RemovesFinished
