SPECIFICATION Spec
CONSTANTS
  Page = 4
  Bank = 11
  DWords = 78
  Header = 3
  Tail = 2
  NearEnd = 2
  Sizes <- MCSizes
  Points <- MCPoints
  Clips <- MCClips
  Repeats <- MCRepeats
  Ratios <- MCRatios
CONSTRAINT Bounded
INVARIANTS TypeOK RoundTrip
PROPERTIES FileWhole LoopStaysInside StaysInBlock DialogKeepsLoop
CHECK_DEADLOCK FALSE
