SPECIFICATION FairSpec
CONSTANTS
  pointer = pointer
  camera = camera
  state = state
  time = time
  Base = Base
  GameTime = time
  None = None
  Elsewhere = Elsewhere
  Low <- LowAddresses
  High <- HighAddresses
  Segment <- Segments
  MaxFaults = 3
INVARIANTS
  RightUntilTwoTimeouts
  ProbeReadsLive
PROPERTIES
  ProbingGoesOn
