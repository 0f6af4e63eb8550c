CONSTANTS
  NoRequest = NoRequest
  Requests = {r1, r2}
  MaxRetries = 1
  MaxTicks = 1
  MaxFaults = 2
  MaxCommands = 0
SPECIFICATION Spec
SYMMETRY RequestSymmetry
INVARIANT NoLostUpload
INVARIANT ReadyToResume
CHECK_DEADLOCK FALSE
