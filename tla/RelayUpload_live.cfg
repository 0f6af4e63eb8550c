CONSTANTS
  NoRequest = NoRequest
  Requests = {r1}
  MaxRetries = 2
  MaxTicks = 1
  MaxFaults = 2
  MaxCommands = 1
SPECIFICATION FairSpec
INVARIANT UploadedIsAnnounced
INVARIANT PendingCountAtRest
PROPERTY ImplementsContract
PROPERTY EventuallySettled
PROPERTY ShutdownStops
CHECK_DEADLOCK FALSE
