SPECIFICATION Spec
CONSTANTS
  RelayEnabled = TRUE
  UpdateChecks = TRUE
  MaxRecords = 2
  MaxCommands = 2
INVARIANT InstalledRestarts
CHECK_DEADLOCK FALSE
