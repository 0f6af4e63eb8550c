SPECIFICATION FairSpec
CONSTANTS
  RelayEnabled = TRUE
  UpdateChecks = TRUE
  MaxRecords = 1
  MaxCommands = 2
INVARIANTS NoCommandLost RelaunchAlone
PROPERTIES ImplementsContract InstalledIsFinal CommandsSettle ShutdownExits
CHECK_DEADLOCK FALSE
