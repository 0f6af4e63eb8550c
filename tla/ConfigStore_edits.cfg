SPECIFICATION Spec
CONSTANTS
  MaxCommands = 2
  MaxEdits = 1
  MaxFailures = 1
  MaxStarts = 2
INVARIANTS
  RunningInForce
  SavedSurvivesRestart
  FailureChangesNothing
CHECK_DEADLOCK FALSE
