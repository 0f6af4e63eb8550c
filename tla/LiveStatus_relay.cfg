SPECIFICATION Spec
CONSTANTS
  MaxGames = 2
  MaxIds = 3
  MaxSamples = 4
  MaxQueue = 2
  MaxConnections = 2
  MaxTimeouts = 1
INVARIANTS NoFinishedGameIsLive
PROPERTIES EndedStaysEnded
CHECK_DEADLOCK FALSE
