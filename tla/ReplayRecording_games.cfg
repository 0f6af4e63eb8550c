CONSTANTS
  MaxGames = 2
  MaxIds = 3
  MaxSamples = 5
  MaxQueue = 1
  RelayEnabled = TRUE
  MaxFaults = 0
  MaxToggles = 0
SPECIFICATION Spec
INVARIANTS FilesHoldOneGame IdTellsGamesApart
PROPERTY FilesAreFinal
CHECK_DEADLOCK FALSE
