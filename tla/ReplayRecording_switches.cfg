CONSTANTS
  MaxGames = 1
  MaxIds = 2
  MaxSamples = 3
  MaxQueue = 2
  RelayEnabled = TRUE
  MaxFaults = 1
  MaxToggles = 2
SPECIFICATION FairSpec
INVARIANTS FilesAreFaithful DiscardedStaysOut NoStraySpool RequestsMatchFiles
PROPERTIES EndedGamesSaved ShutdownStops
CHECK_DEADLOCK FALSE
