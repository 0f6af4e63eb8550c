SPECIFICATION StatsSpec
CONSTANTS
  MaxSlots = 2
  ChainTicks = 0
  TimeRange = 4
  MaxTime = 2
  MaxGames = 2
  MaxKills = 4
  MaxSamples = 4
  MaxMisreads = 1
  Killers = {1}
INVARIANTS
  DroppedExact
  MultikillsReal
  KillsExact
  TicksOfOneGame
CHECK_DEADLOCK FALSE
