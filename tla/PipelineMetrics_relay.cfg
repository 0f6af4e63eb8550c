SPECIFICATION EdgeSpec
CONSTANTS
  Producers = {main, worker}
  Relay = relay
  MaxSends = 3
  MaxFlushes = 1
INVARIANTS
  HighWaterExact
  CountersBalance
CHECK_DEADLOCK FALSE
