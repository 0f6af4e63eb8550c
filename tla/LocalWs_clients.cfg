SPECIFICATION FairSpec
CONSTANTS
  Addresses = {a1, a2}
  Capacity = 1
  MaxMessages = 3
  MaxAccepts = 3
  MaxRequests = 2
INVARIANTS GaplessStream PanelMatchesTasks
PROPERTIES EveryoneElseIsServed DisconnectsHappen
CHECK_DEADLOCK FALSE
