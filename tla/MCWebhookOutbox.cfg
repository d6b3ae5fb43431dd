SPECIFICATION OutboxFairSpec
CONSTANTS
  callback = callback
  sample = sample
  d1 = d1
  d2 = d2
  Rows <- MCRows
  Samples = {sample}
  Dispatcher <- MCDispatcher
  Waits = 2
  Limit = 2
  MaxFaults = 1
INVARIANTS
  OutboxTypeOK
  DeliveredIsReal
  NoEarlyGiveUp
PROPERTIES
  EveryRowSettles
CHECK_DEADLOCK FALSE
