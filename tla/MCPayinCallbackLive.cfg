SPECIFICATION CallbackFairSpec
CONSTANTS
  plain = plain
  sandbox = sandbox
  g = g
  w1 = w1
  w2 = w2
  NoOrder = NoOrder
  NoRef = NoRef
  Order <- OnlyPlain
  LiveOrder <- OnlyPlain
  HeldOrder = {}
  SandboxOutcome <- MCSandboxOutcome
  Ref = {g}
  genRrn <- MCgenRrn
  Worker <- MCWorker
  Backups = 0
  MaxFaults = 1
  HasTarget = TRUE
  Subscribed = {"Captured", "Expired"}
PROPERTIES
  PaidIsAnnounced
  NeverHangs
CHECK_DEADLOCK FALSE
