SPECIFICATION CallbackSpec
SYMMETRY Workers
CONSTANTS
  plain = plain
  sandbox = sandbox
  g = g
  w1 = w1
  w2 = w2
  NoOrder = NoOrder
  NoRef = NoRef
  Order <- OnlySandbox
  LiveOrder = {}
  HeldOrder = {}
  SandboxOutcome <- MCSandboxOutcome
  Ref = {g}
  genRrn <- MCgenRrn
  Worker <- MCWorker
  Backups = 1
  MaxFaults = 1
  HasTarget = TRUE
  Subscribed <- Word
INVARIANTS
  CallbackTypeOK
  ModesNeverCross
  CapturedIsTrue
  SentMeansQueued
  NothingForgotten
CHECK_DEADLOCK FALSE
