SPECIFICATION Spec
SYMMETRY Workers
CONSTANTS
  plain = plain
  held = held
  sandbox = sandbox
  u = u
  w1 = w1
  w2 = w2
  g = g
  NoOrder = NoOrder
  NoRef = NoRef
  Order <- LivePair
  LiveOrder <- LivePair
  HeldOrder <- OnlyHeld
  SandboxOutcome <- MCSandboxOutcome
  Ref = {g}
  genRrn <- MCgenRrn
  Worker <- MCWorker
  Backups = 1
  MaxFaults = 1
INVARIANTS
  TypeOK
  NoBouncedPayment
  ConfirmedMeansPaid
  DuplicateIsReal
  HeldNeverExpires
  PaidHasReference
  OneReferenceOneOrder
PROPERTIES
  KeepsPromise
  PaidIsFinal
CHECK_DEADLOCK FALSE
