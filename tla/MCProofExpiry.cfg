SPECIFICATION Spec
SYMMETRY Workers
CONSTANTS
  plain = plain
  held = held
  sandbox = sandbox
  u = u
  w1 = w1
  w2 = w2
  g = g
  NoOrder = NoOrder
  NoRef = NoRef
  Order <- OnlyPlain
  LiveOrder <- OnlyPlain
  HeldOrder = {}
  SandboxOutcome <- MCSandboxOutcome
  Ref <- MCRef
  genRrn <- MCgenRrn
  Worker <- MCWorker
  Backups = 0
  MaxFaults = 0
INVARIANT
  ProofStopsExpiry
CHECK_DEADLOCK FALSE
