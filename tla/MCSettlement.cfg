SPECIFICATION Spec
CONSTANTS
  w1 = w1
  w2 = w2
  Cycle = {"cycle"}
  Manual = {"byhand"}
  Followed = {"cycle"}
  Asked = {100}
  Payin = {"p1"}
  Late = {}
  Amount = 100
  Card <- MCCard
  Rate <- MCRate
  Limits <- MCLimits
  Worker <- Workers
  NoWorker = NoWorker
  Duties <- MCDuties
  Buttons = {"REJECT", "ESCALATE", "REASSIGN", "MARK_INSUFFICIENT", "UTR", "CONFIRM", "REVERSE"}
  MaxFaults = 1
INVARIANTS
  SettlementTypeOK
  NeverOverdrawn
  StateIsBooked
  OneOutcome
PROPERTIES
  OutcomeStays
  VerifiedSettles
CHECK_DEADLOCK FALSE
