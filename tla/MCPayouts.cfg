SPECIFICATION Spec
CONSTANTS
  r1 = r1
  r2 = r2
  Payout = {"po"}
  Request <- Requests
  Cron = Cron
  NoPayout = NoPayout
  MaxReassigns = 2
  Deciders = 1
  Operators = 1
  MaxFaults = 1
INVARIANTS
  PayoutTypeOK
  SentOncePerApproval
  HeldNeedsApproval
  ClosedByTheGateway
  EachWordOnce
  OneVerdict
  PaidIsDebited
CHECK_DEADLOCK FALSE
PROPERTIES
  FinalStays
  SubmittedResolves
  AssignedMoves
