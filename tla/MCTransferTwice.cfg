SPECIFICATION Spec
SYMMETRY Same
CONSTANTS
  r1 = r1
  r2 = r2
  Payout = {"po"}
  Request <- Requests
  Cron = Cron
  NoPayout = NoPayout
  MaxReassigns = 2
  Deciders = 2
  Operators = 1
  MaxFaults = 1
INVARIANT
  NeverSentTwice
CHECK_DEADLOCK FALSE
