SPECIFICATION Spec
SYMMETRY Clerks
CONSTANTS
  p1 = p1
  p2 = p2
  o1 = o1
  o2 = o2
  u1 = u1
  u2 = u2
  clerk = clerk
  clerk2 = clerk2
  NoRef = NoRef
  NoOrder = NoOrder
  Payment = {p1, p2}
  Order = {o1, o2}
  PaidFor <- MCPaidFor
  Price <- MCPrice
  Capture <- MCCapture
  Echo = {}
  Uploader <- Agents
  Clerk = {clerk, clerk2}
  Handles <- MCHandles
  MaxUploads = 1
  MaxActs = 2
  MaxLost = 1
  Lapsing = {o1}
INVARIANTS
  CreditTypeOK
  TablesAgree
  PaidIsTraceable
  NeverUnderReported
CHECK_DEADLOCK FALSE
