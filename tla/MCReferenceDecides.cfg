SPECIFICATION Spec
CONSTANTS
  p1 = p1
  p2 = p2
  o1 = o1
  o2 = o2
  u1 = u1
  u2 = u2
  clerk = clerk
  clerk2 = clerk2
  NoRef = NoRef
  NoOrder = NoOrder
  Payment = {p1, p2}
  Order = {o1, o2}
  PaidFor <- MCPaidFor
  Price <- MCPrice
  Capture <- MCSameMinute
  Echo = {}
  Uploader = {u1}
  Clerk = {clerk}
  Handles <- MCOneAgent
  MaxUploads = 1
  MaxActs = 0
  MaxLost = 0
  Lapsing = {}
INVARIANTS
  ReferenceDecides
CHECK_DEADLOCK FALSE
