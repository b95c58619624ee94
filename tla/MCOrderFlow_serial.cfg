\* One handler at a time, with lost requests and replies.
SPECIFICATION FairSpec
CONSTANTS
  Orders = {o1}
  Charges = {c1, c2}
  Receipts = {p1}
  Requests = {r1}
  Ops <- AllOps
  NoOrder = NoOrder
  NoPayment = NoPayment
  MaxClock = 3
  MaxVisits = 2
  MaxFaults = 1
INVARIANTS
  VisitsExact
PROPERTIES
  StampsWriteOnce
  ReplyRecorded
CHECK_DEADLOCK FALSE
