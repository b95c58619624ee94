\* One handler at a time, nothing lost.
SPECIFICATION Spec
CONSTANTS
  Orders = {o1}
  Charges = {c1, c2}
  Receipts = {p1}
  Requests = {r1}
  Ops <- AllOps
  NoOrder = NoOrder
  NoPayment = NoPayment
  MaxClock = 3
  MaxVisits = 2
  MaxFaults = 0
PROPERTY CompletedNotCountedAgain
CHECK_DEADLOCK FALSE
