\* Two handlers overlap on one order.
SPECIFICATION Spec
CONSTANTS
  Orders = {o1}
  Charges = {c1}
  Receipts = {}
  Requests = {r1, r2}
  Ops <- AllOps
  NoOrder = NoOrder
  NoPayment = NoPayment
  MaxClock = 2
  MaxVisits = 1
  MaxFaults = 1
SYMMETRY Symmetry
INVARIANTS
  TypeOK
  PaymentsCounted
  VisitsNeverInvented
PROPERTIES
  DuplicateSuccessAddsNoVisit
  StartLinksVehicle
  WashImplemented
CHECK_DEADLOCK FALSE
