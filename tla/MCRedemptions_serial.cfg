\* One handler at a time, vouchers expire, requests get lost.
SPECIFICATION FairSpec
CONSTANTS
  Requests = {r1}
  Ops <- AllOps
  Milestones = {1, 2}
  Interval = 2
  MaxVisits = 5
  MaxFaults = 1
INVARIANTS
  RedeemedForGood
PROPERTIES
  LedgerImplemented
  EarnedIsOffered
  FreeOrdersLinked
CHECK_DEADLOCK FALSE
