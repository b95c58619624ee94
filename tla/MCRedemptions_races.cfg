\* Two handlers overlap, no expiry run meanwhile.
SPECIFICATION Spec
CONSTANTS
  Requests = {r1, r2}
  Ops <- OpsWithoutExpiry
  Milestones = {1, 2}
  Interval = 2
  MaxVisits = 5
  MaxFaults = 1
SYMMETRY Symmetry
INVARIANTS
  TypeOK
  RewardsEarned
  OneVoucherHonoured
CHECK_DEADLOCK FALSE
