\* Two handlers overlap.
SPECIFICATION Spec
CONSTANTS
  Requests = {r1, r2}
  Ops <- AllOps
  Milestones = {1, 2}
  Interval = 2
  MaxVisits = 3
  MaxFaults = 0
INVARIANT HonouredOnce
CHECK_DEADLOCK FALSE
