\* Two handlers overlap.
SPECIFICATION Spec
CONSTANTS
  Requests = {r1, r2}
  Plans = {p1, p2}
  Seeded = {p1, p2}
  Modules = {m1}
  Steps = {"completed"}
  Controls = {"paused"}
  NoPlan = NoPlan
  Unsure = Unsure
  Unstored = Unstored
  MaxChanges = 2
  MaxSubscriptions = 1
SYMMETRY Symmetry
INVARIANTS
  TypeOK
  HistoryTells
  ChangesKept
