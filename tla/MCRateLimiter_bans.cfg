\* One request at a time, in a scope with strikes and bans.
SPECIFICATION Spec
CONSTANTS
  Keys = {k1}
  Watched = {k1}
  Workers = {w1}
  Default <- TwoInThree
  Overrides <- ClosedOrEndless
  Penalised = TRUE
  Decay = 2
  MaxStrikes = 3
  BanSeconds = 3
  MaxClock = 6
  NoKey = NoKey
INVARIANTS
  TypeOK
  Budget
PROPERTIES
  BanEarned
  BanHolds
  ServedAgain
