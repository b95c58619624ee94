\* Two threads, a retry, and a queue that overflows.
SPECIFICATION FairSpec
CONSTANTS
  Jobs = {j1, j2}
  Threads = {t1, t2}
  Retries = {1}
  MaxQueue = 1
  MaxDead = 1
  MaxAttempts = 2
  NoJob = NoJob
INVARIANTS
  TypeOK
  NoJobForgotten
  OnePlace
  RetriesBounded
PROPERTIES
  TickDrains
