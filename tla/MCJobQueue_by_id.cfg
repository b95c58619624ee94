\* A job run by id while another thread takes it off the queue.
SPECIFICATION Spec
CONSTANTS
  Jobs = {j1}
  Threads = {t1, t2}
  Retries = {0}
  MaxQueue = 1
  MaxDead = 1
  MaxAttempts = 2
  NoJob = NoJob
SYMMETRY Symmetry
INVARIANTS
  NoDoubleExecution
