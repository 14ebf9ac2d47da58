SPECIFICATION Spec
CONSTANTS
  Workers = {w1}
  UserData = {u1}
  Templates = {}
  Processors = {p1}
  Results <- FinalOnly
  WORKER_QUEUE_SIZE = 1
  NoWorker = NoWorker
INVARIANTS NoLockCycle
CHECK_DEADLOCK FALSE
