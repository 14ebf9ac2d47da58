SPECIFICATION Spec
CONSTANTS
  Workers = {w1}
  UserData = {u1}
  Templates = {t1}
  Processors = {p1}
  Results <- AllResults
  WORKER_QUEUE_SIZE = 0
  NoWorker = NoWorker
INVARIANTS TypeOK QueueBound TimerListAlive Custody
PROPERTIES KeepsLedger
CHECK_DEADLOCK FALSE
SYMMETRY Symmetry
