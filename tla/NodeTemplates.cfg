SPECIFICATION Spec
CONSTANTS
  Workers = {w1, w2}
  UserData = {}
  Templates = {t1}
  Processors = {p1, p2}
  Results <- FinalOnly
  WORKER_QUEUE_SIZE = 2
  NoWorker = NoWorker
INVARIANTS Lifecycle
PROPERTIES KeepsLedger
CHECK_DEADLOCK FALSE
SYMMETRY Symmetry
