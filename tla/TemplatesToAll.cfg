SPECIFICATION TSSpec
CONSTANTS
  Workers = {w1, w2}
  n1 = n1
  n2 = n2
  Templates = {n1, n2}
  Processors = {p1}
  Tables <- Grown
  WORKER_QUEUE_SIZE = 4
  Nobody = Nobody
  Nothing = Nothing
INVARIANT AllWorkersUpdated
