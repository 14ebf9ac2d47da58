SPECIFICATION TSSpec
CONSTANTS
  Workers = {w1}
  n1 = n1
  n2 = n2
  Templates = {n1, n2}
  Processors = {p1}
  Tables <- Replaced
  WORKER_QUEUE_SIZE = 0
  Nobody = Nobody
  Nothing = Nothing
INVARIANTS TSTypeOK UnreadyCanReset
PROPERTIES NewWorkersTaken
