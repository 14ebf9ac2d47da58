SPECIFICATION Spec
CONSTANTS
  WorkerList <- MCWorkerList
  NoWorker <- MCNoWorker
  Reports <- MCReports
  MaxReports = 2
  StarveBytes <- MCStarveBytes
  Priorities = {1, 3}
  MAX_POOL_SIZE = 1
  MaxObjects = 2
  WORKER_QUEUE_SIZE = 0
INVARIANTS TypeOK QuickestThenFullest EntryKnowsWorker
PROPERTIES TablesLive TablesLeaveSink
CHECK_DEADLOCK FALSE
