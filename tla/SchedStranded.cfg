SPECIFICATION Spec
CONSTANTS
  allocatedThreads = 2
  QUEUE_SIZE = 2
  MAX_TASK_POOL_SIZE = 2
  MAX_POOL_SIZE = 2
  MaxPackets = 4
  Sessions = {s1, s2}
  Main = Main
  NoJob = NoJob
INVARIANT NoPacketStranded
