SPECIFICATION Spec
CONSTANTS
  Sessions = {s1, s2}
  Threads = 2
  Uids = {u1, u2}
  NoUid = NoUid
  MaxWorkers = 3
  WORKER_QUEUE_SIZE = 1
  MaxServed = 1
INVARIANTS TypeOK UidShare PollsRegistered
PROPERTIES PollAnswered
CHECK_DEADLOCK FALSE
