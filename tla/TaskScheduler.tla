---------------------------- MODULE TaskScheduler ----------------------------
(***************************************************************************)
(* The task pool, the scheduler thread and the task threads                *)
(* (sched/task_pool.cpp, sched/task_scheduler.cpp), with the two kinds of  *)
(* task the server runs and the session threads that ask for them:         *)
(*                                                                         *)
(*   "sender"     the sender core, added once by main; never finished      *)
(*   "validator"  the packet processor, added after each packet was pushed *)
(*                to the receiver sink; finished when it finds it empty    *)
(*                                                                         *)
(* The mutex of the condition variable is never locked by those who signal *)
(* it and no predicate is tested, so a signal sent before the scheduler    *)
(* waits is lost.  The slots and the counters of a queue are shared with   *)
(* its thread without any lock: an increment and a decrement are each a    *)
(* read and a write.  The receiver sink is the number of its packets (its  *)
(* own races are in Sink).                                                 *)
(***************************************************************************)
EXTENDS Naturals, Sequences, FiniteSets

CONSTANTS
  allocatedThreads,    \* threads that run tasks; the operator's choice
  QUEUE_SIZE,          \* slots of a thread: 4
  MAX_TASK_POOL_SIZE,  \* 20
  MAX_POOL_SIZE,       \* room of the receiver sink: 20
  Sessions,            \* the threads that read packets
  MaxPackets,          \* packets that arrive (bound)
  Main, NoJob

Thread    == 0 .. allocatedThreads - 1
Slot      == 0 .. QUEUE_SIZE - 1
Producer  == Sessions \cup {Main}
Kind      == {"sender", "validator"}
Job       == [kind : Kind, status : {"pending", "done"}]
UINT8     == 256

\* More threads than slots would index a queue out of its bounds (line 99).
ASSUME TaskSchedulerAssumption ==
  /\ allocatedThreads \in Nat \ {0} /\ QUEUE_SIZE \in Nat
  /\ allocatedThreads <= QUEUE_SIZE /\ QUEUE_SIZE < UINT8
  /\ MAX_TASK_POOL_SIZE \in Nat /\ MAX_TASK_POOL_SIZE >= 2
  /\ MAX_POOL_SIZE \in Nat /\ MaxPackets \in Nat
  /\ IsFiniteSet(Sessions) /\ Main \notin Sessions
  /\ NoJob \notin Job

VARIABLES
  pool,      \* TaskPool: the kinds of its tasks, headNode first
  sink,      \* packets in globalReceiverSink
  arrived,   \* packets that have arrived (bound)
  producer,  \* where each thread that adds tasks is
  queueHead, \* per thread: the job of each slot
  qSlotDone, \* per thread: whether each slot is free
  totalJobs, \* per thread: totalJobsInQueue, a uint8
  sched,     \* the scheduler thread: pc, jobs left to place, queue, value read
  worker     \* per thread: pc, head, the value of totalJobsInQueue it read

queues == <<queueHead, qSlotDone, totalJobs>>
vars   == <<pool, sink, arrived, producer, queues, sched, worker>>

Init ==
  /\ pool = << >>
  /\ sink = 0
  /\ arrived = 0
  /\ producer = [p \in Producer |-> IF p = Main THEN "test" ELSE "idle"]
  /\ queueHead = [t \in Thread |-> [s \in Slot |-> NoJob]]
  /\ qSlotDone = [t \in Thread |-> [s \in Slot |-> TRUE]]
  /\ totalJobs = [t \in Thread |-> 0]
  /\ sched = [pc |-> "count", left |-> 0, queue |-> 0, got |-> 0]
  /\ worker = [t \in Thread |-> [pc |-> "look", head |-> 0, got |-> 0]]

-----------------------------------------------------------------------------
(***************************************************************************)
(* Adding tasks.  Nobody looks at the result of addTask.                   *)
(***************************************************************************)
TaskOf(p) == IF p = Main THEN "sender" ELSE "validator"

\* A packet is read and pushed, or dropped by a full sink.  The socket is
\* opened after main has added the sender core.
PushPacket(p) ==
  /\ producer[p] = "idle" /\ producer[Main] = "idle" /\ p # Main
  /\ arrived < MaxPackets
  /\ arrived' = arrived + 1
  /\ sink' = IF sink < MAX_POOL_SIZE THEN sink + 1 ELSE sink
  /\ producer' = [producer EXCEPT ![p] = "test"]
  /\ UNCHANGED <<pool, queues, sched, worker>>

\* Mutant: no limit.
PoolNeverFull == FALSE

PoolIsFull == Len(pool) >= MAX_TASK_POOL_SIZE

\* addTask compares the count before it waits for the lock.
TestPool(p) ==
  /\ producer[p] = "test"
  /\ producer' = [producer EXCEPT ![p] = IF PoolIsFull THEN "idle" ELSE "append"]
  /\ UNCHANGED <<pool, sink, arrived, queues, sched, worker>>

AppendTask(p) ==
  /\ producer[p] = "append"
  /\ pool' = Append(pool, TaskOf(p))
  /\ producer' = [producer EXCEPT ![p] = "signal"]
  /\ UNCHANGED <<sink, arrived, queues, sched, worker>>

\* pthread_cond_signal: without a waiter it does nothing.
Wake == sched' = IF sched.pc = "wait" THEN [sched EXCEPT !.pc = "count"] ELSE sched

SignalAdded(p) ==
  /\ producer[p] = "signal"
  /\ Wake
  /\ producer' = [producer EXCEPT ![p] = "idle"]
  /\ UNCHANGED <<pool, sink, arrived, queues, worker>>

-----------------------------------------------------------------------------
(***************************************************************************)
(* The scheduler thread.                                                   *)
(***************************************************************************)
\* get_total_empty_slots.
CountSlots ==
  /\ sched.pc = "count"
  /\ sched' = [sched EXCEPT !.pc = "place",
       !.left = Cardinality({q \in Thread \X Slot : qSlotDone[q[1]][q[2]]})]
  /\ UNCHANGED <<pool, sink, arrived, producer, queues, worker>>

\* get_cpu_slice: LOW_PRIORITY and MEDIUM_PRIORITY, in milliseconds.
CpuSlice(job) == IF job.kind = "sender" THEN 2 ELSE 4

\* The inner loop runs over j and reads slot i, the number of the thread.
WaitTime(t) ==
  IF qSlotDone[t][t] THEN 0 ELSE allocatedThreads * CpuSlice(queueHead[t][t])

\* get_quickest_queue: the first queue with room and the least wait, or the
\* first of all when none has room by its counter.
QuickestQueue ==
  LET open == {t \in Thread : totalJobs[t] < QUEUE_SIZE} IN
  IF open = {} THEN 0
  ELSE CHOOSE t \in open : \A u \in open :
         \/ WaitTime(t) < WaitTime(u)
         \/ WaitTime(t) = WaitTime(u) /\ t <= u

\* The head of the loop over the free slots that were counted.
ChooseQueue ==
  /\ sched.pc = "place"
  /\ sched' = IF sched.left > 0 /\ pool # << >>
                THEN [sched EXCEPT !.pc = "insert", !.queue = QuickestQueue]
                ELSE [sched EXCEPT !.pc = "park"]
  /\ UNCHANGED <<pool, sink, arrived, producer, queues, worker>>

FreeSlots(t) == {s \in Slot : qSlotDone[t][s]}
FirstOf(S)   == CHOOSE s \in S : \A r \in S : s <= r

\* The old job of the first free slot is deallocated and its place given to
\* the first task of the pool.
InsertJob ==
  LET t == sched.queue
      s == FirstOf(FreeSlots(t))
  IN
  /\ sched.pc = "insert"
  /\ IF FreeSlots(t) = {}
       THEN /\ sched' = [sched EXCEPT !.pc = "place", !.left = @ - 1]
            /\ UNCHANGED <<pool, queueHead, qSlotDone>>
       ELSE /\ pool' = Tail(pool)
            /\ queueHead' = [queueHead EXCEPT ![t][s] =
                               [kind |-> Head(pool), status |-> "pending"]]
            /\ qSlotDone' = [qSlotDone EXCEPT ![t][s] = FALSE]
            /\ sched' = [sched EXCEPT !.pc = "read"]
  /\ UNCHANGED <<sink, arrived, producer, totalJobs, worker>>

\* totalJobsInQueue++, in two halves.
ReadTotal ==
  /\ sched.pc = "read"
  /\ sched' = [sched EXCEPT !.pc = "bump", !.got = totalJobs[sched.queue]]
  /\ UNCHANGED <<pool, sink, arrived, producer, queues, worker>>

BumpTotal ==
  /\ sched.pc = "bump"
  /\ totalJobs' = [totalJobs EXCEPT ![sched.queue] = (sched.got + 1) % UINT8]
  /\ sched' = [sched EXCEPT !.pc = "place", !.left = @ - 1]
  /\ UNCHANGED <<pool, sink, arrived, producer, queueHead, qSlotDone, worker>>

\* pthread_cond_wait, entered whatever has happened since the last look.
Park ==
  /\ sched.pc = "park"
  /\ sched' = [sched EXCEPT !.pc = "wait"]
  /\ UNCHANGED <<pool, sink, arrived, producer, queues, worker>>

-----------------------------------------------------------------------------
(***************************************************************************)
(* A task thread.  Its timer never asks for a pause: jobShouldPause is set *)
(* to 0 when it is created and to 0 again when it expires.                 *)
(***************************************************************************)
\* Mutant: the head does not go round.
NextSlotBeyond(t) == [worker[t] EXCEPT !.pc = "look", !.head = @ + 1]

NextSlot(t) == [worker[t] EXCEPT !.pc = "look", !.head = (@ + 1) % QUEUE_SIZE]
HeadJob(t)  == queueHead[t][worker[t].head]
HeadDone(t) == qSlotDone[t][worker[t].head]

\* Mutant: the counter is not looked at.
HasJobUncounted(t) == ~HeadDone(t)

HasJob(t) == ~HeadDone(t) /\ totalJobs[t] # 0

Look(t) ==
  /\ worker[t].pc = "look"
  /\ worker' = [worker EXCEPT ![t] =
       IF HasJob(t) THEN [@ EXCEPT !.pc = "job"] ELSE NextSlot(t)]
  /\ UNCHANGED <<pool, sink, arrived, producer, queues, sched>>

\* startSenderCore: always JOB_PENDING, so it is called again at once.
RunSender(t) ==
  /\ worker[t].pc = "job"
  /\ HeadJob(t).kind = "sender"
  /\ UNCHANGED vars

\* Mutant: one packet per task.
RunValidatorOnce(t) ==
  /\ worker[t].pc = "job"
  /\ HeadJob(t) = [kind |-> "validator", status |-> "pending"]
  /\ sink' = IF sink = 0 THEN 0 ELSE sink - 1
  /\ queueHead' = [queueHead EXCEPT ![t][worker[t].head].status = "done"]
  /\ worker' = [worker EXCEPT ![t] = NextSlot(t)]
  /\ UNCHANGED <<pool, arrived, producer, qSlotDone, totalJobs, sched>>

\* start_validator: a packet is processed and the job goes on, or the sink is
\* empty and the job awaits the next visit of its slot.
RunValidator(t) ==
  /\ worker[t].pc = "job"
  /\ HeadJob(t) = [kind |-> "validator", status |-> "pending"]
  /\ IF sink > 0
       THEN /\ sink' = sink - 1
            /\ UNCHANGED <<queueHead, worker>>
       ELSE /\ queueHead' = [queueHead EXCEPT ![t][worker[t].head].status = "done"]
            /\ worker' = [worker EXCEPT ![t] = NextSlot(t)]
            /\ UNCHANGED sink
  /\ UNCHANGED <<pool, arrived, producer, qSlotDone, totalJobs, sched>>

\* end_proc, and the slot is free.
FinishJob(t) ==
  /\ worker[t].pc = "job"
  /\ HeadJob(t).status = "done"
  /\ qSlotDone' = [qSlotDone EXCEPT ![t][worker[t].head] = TRUE]
  /\ worker' = [worker EXCEPT ![t].pc = "read"]
  /\ UNCHANGED <<pool, sink, arrived, producer, queueHead, totalJobs, sched>>

\* totalJobsInQueue--, in two halves.
ReadCount(t) ==
  /\ worker[t].pc = "read"
  /\ worker' = [worker EXCEPT ![t].pc = "drop", ![t].got = totalJobs[t]]
  /\ UNCHANGED <<pool, sink, arrived, producer, queues, sched>>

DropCount(t) ==
  /\ worker[t].pc = "drop"
  /\ totalJobs' = [totalJobs EXCEPT ![t] = (worker[t].got + UINT8 - 1) % UINT8]
  /\ worker' = [worker EXCEPT ![t].pc = "signal"]
  /\ UNCHANGED <<pool, sink, arrived, producer, queueHead, qSlotDone, sched>>

\* The signal; then job->proc is read once more, although the scheduler may
\* have deallocated the job (a read of deleted memory, without effect unless
\* it ends the program, which is not modelled).
SignalDone(t) ==
  /\ worker[t].pc = "signal"
  /\ Wake
  /\ worker' = [worker EXCEPT ![t] = NextSlot(t)]
  /\ UNCHANGED <<pool, sink, arrived, producer, queues>>

Next ==
  \/ \E p \in Producer : PushPacket(p)
  \/ \E p \in Producer : TestPool(p)
  \/ \E p \in Producer : AppendTask(p)
  \/ \E p \in Producer : SignalAdded(p)
  \/ CountSlots
  \/ ChooseQueue
  \/ InsertJob
  \/ ReadTotal
  \/ BumpTotal
  \/ Park
  \/ \E t \in Thread : Look(t)
  \/ \E t \in Thread : RunSender(t)
  \/ \E t \in Thread : RunValidator(t)
  \/ \E t \in Thread : FinishJob(t)
  \/ \E t \in Thread : ReadCount(t)
  \/ \E t \in Thread : DropCount(t)
  \/ \E t \in Thread : SignalDone(t)

Spec == Init /\ [][Next]_vars

-----------------------------------------------------------------------------
\* The state has its type.
TypeOK ==
  /\ pool \in Seq(Kind)
  /\ sink \in 0 .. MAX_POOL_SIZE
  /\ arrived \in 0 .. MaxPackets
  /\ producer \in [Producer -> {"idle", "test", "append", "signal"}]
  /\ queueHead \in [Thread -> [Slot -> Job \cup {NoJob}]]
  /\ qSlotDone \in [Thread -> [Slot -> BOOLEAN]]
  /\ totalJobs \in [Thread -> 0 .. UINT8 - 1]
  /\ sched \in [pc : {"count", "place", "insert", "read", "bump", "park", "wait"},
                left : 0 .. allocatedThreads * QUEUE_SIZE,
                queue : Thread, got : 0 .. UINT8 - 1]
  /\ worker \in [Thread -> [pc : {"look", "job", "read", "drop", "signal"},
                            head : Slot, got : 0 .. UINT8 - 1]]

PendingValidator == [kind |-> "validator", status |-> "pending"]

\* A packet in the receiver sink never loses its packet processor: there is one
\* about to be added, in the pool or in a slot and not yet through with the sink.
\* It holds although addTask drops tasks (a full pool holds processors) because a
\* processor goes on until it finds the sink empty (packet_validator.cpp:59, :71)
\* and a packet is pushed before its task is added.  Whether the thread of that
\* slot ever comes to it is another question (NoPacketStranded).
PacketsCovered ==
  sink > 0 =>
    \/ \E p \in Sessions : producer[p] \in {"test", "append"}
    \/ \E i \in DOMAIN pool : pool[i] = "validator"
    \/ \E t \in Thread, s \in Slot :
         ~qSlotDone[t][s] /\ queueHead[t][s] = PendingValidator

\* The decrement of totalJobsInQueue (task_scheduler.cpp:203) never wraps its
\* uint8 round to 255, for all that a lost update may make the counter wrong and
\* that the first queue is given jobs whatever its counter says (:82, :112).
NeverWraps == \A t \in Thread : worker[t].pc = "drop" => worker[t].got > 0

\* Tasks beyond the limit of the pool come from threads between addTask's test
\* and its lock (task_pool.cpp:18, :24), so there is at most one for all sessions but one.
PoolOvershoot ==
  Len(pool) + Cardinality({p \in Producer : producer[p] = "append"})
    <= MAX_TASK_POOL_SIZE + Cardinality(Sessions) - 1

\* "Schedule a packet processor for every packet in receiver sink"
\* (socket.cpp:163): while a packet waits the server does not come to rest,
\* everybody idle, waiting or in the sender core that never returns.
NoPacketStranded ==
  sink > 0 =>
    \/ \E p \in Producer : producer[p] # "idle"
    \/ sched.pc # "wait"
    \/ \E t \in Thread : ~(worker[t].pc = "job" /\ HeadJob(t).kind = "sender")
                      /\ \E s \in Slot : ~qSlotDone[t][s]
=============================================================================
