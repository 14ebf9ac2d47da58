------------------------ MODULE TaskSchedulerProofs ------------------------
(***************************************************************************)
(* Theorems about the task pool and the scheduler, for any number of       *)
(* threads, sessions and packets and any sizes.                            *)
(***************************************************************************)
EXTENDS TaskScheduler, StdListProofs

\* The scheduler places a task only when there is one and a slot is left.
Placing ==
  /\ sched.pc = "insert" => pool # << >>
  /\ sched.pc \in {"insert", "read", "bump"} => sched.left > 0

\* A slot that is taken has a job, also the one a thread works on.
Filled ==
  /\ \A t \in Thread, s \in Slot : ~qSlotDone[t][s] => queueHead[t][s] \in Job
  /\ \A t \in Thread : worker[t].pc = "job" => ~HeadDone(t)

Typed == TypeOK /\ Placing /\ Filled

(***************************************************************************)
(* Helpers.                                                                *)
(***************************************************************************)
\* The first thread and its slots exist; a least member of a set of slots does.
LEMMA ThreadFacts ==
  /\ 0 \in Thread /\ Thread \subseteq Slot /\ 0 \in Slot
  /\ Thread \subseteq Nat /\ Slot \subseteq Nat
  /\ IsFiniteSet(Thread) /\ IsFiniteSet(Slot)
  /\ Cardinality(Thread) = allocatedThreads /\ Cardinality(Slot) = QUEUE_SIZE
<1>1. /\ allocatedThreads \in Nat \ {0} /\ QUEUE_SIZE \in Nat
      /\ allocatedThreads <= QUEUE_SIZE
  BY TaskSchedulerAssumption
<1>2. /\ IsFiniteSet(0 .. allocatedThreads - 1) /\ IsFiniteSet(0 .. QUEUE_SIZE - 1)
      /\ Cardinality(0 .. allocatedThreads - 1) = allocatedThreads
      /\ Cardinality(0 .. QUEUE_SIZE - 1) = QUEUE_SIZE
  BY <1>1, FS_Interval
<1> QED BY <1>1, <1>2 DEF Thread, Slot

LEMMA FirstOfType ==
  ASSUME NEW S \in SUBSET Slot, S # {}
  PROVE  FirstOf(S) \in S
<1>1. \E s \in S : \A r \in S : s <= r
  BY LeastExists, ThreadFacts
<1> QED BY <1>1 DEF FirstOf

LEMMA WaitTimeNat ==
  ASSUME NEW t \in Thread
  PROVE  WaitTime(t) \in Nat
<1>1. CpuSlice(queueHead[t][t]) \in {2, 4}
  BY DEF CpuSlice
<1>2. allocatedThreads * 2 \in Nat /\ allocatedThreads * 4 \in Nat
  BY TaskSchedulerAssumption
<1> QED BY <1>1, <1>2 DEF WaitTime

\* The queue get_quickest_queue returns exists, and has room by its counter
\* unless it is the first.
LEMMA QuickestType ==
  /\ QuickestQueue \in Thread
  /\ QuickestQueue # 0 => totalJobs[QuickestQueue] < QUEUE_SIZE
<1> DEFINE open  == {t \in Thread : totalJobs[t] < QUEUE_SIZE}
           waits == {WaitTime(t) : t \in open}
<1>1. CASE open = {}
  BY <1>1, ThreadFacts DEF QuickestQueue
<1>2. CASE open # {}
  <2>1. waits \subseteq Nat /\ waits # {}
    BY <1>2, WaitTimeNat
  <2>2. PICK m \in waits : \A n \in waits : m <= n
    BY <2>1, LeastExists
  <2> DEFINE quick == {t \in open : WaitTime(t) = m}
  <2>3. quick \subseteq Nat /\ quick # {}
    BY <2>2, ThreadFacts
  <2>4. PICK t \in quick : \A u \in quick : t <= u
    <3> HIDE DEF quick
    <3> QED BY <2>3, LeastExists
  <2>5. t \in open /\ \A u \in open :
           WaitTime(t) < WaitTime(u) \/ (WaitTime(t) = WaitTime(u) /\ t <= u)
    <3> SUFFICES ASSUME NEW u \in open
                 PROVE  WaitTime(t) < WaitTime(u) \/ (WaitTime(t) = WaitTime(u) /\ t <= u)
      BY <2>4
    <3>1. WaitTime(t) = m /\ m <= WaitTime(u)
      BY <2>2, <2>4
    <3>2. WaitTime(u) = m => t <= u
      BY <2>4
    <3>3. m \in Nat /\ WaitTime(u) \in Nat
      BY <2>1, <2>2, WaitTimeNat
    <3> QED BY <3>1, <3>2, <3>3
  <2>6. QuickestQueue = CHOOSE x \in open : \A u \in open :
           WaitTime(x) < WaitTime(u) \/ (WaitTime(x) = WaitTime(u) /\ x <= u)
    BY <1>2 DEF QuickestQueue
  <2>7. QuickestQueue \in open
    <3> HIDE DEF open
    <3> QED BY <2>5, <2>6
  <2> QED BY <2>7
<1> QED BY <1>1, <1>2

\* What the scheduler counts fits into its variable.
LEMMA SlotsCounted ==
  Cardinality({q \in Thread \X Slot : qSlotDone[q[1]][q[2]]}) \in 0 .. allocatedThreads * QUEUE_SIZE
<1> DEFINE free == {q \in Thread \X Slot : qSlotDone[q[1]][q[2]]}
<1>1. /\ IsFiniteSet(Thread \X Slot)
      /\ Cardinality(Thread \X Slot) = allocatedThreads * QUEUE_SIZE
  BY ThreadFacts, FS_Product
<1>2. free \subseteq Thread \X Slot
  OBVIOUS
<1> HIDE DEF free
<1>3. IsFiniteSet(free) /\ Cardinality(free) <= allocatedThreads * QUEUE_SIZE
  BY <1>1, <1>2, FS_Subset
<1>4. Cardinality(free) \in Nat /\ allocatedThreads * QUEUE_SIZE \in Nat
  BY <1>1, <1>3, ThreadFacts, FS_CardinalityType
<1>5. Cardinality(free) \in 0 .. allocatedThreads * QUEUE_SIZE
  <2> DEFINE limit == allocatedThreads * QUEUE_SIZE
  <2>1. Cardinality(free) <= limit /\ limit \in Nat
    BY <1>3, <1>4
  <2> HIDE DEF limit
  <2>2. Cardinality(free) \in 0 .. limit
    BY <1>4, <2>1
  <2> QED BY <2>2 DEF limit
<1> QED BY <1>5 DEF free

(***************************************************************************)
(* Type correctness.                                                       *)
(***************************************************************************)
LEMMA TypedInit == Init => Typed
<1> SUFFICES ASSUME Init PROVE Typed
  OBVIOUS
<1>1. /\ pool \in Seq(Kind) /\ sink \in 0 .. MAX_POOL_SIZE /\ arrived \in 0 .. MaxPackets
      /\ producer \in [Producer -> {"idle", "test", "append", "signal"}]
  BY TaskSchedulerAssumption DEF Init
<1>2. /\ queueHead \in [Thread -> [Slot -> Job \cup {NoJob}]]
      /\ qSlotDone \in [Thread -> [Slot -> BOOLEAN]]
      /\ totalJobs \in [Thread -> 0 .. UINT8 - 1]
  BY DEF Init, UINT8
<1>3. sched \in [pc : {"count", "place", "insert", "read", "bump", "park", "wait"},
                 left : 0 .. allocatedThreads * QUEUE_SIZE,
                 queue : Thread, got : 0 .. UINT8 - 1]
  <2> DEFINE limit == allocatedThreads * QUEUE_SIZE
  <2>0. limit \in Nat
    BY TaskSchedulerAssumption
  <2>1. 0 \in 0 .. limit
    <3> HIDE DEF limit
    <3> QED BY <2>0
  <2> QED BY <2>1, ThreadFacts DEF Init, UINT8
<1>4. worker \in [Thread -> [pc : {"look", "job", "read", "drop", "signal"},
                             head : Slot, got : 0 .. UINT8 - 1]]
  BY ThreadFacts DEF Init, UINT8
<1>5. Placing /\ Filled
  BY DEF Init, Placing, Filled
<1> QED BY <1>1, <1>2, <1>3, <1>4, <1>5 DEF Typed, TypeOK

\* The threads that add tasks.
LEMMA TypedProducer ==
  ASSUME Typed, NEW p \in Producer, PushPacket(p) \/ TestPool(p) \/ AppendTask(p) \/ SignalAdded(p)
  PROVE  Typed'
<1>1. TypeOK /\ Placing /\ Filled
  BY DEF Typed
<1>2. CASE PushPacket(p) \/ TestPool(p)
  <2>1. /\ producer' \in [Producer -> {"idle", "test", "append", "signal"}]
        /\ sink' \in 0 .. MAX_POOL_SIZE /\ arrived' \in 0 .. MaxPackets
    <3>1. CASE PushPacket(p)
      <4>1. producer' \in [Producer -> {"idle", "test", "append", "signal"}]
        BY <1>1, <3>1 DEF PushPacket, TypeOK
      <4>2. arrived' \in 0 .. MaxPackets
        BY <1>1, <3>1, TaskSchedulerAssumption DEF PushPacket, TypeOK
      <4>3. sink' \in 0 .. MAX_POOL_SIZE
        BY <1>1, <3>1, TaskSchedulerAssumption DEF PushPacket, TypeOK
      <4> QED BY <4>1, <4>2, <4>3
    <3>2. CASE TestPool(p)
      BY <1>1, <3>2 DEF TestPool, TypeOK
    <3> QED BY <1>2, <3>1, <3>2
  <2>2. UNCHANGED <<pool, queues, sched, worker>>
    BY <1>2 DEF PushPacket, TestPool
  <2> QED BY <1>1, <2>1, <2>2 DEF Typed, TypeOK, Placing, Filled, HeadDone, queues
<1>3. CASE AppendTask(p)
  <2>1. TaskOf(p) \in Kind
    BY DEF TaskOf, Kind
  <2>2. pool' \in Seq(Kind) /\ pool' # << >>
    BY <1>1, <1>3, <2>1 DEF AppendTask, TypeOK
  <2>3. producer' \in [Producer -> {"idle", "test", "append", "signal"}]
    BY <1>1, <1>3 DEF AppendTask, TypeOK
  <2>4. UNCHANGED <<sink, arrived, queues, sched, worker>>
    BY <1>3 DEF AppendTask
  <2> QED BY <1>1, <2>2, <2>3, <2>4 DEF Typed, TypeOK, Placing, Filled, HeadDone, queues
<1>4. CASE SignalAdded(p)
  <2>1. producer' \in [Producer -> {"idle", "test", "append", "signal"}]
    BY <1>1, <1>4 DEF SignalAdded, TypeOK
  <2>2. UNCHANGED <<pool, sink, arrived, queues, worker>>
    BY <1>4 DEF SignalAdded
  <2>3. /\ sched' \in [pc : {"count", "place", "insert", "read", "bump", "park", "wait"},
                       left : 0 .. allocatedThreads * QUEUE_SIZE,
                       queue : Thread, got : 0 .. UINT8 - 1]
        /\ sched' = sched \/ sched'.pc = "count"
    BY <1>1, <1>4 DEF SignalAdded, Wake, TypeOK
  <2>4. Placing'
    BY <1>1, <2>2, <2>3 DEF Placing
  <2> QED BY <1>1, <2>1, <2>2, <2>3, <2>4 DEF Typed, TypeOK, Filled, HeadDone, queues
<1> QED BY <1>2, <1>3, <1>4

SchedState ==
  [pc : {"count", "place", "insert", "read", "bump", "park", "wait"},
   left : 0 .. allocatedThreads * QUEUE_SIZE,
   queue : Thread, got : 0 .. UINT8 - 1]

\* The scheduler's steps but the one that places a job.
LEMMA TypedScheduler ==
  ASSUME Typed, CountSlots \/ ChooseQueue \/ ReadTotal \/ BumpTotal \/ Park
  PROVE  Typed'
<1>1. TypeOK /\ Placing /\ Filled /\ sched \in SchedState
  BY DEF Typed, TypeOK, SchedState
<1>2. sched.left > 0 => sched.left - 1 \in 0 .. allocatedThreads * QUEUE_SIZE
  <2> DEFINE limit == allocatedThreads * QUEUE_SIZE
  <2>1. limit \in Nat /\ sched.left \in 0 .. limit
    BY <1>1, TaskSchedulerAssumption, SlotsCounted DEF SchedState
  <2> HIDE DEF limit
  <2>2. sched.left > 0 => sched.left - 1 \in 0 .. limit
    BY <2>1
  <2> QED BY <2>2 DEF limit
<1>3. UNCHANGED <<pool, sink, arrived, producer, queueHead, qSlotDone, worker>>
  BY DEF CountSlots, ChooseQueue, ReadTotal, BumpTotal, Park, queues
<1>4. totalJobs' \in [Thread -> 0 .. UINT8 - 1]
  <2>1. CASE UNCHANGED totalJobs
    BY <1>1, <2>1 DEF TypeOK
  <2>2. CASE BumpTotal
    <3>1. (sched.got + 1) % UINT8 \in 0 .. UINT8 - 1
      BY <1>1 DEF SchedState, UINT8
    <3> QED BY <1>1, <2>2, <3>1 DEF BumpTotal, TypeOK
  <2> QED BY <2>1, <2>2 DEF CountSlots, ChooseQueue, ReadTotal, Park, queues
<1>5. sched' \in SchedState /\ Placing'
  <2>1. CASE CountSlots
    BY <1>1, <2>1, SlotsCounted DEF CountSlots, SchedState, Placing
  <2>2. CASE ChooseQueue
    BY <1>1, <2>2, QuickestType DEF ChooseQueue, SchedState, Placing
  <2>3. CASE ReadTotal
    <3>1. totalJobs[sched.queue] \in 0 .. UINT8 - 1
      BY <1>1 DEF SchedState, TypeOK
    <3> QED BY <1>1, <2>3, <3>1 DEF ReadTotal, SchedState, Placing
  <2>4. CASE BumpTotal
    BY <1>1, <1>2, <2>4 DEF BumpTotal, SchedState, Placing
  <2>5. CASE Park
    BY <1>1, <2>5 DEF Park, SchedState, Placing
  <2> QED BY <2>1, <2>2, <2>3, <2>4, <2>5
<1>6. Filled'
  BY <1>1, <1>3 DEF Filled, HeadDone
<1> QED BY <1>1, <1>3, <1>4, <1>5, <1>6 DEF Typed, TypeOK, SchedState

\* What InsertJob does, by whether a slot is free.
LEMMA InsertShape ==
  ASSUME Typed, InsertJob
  PROVE  /\ sched.pc = "insert" /\ pool # << >> /\ sched.queue \in Thread
         /\ UNCHANGED <<sink, arrived, producer, totalJobs, worker>>
         /\ \/ /\ UNCHANGED <<pool, queueHead, qSlotDone>>
               /\ FreeSlots(sched.queue) = {}
               /\ sched' = [sched EXCEPT !.pc = "place", !.left = @ - 1]
            \/ \E s \in Slot :
                 /\ qSlotDone[sched.queue][s]
                 /\ s = FirstOf(FreeSlots(sched.queue))
                 /\ pool' = Tail(pool)
                 /\ queueHead' = [queueHead EXCEPT ![sched.queue][s] =
                                    [kind |-> Head(pool), status |-> "pending"]]
                 /\ qSlotDone' = [qSlotDone EXCEPT ![sched.queue][s] = FALSE]
                 /\ sched' = [sched EXCEPT !.pc = "read"]
<1>1. sched.pc = "insert" /\ pool # << >> /\ sched.queue \in Thread
  BY DEF InsertJob, Typed, TypeOK, Placing
<1>2. FreeSlots(sched.queue) # {} =>
        /\ FirstOf(FreeSlots(sched.queue)) \in Slot
        /\ qSlotDone[sched.queue][FirstOf(FreeSlots(sched.queue))]
  BY FirstOfType DEF FreeSlots
<1> QED BY <1>1, <1>2 DEF InsertJob

LEMMA TypedInsert ==
  ASSUME Typed, InsertJob
  PROVE  Typed'
<1>1. TypeOK /\ Placing /\ Filled /\ sched \in SchedState
  BY DEF Typed, TypeOK, SchedState
<1>2. sched.left > 0 /\ UNCHANGED <<sink, arrived, producer, totalJobs, worker>>
  BY <1>1, InsertShape DEF Placing
<1>3. CASE /\ UNCHANGED <<pool, queueHead, qSlotDone>>
           /\ sched' = [sched EXCEPT !.pc = "place", !.left = @ - 1]
  <2>1. sched' \in SchedState
    <3> DEFINE limit == allocatedThreads * QUEUE_SIZE
    <3>1. limit \in Nat /\ sched.left \in 0 .. limit
      BY <1>1, TaskSchedulerAssumption, SlotsCounted DEF SchedState
    <3> HIDE DEF limit
    <3>2. sched.left - 1 \in 0 .. limit
      BY <1>2, <3>1
    <3> QED BY <1>1, <1>3, <3>2 DEF limit, SchedState
  <2>2. Placing' /\ Filled'
    BY <1>1, <1>2, <1>3 DEF Placing, Filled, HeadDone, SchedState
  <2> QED BY <1>1, <1>2, <1>3, <2>1, <2>2 DEF Typed, TypeOK, SchedState
<1>4. ASSUME NEW s \in Slot,
             pool # << >>, pool' = Tail(pool),
             queueHead' = [queueHead EXCEPT ![sched.queue][s] =
                             [kind |-> Head(pool), status |-> "pending"]],
             qSlotDone' = [qSlotDone EXCEPT ![sched.queue][s] = FALSE],
             qSlotDone[sched.queue][s],
             sched' = [sched EXCEPT !.pc = "read"]
      PROVE  Typed'
  <2> DEFINE job == [kind |-> Head(pool), status |-> "pending"]
  <2>1. pool' \in Seq(Kind) /\ Head(pool) \in Kind
    BY <1>1, <1>4 DEF TypeOK
  <2>2. job \in Job
    BY <2>1 DEF Job
  <2>3. sched' \in SchedState
    BY <1>1, <1>4 DEF SchedState
  <2> HIDE DEF job
  <2>4. /\ queueHead' \in [Thread -> [Slot -> Job \cup {NoJob}]]
        /\ qSlotDone' \in [Thread -> [Slot -> BOOLEAN]]
    BY <1>1, <1>4, <2>2 DEF TypeOK, job
  <2>5. \A t \in Thread, r \in Slot : ~qSlotDone'[t][r] => queueHead'[t][r] \in Job
    BY <1>1, <1>4, <2>2 DEF TypeOK, Filled, job
  <2>6. \A t \in Thread : worker[t].pc = "job" => ~qSlotDone'[t][worker[t].head]
    BY <1>1, <1>4 DEF TypeOK, Filled, HeadDone
  <2>7. Placing'
    BY <1>1, <1>2, <1>4, <2>3 DEF Placing, SchedState
  <2> QED BY <1>1, <1>2, <2>1, <2>3, <2>4, <2>5, <2>6, <2>7
           DEF Typed, TypeOK, SchedState, Filled, HeadDone
<1> QED BY <1>3, <1>4, InsertShape

\* The next slot, round the queue.
LEMMA NextHead ==
  ASSUME NEW h \in Slot
  PROVE  /\ (h + 1) % QUEUE_SIZE \in Slot
         /\ (h + 1) % QUEUE_SIZE = 0 \/ (h + 1) % QUEUE_SIZE = h + 1
<1>1. QUEUE_SIZE \in Nat /\ QUEUE_SIZE > 0 /\ h \in Nat /\ h < QUEUE_SIZE
  BY TaskSchedulerAssumption DEF Slot
<1>2. CASE h + 1 < QUEUE_SIZE
  <2>1. (h + 1) % QUEUE_SIZE = h + 1
    BY <1>1, <1>2
  <2> QED BY <1>1, <1>2, <2>1 DEF Slot
<1>3. CASE h + 1 = QUEUE_SIZE
  <2>1. QUEUE_SIZE % QUEUE_SIZE = 0
    BY <1>1
  <2> QED BY <1>1, <1>3, <2>1 DEF Slot
<1> QED BY <1>1, <1>2, <1>3

WorkerState ==
  [pc : {"look", "job", "read", "drop", "signal"}, head : Slot, got : 0 .. UINT8 - 1]

LEMMA NextSlotType ==
  ASSUME Typed, NEW t \in Thread
  PROVE  /\ NextSlot(t) \in WorkerState
         /\ NextSlot(t) = [worker[t] EXCEPT !.pc = "look", !.head = NextSlot(t).head]
         /\ NextSlot(t).pc = "look"
         /\ NextSlot(t).head = 0 \/ NextSlot(t).head = worker[t].head + 1
<1>1. worker[t] \in WorkerState /\ worker[t].head \in Slot
  BY DEF Typed, TypeOK, WorkerState
<1> QED BY <1>1, NextHead DEF NextSlot, WorkerState

\* A thread that takes no new job and touches no slot.
LEMMA TypedQuiet ==
  ASSUME Typed, NEW t \in Thread, NEW w \in WorkerState,
         worker' = [worker EXCEPT ![t] = w], w.pc # "job",
         UNCHANGED <<pool, sink, arrived, producer, queueHead, qSlotDone>>,
         totalJobs' \in [Thread -> 0 .. UINT8 - 1],
         sched' \in SchedState, sched' = sched \/ sched'.pc = "count"
  PROVE  Typed'
<1>1. worker' \in [Thread -> WorkerState]
  BY DEF Typed, TypeOK, WorkerState
<1>2. Filled'
  BY DEF Typed, TypeOK, Filled, HeadDone, WorkerState
<1>3. Placing'
  BY DEF Typed, Placing
<1> QED BY <1>1, <1>2, <1>3 DEF Typed, TypeOK, WorkerState, SchedState

LEMMA TypedLook ==
  ASSUME Typed, NEW t \in Thread, Look(t)
  PROVE  Typed'
<1>1. /\ worker[t] \in WorkerState /\ worker \in [Thread -> WorkerState]
      /\ UNCHANGED <<pool, sink, arrived, producer, queues, sched>>
  BY DEF Typed, TypeOK, WorkerState, Look
<1>2. CASE HasJob(t)
  <2>1. worker' = [worker EXCEPT ![t] = [worker[t] EXCEPT !.pc = "job"]] /\ ~HeadDone(t)
    BY <1>2 DEF Look, HasJob
  <2>2. worker' \in [Thread -> WorkerState]
    BY <1>1, <2>1 DEF WorkerState
  <2>3. \A u \in Thread : worker'[u].pc = "job" => ~qSlotDone[u][worker'[u].head]
    BY <1>1, <2>1 DEF Typed, Filled, HeadDone, WorkerState
  <2> QED BY <1>1, <2>2, <2>3 DEF Typed, TypeOK, Placing, Filled, HeadDone, WorkerState, queues
<1>3. CASE ~HasJob(t)
  <2>1. worker' = [worker EXCEPT ![t] = NextSlot(t)]
    BY <1>3 DEF Look
  <2> QED BY <1>1, <2>1, NextSlotType, TypedQuiet DEF Typed, TypeOK, SchedState, queues
<1> QED BY <1>2, <1>3

\* A processor takes a packet, or is done and goes to the next slot.
LEMMA ValidatorShape ==
  ASSUME Typed, NEW t \in Thread, RunValidator(t)
  PROVE  /\ worker[t].pc = "job" /\ HeadJob(t) = PendingValidator
         /\ UNCHANGED <<pool, arrived, producer, qSlotDone, totalJobs, sched>>
         /\ \/ /\ sink > 0 /\ sink' = sink - 1
               /\ UNCHANGED <<queueHead, worker>>
            \/ /\ sink = 0 /\ sink' = sink
               /\ queueHead' = [queueHead EXCEPT ![t][worker[t].head] =
                                  [kind |-> "validator", status |-> "done"]]
               /\ worker' = [worker EXCEPT ![t] = NextSlot(t)]
<1>1. worker[t].head \in Slot /\ queueHead \in [Thread -> [Slot -> Job \cup {NoJob}]] /\ sink \in Nat
  BY DEF Typed, TypeOK
<1>2. [queueHead EXCEPT ![t][worker[t].head].status = "done"] =
        [queueHead EXCEPT ![t][worker[t].head] = [kind |-> "validator", status |-> "done"]]
  <2> DEFINE h    == worker[t].head
             done == [kind |-> "validator", status |-> "done"]
  <2>1. queueHead[t][h] = [kind |-> "validator", status |-> "pending"]
    BY DEF RunValidator, HeadJob
  <2>2. [queueHead[t][h] EXCEPT !.status = "done"] = done
    BY <2>1
  <2> HIDE DEF h, done
  <2>3. [queueHead EXCEPT ![t][h].status = "done"] =
          [queueHead EXCEPT ![t] = [queueHead[t] EXCEPT ![h] = [queueHead[t][h] EXCEPT !.status = "done"]]]
    BY <1>1 DEF h
  <2>4. [queueHead EXCEPT ![t][h].status = "done"] =
          [queueHead EXCEPT ![t] = [queueHead[t] EXCEPT ![h] = done]]
    BY <2>2, <2>3
  <2>5. [queueHead EXCEPT ![t] = [queueHead[t] EXCEPT ![h] = done]] =
          [queueHead EXCEPT ![t][h] = done]
    BY <1>1 DEF h
  <2> QED BY <2>4, <2>5 DEF h, done
<1> QED BY <1>1, <1>2 DEF RunValidator, PendingValidator, HeadJob

LEMMA TypedValidator ==
  ASSUME Typed, NEW t \in Thread, RunValidator(t)
  PROVE  Typed'
<1> DEFINE job == [kind |-> "validator", status |-> "done"]
<1>1. TypeOK /\ Placing /\ Filled /\ worker[t] \in WorkerState
  BY DEF Typed, TypeOK, WorkerState
<1>2. UNCHANGED <<pool, arrived, producer, qSlotDone, totalJobs, sched>>
  BY ValidatorShape
<1>3. CASE sink > 0 /\ sink' = sink - 1 /\ UNCHANGED <<queueHead, worker>>
  <2>1. sink' \in 0 .. MAX_POOL_SIZE
    BY <1>1, <1>3, TaskSchedulerAssumption DEF TypeOK
  <2> QED BY <1>1, <1>2, <1>3, <2>1 DEF Typed, TypeOK, Placing, Filled, HeadDone
<1>4. CASE /\ sink' = sink
           /\ queueHead' = [queueHead EXCEPT ![t][worker[t].head] = job]
           /\ worker' = [worker EXCEPT ![t] = NextSlot(t)]
  <2>1. job \in Job /\ worker[t].head \in Slot
    BY <1>1 DEF Job, Kind, WorkerState
  <2> HIDE DEF job
  <2>2. queueHead' \in [Thread -> [Slot -> Job \cup {NoJob}]]
    BY <1>1, <1>4, <2>1 DEF TypeOK
  <2>3. \A u \in Thread, s \in Slot : ~qSlotDone[u][s] => queueHead'[u][s] \in Job
    BY <1>1, <1>4, <2>1 DEF TypeOK, Filled
  <2>4. worker' \in [Thread -> WorkerState] /\ \A u \in Thread : worker'[u] = worker[u] \/ worker'[u].pc = "look"
    BY <1>1, <1>4, NextSlotType DEF TypeOK, WorkerState
  <2>5. Placing' /\ Filled'
    BY <1>1, <1>2, <2>3, <2>4 DEF Placing, Filled, HeadDone
  <2> QED BY <1>1, <1>2, <1>4, <2>2, <2>4, <2>5 DEF Typed, TypeOK, WorkerState
<1> QED BY <1>3, <1>4, ValidatorShape

LEMMA TypedWorker ==
  ASSUME Typed, NEW t \in Thread,
         RunSender(t) \/ FinishJob(t) \/ ReadCount(t) \/ DropCount(t) \/ SignalDone(t)
  PROVE  Typed'
<1>1. TypeOK /\ Placing /\ Filled /\ worker[t] \in WorkerState /\ worker \in [Thread -> WorkerState]
  BY DEF Typed, TypeOK, WorkerState
<1>2. sched \in SchedState
  BY <1>1 DEF TypeOK, SchedState
<1>3. CASE RunSender(t)
  BY <1>1, <1>3 DEF RunSender, vars, queues, Typed, TypeOK, Placing, Filled, HeadDone
<1>4. CASE FinishJob(t)
  <2>1. /\ qSlotDone' = [qSlotDone EXCEPT ![t][worker[t].head] = TRUE]
        /\ worker' = [worker EXCEPT ![t].pc = "read"]
        /\ UNCHANGED <<pool, sink, arrived, producer, queueHead, totalJobs, sched>>
    BY <1>4 DEF FinishJob
  <2>2. /\ qSlotDone' \in [Thread -> [Slot -> BOOLEAN]]
        /\ worker' \in [Thread -> WorkerState]
    BY <1>1, <2>1 DEF TypeOK, WorkerState
  <2>3. \A u \in Thread, s \in Slot : ~qSlotDone'[u][s] => ~qSlotDone[u][s]
    BY <1>1, <2>1 DEF TypeOK
  <2>4. \A u \in Thread : worker'[u].pc = "job" => u # t /\ worker'[u] = worker[u] /\ qSlotDone'[u] = qSlotDone[u]
    BY <1>1, <2>1 DEF TypeOK, WorkerState
  <2>5. Filled' /\ Placing'
    BY <1>1, <2>1, <2>3, <2>4 DEF Filled, HeadDone, Placing
  <2> QED BY <1>1, <2>1, <2>2, <2>5 DEF Typed, TypeOK, WorkerState
<1>5. CASE ReadCount(t)
  <2> DEFINE w == [worker[t] EXCEPT !.pc = "drop", !.got = totalJobs[t]]
  <2>1. worker' = [worker EXCEPT ![t] = w] /\ UNCHANGED <<pool, sink, arrived, producer, queues, sched>>
    BY <1>1, <1>5 DEF ReadCount, WorkerState
  <2>2. w \in WorkerState /\ w.pc # "job"
    BY <1>1 DEF WorkerState, TypeOK
  <2> HIDE DEF w
  <2> QED BY <1>1, <1>2, <2>1, <2>2, TypedQuiet DEF TypeOK, queues
<1>6. CASE DropCount(t)
  <2> DEFINE w == [worker[t] EXCEPT !.pc = "signal"]
  <2>1. worker' = [worker EXCEPT ![t] = w] /\ UNCHANGED <<pool, sink, arrived, producer, queueHead, qSlotDone, sched>>
    BY <1>1, <1>6 DEF DropCount, WorkerState
  <2>2. w \in WorkerState /\ w.pc # "job"
    BY <1>1 DEF WorkerState, TypeOK
  <2>3. (worker[t].got + UINT8 - 1) % UINT8 \in 0 .. UINT8 - 1
    BY <1>1 DEF WorkerState, UINT8
  <2>4. totalJobs' \in [Thread -> 0 .. UINT8 - 1]
    BY <1>1, <1>6, <2>3 DEF DropCount, TypeOK
  <2> HIDE DEF w
  <2> QED BY <1>1, <1>2, <2>1, <2>2, <2>4, TypedQuiet
<1>7. CASE SignalDone(t)
  <2>1. worker' = [worker EXCEPT ![t] = NextSlot(t)] /\ UNCHANGED <<pool, sink, arrived, producer, queues>>
    BY <1>7 DEF SignalDone
  <2>2. sched' \in SchedState /\ (sched' = sched \/ sched'.pc = "count")
    BY <1>2, <1>7 DEF SignalDone, Wake, SchedState
  <2> QED BY <1>1, <2>1, <2>2, NextSlotType, TypedQuiet DEF TypeOK, queues
<1> QED BY <1>3, <1>4, <1>5, <1>6, <1>7

LEMMA TypedStutter ==
  ASSUME Typed, UNCHANGED vars
  PROVE  Typed'
BY DEF Typed, TypeOK, Placing, Filled, HeadDone, vars, queues

LEMMA TypedInvariant == Spec => []Typed
<1>1. Typed /\ [Next]_vars => Typed'
  BY TypedProducer, TypedScheduler, TypedInsert, TypedLook, TypedValidator, TypedWorker, TypedStutter
     DEF Next
<1> QED BY <1>1, TypedInit, PTL DEF Spec

\* The state of the pool, the scheduler and the task threads has its type, for any
\* number of threads, slots and sessions: every job a thread touches exists, and
\* the head of the pool is popped only when there is one (task_scheduler.cpp:151).
THEOREM SchedTyping == Spec => []TypeOK
BY TypedInvariant, PTL DEF Typed

(***************************************************************************)
(* The size of the pool.  That its limit is exceeded by the threads        *)
(* between addTask's test and its lock, and by one thread fewer than there *)
(* are, needs that main adds the sender core before any session runs.      *)
(***************************************************************************)
\* While main adds the sender core nobody else adds anything.
MainFirst ==
  /\ producer[Main] # "idle" => \A p \in Sessions : producer[p] = "idle"
  /\ producer[Main] \in {"test", "append"} => pool = << >>

\* The steps that change the pool or who is about to.
PoolStill == UNCHANGED <<pool, producer>>

LEMMA PoolQuiet ==
  ASSUME Typed, [Next]_vars,
         \A p \in Producer : ~PushPacket(p) /\ ~TestPool(p) /\ ~AppendTask(p) /\ ~SignalAdded(p)
  PROVE  /\ UNCHANGED producer
         /\ UNCHANGED pool \/ (pool # << >> /\ pool' = Tail(pool))
<1>1. CASE InsertJob
  BY <1>1, InsertShape
<1>2. CASE CountSlots \/ ChooseQueue \/ ReadTotal \/ BumpTotal \/ Park \/ UNCHANGED vars
  BY <1>2 DEF CountSlots, ChooseQueue, ReadTotal, BumpTotal, Park, vars
<1>3. ASSUME NEW t \in Thread,
             Look(t) \/ RunSender(t) \/ RunValidator(t) \/ FinishJob(t) \/ ReadCount(t) \/ DropCount(t)
               \/ SignalDone(t)
      PROVE  PoolStill
  BY <1>3 DEF Look, RunSender, RunValidator, FinishJob, ReadCount, DropCount, SignalDone, vars, PoolStill
<1> QED BY <1>1, <1>2, <1>3 DEF Next, PoolStill

LEMMA MainFirstStep ==
  ASSUME Typed, MainFirst, [Next]_vars
  PROVE  MainFirst'
<1>1. /\ producer \in [Producer -> {"idle", "test", "append", "signal"}]
      /\ pool \in Seq(Kind) /\ Main \in Producer /\ Main \notin Sessions
      /\ Producer = Sessions \cup {Main}
  BY TaskSchedulerAssumption DEF Typed, TypeOK, Producer
<1>2. ASSUME NEW p \in Producer, PushPacket(p) PROVE MainFirst'
  BY <1>1, <1>2 DEF PushPacket, MainFirst
<1>3. ASSUME NEW p \in Producer, TestPool(p) PROVE MainFirst'
  BY <1>1, <1>3 DEF TestPool, MainFirst
<1>4. ASSUME NEW p \in Producer, AppendTask(p) PROVE MainFirst'
  BY <1>1, <1>4 DEF AppendTask, MainFirst
<1>5. ASSUME NEW p \in Producer, SignalAdded(p) PROVE MainFirst'
  BY <1>1, <1>5 DEF SignalAdded, MainFirst
<1>6. CASE \A p \in Producer : ~PushPacket(p) /\ ~TestPool(p) /\ ~AppendTask(p) /\ ~SignalAdded(p)
  BY <1>6, PoolQuiet DEF MainFirst
<1> QED BY <1>2, <1>3, <1>4, <1>5, <1>6

Appending == {p \in Producer : producer[p] = "append"}

LEMMA ProducerFacts ==
  ASSUME Typed
  PROVE  /\ IsFiniteSet(Producer) /\ IsFiniteSet(Sessions) /\ IsFiniteSet(Appending)
         /\ Cardinality(Sessions) \in Nat /\ Cardinality(Appending) \in Nat
         /\ Len(pool) \in Nat
<1>1. IsFiniteSet(Sessions) /\ IsFiniteSet(Producer)
  BY TaskSchedulerAssumption, FS_AddElement DEF Producer
<1>2. IsFiniteSet(Appending)
  BY <1>1, FS_Subset DEF Appending
<1>3. Len(pool) \in Nat
  BY LenProperties DEF Typed, TypeOK
<1> QED BY <1>1, <1>2, <1>3, FS_CardinalityType

\* The number of threads about to append, and how a step changes it.
LEMMA AppendingMore ==
  ASSUME Typed, NEW p \in Producer, producer[p] # "append",
         producer' = [producer EXCEPT ![p] = "append"]
  PROVE  Cardinality(Appending') = Cardinality(Appending) + 1
<1>1. Appending' = Appending \cup {p} /\ p \notin Appending
  BY DEF Typed, TypeOK, Appending
<1> QED BY <1>1, ProducerFacts, FS_AddElement

LEMMA AppendingFewer ==
  ASSUME Typed, NEW p \in Producer, producer[p] = "append",
         producer' = [producer EXCEPT ![p] = "signal"]
  PROVE  Cardinality(Appending') = Cardinality(Appending) - 1
<1>1. Appending' = Appending \ {p} /\ p \in Appending
  BY DEF Typed, TypeOK, Appending
<1> QED BY <1>1, ProducerFacts, FS_RemoveElement

LEMMA AppendingSame ==
  ASSUME Typed, NEW p \in Producer, NEW pc, producer[p] # "append", pc # "append",
         producer' = [producer EXCEPT ![p] = pc]
  PROVE  Appending' = Appending
BY DEF Typed, TypeOK, Appending

Room == MAX_TASK_POOL_SIZE + Cardinality(Sessions) - 1

LEMMA OvershootStep ==
  ASSUME Typed, MainFirst, Len(pool) + Cardinality(Appending) <= Room, [Next]_vars
  PROVE  (Len(pool) + Cardinality(Appending))' <= Room
<1>1. /\ MAX_TASK_POOL_SIZE \in Nat /\ MAX_TASK_POOL_SIZE >= 2
      /\ Cardinality(Sessions) \in Nat /\ Cardinality(Appending) \in Nat /\ Len(pool) \in Nat
      /\ Room = MAX_TASK_POOL_SIZE + Cardinality(Sessions) - 1
  BY TaskSchedulerAssumption, ProducerFacts DEF Room
<1> HIDE DEF Room
<1>2. producer \in [Producer -> {"idle", "test", "append", "signal"}] /\ pool \in Seq(Kind)
  BY DEF Typed, TypeOK
<1>3. ASSUME NEW p \in Producer, PushPacket(p) PROVE (Len(pool) + Cardinality(Appending))' <= Room
  <2>1. Appending' = Appending /\ UNCHANGED pool
    BY <1>3, AppendingSame DEF PushPacket
  <2> QED BY <2>1
<1>4. ASSUME NEW p \in Producer, TestPool(p) PROVE (Len(pool) + Cardinality(Appending))' <= Room
  <2>1. UNCHANGED pool /\ producer[p] = "test"
    BY <1>4 DEF TestPool
  <2>2. CASE PoolIsFull
    BY <1>4, <2>1, <2>2, AppendingSame DEF TestPool
  <2>3. CASE ~PoolIsFull
    <3>1. Cardinality(Appending') = Cardinality(Appending) + 1
      BY <1>4, <2>3, AppendingMore DEF TestPool
    <3>2. Len(pool) < MAX_TASK_POOL_SIZE
      BY <1>1, <2>3 DEF PoolIsFull
    <3>3. CASE p = Main
      <4>1. pool = << >> /\ Appending = {}
        BY <2>1, <3>3, TaskSchedulerAssumption DEF MainFirst, Appending, Producer
      <4>2. Len(pool) = 0 /\ Cardinality(Appending) = 0
        BY <4>1, FS_EmptySet
      <4> QED BY <1>1, <2>1, <3>1, <4>2
    <3>4. CASE p # Main
      <4>1. producer[Main] = "idle" /\ p \in Sessions
        BY <2>1, <3>4 DEF MainFirst, Producer
      <4>2. Appending \subseteq Sessions \ {p}
        BY <2>1, <4>1 DEF Appending, Producer
      <4>3. Cardinality(Sessions \ {p}) = Cardinality(Sessions) - 1 /\ IsFiniteSet(Sessions \ {p})
        BY <4>1, ProducerFacts, FS_RemoveElement
      <4>4. Cardinality(Appending) <= Cardinality(Sessions) - 1
        BY <4>2, <4>3, FS_Subset
      <4> QED BY <1>1, <2>1, <3>1, <3>2, <4>4
    <3> QED BY <3>3, <3>4
  <2> QED BY <2>2, <2>3
<1>5. ASSUME NEW p \in Producer, AppendTask(p) PROVE (Len(pool) + Cardinality(Appending))' <= Room
  <2>1. Cardinality(Appending') = Cardinality(Appending) - 1
    BY <1>5, AppendingFewer DEF AppendTask
  <2>2. Len(pool') = Len(pool) + 1
    <3>1. TaskOf(p) \in Kind /\ pool' = Append(pool, TaskOf(p))
      BY <1>5 DEF TaskOf, Kind, AppendTask
    <3> QED BY <1>2, <3>1, AppendProperties
  <2> QED BY <1>1, <2>1, <2>2
<1>6. ASSUME NEW p \in Producer, SignalAdded(p) PROVE (Len(pool) + Cardinality(Appending))' <= Room
  <2>1. Appending' = Appending /\ UNCHANGED pool
    BY <1>6, AppendingSame DEF SignalAdded
  <2> QED BY <2>1
<1>7. CASE \A p \in Producer : ~PushPacket(p) /\ ~TestPool(p) /\ ~AppendTask(p) /\ ~SignalAdded(p)
  <2>1. /\ UNCHANGED producer
        /\ UNCHANGED pool \/ (pool # << >> /\ pool' = Tail(pool))
    BY <1>7, PoolQuiet
  <2>2. Appending' = Appending
    BY <2>1 DEF Appending
  <2>3. Len(pool') <= Len(pool) /\ Len(pool') \in Nat
    <3>1. CASE UNCHANGED pool
      BY <1>1, <3>1
    <3>2. CASE pool # << >> /\ pool' = Tail(pool)
      <4>1. Len(Tail(pool)) = Len(pool) - 1 /\ Len(pool) > 0
        BY <1>2, <3>2, HeadTailProperties, EmptySeq
      <4> QED BY <1>1, <3>2, <4>1
    <3> QED BY <2>1, <3>1, <3>2
  <2> QED BY <1>1, <2>2, <2>3
<1> QED BY <1>3, <1>4, <1>5, <1>6, <1>7

LEMMA MainFirstInvariant == Spec => [](Typed /\ MainFirst)
<1>1. Init => MainFirst
  BY TaskSchedulerAssumption DEF Init, MainFirst, Producer
<1>2. Typed /\ MainFirst /\ [Next]_vars => MainFirst'
  BY MainFirstStep
<1> QED BY <1>1, <1>2, TypedInvariant, PTL DEF Spec

\* The pool exceeds its limit by one task for each session but one at most, for
\* any number of sessions and any limit from 2 on (task_pool.cpp:18).
THEOREM PoolBound == Spec => []PoolOvershoot
<1> DEFINE Bound == Len(pool) + Cardinality(Appending) <= Room
<1>1. Init => Bound
  <2> SUFFICES ASSUME Init PROVE Bound
    OBVIOUS
  <2>1. Appending = {} /\ Len(pool) = 0
    BY DEF Init, Appending
  <2>2. Cardinality(Sessions) \in Nat
    BY TaskSchedulerAssumption, FS_CardinalityType
  <2> QED BY <2>1, <2>2, FS_EmptySet, TaskSchedulerAssumption DEF Room
<1>2. Typed /\ MainFirst /\ Bound /\ [Next]_vars => Bound'
  <2>1. Room' = Room
    BY DEF Room
  <2> QED BY <2>1, OvershootStep
<1>3. Bound => PoolOvershoot
  BY DEF PoolOvershoot, Appending, Room
<1> QED BY <1>1, <1>2, <1>3, MainFirstInvariant, PTL DEF Spec

(***************************************************************************)
(* Where the sender core is.  Main adds it before anything else, so the    *)
(* scheduler places it first, in the first slot of the first thread, and   *)
(* there it stays.                                                         *)
(***************************************************************************)
SenderJob == [kind |-> "sender", status |-> "pending"]

\* Before the sender core is placed no other task is.
Fresh ==
  /\ \A t \in Thread, s \in Slot : qSlotDone[t][s]
  /\ \A t \in Thread : totalJobs[t] = 0 /\ worker[t].pc = "look"
  /\ sched.pc \notin {"read", "bump"}
  /\ sched.pc = "insert" => sched.queue = 0
  /\ \A i \in DOMAIN pool : pool[i] = "sender" <=> i = 1
  /\ producer[Main] \notin {"test", "append"} => pool # << >>

\* Afterwards there is no other sender core.
Started ==
  /\ ~qSlotDone[0][0] /\ queueHead[0][0] = SenderJob
  /\ producer[Main] \notin {"test", "append"}
  /\ \A i \in DOMAIN pool : pool[i] = "validator"

\* While nothing is placed every queue waits no time, and the first is chosen.
LEMMA QuickestFresh ==
  ASSUME Fresh
  PROVE  QuickestQueue = 0
<1> DEFINE open == {t \in Thread : totalJobs[t] < QUEUE_SIZE}
<1>1. 0 < QUEUE_SIZE /\ Thread \subseteq Nat /\ Thread \subseteq Slot /\ 0 \in Thread
  BY ThreadFacts, TaskSchedulerAssumption
<1>2. open = Thread /\ open # {}
  BY <1>1 DEF Fresh
<1>3. \A t \in Thread : WaitTime(t) = 0
  BY <1>1 DEF Fresh, WaitTime
<1>4. QuickestQueue = CHOOSE t \in Thread : \A u \in Thread :
         WaitTime(t) < WaitTime(u) \/ (WaitTime(t) = WaitTime(u) /\ t <= u)
  BY <1>2 DEF QuickestQueue
<1>5. \A u \in Thread : WaitTime(0) < WaitTime(u) \/ (WaitTime(0) = WaitTime(u) /\ 0 <= u)
  BY <1>1, <1>3
<1>6. /\ QuickestQueue \in Thread
      /\ \A u \in Thread : \/ WaitTime(QuickestQueue) < WaitTime(u)
                           \/ WaitTime(QuickestQueue) = WaitTime(u) /\ QuickestQueue <= u
  BY <1>1, <1>4, <1>5
<1>7. QuickestQueue <= 0
  BY <1>1, <1>3, <1>6
<1> QED BY <1>1, <1>6, <1>7

LEMMA StartProducer ==
  ASSUME Typed, MainFirst, Fresh \/ Started, NEW p \in Producer,
         PushPacket(p) \/ TestPool(p) \/ AppendTask(p) \/ SignalAdded(p)
  PROVE  (Fresh \/ Started)'
<1>1. /\ producer \in [Producer -> {"idle", "test", "append", "signal"}] /\ pool \in Seq(Kind)
      /\ Main \in Producer /\ Main \notin Sessions /\ UNCHANGED <<queues, worker>>
  BY TaskSchedulerAssumption DEF Typed, TypeOK, Producer, PushPacket, TestPool, AppendTask, SignalAdded
<1>2. CASE PushPacket(p) \/ TestPool(p)
  <2>1. UNCHANGED <<pool, sched>>
    BY <1>2 DEF PushPacket, TestPool
  <2>2. producer'[Main] \notin {"test", "append"} =>
          producer[Main] \notin {"test", "append"} \/ (producer[Main] = "test" /\ PoolIsFull)
    BY <1>1, <1>2 DEF PushPacket, TestPool
  <2>3. producer[Main] = "test" => ~PoolIsFull
    <3>1. Len(<< >>) = 0
      BY EmptySeq
    <3> QED BY <3>1, TaskSchedulerAssumption DEF MainFirst, PoolIsFull
  <2>4. producer'[Main] \in {"test", "append"} => producer[Main] \in {"test", "append"}
    BY <1>1, <1>2 DEF PushPacket, TestPool
  <2> QED BY <1>1, <2>1, <2>2, <2>3, <2>4 DEF Fresh, Started, queues
<1>3. CASE AppendTask(p)
  <2>1. /\ UNCHANGED sched /\ pool' = Append(pool, TaskOf(p)) /\ TaskOf(p) \in Kind
        /\ producer[p] = "append" /\ producer' = [producer EXCEPT ![p] = "signal"]
    BY <1>3 DEF AppendTask, TaskOf, Kind
  <2>2. /\ DOMAIN pool' = 1 .. Len(pool) + 1 /\ DOMAIN pool = 1 .. Len(pool) /\ Len(pool) \in Nat
        /\ \A i \in 1 .. Len(pool) : pool'[i] = pool[i]
        /\ pool'[Len(pool) + 1] = TaskOf(p)
    <3>1. /\ Len(pool') = Len(pool) + 1 /\ pool' \in Seq(Kind)
          /\ \A i \in 1 .. Len(pool) : pool'[i] = pool[i]
          /\ pool'[Len(pool) + 1] = TaskOf(p)
      BY <1>1, <2>1, AppendProperties
    <3> QED BY <1>1, <3>1, LenProperties
  <2>3. CASE p = Main
    <3>1. Fresh /\ Len(pool) = 0 /\ TaskOf(p) = "sender"
      BY <2>1, <2>3, EmptySeq DEF MainFirst, Started, TaskOf
    <3>2. \A i \in DOMAIN pool' : pool'[i] = "sender" <=> i = 1
      BY <2>2, <3>1
    <3>3. pool' # << >>
      BY <2>2, EmptySeq
    <3> QED BY <1>1, <2>1, <3>1, <3>2, <3>3 DEF Fresh, queues
  <2>4. CASE p # Main
    <3>1. /\ TaskOf(p) = "validator" /\ producer[Main] = "idle" /\ producer'[Main] = "idle"
      BY <1>1, <2>1, <2>4 DEF TaskOf, MainFirst, Producer
    <3>2. CASE Fresh
      <4>1. Len(pool) > 0
        BY <1>1, <2>2, <3>1, <3>2, EmptySeq DEF Fresh
      <4>2. \A i \in DOMAIN pool' : pool'[i] = "sender" <=> i = 1
        BY <2>2, <3>1, <3>2, <4>1 DEF Fresh
      <4>3. pool' # << >>
        BY <2>2, EmptySeq
      <4> QED BY <1>1, <2>1, <3>1, <3>2, <4>2, <4>3 DEF Fresh, queues
    <3>3. CASE Started
      <4>1. \A i \in DOMAIN pool' : pool'[i] = "validator"
        BY <2>2, <3>1, <3>3 DEF Started
      <4> QED BY <1>1, <3>1, <3>3, <4>1 DEF Started, queues
    <3> QED BY <3>2, <3>3
  <2> QED BY <2>3, <2>4
<1>4. CASE SignalAdded(p)
  <2>1. /\ UNCHANGED pool
        /\ sched' = sched \/ sched' = [sched EXCEPT !.pc = "count"]
        /\ producer'[Main] \in {"test", "append"} <=> producer[Main] \in {"test", "append"}
    BY <1>1, <1>4 DEF SignalAdded, Wake
  <2>2. sched' = sched \/ sched'.pc = "count"
    BY <2>1 DEF Typed, TypeOK
  <2>3. CASE Fresh
    BY <1>1, <2>1, <2>2, <2>3 DEF Fresh, queues
  <2>4. CASE Started
    BY <1>1, <2>1, <2>4 DEF Started, queues
  <2> QED BY <2>3, <2>4
<1> QED BY <1>2, <1>3, <1>4

LEMMA StartInsert ==
  ASSUME Typed, MainFirst, Fresh \/ Started, InsertJob
  PROVE  (Fresh \/ Started)'
<1>1. /\ pool \in Seq(Kind) /\ queueHead \in [Thread -> [Slot -> Job \cup {NoJob}]]
      /\ qSlotDone \in [Thread -> [Slot -> BOOLEAN]] /\ sched \in SchedState
      /\ 0 \in Thread /\ 0 \in Slot /\ Slot \subseteq Nat
  BY ThreadFacts DEF Typed, TypeOK, SchedState
<1>2. /\ pool # << >> /\ sched.pc = "insert" /\ sched.queue \in Thread
      /\ UNCHANGED <<producer, totalJobs, worker>>
  BY InsertShape
<1>3. CASE /\ UNCHANGED <<pool, queueHead, qSlotDone>>
           /\ sched' = [sched EXCEPT !.pc = "place", !.left = @ - 1]
  <2>1. sched'.pc = "place"
    BY <1>1, <1>3 DEF SchedState
  <2> QED BY <1>2, <1>3, <2>1 DEF Fresh, Started
<1>4. ASSUME NEW s \in Slot,
             qSlotDone[sched.queue][s], s = FirstOf(FreeSlots(sched.queue)), pool' = Tail(pool),
             queueHead' = [queueHead EXCEPT ![sched.queue][s] = [kind |-> Head(pool), status |-> "pending"]],
             qSlotDone' = [qSlotDone EXCEPT ![sched.queue][s] = FALSE],
             sched' = [sched EXCEPT !.pc = "read"]
      PROVE  Started'
  <2>1. /\ DOMAIN pool = 1 .. Len(pool) /\ Len(pool) \in Nat \ {0} /\ Head(pool) = pool[1]
        /\ Len(Tail(pool)) = Len(pool) - 1 /\ Tail(pool) \in Seq(Kind)
        /\ \A i \in 1 .. Len(pool) - 1 : Tail(pool)[i] = pool[i + 1]
    BY <1>1, <1>2, HeadTailProperties, LenProperties, EmptySeq
  <2>2. DOMAIN pool' = 1 .. Len(pool) - 1 /\ \A i \in DOMAIN pool' : pool'[i] = pool[i + 1]
    BY <1>4, <2>1, LenProperties
  <2>3. \A i \in DOMAIN pool' : pool[i + 1] = "validator"
    <3> SUFFICES ASSUME NEW i \in DOMAIN pool' PROVE pool[i + 1] = "validator"
      OBVIOUS
    <3>1. i + 1 \in DOMAIN pool /\ i + 1 # 1
      BY <2>1, <2>2
    <3>2. pool[i + 1] \in Kind
      BY <1>1, <3>1, <2>1, ElementOfSeq
    <3> QED BY <3>1, <3>2 DEF Fresh, Started, Kind
  <2>4. producer[Main] \notin {"test", "append"} /\ ~qSlotDone'[0][0] /\ queueHead'[0][0] = SenderJob
    <3>1. CASE Fresh
      <4>1. sched.queue = 0 /\ Head(pool) = "sender"
        BY <1>2, <2>1, <3>1 DEF Fresh
      <4>2. s = 0
        <5>1. FreeSlots(0) = Slot
          BY <1>1, <3>1 DEF Fresh, FreeSlots
        <5>2. \A r \in Slot : 0 <= r
          BY <1>1
        <5>3. s \in Slot /\ \A r \in Slot : s <= r
          BY <1>1, <1>4, <4>1, <5>1, <5>2 DEF FirstOf
        <5> QED BY <1>1, <5>3
      <4>3. ~qSlotDone'[0][0] /\ queueHead'[0][0] = SenderJob
        BY <1>1, <1>4, <4>1, <4>2 DEF SenderJob
      <4>4. producer[Main] \notin {"test", "append"}
        <5> SUFFICES ASSUME producer[Main] \in {"test", "append"} PROVE FALSE
          OBVIOUS
        <5> QED BY <1>2 DEF MainFirst
      <4> QED BY <4>3, <4>4
    <3>2. CASE Started
      <4>1. ~(sched.queue = 0 /\ s = 0)
        BY <1>4, <3>2 DEF Started
      <4> QED BY <1>1, <1>4, <3>2, <4>1 DEF Started
    <3> QED BY <3>1, <3>2
  <2> QED BY <1>2, <2>2, <2>3, <2>4 DEF Started
<1> QED BY <1>3, <1>4, InsertShape

LEMMA StartScheduler ==
  ASSUME Typed, Fresh \/ Started, CountSlots \/ ChooseQueue \/ ReadTotal \/ BumpTotal \/ Park
  PROVE  (Fresh \/ Started)'
<1>1. /\ UNCHANGED <<pool, producer, queueHead, qSlotDone, worker>> /\ sched \in SchedState
  BY DEF CountSlots, ChooseQueue, ReadTotal, BumpTotal, Park, queues, Typed, TypeOK, SchedState
<1>2. CASE Started
  BY <1>1, <1>2 DEF Started
<1>3. CASE Fresh
  <2>1. UNCHANGED totalJobs /\ sched'.pc \in {"place", "insert", "park", "wait"}
    BY <1>1, <1>3 DEF Fresh, CountSlots, ChooseQueue, ReadTotal, BumpTotal, Park, queues, SchedState
  <2>2. sched'.pc = "insert" => sched'.queue = 0
    BY <1>1, <1>3, QuickestFresh DEF Fresh, CountSlots, ChooseQueue, ReadTotal, BumpTotal, Park, SchedState
  <2> QED BY <1>1, <1>3, <2>1, <2>2 DEF Fresh
<1> QED BY <1>2, <1>3

\* The first slot of the first thread keeps the sender core: a job that is no
\* processor and never done is neither changed nor finished.
LEMMA StartWorker ==
  ASSUME Typed, Fresh \/ Started, NEW t \in Thread,
         Look(t) \/ RunSender(t) \/ RunValidator(t) \/ FinishJob(t) \/ ReadCount(t) \/ DropCount(t)
           \/ SignalDone(t)
  PROVE  (Fresh \/ Started)'
<1>1. /\ worker \in [Thread -> WorkerState] /\ 0 \in Thread /\ 0 \in Slot
      /\ queueHead \in [Thread -> [Slot -> Job \cup {NoJob}]]
      /\ qSlotDone \in [Thread -> [Slot -> BOOLEAN]] /\ sched \in SchedState
  BY ThreadFacts DEF Typed, TypeOK, WorkerState, SchedState
<1>2. UNCHANGED <<pool, producer>>
  BY DEF Look, RunSender, RunValidator, FinishJob, ReadCount, DropCount, SignalDone, vars
<1>3. CASE Fresh
  <2>1. Look(t) /\ ~HasJob(t)
    BY <1>1, <1>3 DEF Fresh, Look, HasJob, RunSender, RunValidator, FinishJob, ReadCount, DropCount, SignalDone,
       HeadDone, WorkerState
  <2>2. worker' = [worker EXCEPT ![t] = NextSlot(t)] /\ UNCHANGED <<queues, sched>>
    BY <2>1 DEF Look
  <2>3. \A u \in Thread : worker'[u].pc = "look"
    BY <1>1, <1>3, <2>2, NextSlotType DEF Fresh
  <2> QED BY <1>2, <1>3, <2>2, <2>3 DEF Fresh, queues
<1>4. CASE Started
  <2>1. CASE RunValidator(t)
    <3>1. ~(t = 0 /\ worker[t].head = 0) \/ UNCHANGED queueHead
      BY <1>4, <2>1, ValidatorShape DEF Started, SenderJob, PendingValidator, HeadJob
    <3>2. UNCHANGED queueHead \/
          queueHead' = [queueHead EXCEPT ![t][worker[t].head] = [kind |-> "validator", status |-> "done"]]
      BY <2>1, ValidatorShape
    <3>3. queueHead'[0][0] = queueHead[0][0] /\ UNCHANGED qSlotDone
      BY <1>1, <2>1, <3>1, <3>2, ValidatorShape DEF WorkerState
    <3> QED BY <1>2, <1>4, <3>3 DEF Started
  <2>2. CASE FinishJob(t)
    <3>1. ~(t = 0 /\ worker[t].head = 0)
      BY <1>4, <2>2 DEF Started, SenderJob, FinishJob, HeadJob
    <3>2. qSlotDone'[0][0] = qSlotDone[0][0] /\ UNCHANGED queueHead
      BY <1>1, <2>2, <3>1 DEF FinishJob, WorkerState
    <3> QED BY <1>2, <1>4, <3>2 DEF Started
  <2>3. CASE Look(t) \/ RunSender(t) \/ ReadCount(t) \/ DropCount(t) \/ SignalDone(t)
    <3>1. UNCHANGED <<queueHead, qSlotDone>>
      BY <2>3 DEF Look, RunSender, ReadCount, DropCount, SignalDone, queues, vars
    <3> QED BY <1>2, <1>4, <3>1 DEF Started
  <2> QED BY <2>1, <2>2, <2>3
<1> QED BY <1>3, <1>4

Begun == Typed /\ MainFirst /\ (Fresh \/ Started)

LEMMA BegunInvariant == Spec => []Begun
<1>1. Init => Fresh
  <2> SUFFICES ASSUME Init PROVE Fresh
    OBVIOUS
  <2>1. DOMAIN << >> = {} /\ Main \in Producer
    BY DEF Producer
  <2> QED BY <2>1 DEF Init, Fresh
<1>2. Typed /\ MainFirst /\ (Fresh \/ Started) /\ [Next]_vars => (Fresh \/ Started)'
  <2>1. Typed /\ (Fresh \/ Started) /\ UNCHANGED vars => (Fresh \/ Started)'
    BY DEF Fresh, Started, vars, queues
  <2> QED BY <2>1, StartProducer, StartInsert, StartScheduler, StartWorker DEF Next
<1> QED BY <1>1, <1>2, MainFirstInvariant, PTL DEF Spec, Begun

(***************************************************************************)
(* A packet keeps its packet processor.                                    *)
(***************************************************************************)
SlotCover == \E t \in Thread, s \in Slot : ~qSlotDone[t][s] /\ queueHead[t][s] = PendingValidator
PoolCover == \E i \in DOMAIN pool : pool[i] = "validator"

\* addTask refuses a task only when the pool holds a processor: a full pool has
\* two tasks at least, and only the first can be the sender core.
LEMMA FullPoolCovers ==
  ASSUME Begun, PoolIsFull
  PROVE  PoolCover
<1>1. pool \in Seq(Kind) /\ Len(pool) \in Nat /\ Len(pool) >= 2 /\ DOMAIN pool = 1 .. Len(pool)
  BY LenProperties, TaskSchedulerAssumption DEF Begun, Typed, TypeOK, PoolIsFull
<1>2. 2 \in DOMAIN pool /\ pool[2] \in Kind
  BY <1>1, ElementOfSeq
<1>3. pool[2] # "sender"
  BY <1>2 DEF Begun, Fresh, Started
<1> QED BY <1>2, <1>3 DEF PoolCover, Kind

LEMMA CoverProducer ==
  ASSUME Begun, PacketsCovered, NEW p \in Producer,
         PushPacket(p) \/ TestPool(p) \/ AppendTask(p) \/ SignalAdded(p)
  PROVE  PacketsCovered'
<1>1. /\ producer \in [Producer -> {"idle", "test", "append", "signal"}] /\ pool \in Seq(Kind)
      /\ Main \notin Sessions /\ Producer = Sessions \cup {Main}
      /\ UNCHANGED <<queueHead, qSlotDone>>
  BY TaskSchedulerAssumption
     DEF Begun, Typed, TypeOK, Producer, PushPacket, TestPool, AppendTask, SignalAdded, queues
<1>2. CASE PushPacket(p)
  <2>1. p \in Sessions /\ producer'[p] = "test"
    BY <1>1, <1>2 DEF PushPacket
  <2> QED BY <2>1 DEF PacketsCovered
<1>3. CASE TestPool(p)
  <2>1. UNCHANGED <<pool, sink>>
    BY <1>3 DEF TestPool
  <2>2. CASE PoolIsFull
    <3>1. PoolCover
      BY <2>2, FullPoolCovers
    <3> QED BY <2>1, <3>1 DEF PoolCover, PacketsCovered
  <2>3. CASE ~PoolIsFull
    <3>1. \A s \in Sessions : producer[s] \in {"test", "append"} => producer'[s] \in {"test", "append"}
      BY <1>1, <1>3, <2>3 DEF TestPool
    <3> QED BY <1>1, <2>1, <3>1 DEF PacketsCovered
  <2> QED BY <2>2, <2>3
<1>4. CASE AppendTask(p)
  <2>1. /\ UNCHANGED sink /\ pool' = Append(pool, TaskOf(p)) /\ TaskOf(p) \in Kind
        /\ producer' = [producer EXCEPT ![p] = "signal"]
    BY <1>4 DEF AppendTask, TaskOf, Kind
  <2>2. /\ DOMAIN pool' = 1 .. Len(pool) + 1 /\ DOMAIN pool = 1 .. Len(pool) /\ Len(pool) \in Nat
        /\ \A i \in 1 .. Len(pool) : pool'[i] = pool[i]
        /\ pool'[Len(pool) + 1] = TaskOf(p)
    <3>1. /\ Len(pool') = Len(pool) + 1 /\ pool' \in Seq(Kind)
          /\ \A i \in 1 .. Len(pool) : pool'[i] = pool[i]
          /\ pool'[Len(pool) + 1] = TaskOf(p)
      BY <1>1, <2>1, AppendProperties
    <3> QED BY <1>1, <3>1, LenProperties
  <2>3. CASE p # Main
    <3>1. Len(pool) + 1 \in DOMAIN pool' /\ pool'[Len(pool) + 1] = "validator"
      BY <2>2, <2>3 DEF TaskOf
    <3> QED BY <3>1 DEF PacketsCovered
  <2>4. CASE p = Main
    <3>1. \A s \in Sessions : producer'[s] = producer[s]
      BY <1>1, <2>1, <2>4
    <3>2. \A i \in DOMAIN pool : i \in DOMAIN pool' /\ pool'[i] = pool[i]
      BY <2>2
    <3> QED BY <1>1, <2>1, <3>1, <3>2 DEF PacketsCovered
  <2> QED BY <2>3, <2>4
<1>5. CASE SignalAdded(p)
  <2>1. UNCHANGED <<pool, sink>> /\ \A s \in Sessions : producer[s] \in {"test", "append"} => producer'[s] = producer[s]
    BY <1>1, <1>5 DEF SignalAdded
  <2> QED BY <1>1, <2>1 DEF PacketsCovered
<1> QED BY <1>2, <1>3, <1>4, <1>5

\* A task moves from the pool to a slot that was free.
LEMMA CoverInsert ==
  ASSUME Begun, PacketsCovered, InsertJob
  PROVE  PacketsCovered'
<1>1. /\ pool \in Seq(Kind) /\ queueHead \in [Thread -> [Slot -> Job \cup {NoJob}]]
      /\ qSlotDone \in [Thread -> [Slot -> BOOLEAN]] /\ Typed
  BY DEF Begun, Typed, TypeOK
<1>2. /\ pool # << >> /\ sched.queue \in Thread /\ UNCHANGED <<sink, producer>>
  BY <1>1, InsertShape
<1>3. CASE UNCHANGED <<pool, queueHead, qSlotDone>>
  BY <1>2, <1>3 DEF PacketsCovered
<1>4. ASSUME NEW s \in Slot,
             qSlotDone[sched.queue][s], pool' = Tail(pool),
             queueHead' = [queueHead EXCEPT ![sched.queue][s] = [kind |-> Head(pool), status |-> "pending"]],
             qSlotDone' = [qSlotDone EXCEPT ![sched.queue][s] = FALSE]
      PROVE  PacketsCovered'
  <2>1. /\ DOMAIN pool = 1 .. Len(pool) /\ Len(pool) \in Nat \ {0} /\ Head(pool) = pool[1]
        /\ Len(Tail(pool)) = Len(pool) - 1 /\ Tail(pool) \in Seq(Kind)
        /\ \A i \in 1 .. Len(pool) - 1 : Tail(pool)[i] = pool[i + 1]
    BY <1>1, <1>2, HeadTailProperties, LenProperties, EmptySeq
  <2>2. DOMAIN pool' = 1 .. Len(pool) - 1 /\ \A i \in DOMAIN pool' : pool'[i] = pool[i + 1]
    BY <1>4, <2>1, LenProperties
  <2>3. PoolCover => (PoolCover \/ SlotCover)'
    <3> SUFFICES ASSUME NEW i \in DOMAIN pool, pool[i] = "validator" PROVE PoolCover' \/ SlotCover'
      BY DEF PoolCover
    <3>1. CASE i = 1
      <4>1. ~qSlotDone'[sched.queue][s] /\ queueHead'[sched.queue][s] = PendingValidator
        BY <1>1, <1>2, <1>4, <2>1, <3>1 DEF PendingValidator
      <4> QED BY <1>2, <4>1 DEF SlotCover
    <3>2. CASE i # 1
      <4>1. i - 1 \in DOMAIN pool' /\ pool'[i - 1] = "validator"
        BY <2>1, <2>2, <3>2
      <4> QED BY <4>1 DEF PoolCover
    <3> QED BY <3>1, <3>2
  <2>4. SlotCover => SlotCover'
    <3> SUFFICES ASSUME NEW u \in Thread, NEW r \in Slot,
                        ~qSlotDone[u][r], queueHead[u][r] = PendingValidator
                 PROVE  SlotCover'
      BY DEF SlotCover
    <3>1. ~qSlotDone'[u][r] /\ queueHead'[u][r] = PendingValidator
      BY <1>1, <1>2, <1>4
    <3> QED BY <3>1 DEF SlotCover
  <2> QED BY <1>2, <2>3, <2>4 DEF PacketsCovered, PoolCover, SlotCover
<1> QED BY <1>1, <1>3, <1>4, InsertShape

\* The slot of a processor is freed only when it is through with the sink.
LEMMA CoverWorker ==
  ASSUME Begun, PacketsCovered, NEW t \in Thread, RunValidator(t) \/ FinishJob(t)
  PROVE  PacketsCovered'
<1>1. /\ queueHead \in [Thread -> [Slot -> Job \cup {NoJob}]] /\ worker[t].head \in Slot
      /\ qSlotDone \in [Thread -> [Slot -> BOOLEAN]] /\ Typed /\ sink \in Nat
  BY DEF Begun, Typed, TypeOK
<1>2. CASE RunValidator(t)
  <2>1. UNCHANGED <<pool, producer, qSlotDone>>
    BY <1>1, <1>2, ValidatorShape
  <2>2. CASE sink > 0 /\ sink' = sink - 1 /\ UNCHANGED queueHead
    BY <2>1, <2>2 DEF PacketsCovered
  <2>3. CASE sink = 0 /\ sink' = sink
    BY <2>3 DEF PacketsCovered
  <2> QED BY <1>1, <1>2, <2>2, <2>3, ValidatorShape
<1>3. CASE FinishJob(t)
  <2>1. /\ UNCHANGED <<pool, producer, queueHead, sink>>
        /\ qSlotDone' = [qSlotDone EXCEPT ![t][worker[t].head] = TRUE]
        /\ queueHead[t][worker[t].head] # PendingValidator
    BY <1>3 DEF FinishJob, HeadJob, PendingValidator
  <2>2. SlotCover => SlotCover'
    BY <1>1, <2>1 DEF SlotCover
  <2> QED BY <2>1, <2>2 DEF PacketsCovered, SlotCover
<1> QED BY <1>2, <1>3

LEMMA CoverQuiet ==
  ASSUME PacketsCovered, UNCHANGED <<pool, producer, queueHead, qSlotDone, sink>>
  PROVE  PacketsCovered'
BY DEF PacketsCovered

\* A packet in the receiver sink always has a packet processor that is not through
\* with the sink, for any number of threads, slots and sessions and any limits of
\* pool and sink: the tasks that addTask drops are never the last one
\* (task_pool.cpp:18, packet_validator.cpp:59).
THEOREM PacketsKept == Spec => []PacketsCovered
<1>1. Init => PacketsCovered
  BY DEF Init, PacketsCovered
<1>2. Begun /\ PacketsCovered /\ [Next]_vars => PacketsCovered'
  <2> SUFFICES ASSUME Begun, PacketsCovered, [Next]_vars PROVE PacketsCovered'
    OBVIOUS
  <2>1. CASE CountSlots \/ ChooseQueue \/ ReadTotal \/ BumpTotal \/ Park \/ UNCHANGED vars
    <3>1. UNCHANGED <<pool, producer, queueHead, qSlotDone, sink>>
      BY <2>1 DEF CountSlots, ChooseQueue, ReadTotal, BumpTotal, Park, queues, vars
    <3> QED BY <3>1, CoverQuiet
  <2>2. ASSUME NEW t \in Thread, Look(t) \/ RunSender(t) \/ ReadCount(t) \/ DropCount(t) \/ SignalDone(t)
        PROVE  PacketsCovered'
    <3>1. UNCHANGED <<pool, producer, queueHead, qSlotDone, sink>>
      BY <2>2 DEF Look, RunSender, ReadCount, DropCount, SignalDone, queues, vars
    <3> QED BY <3>1, CoverQuiet
  <2> QED BY <2>1, <2>2, CoverProducer, CoverInsert, CoverWorker DEF Next
<1> QED BY <1>1, <1>2, BegunInvariant, PTL DEF Spec

(***************************************************************************)
(* The counters.  A lost update of totalJobsInQueue may leave it too big   *)
(* as well as too small.  That it never wraps has two reasons: a queue but *)
(* the first gets a job only while its counter is below QUEUE_SIZE, and    *)
(* the first, which gets jobs whatever its counter says, never finishes    *)
(* one.                                                                    *)
(***************************************************************************)
Taken == {s \in Slot : ~qSlotDone[0][s]}

\* The first thread comes to the sender core before it comes to any job for the
\* second time, which is when it would finish it.
FirstThread ==
  /\ worker[0].pc \in {"look", "job"}
  /\ \A s \in Taken : queueHead[0][s].status = "done" =>
       /\ s # 0 /\ totalJobs[0] > 0
       /\ worker[0].head = 0 \/ s < worker[0].head
  /\ totalJobs[0] + (IF sched.pc \in {"read", "bump"} /\ sched.queue = 0 THEN 1 ELSE 0)
       <= Cardinality(Taken)
  /\ sched.pc = "bump" /\ sched.queue = 0 => sched.got + 1 <= Cardinality(Taken)

\* No counter exceeds the slots.
Counters ==
  /\ \A t \in Thread : totalJobs[t] <= QUEUE_SIZE
  /\ sched.pc \in {"insert", "read"} /\ sched.queue # 0 => totalJobs[sched.queue] < QUEUE_SIZE
  /\ sched.pc = "bump" => sched.got < QUEUE_SIZE
  /\ \A t \in Thread : worker[t].pc \in {"job", "read"} => totalJobs[t] > 0
  /\ \A t \in Thread : worker[t].pc = "drop" => worker[t].got \in 1 .. QUEUE_SIZE

Counted == Begun /\ FirstThread /\ Counters

\* An increment below the top and a decrement above the bottom are exact.
LEMMA IncrementExact == \A g \in Nat : g + 1 < UINT8 => (g + 1) % UINT8 = g + 1
<1>1. \A g \in Nat : g + 1 < 256 => (g + 1) % 256 = g + 1
  OBVIOUS
<1> QED BY <1>1 DEF UINT8

LEMMA DecrementExact == \A g \in Nat : 0 < g /\ g < UINT8 => (g + UINT8 - 1) % UINT8 = g - 1
<1>1. \A g \in Nat : 0 < g /\ g < 256 => (g + 256 - 1) % 256 = g - 1
  OBVIOUS
<1> QED BY <1>1 DEF UINT8

\* What the proofs below use of the types.
Shape ==
  /\ Typed /\ Begun /\ FirstThread /\ Counters
  /\ 0 \in Thread /\ 0 \in Slot /\ Slot \subseteq Nat
  /\ QUEUE_SIZE \in Nat /\ QUEUE_SIZE < UINT8 /\ UINT8 = 256
  /\ queueHead \in [Thread -> [Slot -> Job \cup {NoJob}]]
  /\ qSlotDone \in [Thread -> [Slot -> BOOLEAN]]
  /\ totalJobs \in [Thread -> Nat] /\ sched.got \in Nat
  /\ sched \in SchedState /\ worker \in [Thread -> WorkerState]
  /\ IsFiniteSet(Taken) /\ Cardinality(Taken) \in Nat /\ Cardinality(Taken) <= QUEUE_SIZE

LEMMA CountedShape == Counted => Shape
<1> SUFFICES ASSUME Counted PROVE Shape
  OBVIOUS
<1>1. Taken \subseteq Slot
  BY DEF Taken
<1>2. IsFiniteSet(Taken) /\ Cardinality(Taken) <= QUEUE_SIZE /\ Cardinality(Taken) \in Nat
  BY <1>1, ThreadFacts, FS_Subset, FS_CardinalityType
<1>3. totalJobs \in [Thread -> Nat] /\ sched.got \in Nat
  <2>1. 0 .. UINT8 - 1 \subseteq Nat
    BY DEF UINT8
  <2> QED BY <2>1 DEF Counted, Begun, Typed, TypeOK
<1> QED BY <1>2, <1>3, ThreadFacts, TaskSchedulerAssumption
        DEF Shape, Counted, Begun, Typed, TypeOK, SchedState, WorkerState, UINT8

\* Steps that leave queues and task threads alone and let the scheduler stand, or
\* wake it.
LEMMA CountedQuiet ==
  ASSUME Counted, UNCHANGED <<queueHead, qSlotDone, totalJobs, worker>>,
         sched' = sched \/ sched'.pc \notin {"insert", "read", "bump"}
  PROVE  FirstThread' /\ Counters'
<1>1. Taken' = Taken
  BY DEF Taken
<1>2. totalJobs[0] \in Nat /\ Cardinality(Taken) \in Nat
  BY CountedShape DEF Shape
<1> QED BY <1>1, <1>2 DEF Counted, FirstThread, Counters

LEMMA CountedChoose ==
  ASSUME Counted, ChooseQueue
  PROVE  FirstThread' /\ Counters'
<1>1. UNCHANGED <<queueHead, qSlotDone, totalJobs, worker>> /\ sched \in SchedState
  BY CountedShape DEF ChooseQueue, queues, Shape
<1>2. sched'.pc \in {"insert", "park"} /\ (sched'.pc = "insert" => sched'.queue = QuickestQueue)
  BY <1>1 DEF ChooseQueue, SchedState
<1>3. Taken' = Taken
  BY <1>1 DEF Taken
<1>4. totalJobs[0] \in Nat /\ Cardinality(Taken) \in Nat
  BY CountedShape DEF Shape
<1>5. sched'.pc = "insert" /\ sched'.queue # 0 => totalJobs'[sched'.queue] < QUEUE_SIZE
  BY <1>1, <1>2, QuickestType
<1> QED BY <1>1, <1>2, <1>3, <1>4, <1>5 DEF Counted, FirstThread, Counters

LEMMA CountedInsert ==
  ASSUME Counted, InsertJob
  PROVE  FirstThread' /\ Counters'
<1>a. Shape
  BY CountedShape
<1> USE <1>a DEF Shape
<1>1. /\ sched.pc = "insert" /\ sched.queue \in Thread /\ UNCHANGED <<totalJobs, worker>>
  BY InsertShape
<1>2. CASE /\ UNCHANGED <<queueHead, qSlotDone>>
           /\ sched' = [sched EXCEPT !.pc = "place", !.left = @ - 1]
  BY <1>1, <1>2, CountedQuiet DEF SchedState
<1>3. ASSUME NEW s \in Slot, qSlotDone[sched.queue][s],
             queueHead' = [queueHead EXCEPT ![sched.queue][s] = [kind |-> Head(pool), status |-> "pending"]],
             qSlotDone' = [qSlotDone EXCEPT ![sched.queue][s] = FALSE],
             sched' = [sched EXCEPT !.pc = "read"]
      PROVE  FirstThread' /\ Counters'
  <2>1. sched'.pc = "read" /\ sched'.queue = sched.queue
    BY <1>3 DEF SchedState
  <2>2. Counters'
    BY <1>1, <2>1 DEF Counters
  <2>3. CASE sched.queue = 0
    <3>1. Taken' = Taken \cup {s} /\ s \notin Taken
      BY <1>3, <2>3 DEF Taken
    <3>2. Cardinality(Taken') = Cardinality(Taken) + 1
      BY <3>1, FS_AddElement
    <3>3. \A r \in Taken' : queueHead'[0][r].status = "done" => r \in Taken /\ queueHead'[0][r] = queueHead[0][r]
      BY <1>3, <2>3, <3>1 DEF Taken
    <3>4. totalJobs[0] <= Cardinality(Taken) /\ totalJobs[0] \in Nat
      BY <1>1 DEF FirstThread
    <3>5. totalJobs'[0] + 1 <= Cardinality(Taken')
      BY <1>1, <3>2, <3>4
    <3> QED BY <1>1, <2>1, <2>2, <2>3, <3>3, <3>5 DEF FirstThread
  <2>4. CASE sched.queue # 0
    <3>1. Taken' = Taken /\ queueHead'[0] = queueHead[0]
      BY <1>1, <1>3, <2>4 DEF Taken
    <3>2. totalJobs[0] <= Cardinality(Taken) /\ totalJobs[0] \in Nat
      BY <1>1 DEF FirstThread
    <3> QED BY <1>1, <2>1, <2>2, <2>4, <3>1, <3>2 DEF FirstThread
  <2> QED BY <2>3, <2>4
<1> QED BY <1>2, <1>3, InsertShape

LEMMA CountedRead ==
  ASSUME Counted, ReadTotal
  PROVE  FirstThread' /\ Counters'
<1>a. Shape
  BY CountedShape
<1> USE <1>a DEF Shape
<1>1. /\ sched.pc = "read" /\ UNCHANGED <<queueHead, qSlotDone, totalJobs, worker>>
      /\ sched'.pc = "bump" /\ sched'.queue = sched.queue /\ sched'.got = totalJobs[sched.queue]
      /\ sched.queue \in Thread
  BY DEF ReadTotal, queues, SchedState
<1>2. Taken' = Taken
  BY <1>1 DEF Taken
<1>3. sched.queue = 0 => totalJobs[0] + 1 <= Cardinality(Taken)
  BY <1>1 DEF FirstThread
<1>4. totalJobs[sched.queue] < QUEUE_SIZE
  <2>1. totalJobs[0] \in Nat
    OBVIOUS
  <2> QED BY <1>1, <1>3, <2>1 DEF Counters
<1>5. FirstThread'
  BY <1>1, <1>2, <1>3 DEF FirstThread
<1>6. Counters'
  BY <1>1, <1>4 DEF Counters
<1> QED BY <1>5, <1>6

LEMMA CountedBump ==
  ASSUME Counted, BumpTotal
  PROVE  FirstThread' /\ Counters'
<1>a. Shape
  BY CountedShape
<1> USE <1>a DEF Shape
<1> DEFINE q == sched.queue
           n == sched.got + 1
<1>1. /\ sched.pc = "bump" /\ UNCHANGED <<queueHead, qSlotDone, worker>>
      /\ sched'.pc = "place" /\ q \in Thread /\ sched.got \in Nat
      /\ totalJobs' = [totalJobs EXCEPT ![q] = n % UINT8]
  BY DEF BumpTotal, SchedState
<1>2. n \in Nat /\ n > 0 /\ n <= QUEUE_SIZE /\ n % UINT8 = n
  <2>1. sched.got < QUEUE_SIZE
    BY <1>1 DEF Counters
  <2>2. sched.got + 1 < UINT8
    BY <1>1, <2>1
  <2>3. n % UINT8 = n
    BY <1>1, <2>2, IncrementExact
  <2> QED BY <1>1, <2>1, <2>3
<1>3. Taken' = Taken
  BY <1>1 DEF Taken
<1>4. totalJobs' = [totalJobs EXCEPT ![q] = n]
  BY <1>1, <1>2
<1>5. q = 0 => n <= Cardinality(Taken)
  BY <1>1 DEF FirstThread
<1> HIDE DEF n, q
<1>6. \A t \in Thread : totalJobs'[t] = (IF t = q THEN n ELSE totalJobs[t])
  BY <1>1, <1>4
<1>7. Counters'
  BY <1>1, <1>2, <1>6 DEF Counters
<1>8. totalJobs'[0] <= Cardinality(Taken) /\ (totalJobs[0] > 0 => totalJobs'[0] > 0)
  <2>1. totalJobs[0] <= Cardinality(Taken)
    BY <1>1 DEF FirstThread
  <2> QED BY <1>2, <1>5, <1>6, <2>1
<1>9. FirstThread'
  <2>1. totalJobs'[0] \in Nat
    BY <1>2, <1>6
  <2> QED BY <1>1, <1>3, <1>8, <2>1 DEF FirstThread
<1> QED BY <1>7, <1>9

\* The steps of a task thread.
LEMMA CountedLook ==
  ASSUME Counted, NEW t \in Thread, Look(t)
  PROVE  FirstThread' /\ Counters'
<1>a. Shape
  BY CountedShape
<1> USE <1>a DEF Shape
<1>1. /\ UNCHANGED <<queueHead, qSlotDone, totalJobs, sched>> /\ worker[t].pc = "look"
      /\ worker[t] \in WorkerState
  BY DEF Look, queues
<1>2. Taken' = Taken
  BY <1>1 DEF Taken
<1>3. CASE HasJob(t)
  <2>1. /\ worker' = [worker EXCEPT ![t] = [worker[t] EXCEPT !.pc = "job"]]
        /\ totalJobs[t] > 0
    BY <1>1, <1>3 DEF Look, HasJob
  <2>2. \A u \in Thread : /\ worker'[u].head = worker[u].head /\ worker'[u].got = worker[u].got
                          /\ worker'[u].pc = (IF u = t THEN "job" ELSE worker[u].pc)
    BY <1>1, <2>1 DEF WorkerState
  <2> QED BY <1>1, <1>2, <2>1, <2>2 DEF FirstThread, Counters
<1>4. CASE ~HasJob(t)
  <2>1. worker' = [worker EXCEPT ![t] = NextSlot(t)]
    BY <1>4 DEF Look
  <2>2. /\ \A u \in Thread : u # t => worker'[u] = worker[u]
        /\ worker'[t].pc = "look"
        /\ worker'[t].head = 0 \/ worker'[t].head = worker[t].head + 1
    BY <1>1, <2>1, NextSlotType
  <2>3. Counters'
    BY <1>1, <2>2 DEF Counters
  <2>4. ASSUME t = 0, NEW s \in Taken, queueHead[0][s].status = "done"
        PROVE  worker'[0].head = 0 \/ s < worker'[0].head
    <3>1. s # 0 /\ totalJobs[0] > 0 /\ (worker[0].head = 0 \/ s < worker[0].head)
      BY <2>4 DEF FirstThread
    <3>2. worker[0].head # 0
      <4> SUFFICES ASSUME worker[0].head = 0 PROVE FALSE
        OBVIOUS
      <4>1. ~qSlotDone[0][0]
        BY <2>4 DEF Begun, Fresh, Started, Taken
      <4> QED BY <1>4, <2>4, <3>1, <4>1 DEF HasJob, HeadDone
    <3>3. s \in Nat /\ worker[0].head \in Nat
      BY <1>1, <2>4 DEF Taken, WorkerState
    <3> QED BY <2>2, <2>4, <3>1, <3>2, <3>3
  <2>5. FirstThread'
    BY <1>1, <1>2, <2>2, <2>4 DEF FirstThread
  <2> QED BY <2>3, <2>5
<1> QED BY <1>3, <1>4

\* A processor of the first thread is done: the thread goes on behind it.
LEMMA CountedValidator ==
  ASSUME Counted, NEW t \in Thread, RunValidator(t)
  PROVE  FirstThread' /\ Counters'
<1>a. Shape
  BY CountedShape
<1> USE <1>a DEF Shape
<1>1. /\ worker[t].pc = "job" /\ HeadJob(t) = PendingValidator /\ worker[t] \in WorkerState
      /\ UNCHANGED <<qSlotDone, totalJobs, sched>>
  BY ValidatorShape
<1>2. Taken' = Taken
  BY <1>1 DEF Taken
<1>3. CASE UNCHANGED <<queueHead, worker>>
  BY <1>1, <1>3, CountedQuiet
<1>4. CASE /\ queueHead' = [queueHead EXCEPT ![t][worker[t].head] = [kind |-> "validator", status |-> "done"]]
           /\ worker' = [worker EXCEPT ![t] = NextSlot(t)]
  <2>1. /\ \A u \in Thread : u # t => worker'[u] = worker[u]
        /\ worker'[t].pc = "look"
        /\ worker'[t].head = 0 \/ worker'[t].head = worker[t].head + 1
    BY <1>1, <1>4, NextSlotType
  <2>2. Counters'
    BY <1>1, <2>1 DEF Counters
  <2>3. CASE t # 0
    <3>1. queueHead'[0] = queueHead[0]
      BY <1>4, <2>3
    <3> QED BY <1>1, <1>2, <2>1, <2>2, <2>3, <3>1 DEF FirstThread
  <2>4. CASE t = 0
    <3> DEFINE h == worker[0].head
    <3>1. totalJobs[0] > 0 /\ h \in Slot
      BY <1>1, <2>4 DEF Counters, WorkerState
    <3>2. h # 0
      BY <1>1, <2>4 DEF Begun, Fresh, Started, SenderJob, PendingValidator, HeadJob
    <3>3. \A s \in Taken : queueHead'[0][s].status = "done" =>
             s = h \/ (queueHead[0][s].status = "done" /\ s < h)
      BY <1>4, <2>4, <3>1, <3>2 DEF Taken, FirstThread
    <3>4. \A s \in Taken : queueHead'[0][s].status = "done" =>
             s # 0 /\ (worker'[0].head = 0 \/ s < worker'[0].head)
      <4>1. Taken \subseteq Nat /\ h \in Nat
        BY <3>1 DEF Taken
      <4>2. \A s \in Taken : queueHead'[0][s].status = "done" => s # 0 /\ s <= h
        BY <3>2, <3>3, <4>1 DEF FirstThread
      <4>3. worker'[0].head = 0 \/ worker'[0].head = h + 1
        BY <2>1, <2>4
      <4>4. \A s \in Taken : s <= h => s < h + 1
        BY <4>1
      <4> QED BY <4>2, <4>3, <4>4
    <3> QED BY <1>1, <1>2, <2>1, <2>2, <2>4, <3>1, <3>4 DEF FirstThread
  <2> QED BY <2>2, <2>3, <2>4
<1> QED BY <1>3, <1>4, ValidatorShape

\* The first thread finishes no job: its head is at one that is not done.
LEMMA FirstNeverFinishes ==
  ASSUME Counted, NEW t \in Thread, FinishJob(t)
  PROVE  t # 0
<1>a. Shape
  BY CountedShape
<1> USE <1>a DEF Shape
<1> SUFFICES ASSUME t = 0 PROVE FALSE
  OBVIOUS
<1>1. worker[0].head \in Slot /\ worker[0].pc = "job" /\ queueHead[0][worker[0].head].status = "done"
  BY DEF FinishJob, HeadJob, WorkerState
<1>2. worker[0].head \in Taken
  BY <1>1 DEF Typed, Filled, HeadDone, Taken
<1>3. worker[0].head # 0 /\ worker[0].head < worker[0].head
  BY <1>1, <1>2 DEF FirstThread
<1>4. worker[0].head \in Nat
  BY <1>1
<1> QED BY <1>3, <1>4

LEMMA CountedWorker ==
  ASSUME Counted, NEW t \in Thread, FinishJob(t) \/ ReadCount(t) \/ DropCount(t) \/ SignalDone(t)
  PROVE  FirstThread' /\ Counters'
<1>a. Shape
  BY CountedShape
<1> USE <1>a DEF Shape
<1>0. worker[t] \in WorkerState /\ totalJobs[t] \in Nat /\ totalJobs[t] <= QUEUE_SIZE
  BY DEF Counters
<1>1. t # 0
  BY FirstNeverFinishes DEF ReadCount, DropCount, SignalDone, FirstThread
<1>2. CASE FinishJob(t)
  <2>1. /\ qSlotDone' = [qSlotDone EXCEPT ![t][worker[t].head] = TRUE]
        /\ worker' = [worker EXCEPT ![t].pc = "read"] /\ worker[t].pc = "job"
        /\ UNCHANGED <<queueHead, totalJobs, sched>>
    BY <1>2 DEF FinishJob
  <2>2. Taken' = Taken
    BY <1>1, <2>1 DEF Taken
  <2>3. /\ worker'[0] = worker[0] /\ \A u \in Thread : u # t => worker'[u] = worker[u]
        /\ worker'[t].pc = "read"
    BY <1>0, <1>1, <2>1 DEF WorkerState
  <2> QED BY <2>1, <2>2, <2>3 DEF FirstThread, Counters
<1>3. CASE ReadCount(t)
  <2>1. UNCHANGED <<queueHead, qSlotDone, totalJobs, sched>> /\ worker[t].pc = "read"
    BY <1>3 DEF ReadCount, queues
  <2>2. /\ \A u \in Thread : u # t => worker'[u] = worker[u]
        /\ worker'[t].pc = "drop" /\ worker'[t].got = totalJobs[t]
    BY <1>0, <1>3 DEF ReadCount, WorkerState
  <2>3. totalJobs[t] \in 1 .. QUEUE_SIZE
    BY <1>0, <2>1 DEF Counters
  <2>4. Taken' = Taken /\ worker'[0] = worker[0]
    BY <1>1, <2>1, <2>2 DEF Taken
  <2> QED BY <2>1, <2>2, <2>3, <2>4 DEF FirstThread, Counters
<1>4. CASE DropCount(t)
  <2> DEFINE n == worker[t].got - 1
  <2>1. /\ UNCHANGED <<queueHead, qSlotDone, sched>> /\ worker[t].pc = "drop"
        /\ totalJobs' = [totalJobs EXCEPT ![t] = (worker[t].got + UINT8 - 1) % UINT8]
    BY <1>4 DEF DropCount
  <2>2. worker[t].got \in 1 .. QUEUE_SIZE
    BY <2>1 DEF Counters
  <2>3. totalJobs' = [totalJobs EXCEPT ![t] = n]
    <3>1. worker[t].got \in Nat /\ 0 < worker[t].got /\ worker[t].got < UINT8
      BY <2>2
    <3>2. (worker[t].got + UINT8 - 1) % UINT8 = n
      BY <3>1, DecrementExact
    <3> QED BY <2>1, <3>2
  <2>4. n \in Nat /\ n < QUEUE_SIZE
    BY <2>2
  <2> HIDE DEF n
  <2>5. /\ \A u \in Thread : u # t => worker'[u] = worker[u]
        /\ worker'[t].pc = "signal"
    BY <1>0, <1>4 DEF DropCount, WorkerState
  <2>6. \A u \in Thread : totalJobs'[u] = (IF u = t THEN n ELSE totalJobs[u])
    BY <2>3
  <2>7. Taken' = Taken /\ worker'[0] = worker[0] /\ totalJobs'[0] = totalJobs[0]
    BY <1>1, <2>1, <2>5, <2>6 DEF Taken
  <2>8. FirstThread'
    BY <2>1, <2>7 DEF FirstThread
  <2>9. Counters'
    BY <2>1, <2>4, <2>5, <2>6 DEF Counters
  <2> QED BY <2>8, <2>9
<1>5. CASE SignalDone(t)
  <2>1. UNCHANGED <<queueHead, qSlotDone, totalJobs>> /\ worker' = [worker EXCEPT ![t] = NextSlot(t)]
    BY <1>5 DEF SignalDone, queues
  <2>2. sched' = sched \/ sched'.pc = "count"
    BY <1>5 DEF SignalDone, Wake, SchedState
  <2>3. (\A u \in Thread : u # t => worker'[u] = worker[u]) /\ worker'[t].pc = "look"
    BY <2>1, NextSlotType
  <2>4. Taken' = Taken /\ worker'[0] = worker[0]
    BY <1>1, <2>1, <2>3 DEF Taken
  <2>5. totalJobs[0] \in Nat /\ Cardinality(Taken) \in Nat
    OBVIOUS
  <2> QED BY <2>1, <2>2, <2>3, <2>4, <2>5 DEF FirstThread, Counters
<1> QED BY <1>2, <1>3, <1>4, <1>5

LEMMA CountedInit == Init => FirstThread /\ Counters
<1> SUFFICES ASSUME Init PROVE FirstThread /\ Counters
  OBVIOUS
<1>1. Taken = {}
  BY ThreadFacts DEF Init, Taken
<1>2. Cardinality(Taken) = 0
  BY <1>1, FS_EmptySet
<1> QED BY <1>1, <1>2, ThreadFacts, TaskSchedulerAssumption DEF Init, FirstThread, Counters

LEMMA CountedInvariant == Spec => []Counted
<1>1. Counted /\ [Next]_vars => FirstThread' /\ Counters'
  <2> SUFFICES ASSUME Counted, [Next]_vars PROVE FirstThread' /\ Counters'
    OBVIOUS
  <2>1. ASSUME NEW p \in Producer, PushPacket(p) \/ TestPool(p) \/ AppendTask(p) \/ SignalAdded(p)
        PROVE  FirstThread' /\ Counters'
    <3>1. sched' = sched \/ sched'.pc \notin {"insert", "read", "bump"}
      BY <2>1, CountedShape DEF PushPacket, TestPool, AppendTask, SignalAdded, Wake, Shape, SchedState
    <3>2. UNCHANGED <<queueHead, qSlotDone, totalJobs, worker>>
      BY <2>1 DEF PushPacket, TestPool, AppendTask, SignalAdded, queues
    <3> QED BY <3>1, <3>2, CountedQuiet
  <2>2. CASE CountSlots \/ Park
    <3>0. sched \in SchedState
      BY CountedShape DEF Shape
    <3>1. sched'.pc \in {"place", "wait"}
      BY <2>2, <3>0 DEF CountSlots, Park, SchedState
    <3>2. UNCHANGED <<queueHead, qSlotDone, totalJobs, worker>>
      BY <2>2 DEF CountSlots, Park, queues
    <3> QED BY <3>1, <3>2, CountedQuiet
  <2>3. ASSUME UNCHANGED vars PROVE FirstThread' /\ Counters'
    BY <2>3, CountedQuiet DEF vars, queues
  <2>4. ASSUME NEW t \in Thread, RunSender(t) PROVE FirstThread' /\ Counters'
    BY <2>3, <2>4 DEF RunSender
  <2> QED BY <2>1, <2>2, <2>3, <2>4, CountedChoose, CountedInsert, CountedRead, CountedBump, CountedLook,
             CountedValidator, CountedWorker DEF Next
<1>2. Counted <=> Begun /\ FirstThread /\ Counters
  BY DEF Counted
<1> QED BY <1>1, <1>2, CountedInit, BegunInvariant, PTL DEF Spec

\* The decrement of totalJobsInQueue never wraps, and no counter ever exceeds the
\* slots of its queue, for any number of packets, sessions and threads, although
\* increments and decrements are lost (task_scheduler.cpp:158, :203).
THEOREM CounterNeverWraps == Spec => []NeverWraps
<1>1. Counted => NeverWraps
  BY CountedShape DEF Shape, Counters, NeverWraps
<1> QED BY <1>1, CountedInvariant, PTL
=============================================================================
