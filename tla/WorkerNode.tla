----------------------------- MODULE WorkerNode -----------------------------
(***************************************************************************)
(* The packets queued against a worker, from the moment the sender core    *)
(* hands them over until the worker acknowledges them:                     *)
(*                                                                         *)
(*   worker_node/worker.cpp       the two queues of a worker and their lock*)
(*   sched/timeout.cpp            the resend timer and its list            *)
(*   packet_processor/process_status_packet.cpp  acks and result statuses  *)
(*   packet_processor/outgoing_data_registry.cpp worker and status of data *)
(*   sender_unit/sender_core.cpp  the part that queues and assigns         *)
(*                                                                         *)
(* Threads: the session of each worker (polls for a packet), the sender    *)
(* core, the packet processors and the timer.  Every step that can block   *)
(* on a semaphore is an action of its own, and so is every read made       *)
(* without the lock.                                                       *)
(***************************************************************************)
EXTENDS Naturals, StdList

CONSTANTS
  Workers,            \* the registered workers, one session each
  UserData,           \* user tables: each goes to one worker, once
  Templates,          \* templates: each goes to every worker, once (bound)
  Processors,         \* threads running the packet processor
  Results,            \* the results workers report, a subset of Result
  WORKER_QUEUE_SIZE,  \* configs.h: 20
  NoWorker            \* OutgoingDataState.worker before its first assignment

\* UserTaskStatus, task.hpp.
DATA_QUEUED == 0
DATA_READY  == 1
DATA_INTER  == 3
DATA_FINAL  == 4
DATA_ERROR  == 5
Status      == 0..5
Result      == {DATA_INTER, DATA_FINAL, DATA_ERROR}

ASSUME WorkerNodeAssumption ==
  /\ IsFiniteSet(Processors)
  /\ Results \subseteq Result
  /\ UserData \cap Templates = {}
  /\ Workers \cap Processors = {}
  /\ WORKER_QUEUE_SIZE \in Nat
  /\ NoWorker \notin Workers

Data    == UserData \cup Templates
Kind    == {"data", "interAck", "finalAck"}
Packet  == [worker : Workers, data : Data, kind : Kind]

IsAckable(packet) == packet.kind = "data"
AckPacket(w, d, status) ==
  [worker |-> w, data |-> d,
   kind |-> IF status = DATA_INTER THEN "interAck" ELSE "finalAck"]

VARIABLES
  senderQueue,      \* Worker::senderQueue
  ackPendingQueue,  \* Worker::ackPendingQueue
  ackPacketPop,     \* Worker::ackPacketPop
  workerLock,       \* Worker::workerLock, a counting semaphore
  timedPackets,     \* Timeout::timedPackets
  timeoutListLock,  \* Timeout::timeoutListLock, a counting semaphore
  checkedOut,       \* packets whose status flag the timer has reset
  dataWorker,       \* OutgoingDataState::worker
  taskStatus,       \* OutgoingDataState::taskStatus
  created,          \* ackable packets constructed so far
  freed,            \* packets deleted
  received,         \* per worker: packets whose content reached it
  reported,         \* results already reported, <<data, status>> (bound)
  session,          \* per worker: its session thread
  sender,           \* the sender core thread
  processor,        \* per processor: its thread
  timer,            \* the timer thread and its position in timedPackets
  crashed           \* undefined behaviour has ended the program

queues   == <<senderQueue, ackPendingQueue, ackPacketPop>>
locks    == <<workerLock, timeoutListLock>>
timing   == <<timedPackets, checkedOut>>
registry == <<dataWorker, taskStatus>>
history  == <<created, freed, received, reported>>
threads  == <<session, sender, processor, timer>>
vars     == <<queues, locks, timing, registry, history, threads, crashed>>

NoPacket == [worker |-> NoWorker, data |-> NoWorker, kind |-> "none"]
At(pc, packet) == [pc |-> pc, packet |-> packet]
Resting == At("idle", NoPacket)
Busy(pc, w, packet, status) ==
  [pc |-> pc, worker |-> w, packet |-> packet, status |-> status]
Idle == Busy("idle", NoWorker, NoPacket, DATA_QUEUED)

\* Reading a deleted packet either ends the program or still finds its bytes.
Touch(packets) ==
  IF packets \cap freed = {} THEN crashed' = crashed ELSE crashed' \in BOOLEAN

-----------------------------------------------------------------------------
\* Mutants: no limit on a queue, none on the window.
CanAlwaysQueue(w)  == TRUE
WindowNeverFull(w) == FALSE

CanQueue(w) == Len(senderQueue[w]) <= WORKER_QUEUE_SIZE

WindowFull(w) == Len(ackPendingQueue[w]) > WORKER_QUEUE_SIZE \div 2

\* The first packet of a queue that needs no acknowledgement, and the first of
\* the pending packets with the acknowledged id.
FirstOther(queue) ==
  LET IsOther(packet) == ~IsAckable(packet)
  IN  FirstIndex(queue, IsOther)
FirstWithId(pending, d) ==
  LET HasId(packet) == packet.data = d
  IN  FirstIndex(pending, HasId)

\* Where the threads of a running program are.
SenderAt(pc)       == ~crashed /\ sender.pc = pc
SessionAt(w, pc)   == ~crashed /\ session[w].pc = pc
ProcessorAt(p, pc) == ~crashed /\ processor[p].pc = pc
TimerAt(pc)        == ~crashed /\ timer.pc = pc

Init ==
  /\ senderQueue = [w \in Workers |-> << >>]
  /\ ackPendingQueue = [w \in Workers |-> << >>]
  /\ ackPacketPop = [w \in Workers |-> FALSE]
  /\ workerLock = [w \in Workers |-> 1]
  /\ timedPackets = << >>
  /\ timeoutListLock = 1
  /\ checkedOut = {}
  /\ dataWorker = [d \in Data |-> NoWorker]
  /\ taskStatus = [d \in Data |-> DATA_QUEUED]
  /\ created = {}
  /\ freed = {}
  /\ received = [w \in Workers |-> {}]
  /\ reported = {}
  /\ session = [w \in Workers |-> Resting]
  /\ sender = Resting
  /\ processor = [p \in Processors |-> Idle]
  /\ timer = [pc |-> "sleep", i |-> 0]
  /\ crashed = FALSE

-----------------------------------------------------------------------------
(***************************************************************************)
(* The sender core.  queuePacket compares the size before it waits for the *)
(* lock and its refusal is ignored: the packet is then lost, while the     *)
(* registry goes on to say that the data is on its way.                    *)
(***************************************************************************)
\* New packet for d and, for a template, its registry entry; then the size
\* test of queuePacket.
SenderCreate(d, w) ==
  LET packet == [worker |-> w, data |-> d, kind |-> "data"] IN
  /\ SenderAt("idle")
  /\ \A q \in created : q # packet /\ (d \in UserData => q.data # d)
  /\ created' = created \cup {packet}
  /\ dataWorker' = IF d \in Templates /\ dataWorker[d] = NoWorker
                     THEN [dataWorker EXCEPT ![d] = w] ELSE dataWorker
  /\ sender' = At(IF CanQueue(w) THEN "push" ELSE "assign", packet)
  /\ UNCHANGED <<queues, locks, timing, taskStatus, freed, received, reported,
                 session, processor, timer, crashed>>

\* The locked half of queuePacket.
SenderPush ==
  LET w == sender.packet.worker IN
  /\ SenderAt("push")
  /\ workerLock[w] > 0
  /\ senderQueue' = [senderQueue EXCEPT ![w] = Append(@, sender.packet)]
  /\ sender' = At("assign", sender.packet)
  /\ UNCHANGED <<ackPendingQueue, ackPacketPop, locks, timing, registry,
                 history, session, processor, timer, crashed>>

\* assignWorker, then the comparison of updateTaskStatus(DATA_READY).
SenderAssign ==
  LET packet == sender.packet IN
  /\ SenderAt("assign")
  /\ dataWorker' = [dataWorker EXCEPT ![packet.data] = packet.worker]
  /\ sender' = IF DATA_READY < taskStatus[packet.data]
                 THEN Resting ELSE At("write", packet)
  /\ UNCHANGED <<queues, locks, timing, taskStatus, history, session,
                 processor, timer, crashed>>

\* The assignment of updateTaskStatus, after the database was written.
SenderWrite ==
  /\ SenderAt("write")
  /\ taskStatus' = [taskStatus EXCEPT ![sender.packet.data] = DATA_READY]
  /\ sender' = Resting
  /\ UNCHANGED <<queues, locks, timing, dataWorker, history, session,
                 processor, timer, crashed>>

-----------------------------------------------------------------------------
(***************************************************************************)
(* The session of a worker: Worker::getQueuedPacket.                       *)
(***************************************************************************)
\* The semaphore after the post that ends a section entered with or without it.
Posted(w, held) == [workerLock EXCEPT ![w] = IF held THEN @ ELSE @ + 1]

\* From the test of senderQueue.size() on; held says whether the session has
\* waited for the lock (it always posts it).
SendNext(w, held) ==
  LET queue == senderQueue[w] IN
  /\ \/ /\ queue = << >>
        /\ workerLock' = Posted(w, held)
        /\ session' = [session EXCEPT ![w] = Resting]
        /\ UNCHANGED senderQueue
     \/ /\ queue # << >> /\ ~IsAckable(Head(queue))
        /\ senderQueue' = [senderQueue EXCEPT ![w] = Tail(queue)]
        /\ workerLock' = Posted(w, held)
        /\ session' = [session EXCEPT ![w] = At("copy", Head(queue))]
     \/ /\ queue # << >> /\ IsAckable(Head(queue)) /\ ~WindowFull(w)
        /\ workerLock' = IF held THEN [workerLock EXCEPT ![w] = @ - 1]
                                 ELSE workerLock
        /\ session' = [session EXCEPT ![w] = At("time", Head(queue))]
        /\ UNCHANGED senderQueue
     \/ /\ queue # << >> /\ IsAckable(Head(queue)) /\ WindowFull(w)
        /\ workerLock' = Posted(w, held)
        /\ IF \E i \in DOMAIN queue : ~IsAckable(queue[i])
             THEN \* erase(i--) has moved i to the packet before it
                  LET i == FirstOther(queue)
                  IN  /\ senderQueue' = [senderQueue EXCEPT ![w] = RemoveAt(queue, i)]
                      /\ session' = [session EXCEPT ![w] = At("copy", queue[i-1])]
             ELSE /\ session' = [session EXCEPT ![w] = Resting]
                  /\ UNCHANGED senderQueue
  /\ UNCHANGED <<ackPendingQueue, ackPacketPop, timeoutListLock, timing,
                 registry, history, sender, processor, timer, crashed>>

\* sem_wait.  A flag that is set is reset and the lock given back at once.
Poll(w) ==
  /\ SessionAt(w, "idle")
  /\ workerLock[w] > 0
  /\ IF ackPacketPop[w]
       THEN /\ ackPacketPop' = [ackPacketPop EXCEPT ![w] = FALSE]
            /\ session' = [session EXCEPT ![w] = At("resend", NoPacket)]
            /\ UNCHANGED <<senderQueue, ackPendingQueue, locks, timing, registry,
                           history, sender, processor, timer, crashed>>
       ELSE SendNext(w, TRUE)

\* ackPendingQueue.size() > 0, read without the lock.
Resend(w) ==
  /\ SessionAt(w, "resend")
  /\ session' = [session EXCEPT ![w] =
       At(IF ackPendingQueue[w] = << >> THEN "fallThrough" ELSE "front", NoPacket)]
  /\ UNCHANGED <<queues, locks, timing, registry, history, sender, processor,
                 timer, crashed>>

\* ackPendingQueue.front(), read without the lock; NULL when it was emptied.
ResendFront(w) ==
  /\ SessionAt(w, "front")
  /\ IF ackPendingQueue[w] = << >>
       THEN /\ crashed' = TRUE
            /\ UNCHANGED session
       ELSE /\ session' = [session EXCEPT ![w] = At("copy", Head(ackPendingQueue[w]))]
            /\ UNCHANGED crashed
  /\ UNCHANGED <<queues, locks, timing, registry, history, sender, processor,
                 timer>>

\* The flag was set and nothing is pending: on to the queue without the lock.
FallThrough(w) ==
  /\ SessionAt(w, "fallThrough")
  /\ SendNext(w, FALSE)

\* Mutant: the packet is not timed.
AddTimedForgets(w) ==
  /\ SessionAt(w, "time")
  /\ session' = [session EXCEPT ![w].pc = "append"]
  /\ UNCHANGED <<queues, locks, timing, registry, history, sender, processor,
                 timer, crashed>>

\* Timeout::addPacket, waiting for the timer's lock inside the worker's.
AddTimed(w) ==
  /\ SessionAt(w, "time")
  /\ timeoutListLock > 0
  /\ timedPackets' = Append(timedPackets, session[w].packet)
  /\ session' = [session EXCEPT ![w].pc = "append"]
  /\ UNCHANGED <<queues, locks, checkedOut, registry, history, sender, processor,
                 timer, crashed>>

\* Mutant: the packet is left in the sender queue.
MovePendingKeeps(w) ==
  /\ SessionAt(w, "append")
  /\ ackPendingQueue' = [ackPendingQueue EXCEPT ![w] = Append(@, session[w].packet)]
  /\ workerLock' = [workerLock EXCEPT ![w] = @ + 1]
  /\ session' = [session EXCEPT ![w].pc = "copy"]
  /\ UNCHANGED <<senderQueue, ackPacketPop, timeoutListLock, timing, registry,
                 history, sender, processor, timer, crashed>>

\* ackPendingQueue.push_back, senderQueue.pop_front and sem_post.
MovePending(w) ==
  /\ SessionAt(w, "append")
  /\ ackPendingQueue' = [ackPendingQueue EXCEPT ![w] = Append(@, session[w].packet)]
  /\ senderQueue' = [senderQueue EXCEPT ![w] = Tail(@)]
  /\ workerLock' = [workerLock EXCEPT ![w] = @ + 1]
  /\ session' = [session EXCEPT ![w].pc = "copy"]
  /\ UNCHANGED <<ackPacketPop, timeoutListLock, timing, registry, history, sender,
                 processor, timer, crashed>>

\* The packet is copied out, without the lock, and written to the worker.
Copy(w) ==
  LET packet == session[w].packet IN
  /\ SessionAt(w, "copy")
  /\ Touch({packet})
  /\ received' = [received EXCEPT ![w] = @ \cup {packet}]
  /\ session' = [session EXCEPT ![w] = Resting]
  /\ UNCHANGED <<queues, locks, timing, registry, created, freed, reported,
                 sender, processor, timer>>

-----------------------------------------------------------------------------
(***************************************************************************)
(* A packet processor: ProcessStatusPacket::packetStatusParse.  A worker   *)
(* may acknowledge what it received any number of times and at any moment; *)
(* it reports results of data it received.                                 *)
(***************************************************************************)
\* The worker has the data.
Has(w, d) == \E packet \in received[w] : packet.data = d /\ IsAckable(packet)

\* matchAckablePacket up to popPacket.  It goes through the pending packets
\* until one has the acknowledged id, reading each of them.
HandleAck(p, w, d) ==
  LET pending    == ackPendingQueue[w]
      matches    == \E i \in DOMAIN pending : pending[i].data = d
      i          == FirstWithId(pending, d)
  IN
  /\ ProcessorAt(p, "idle")
  /\ Has(w, d)
  /\ workerLock[w] > 0
  /\ IF matches
       THEN /\ Touch(ToSet(SubSeq(pending, 1, i)))
            /\ workerLock' = [workerLock EXCEPT ![w] = @ - 1]
            /\ processor' = [processor EXCEPT ![p] =
                               Busy("match", w, pending[i], DATA_QUEUED)]
       ELSE /\ Touch(ToSet(pending))
            /\ UNCHANGED <<workerLock, processor>>
  /\ UNCHANGED <<queues, timeoutListLock, timing, registry, history, session,
                 sender, timer>>

\* matchAckablePacket after popPacket: delete, erase and sem_post.
Acknowledge(p) ==
  LET w == processor[p].worker
      packet == processor[p].packet
  IN
  /\ Touch({packet})
  /\ freed' = freed \cup {packet}
  /\ ackPendingQueue' = [ackPendingQueue EXCEPT ![w] = EraseFirst(@, packet)]
  /\ workerLock' = [workerLock EXCEPT ![w] = @ + 1]
  /\ processor' = [processor EXCEPT ![p] = Idle]
  /\ UNCHANGED <<senderQueue, ackPacketPop, timeoutListLock, checkedOut, registry,
                 created, received, reported, session, sender, timer>>

\* Mutants: popPacket does not wait for the timer's lock; popPacket is not called.
MatchEndUnlocked(p) ==
  /\ ProcessorAt(p, "match")
  /\ timedPackets' = Without(timedPackets, processor[p].packet)
  /\ Acknowledge(p)
MatchEndKeepsTimed(p) ==
  /\ ProcessorAt(p, "match")
  /\ timeoutListLock > 0
  /\ UNCHANGED timedPackets
  /\ Acknowledge(p)

\* matchAckablePacket from popPacket on, waiting for the timer's lock inside the
\* worker's.
MatchEnd(p) ==
  /\ ProcessorAt(p, "match")
  /\ timeoutListLock > 0
  /\ timedPackets' = Without(timedPackets, processor[p].packet)
  /\ Acknowledge(p)

\* A result arrives: the comparison of updateTaskStatus.
HandleResult(p, w, d, status) ==
  LET ack == AckPacket(w, d, status) IN
  /\ ProcessorAt(p, "idle")
  /\ Has(w, d)
  /\ <<d, status>> \notin reported
  /\ reported' = reported \cup {<<d, status>>}
  /\ processor' = [processor EXCEPT ![p] =
       Busy(IF status < taskStatus[d] THEN "test" ELSE "write", w, ack, status)]
  /\ UNCHANGED <<queues, locks, timing, registry, created, freed, received,
                 session, sender, timer, crashed>>

\* The assignment of updateTaskStatus, after the database was written.
StatusWrite(p) ==
  LET job == processor[p] IN
  /\ ProcessorAt(p, "write")
  /\ taskStatus' = [taskStatus EXCEPT ![job.packet.data] = job.status]
  /\ processor' = [processor EXCEPT ![p].pc = "test"]
  /\ UNCHANGED <<queues, locks, timing, dataWorker, history, session, sender,
                 timer, crashed>>

\* queuePacket of the answer to a result, its size test.  Errors get none.
AnswerTest(p) ==
  LET job == processor[p] IN
  /\ ProcessorAt(p, "test")
  /\ processor' = [processor EXCEPT ![p] =
       IF job.status # DATA_ERROR /\ CanQueue(job.worker)
         THEN [job EXCEPT !.pc = "push"] ELSE Idle]
  /\ UNCHANGED <<queues, locks, timing, registry, history, session, sender,
                 timer, crashed>>

\* The locked half of queuePacket.
AnswerPush(p) ==
  LET job == processor[p] IN
  /\ ProcessorAt(p, "push")
  /\ workerLock[job.worker] > 0
  /\ senderQueue' = [senderQueue EXCEPT ![job.worker] = Append(@, job.packet)]
  /\ processor' = [processor EXCEPT ![p] = Idle]
  /\ UNCHANGED <<ackPendingQueue, ackPacketPop, locks, timing, registry, history,
                 session, sender, timer, crashed>>

-----------------------------------------------------------------------------
(***************************************************************************)
(* The timer: Timeout::execute.  It holds timeoutListLock throughout, and  *)
(* waits for worker locks inside it.  Worker::isCheckedIn is always true:  *)
(* nothing calls Worker::checkOut, so the branch that removes a silent     *)
(* worker is dead code and has no action.                                  *)
(***************************************************************************)
TimerWake ==
  /\ TimerAt("sleep")
  /\ timeoutListLock > 0
  /\ timeoutListLock' = timeoutListLock - 1
  /\ timer' = [pc |-> "visit", i |-> 1]
  /\ UNCHANGED <<queues, workerLock, timing, registry, history, session, sender,
                 processor, crashed>>

Visiting(packet) ==
  /\ TimerAt("visit")
  /\ timer.i \in DOMAIN timedPackets
  /\ packet = timedPackets[timer.i]

\* First visit since the packet was timed: final data goes to popPacket, which
\* waits for the lock the timer holds; other packets are checked out.
TimerCheckOut(packet) ==
  /\ Visiting(packet)
  /\ packet \notin checkedOut
  /\ Touch({packet})
  /\ IF taskStatus[packet.data] = DATA_FINAL
       THEN /\ timer' = [timer EXCEPT !.pc = "selfWait"]
            /\ UNCHANGED checkedOut
       ELSE /\ checkedOut' = checkedOut \cup {packet}
            /\ timer' = [timer EXCEPT !.i = @ + 1]
  /\ UNCHANGED <<queues, locks, timedPackets, registry, history, session, sender,
                 processor>>

\* Later visits: Worker::pushToFront on the worker the data is assigned to.
TimerResend(packet) ==
  LET w == dataWorker[packet.data] IN
  /\ Visiting(packet)
  /\ packet \in checkedOut
  /\ w # NoWorker
  /\ workerLock[w] > 0
  /\ Touch({packet})
  /\ ackPendingQueue' = [ackPendingQueue EXCEPT ![w] = <<packet>> \o Without(@, packet)]
  /\ ackPacketPop' = [ackPacketPop EXCEPT ![w] = TRUE]
  /\ timer' = [timer EXCEPT !.i = @ + 1]
  /\ UNCHANGED <<senderQueue, locks, timing, registry, history, session, sender,
                 processor>>

\* The worker pointer of data that is queued but not yet assigned is
\* uninitialised.
TimerStray(packet) ==
  /\ Visiting(packet)
  /\ packet \in checkedOut
  /\ dataWorker[packet.data] = NoWorker
  /\ crashed' = TRUE
  /\ UNCHANGED <<queues, locks, timing, registry, history, threads>>

TimerSleep ==
  /\ TimerAt("visit")
  /\ timer.i \notin DOMAIN timedPackets
  /\ timeoutListLock' = timeoutListLock + 1
  /\ timer' = [pc |-> "sleep", i |-> 0]
  /\ UNCHANGED <<queues, workerLock, timing, registry, history, session, sender,
                 processor, crashed>>

-----------------------------------------------------------------------------
(***************************************************************************)
(* Two threads inside the lists of one worker at once, which a semaphore   *)
(* posted twice allows, is a data race on std::list: it may end the        *)
(* program.  InLists are the threads between two steps inside, Entering    *)
(* those whose next step waits for the lock and is inside while it lasts:  *)
(* getQueuedPacket and matchAckablePacket from their start, the locked     *)
(* half of queuePacket and the timer's pushToFront.                        *)
(***************************************************************************)
InLists(w) ==
  (IF session[w].pc \in {"time", "append", "fallThrough"} THEN {w} ELSE {})
    \cup {p \in Processors : processor[p].pc = "match" /\ processor[p].worker = w}

Entering(w) ==
  {thread \in {w} : session[w].pc = "idle" /\ ~ackPacketPop[w]}
    \cup {thread \in {"sender"} : sender.pc = "push" /\ sender.packet.worker = w}
    \cup {thread \in {"timer"} :
            /\ timer.pc = "visit" /\ timer.i \in DOMAIN timedPackets
            /\ timedPackets[timer.i] \in checkedOut
            /\ dataWorker[timedPackets[timer.i].data] = w}
    \cup {p \in Processors :
            \/ processor[p].pc = "push" /\ processor[p].worker = w
            \/ processor[p].pc = "idle" /\ \E d \in Data : Has(w, d)}

\* The lock lets as many in as it was posted.
ListRace ==
  /\ ~crashed
  /\ \E w \in Workers : \E inside \in SUBSET Entering(w) :
       /\ Cardinality(inside) <= workerLock[w]
       /\ Cardinality(InLists(w) \cup inside) > 1
  /\ crashed' = TRUE
  /\ UNCHANGED <<queues, locks, timing, registry, history, threads>>

SenderStep ==
  \/ \E d \in Data, w \in Workers : SenderCreate(d, w)
  \/ SenderPush \/ SenderAssign \/ SenderWrite

SessionStep(w) ==
  \/ Poll(w) \/ Resend(w) \/ ResendFront(w) \/ FallThrough(w)
  \/ AddTimed(w) \/ MovePending(w) \/ Copy(w)

ProcessorStep(p) ==
  \/ \E w \in Workers, d \in Data : HandleAck(p, w, d)
  \/ \E w \in Workers, d \in UserData, r \in Results : HandleResult(p, w, d, r)
  \/ MatchEnd(p) \/ StatusWrite(p) \/ AnswerTest(p) \/ AnswerPush(p)

TimerStep ==
  \/ TimerWake \/ TimerSleep
  \/ \E packet \in Packet :
       TimerCheckOut(packet) \/ TimerResend(packet) \/ TimerStray(packet)

Next ==
  \/ SenderStep
  \/ \E w \in Workers : SessionStep(w)
  \/ \E p \in Processors : ProcessorStep(p)
  \/ TimerStep
  \/ ListRace

Spec == Init /\ [][Next]_vars

-----------------------------------------------------------------------------
SessionPc   == {"idle", "resend", "front", "fallThrough", "time", "append", "copy"}
SenderPc    == {"idle", "push", "assign", "write"}
ProcessorPc == {"idle", "match", "write", "test", "push"}

\* Type invariant.  Beyond the shapes: the timer is never past the end of its
\* list by more than one, since nobody shortens the list under it, and its lock
\* is free exactly when it sleeps.
TypeOK ==
  /\ senderQueue \in [Workers -> Seq(Packet)]
  /\ ackPendingQueue \in [Workers -> Seq(Packet)]
  /\ ackPacketPop \in [Workers -> BOOLEAN]
  /\ workerLock \in [Workers -> Nat]
  /\ timedPackets \in Seq(Packet)
  /\ timeoutListLock = IF timer.pc = "sleep" THEN 1 ELSE 0
  /\ checkedOut \subseteq Packet
  /\ dataWorker \in [Data -> Workers \cup {NoWorker}]
  /\ taskStatus \in [Data -> Status]
  /\ created \subseteq Packet
  /\ freed \subseteq Packet
  /\ received \in [Workers -> SUBSET Packet]
  /\ reported \subseteq UserData \X Results
  /\ session \in [Workers -> [pc : SessionPc, packet : Packet \cup {NoPacket}]]
  /\ \A w \in Workers :
       session[w].pc \in {"time", "append", "copy"} => session[w].packet \in Packet
  /\ sender \in [pc : SenderPc, packet : Packet \cup {NoPacket}]
  /\ sender.pc # "idle" => sender.packet \in Packet
  /\ processor \in [Processors -> [pc : ProcessorPc, worker : Workers \cup {NoWorker},
                                   packet : Packet \cup {NoPacket}, status : Status]]
  /\ \A p \in Processors : processor[p].pc # "idle" =>
       processor[p].packet \in Packet /\ processor[p].worker \in Workers
  /\ timer \in [pc : {"sleep", "visit", "selfWait"}, i : Nat]
  /\ timer.pc = "visit" => timer.i \in 1..Len(timedPackets) + 1
  /\ crashed \in BOOLEAN

\* queuePacket lets a queue of WORKER_QUEUE_SIZE packets grow by one, and tests
\* without the lock: every thread that queues may add one more.
QueueBound ==
  \A w \in Workers :
    Len(senderQueue[w]) <= WORKER_QUEUE_SIZE + 1 + Cardinality(Processors)

\* The timer's list never holds a packet that has been deleted: a packet leaves
\* the list before it is deleted, under the lock the timer needs to see it.
TimerListAlive == ToSet(timedPackets) \cap freed = {}

\* What has been timed at some moment: the list of the timer and what left it.
Past == ToSet(timedPackets) \cup freed

\* A packet that needs an acknowledgement waits in the queue of its own worker,
\* at one position only, and has not been timed - unless it is the head, which
\* the session has timed and not yet moved (late).
Waits(q, w, past, made, late) ==
  \A i \in DOMAIN q : IsAckable(q[i]) =>
    /\ q[i].worker = w
    /\ q[i] \in made
    /\ q[i] \in past => late /\ i = 1
    /\ \A j \in DOMAIN q : q[j] = q[i] => j = i

QueuedWait ==
  \A w \in Workers : Waits(senderQueue[w], w, Past, created, session[w].pc = "append")

\* What is pending, or in the hand of a session that appends it, was timed.
PendingTimed ==
  \A w \in Workers :
    /\ ToSet(ackPendingQueue[w]) \subseteq Past
    /\ session[w].pc = "append" => session[w].packet \in Past
    /\ session[w].pc \in {"time", "append"} => IsAckable(session[w].packet)

\* What a processor acknowledges was timed; what it queues needs no answer.
ProcessorTimed ==
  \A p \in Processors :
    /\ processor[p].pc = "match" => processor[p].packet \in Past
    /\ processor[p].pc \in {"write", "test", "push"} => ~IsAckable(processor[p].packet)

\* What the sender core is about to queue is nowhere else yet.
SenderNew ==
  /\ Past \subseteq created
  /\ sender.pc = "push" =>
       /\ IsAckable(sender.packet)
       /\ sender.packet \in created
       /\ sender.packet \notin Past
       /\ sender.packet \notin ToSet(senderQueue[sender.packet.worker])

\* The life of a packet that needs an acknowledgement, in order and whatever the
\* locks: nowhere, waiting once in the queue of its worker, timed, pending,
\* deleted.
Lifecycle == QueuedWait /\ PendingTimed /\ ProcessorTimed /\ SenderNew

\* The lock of w still excludes: its semaphore and its holders make one.
Intact(w) == workerLock[w] + Cardinality(InLists(w)) = 1

Count(s, e) == Cardinality({i \in DOMAIN s : s[i] = e})

\* While the lock of its worker excludes, a user-data packet is in one place
\* only - queued once, or pending once, or deleted - and it is timed once while
\* it is pending or on its way there, and never otherwise.
Custody ==
  \A p \in created :
    p.data \in UserData /\ Intact(p.worker) =>
      LET queued  == Count(senderQueue[p.worker], p)
          pending == Count(ackPendingQueue[p.worker], p)
          moving  == IF session[p.worker] = At("append", p) THEN 1 ELSE 0
      IN  /\ queued + pending + Cardinality({p} \cap freed) <= 1
          /\ Count(timedPackets, p) = pending + moving

\* What became of each ackable packet, as the ledger sees it.  A packet that is
\* still queued, and was never timed, can only have reached a worker by erase(i--).
AckablePacket == {p \in Packet : IsAckable(p)}
SentEarly(p) == \E w \in Workers : p \in received[w]
StateOf(p) ==
  IF p \in freed THEN "acked"
  ELSE IF p \in ToSet(timedPackets) THEN "unacked"
  ELSE IF p \in ToSet(senderQueue[p.worker])
    THEN IF SentEarly(p) THEN "early" ELSE "queued"
  ELSE IF p \notin created \/ sender = At("push", p) THEN "new"
  ELSE "refused"

\* Every interleaving of sessions, processors, timer and sender core keeps the
\* ledger, broken locks and resends included: no packet that was queued disappears
\* before it is acknowledged, no acknowledgement counts for one that was not timed,
\* and no more packets of a worker are timed than the window allows.  The packet
\* that worker.cpp:114 sends in the place of another one goes out beyond the window,
\* against the comment at :107; it stays queued, and is sent again in its turn.
PacketLedger ==
  INSTANCE Ledger WITH
    Entry  <- AckablePacket,
    Holder <- [p \in AckablePacket |-> p.worker],
    Window <- WORKER_QUEUE_SIZE \div 2 + 1,
    state  <- [p \in AckablePacket |-> StateOf(p)]
KeepsLedger == PacketLedger!Spec

-----------------------------------------------------------------------------
(***************************************************************************)
(* What the repository says and the code does not keep.                    *)
(***************************************************************************)
\* README.md:3 "The server is core and needs to be always running": the timer,
\* which holds its list and waits for a worker, is never waited for by the
\* thread that holds that worker.
NoLockCycle ==
  \A w \in Workers :
    ~ /\ timer.pc = "visit" /\ timer.i \in DOMAIN timedPackets
      /\ timedPackets[timer.i] \in checkedOut
      /\ dataWorker[timedPackets[timer.i].data] = w /\ workerLock[w] = 0
      /\ \/ session[w].pc = "time"
         \/ \E p \in Processors : processor[p].pc = "match" /\ processor[p].worker = w
=============================================================================
