------------------------------ MODULE Dispatch ------------------------------
(***************************************************************************)
(* User tables from the extractor to the worker that computes them:        *)
(*                                                                         *)
(*   data_extractor/data_extractor.cpp   makes and pushes a table          *)
(*   sink/sink_stack.cpp                 the sender sink, by module Sink   *)
(*   sender_unit/sender_core.cpp         chooses a worker and queues       *)
(*   packet_processor/outgoing_data_registry.cpp  the entries of tables    *)
(*   packet_processor/process_status_packet.cpp   the workers' statistics  *)
(*                                                                         *)
(* Threads: the monitor that extracts, the sender core, a packet processor *)
(* per worker, and the sessions, timer and template side as far as they    *)
(* act on a queue, on packets without an entry and on readiness.  Tables   *)
(* are numbered in the order they are pushed, as Sink numbers its objects. *)
(***************************************************************************)
EXTENDS Integers, Sequences, FiniteSets

CONSTANTS
  WorkerList,         \* WorkerRegistry::currentWorkerList, front first
  NoWorker,           \* an uninitialised worker pointer
  Reports,            \* per worker: the statistics it may report
  MaxReports,         \* bound: so many reports
  StarveBytes, Priorities, MAX_POOL_SIZE, MaxObjects,  \* see Sink
  WORKER_QUEUE_SIZE   \* configs.h: 20

Workers == {WorkerList[i] : i \in DOMAIN WorkerList}
Tables  == 1..MaxObjects

\* WorkerStats: threads, tasks by priority and time per task.  Workers report
\* at least one thread and a number for every priority.
Stats   == [threads : Nat, tasks : [0..3 -> Nat], avg : Nat]
NoStats == [threads |-> 0, tasks |-> << >>, avg |-> 0]

ASSUME DispatchAssumption ==
  /\ WorkerList \in Seq(Workers)
  /\ \A i, j \in DOMAIN WorkerList : WorkerList[i] = WorkerList[j] => i = j
  /\ NoWorker \notin Workers
  /\ \A w \in Workers : \A s \in Reports[w] : s \in Stats /\ s.threads > 0
  /\ MaxReports \in Nat /\ WORKER_QUEUE_SIZE \in Nat
  /\ StarveBytes \subseteq 0..255 /\ StarveBytes # {}
  /\ Priorities \subseteq 0..3
  /\ MAX_POOL_SIZE \in Nat \ {0} /\ MaxObjects \in Nat

VARIABLES
  sinkItemList, pushing, popping, popped, calls, popCrash,  \* see Sink
  extractor,    \* the monitor's place in executeUserTableExtractor
  entries,      \* tables in outDataRegistryList
  dataWorker,   \* OutgoingDataState::worker
  taskStatus,   \* OutgoingDataState::taskStatus
  workerReady,  \* the workers whose flag is set
  workerStats,  \* per worker
  reporting,    \* per worker: the statistics being assigned, or none
  reports,      \* bound: reports so far
  senderQueue,  \* per worker: packets of tables
  unacked,      \* per worker: packets sent and not acknowledged
  acked,        \* history: acknowledged tables
  handed,       \* history, per table: the worker it was handed to
  core,         \* the sender core thread
  crashed       \* undefined behaviour has ended the program

sink     == <<sinkItemList, pushing, popping, popped, calls, popCrash>>
registry == <<entries, dataWorker, taskStatus>>
stats    == <<workerStats, reporting, reports>>
worker   == <<senderQueue, unacked, acked, handed>>
vars     == <<sink, extractor, registry, workerReady, stats, worker, core, crashed>>

\* The sender sink: one thread pushes, one pops.
S == INSTANCE Sink WITH
       Pushers <- {"monitor"}, Poppers <- {"sender"}, crashed <- popCrash

\* UserTaskStatus, task.hpp.
DATA_QUEUED == 0
DATA_READY  == 1

\* An OutPacket: its table, and whether getRegistryFromId found the entry.
Packet == [table : Tables, entry : BOOLEAN]
\* What the sender core made of a worker: its points num/den and queue size.
Score   == [worker : Workers, num : Nat, den : Nat \ {0}, size : Int]
NoScore == [worker |-> NoWorker, num |-> 0, den |-> 1, size |-> 0]

\* new: the worker in hand; shrank: the queue of the kept worker did, see KeepWorker.
Idle == [pc |-> "idle", priority |-> 0, i |-> 0, new |-> NoScore, best |-> NoScore,
         scores |-> {}, shrank |-> FALSE, packet |-> [table |-> 0, entry |-> FALSE]]

Init ==
  /\ S!Init
  /\ extractor = "idle"
  /\ entries = {}
  /\ dataWorker = [t \in Tables |-> NoWorker]
  /\ taskStatus = [t \in Tables |-> DATA_QUEUED]
  /\ workerReady = {}
  /\ workerStats = [w \in Workers |-> NoStats]
  /\ reporting = [w \in Workers |-> NoStats]
  /\ reports = 0
  /\ senderQueue = [w \in Workers |-> << >>]
  /\ unacked = [w \in Workers |-> {}]
  /\ acked = {}
  /\ handed = [t \in Tables |-> NoWorker]
  /\ core = Idle
  /\ crashed = FALSE

-----------------------------------------------------------------------------
(***************************************************************************)
(* The extractor.                                                          *)
(***************************************************************************)
\* pushObject up to its lock.  Its refusal is not looked at.
ExtractTable ==
  /\ ~crashed
  /\ extractor = "idle"
  /\ \E p \in Priorities : S!PushTest("monitor", p)
  /\ extractor' = "push"
  /\ UNCHANGED <<registry, workerReady, stats, worker, core, crashed>>

PushTable ==
  /\ ~crashed
  /\ extractor = "push"
  /\ IF pushing["monitor"] = S!Idle
       THEN UNCHANGED sink
       ELSE S!PushInsert("monitor")
  /\ extractor' = "add"
  /\ UNCHANGED <<registry, workerReady, stats, worker, core, crashed>>

\* OutgoingDataRegistry::add: resultStatus, which tells that the entry exists,
\* is not initialised, so a new entry may be left out.
AddEntry ==
  /\ ~crashed
  /\ extractor = "add"
  /\ \E found \in BOOLEAN : entries' = IF found THEN entries ELSE entries \cup {calls}
  /\ extractor' = "idle"
  /\ UNCHANGED <<sink, dataWorker, taskStatus, workerReady, stats, worker, core,
                 crashed>>

-----------------------------------------------------------------------------
(***************************************************************************)
(* The sender core: pushUserDataToWorkerQueue.                             *)
(***************************************************************************)
CoreAt(pc) == ~crashed /\ core.pc = pc

IsSinkEmpty        == sinkItemList = << >>
GetTopTaskPriority == Head(sinkItemList).priority

\* The sink is seen, and its top priority read, without its lock.
LookAtSink ==
  /\ CoreAt("idle")
  /\ ~IsSinkEmpty
  /\ core' = [Idle EXCEPT !.pc = "scan", !.priority = GetTopTaskPriority, !.i = 1]
  /\ UNCHANGED <<sink, extractor, registry, workerReady, stats, worker, crashed>>

\* WORKER_QUEUE_SIZE * (1/2) is 0: the size is minus what waits, not what is free.
GetQueueSize(w) == 0 - (Len(senderQueue[w]) + Cardinality(unacked[w]))

\* Tasks the worker has at this priority and before it in the numbering.
TasksUpTo(tasks, priority) ==
  LET upTo[p \in 0..3] == tasks[p] + IF p = 0 THEN 0 ELSE upTo[p - 1]
  IN  upTo[priority]

\* avgTime / totalThreads, kept as a fraction; the size of the queue is read later.
ScoreOf(w, s, priority) ==
  [worker |-> w, num |-> s.avg * TasksUpTo(s.tasks, priority), den |-> s.threads,
   size |-> 0]
AtMost(a, b) == a.num * b.den <= b.num * a.den
Equal(a, b)  == AtMost(a, b) /\ AtMost(b, a)

\* While the statistics are assigned, member by member, a reader finds a part of
\* both.
Readable(w) ==
  LET old == workerStats[w]
      new == reporting[w]
  IN  IF new = NoStats THEN {old}
      ELSE {old, [old EXCEPT !.threads = new.threads], [new EXCEPT !.avg = old.avg], new}

\* Mutant: readiness is not asked.
IsCandidateAlways(w, s) == s.tasks # << >>

\* A worker that is not ready, or never reported, is left out.
IsCandidate(w, s) == w \in workerReady /\ s.tasks # << >>

NextWorker      == [core EXCEPT !.pc = "scan", !.i = @ + 1, !.new = NoScore]
PassOver(score) == [NextWorker EXCEPT !.scores = @ \cup {score}]

\* The first worker is kept, one with more points is not, and one with as many
\* depends on the queues.
Weigh(new) ==
  IF core.best = NoScore THEN [core EXCEPT !.pc = "keep", !.new = new]
  ELSE IF ~AtMost(new, core.best) THEN PassOver(new)
  ELSE [core EXCEPT !.pc = IF Equal(new, core.best) THEN "compare" ELSE "keep",
                    !.new = new]

\* Mutant: the loop does not go past a worker that is left out.
ConsiderWorkerStays ==
  LET w == WorkerList[core.i] IN
  /\ CoreAt("scan")
  /\ core.i \in DOMAIN WorkerList
  /\ core' = IF IsCandidate(w, workerStats[w])
               THEN Weigh(ScoreOf(w, workerStats[w], core.priority))
               ELSE core
  /\ UNCHANGED <<sink, extractor, registry, workerReady, stats, worker, crashed>>

\* findIdealWorker takes the next worker: its readiness, which nobody takes back
\* before the search is over, and its statistics.  Copying a vector that is being
\* assigned may end the program.
ConsiderWorker ==
  LET w == WorkerList[core.i] IN
  /\ CoreAt("scan")
  /\ core.i \in DOMAIN WorkerList
  /\ \E s \in Readable(w) :
       core' = IF IsCandidate(w, s) THEN Weigh(ScoreOf(w, s, core.priority))
                                    ELSE NextWorker
  /\ crashed' \in IF w \in workerReady /\ reporting[w] # NoStats THEN BOOLEAN ELSE {FALSE}
  /\ UNCHANGED <<sink, extractor, registry, workerReady, stats, worker>>

SizedNew == [core.new EXCEPT !.size = GetQueueSize(core.new.worker)]

\* Mutant: what the comments say, the emptiest queue.
CompareSizesInverted ==
  /\ CoreAt("compare")
  /\ core' = IF SizedNew.size < core.best.size
               THEN PassOver(SizedNew)
               ELSE [core EXCEPT !.pc = "keep", !.new = SizedNew]
  /\ UNCHANGED <<sink, extractor, registry, workerReady, stats, worker, crashed>>

\* Of equally quick workers one with more space, as it is counted, is passed over.
CompareSizes ==
  /\ CoreAt("compare")
  /\ core' = IF SizedNew.size > core.best.size
               THEN PassOver(SizedNew)
               ELSE [core EXCEPT !.pc = "keep", !.new = SizedNew]
  /\ UNCHANGED <<sink, extractor, registry, workerReady, stats, worker, crashed>>

\* The worker is kept with the size its queue has now, which is not the size that
\* was compared when a packet was acknowledged in between.
KeepWorker ==
  LET tie == core.best # NoScore /\ Equal(core.new, core.best) IN
  /\ CoreAt("keep")
  /\ core' = [PassOver(SizedNew) EXCEPT
                !.best   = SizedNew,
                !.shrank = tie /\ (@ \/ SizedNew.size > core.new.size)]
  /\ UNCHANGED <<sink, extractor, registry, workerReady, stats, worker, crashed>>

NobodyFound ==
  /\ CoreAt("scan")
  /\ core.i \notin DOMAIN WorkerList
  /\ core.best = NoScore
  /\ core' = Idle
  /\ UNCHANGED <<sink, extractor, registry, workerReady, stats, worker, crashed>>

\* Mutant: the sink is popped although no worker was found.
PopTestAnyway ==
  /\ CoreAt("scan")
  /\ core.i \notin DOMAIN WorkerList
  /\ S!PopTest("sender")
  /\ core' = [core EXCEPT !.pc = "take"]
  /\ UNCHANGED <<extractor, registry, workerReady, stats, worker, crashed>>

\* popObject, its test and its locked section.
PopTest ==
  /\ CoreAt("scan")
  /\ core.i \notin DOMAIN WorkerList
  /\ core.best # NoScore
  /\ S!PopTest("sender")
  /\ core' = [core EXCEPT !.pc = "take"]
  /\ UNCHANGED <<extractor, registry, workerReady, stats, worker, crashed>>

PopTable ==
  /\ CoreAt("take")
  /\ S!PopTake("sender")
  /\ core' = [core EXCEPT !.pc = "build", !.packet.table = Head(sinkItemList).object]
  /\ UNCHANGED <<extractor, registry, workerReady, stats, worker, crashed>>

\* toJson, which dereferences the NULL that stands for a missing file, and the
\* entry of the registry, which may be NULL too.
BuildPacket ==
  /\ CoreAt("build")
  /\ crashed' \in BOOLEAN
  /\ core' = [core EXCEPT !.pc = "test", !.packet.entry = core.packet.table \in entries]
  /\ UNCHANGED <<sink, extractor, registry, workerReady, stats, worker>>

CanQueue(w) == Len(senderQueue[w]) <= WORKER_QUEUE_SIZE

HandTo(w) == handed' = [handed EXCEPT ![core.packet.table] = w]

\* queuePacket: its unlocked test.  The table of a refused packet is lost, and
\* goes on to be assigned.
QueueTest ==
  LET w == core.best.worker IN
  /\ CoreAt("test")
  /\ IF CanQueue(w)
       THEN core' = [core EXCEPT !.pc = "queue"] /\ UNCHANGED handed
       ELSE core' = [core EXCEPT !.pc = "assign"] /\ HandTo(w)
  /\ UNCHANGED <<sink, extractor, registry, workerReady, stats, senderQueue, unacked,
                 acked, crashed>>

QueuePacket ==
  LET w == core.best.worker IN
  /\ CoreAt("queue")
  /\ senderQueue' = [senderQueue EXCEPT ![w] = Append(@, core.packet)]
  /\ HandTo(w)
  /\ core' = [core EXCEPT !.pc = "assign"]
  /\ UNCHANGED <<sink, extractor, registry, workerReady, stats, unacked, acked, crashed>>

\* Mutant: the first worker of the list is assigned.
AssignFirstWorker ==
  LET t == core.packet.table IN
  /\ CoreAt("assign")
  /\ dataWorker' = IF t \in entries THEN [dataWorker EXCEPT ![t] = WorkerList[1]]
                   ELSE dataWorker
  /\ core' = [core EXCEPT !.pc = "status"]
  /\ UNCHANGED <<sink, extractor, entries, taskStatus, workerReady, stats, worker,
                 crashed>>

AssignWorker ==
  LET t == core.packet.table IN
  /\ CoreAt("assign")
  /\ dataWorker' = IF t \in entries THEN [dataWorker EXCEPT ![t] = core.best.worker]
                   ELSE dataWorker
  /\ core' = [core EXCEPT !.pc = "status"]
  /\ UNCHANGED <<sink, extractor, entries, taskStatus, workerReady, stats, worker,
                 crashed>>

UpdateTaskStatus ==
  LET t == core.packet.table IN
  /\ CoreAt("status")
  /\ taskStatus' = IF t \in entries THEN [taskStatus EXCEPT ![t] = DATA_READY]
                   ELSE taskStatus
  /\ core' = Idle
  /\ UNCHANGED <<sink, extractor, entries, dataWorker, workerReady, stats, worker,
                 crashed>>

-----------------------------------------------------------------------------
(***************************************************************************)
(* The other threads, as far as they meet these.                           *)
(***************************************************************************)
\* The session takes the front of the queue to the worker.
Deliver(w) ==
  /\ ~crashed
  /\ senderQueue[w] # << >>
  /\ unacked' = [unacked EXCEPT ![w] = @ \cup {Head(senderQueue[w])}]
  /\ senderQueue' = [senderQueue EXCEPT ![w] = Tail(@)]
  /\ UNCHANGED <<sink, extractor, registry, workerReady, stats, acked, handed, core,
                 crashed>>

Acknowledge(w, packet) ==
  /\ ~crashed
  /\ packet \in unacked[w] /\ packet.entry
  /\ unacked' = [unacked EXCEPT ![w] = @ \ {packet}]
  /\ acked' = acked \cup {packet.table}
  /\ UNCHANGED <<sink, extractor, registry, workerReady, stats, senderQueue, handed,
                 core, crashed>>

\* The timer, and the search for an acknowledged packet, dereference the entry.
ReadNullEntry(w) ==
  /\ ~crashed
  /\ \E packet \in unacked[w] : ~packet.entry
  /\ crashed' = TRUE
  /\ UNCHANGED <<sink, extractor, registry, workerReady, stats, worker, core>>

\* setWorkerStats, begun and done; the last template acknowledged.
BeginReport(w, s) ==
  /\ ~crashed
  /\ reports < MaxReports
  /\ reporting[w] = NoStats
  /\ reporting' = [reporting EXCEPT ![w] = s]
  /\ reports' = reports + 1
  /\ UNCHANGED <<sink, extractor, registry, workerReady, workerStats, worker, core,
                 crashed>>

SetWorkerStats(w) ==
  /\ ~crashed
  /\ reporting[w] # NoStats
  /\ workerStats' = [workerStats EXCEPT ![w] = reporting[w]]
  /\ reporting' = [reporting EXCEPT ![w] = NoStats]
  /\ UNCHANGED <<sink, extractor, registry, workerReady, reports, worker, core, crashed>>

SetReady(w) ==
  /\ ~crashed
  /\ workerReady' = workerReady \cup {w}
  /\ UNCHANGED <<sink, extractor, registry, stats, worker, core, crashed>>

\* The sender core itself sends templates, when it is not sending a table.
ResetReady(w) ==
  /\ CoreAt("idle")
  /\ workerReady' = workerReady \ {w}
  /\ UNCHANGED <<sink, extractor, registry, stats, worker, core, crashed>>

FindIdealWorker == ConsiderWorker \/ CompareSizes \/ KeepWorker

CoreStep ==
  \/ LookAtSink \/ FindIdealWorker \/ NobodyFound \/ PopTest \/ PopTable
  \/ BuildPacket \/ QueueTest \/ QueuePacket \/ AssignWorker \/ UpdateTaskStatus

ExtractorStep == ExtractTable \/ PushTable \/ AddEntry

WorkerStep(w) ==
  \/ Deliver(w) \/ ReadNullEntry(w)
  \/ \E packet \in Packet : Acknowledge(w, packet)
  \/ \E s \in Reports[w] : BeginReport(w, s)
  \/ SetWorkerStats(w) \/ SetReady(w) \/ ResetReady(w)

Next == ExtractorStep \/ CoreStep \/ \E w \in Workers : WorkerStep(w)

\* The sender core's job is never done, so its thread keeps running it.
Spec == Init /\ [][Next]_vars /\ WF_vars(CoreStep)

-----------------------------------------------------------------------------
CorePc == {"idle", "scan", "compare", "keep", "take", "build", "test", "queue", "assign",
           "status"}
Searching == {"idle", "scan", "compare", "keep"}

\* Type invariant.  The sender core has chosen a worker it considered whenever it
\* goes beyond the search, and holds a table whenever it has popped one.
TypeOK ==
  /\ S!TypeOK
  /\ extractor \in {"idle", "push", "add"}
  /\ entries \subseteq Tables
  /\ dataWorker \in [Tables -> Workers \cup {NoWorker}]
  /\ taskStatus \in [Tables -> {DATA_QUEUED, DATA_READY}]
  /\ workerReady \subseteq Workers
  /\ \A w \in Workers : workerStats[w] \in Stats \cup {NoStats}
  /\ \A w \in Workers : reporting[w] \in Stats \cup {NoStats}
  /\ reports \in 0..MaxReports
  /\ senderQueue \in [Workers -> Seq(Packet)]
  /\ unacked \in [Workers -> SUBSET Packet]
  /\ acked \subseteq Tables
  /\ handed \in [Tables -> Workers \cup {NoWorker}]
  /\ core.pc \in CorePc
  /\ core.i \in 0..Len(WorkerList) + 1
  /\ core.scores \subseteq Score
  /\ core.best \in core.scores \cup {NoScore}
  /\ core.new \in Score \cup {NoScore} /\ core.shrank \in BOOLEAN
  /\ core.pc \in {"compare", "keep"} => core.new \in Score
  /\ core.pc \notin Searching => core.best # NoScore
  /\ core.pc \in {"build", "test", "queue", "assign", "status"} => core.packet \in Packet
  /\ crashed \in BOOLEAN

\* sender_core.cpp:121: findIdealWorker compares as it goes, while queues and
\* statistics change.  Of the workers it saw, the one a table is handed to has the
\* least points; and among equals it has the most packets waiting, since the sizes
\* that were meant to be free space are negative - unless its queue shrank between
\* the size that was compared (:125) and the one that was kept (:128).
QuickestThenFullest ==
  core.pc \notin Searching =>
    \A s \in core.scores :
      /\ AtMost(core.best, s)
      /\ Equal(core.best, s) /\ ~core.shrank => core.best.size <= s.size

\* A packet that was built with its entry is, once the sender core is done with
\* it, assigned to the very worker that has it: the timer resends it there.
EntryKnowsWorker ==
  \A w \in Workers, t \in Tables :
    LET packet == [table |-> t, entry |-> TRUE]
    IN  /\ packet \in unacked[w] \/ \E i \in DOMAIN senderQueue[w] : senderQueue[w][i] = packet
        /\ ~(core.pc = "assign" /\ core.packet = packet)
        => dataWorker[t] = w

\* Where a table is, as TableLife sees it.
InSink(t) == \E i \in DOMAIN sinkItemList : sinkItemList[i].object = t
StateOf(t) ==
  IF t \in acked THEN "acked"
  ELSE IF \E w \in Workers : \E packet \in unacked[w] : packet.table = t THEN "sent"
  ELSE IF \E w \in Workers : \E i \in DOMAIN senderQueue[w] : senderQueue[w][i].table = t
    THEN "queued"
  ELSE IF handed[t] # NoWorker THEN "dropped"
  ELSE IF \E i \in DOMAIN popped : popped[i].object = t THEN "taken"
  ELSE IF pushing["monitor"].object = t \/ InSink(t) THEN "waiting"
  ELSE IF t <= calls THEN "refused"
  ELSE "new"

\* However the threads interleave, every table goes its way in order, once, and
\* to a worker that is ready when it is handed over.
Life == INSTANCE TableLife WITH
          state  <- [t \in Tables |-> StateOf(t)],
          holder <- handed,
          ready  <- workerReady
TablesLive == Life!Spec

\* The sender core pops a table at every run that finds a worker: while one stays
\* ready and has reported, no table stays in the sink, whatever its priority.
\* (Worker locks are not modelled here: that they may be held for ever is the
\* finding of WorkerNode!NoLockCycle.)
Usable(w) == w \in workerReady /\ workerStats[w] # NoStats
TablesLeaveSink ==
  (\E w \in Workers : <>[]Usable(w)) =>
    \A t \in Tables : InSink(t) ~> (~InSink(t) \/ crashed)
=============================================================================
