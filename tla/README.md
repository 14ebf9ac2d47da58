# Verification of the Server Unit

TLA+ models of the server of the miniature distributed system, the TLC runs that
check them on small instances, and proofs, checked by TLAPS, of what holds for every
value of the constants. Everything is translated from the C++ sources; paths below
are relative to the root of the repository.

## 1. The system

The server hands user data to worker nodes and collects their results. It is one
process of many threads:

| thread | code | what it does |
|---|---|---|
| main | `main.cpp` | creates everything, then runs the web socket |
| sessions | `socket/socket.cpp` | one message of a worker in, one packet of its queue out |
| user-table monitor | `services/monitor_user_table.cpp` | polls the database, extracts new tables into the sender sink |
| template monitor | `services/monitor_instance_table.cpp` | polls the database, updates the template registry |
| timeout timer | `services/timeout_timer.cpp`, `sched/timeout.cpp` | every 5 s, has unacknowledged packets sent again |
| scheduler | `sched/task_scheduler.cpp` | moves tasks from the pool to the slots of the task threads |
| task threads | `sched/task_scheduler.cpp` | run the sender core (for ever) and packet processors (until the receiver sink is empty) |

### Components, state, operations

| component | state | operations | shared by |
|---|---|---|---|
| Sink (`sink/`) | a list of items, `sinkLock` | `pushObject`, `popObject`, size queries | monitor -> sender core; sessions -> packet processors |
| Task pool and scheduler (`sched/task_*`) | pool list; per thread 4 slots, their `qSlotDone` and a counter | `addTask`, `popTask`, `sched_task`, `thread_task` | sessions, scheduler, task threads |
| Worker node (`worker_node/worker.cpp`) | `senderQueue`, `ackPendingQueue`, `ackPacketPop`, `workerLock`, `workerReady` | `queuePacket`, `getQueuedPacket`, `matchAckablePacket`, `pushToFront` | sender core, sessions, packet processors, timer |
| Timeout (`sched/timeout.cpp`) | `timedPackets`, `timeoutListLock` | `addPacket`, `popPacket`, `execute` | sessions, packet processors, timer |
| Outgoing data registry (`packet_processor/outgoing_data_registry.cpp`) | per table: worker, status | `add`, `assignWorker`, `updateTaskStatus`, `delete` | monitor, sender core, packet processors, timer |
| Packet processor (`packet_processor/`) | - | `start_validator`, `packetStatusParse`, `ProcessDataPacket::execute` | task threads |
| Sender core (`sender_unit/sender_core.cpp`) | `newWorkerList` | `startSenderCore`, `findIdealWorker` | sender core, sessions |
| Template registry and tracking list (`sender_unit/`) | templates, their packets and ids, `dataUpdated`; per worker what it has yet to acknowledge | `update`, `toJson`, `isMatchingFound`, `addWorker`, `updateWorker` | template monitor, sender core, packet processors |
| Worker registry (`worker_node/worker_registry.cpp`) | list of workers, without a lock | `generateWorkerUid`, `getWorkerFromUid` | sessions, sender core, packet processors |
| Sessions (`socket/`) | the client's uid is in its packets; a worker object per poll | `on_accept`, `on_read`, `on_write` | threads of the io_context |
| Monitors (`services/monitor_*.cpp`) | last time stamp, saved time stamp | poll | each alone with its table of the database |
| Data extractor (`data_extractor/`) | - | `executeUserTableExtractor`, `executeInstanceExtractor` | monitors |
| SQL access (`services/sql_access.cpp`) | connection, `inited` | queries, `sqlWriteString` | monitors; packet processors and sender core |

A table's way: monitor -> extractor -> sender sink (and registry) -> sender core ->
queue of a worker -> session -> worker; the timer repeats it until acknowledged. An
answer's way: session -> receiver sink -> packet processor (a task the session adds) ->
worker node, registry, tracking list, database. A template goes from its monitor to
the template registry, and from there by the sender core to the queues of workers; a
worker gets user data once it has acknowledged the templates.

### What is hard

Almost every operation tests something before it takes the lock, or gives the lock
back before it is done; most containers have no lock at all; two pairs of locks are
taken in both orders; signals are sent without the mutex. Packets are sent again by a
timer that races their acknowledgement. `PROJECT.json` lists 40 hazards at their
lines, each with the properties that watch it or the reason there is none.

### What makes each component correct

- Sink: an object pushed is popped once and not lost, in order of priority, first in first out
  within one; the size stays bounded; nobody pops from an empty sink.
- Scheduler: a task added is run; a packet in the receiver sink has a task that will
  come for it; the counters tell the truth or at least do no harm.
- Worker node and timer: a packet queued is kept until the worker acknowledged it, is
  never in two places, is never used after it was deleted, and the window holds.
- Registry: the status of a table only goes forward, its worker is the one it was sent to.
- Templates: every registered worker gets every template; a worker becomes ready once it
  has acknowledged them, and not before; no worker is left out for ever.
- Dispatch: a table goes its way in order and once; the worker is the one `findIdealWorker`
  means; no table waits while a worker can take it; the registry names the worker that has it.
- Results: stored before reported or acknowledged; intermediate and final ones never mixed;
  file, row and status of a table agree.
- Monitors: every row is found, and not over and over again.
- Sessions and worker registry: uids are unique, generating one ends, a worker's packets go to
  its own client, and a handler that can be answered is.

## 2. Modules

| module | models | extends |
|---|---|---|
| `Fifo` | what a queue between two stages promises | |
| `Ledger` | what the server owes a worker for each packet | |
| `TableLife` | what the way of a user table promises | |
| `StdList` | erase, find, `std::remove` and loops with a result on sequences | |
| `Sink` | `sink/sink_stack.cpp` | `StdList`; refines `Fifo` |
| `WorkerNode` | `worker_node/worker.cpp`, `sched/timeout.cpp`, and what the sender core, packet processors and registry do to them | `StdList`; refines `Ledger` |
| `TaskScheduler` | `sched/task_pool.cpp`, `sched/task_scheduler.cpp`, with the two kinds of task | |
| `TemplateSync` | `sender_unit/*registry.cpp`, `worker_instance_list.cpp`, the template part of `sender_core.cpp` | `StdList` |
| `Monitor` | `services/monitor_*.cpp`, `services/sql_access.cpp`, `data_extractor/` | |
| `Dispatch` | the user-data part of `sender_core.cpp`, `user_data.cpp`, `worker_stats.cpp`, the extractor's push, `outgoing_data_registry.cpp` | instance of `Sink`; refines `TableLife` |
| `Session` | `socket/`, `worker_node/worker_registry.cpp`, quick send | |
| `Results` | `packet_processor/` with its files and database writes | |
| `MCSink`, `MCWorkerNode`, `MCTemplateSync`, `MCDispatch`, `MCResults` | instances for TLC | |
| `StdListProofs`, `SinkProofs`, `WorkerNodeProofs`, `TaskSchedulerProofs`, `MonitorProofs`, `DispatchProofs`, `SessionProofs`, `ResultsProofs` | theorems | `TLAPS` |

How they fit together: `Monitor` ends where a table is made or a template list handed over;
`Dispatch` starts with the push of a table and ends with its acknowledgement, `TemplateSync`
does the same for templates; `WorkerNode` has the queues of a worker and the timer in their
smallest steps, which `Dispatch`, `TemplateSync` and `Session` take as one; `Session` receives
a packet, `Sink` and `TaskScheduler` bring it to a processor, `Results` processes it.
`Dispatch` does not repeat the sender sink: it instantiates `Sink`, with the monitor for its
pusher and the sender core for its popper.

Variables and actions carry the names of the fields and functions they stand for;
`PROJECT.json` maps each definition to its lines. What is common to all of them:

- One action is what a thread does between two points at which another may get in its
  way: a semaphore it may wait for, a read or write of shared state made without the
  lock. A call that tests before it locks is two actions (`PushTest`/`PushInsert`), and
  `x++` on a shared counter is two as well (`ReadTotal`/`BumpTotal`).
- Semaphores are counting: a `sem_post` too many makes room for two (`worker.cpp:95`).
- Undefined behaviour is a choice over what a libstdc++ build does: an uninitialised
  byte is any byte, a deleted packet is either still readable or ends the program
  (`crashed`), `front()` of an empty list is a NULL pointer that is followed.
- Data is abstract: objects are numbers, packets are a worker, a datum and a kind.

### Sink

`HasRoom` and `SeesItem` are the tests made without the lock. `NewItem` carries any
byte as its `starveCounter`, because the constructor (`sink_stack.hpp:24`) assigns its
parameter to itself; `InsertPosition` is the loop with its `insert(--i)`, which puts an
item before the *predecessor* of the one it overtakes. `popped` and `calls` are
history. The receiver sink is the instance with one priority and several poppers, the
sender sink the one with all priorities and a single popper. With several poppers the code takes
the front of an empty list now and then; the model does, too (`crashed`), and the run has two. That this
cannot happen to a single popper (`NeverPopsEmpty`) is not a question for a run with one, where nobody else
empties the list: it is a theorem (`SingleConsumer`) that the sender sink uses.

### WorkerNode

`Poll` ... `Copy` are `getQueuedPacket`, `HandleAck`, `MatchEnd` are
`matchAckablePacket`, `TimerWake` ... `TimerSleep` are `Timeout::execute`,
`SenderCreate` ... `SenderWrite` are `pushUserDataToWorkerQueue` (and its counterpart
for templates), `HandleResult` ... `AnswerPush` are the results. The lines after a
resend flag that speaks of nothing (`FallThrough`) run without the lock and post it once
more, as the code does; when two threads are then inside the lists of a worker,
`ListRace` may end the program: those between two of their steps there (`InLists`), and those whose
one step there would come next and for which the lock has room (`Entering`: the locked half of `queuePacket`,
the timer's `pushToFront`, and the start of the others). With a full window `getQueuedPacket` sends the packet *before*
the answer it erases (`erase(i--)`): that packet reaches the worker (`received`) though it is neither
timed nor pending and stays in the queue. `StateOf` calls it "early", and `Ledger` has a step for it:
the window does not count it, no acknowledgement of it counts, and its turn is still to come. A packet that was created, queued, timed, pending and
freed is followed through `created`, `freed` and the lists. `TimerStray` is the timer on
data whose worker pointer was never written. The branch of `execute` that removes a silent
worker is left out: nothing calls `Worker::checkOut`, so it cannot be reached, nor can
what only it uses (`deleteWorker`, `shutDown`, `isWorkerRegistered`, `addPackets`,
`pushPendingPackets`).

Bounds of the model: a user table is sent once, a template once per worker, each result
is reported once. A worker may acknowledge what it received at any time and any number
of times.

### TaskScheduler

The pool is the sequence of the kinds of its tasks; `sched` and `worker` hold the
program counters of the scheduler and the task threads. `QuickestQueue` reads the slot
`i` of queue `i` as the code does (`task_scheduler.cpp:99`). `Wake` is
`pthread_cond_signal`: without a waiter it does nothing. A validator processes packets
until `popObject` returns nothing; the sender core returns `JOB_PENDING` for ever and its
thread never leaves it. The receiver sink is a number here: its own races are in `Sink`.

### TemplateSync

`monitor` is where `UserDataTemplate::update` stands; while it rebuilds the packets or the
ids, `ReadablePackets` and `ReadableIds` give a reader without the lock every prefix of what
is being filled again. `AddMissing` is the loop with the inverted comparison (`sender_core.cpp:228`), `Merged`
the update that never discards (`userdata_template_registry.cpp:33`), although the comment at `:30` asks for
it; a template that is removed from the table stays, and is found when it is acknowledged. `TrackWorker` adds one
entry per packet, as the code does (`sender_core.cpp:206`). The queues of a worker are
abstract: a packet is `outstanding` from `queuePacket` to its acknowledgement, and
`queuePacket` may refuse it at any time, since user data and answers fill the same queue. The packet is
queued before the worker is tracked, so an acknowledgement in between finds no entry, as in the code. Operations of two
threads on one unlocked list are taken one after the other; what a torn `std::list` does is
not modelled here.

### Monitor

A behaviour follows one of the two services (`service`), since they share nothing. Each query
is a step, and the web application enters, changes (templates) and removes rows between any
two: `QueryMax` asks for the last time stamp, `List` for the names under the stamp saved
*before*, while the new one is saved; `ExtractUserTable` and `ReadTemplate` query the table
again for every name. `QueryMaxFails`, `ListFails` and `ReadTemplateFails` give what a failed
query returns: an empty text or list, like an empty table. A stamp is a second, so rows may
share one (`twins`). The content of a row is the number of the write that gave it. The model
lets a row be visible when it is stamped: a transaction that commits later is not modelled.

### Dispatch

`ExtractTable`, `PushTable`, `AddEntry` are the extractor: push, refused or not, and then the
entry, which an uninitialised flag may prevent. `LookAtSink`, then per worker `ConsiderWorker`
(its readiness and statistics), `CompareSizes` (the size of its queue, when points are equal) and `KeepWorker` (its
size once more, which is what is kept), and `PopTest` ... `UpdateTaskStatus` are the sender core: the priority is
read without the lock, a worker chosen while statistics and queues change, and the *then* first table popped.
`shrank` remembers that the queue of the worker kept got shorter between the two reads (`sender_core.cpp:125`, `:128`).
The two lists inside one `getQueueSize` are read together. Points are kept as fractions, since `findIdealWorker` divides doubles; `GetQueueSize` is negative
(`worker.cpp:137`: `1/2` is 0). A report is two steps (`BeginReport`, `SetWorkerStats`), between
which the statistics may be read half assigned; `Readable` are the outcomes, either the old or
the new ones. `ReadNullEntry` is the timer on a packet without an entry, which ends the program.

Not in it: task lists of a worker shorter than the four priorities (an index out of bounds), an
empty statistics string (`stoi` throws), two processors that report for the same worker, a failed
query for the name of a table, the locks of a worker (`WorkerNode`) and workers that share a uid
(`Session`).

### Session

A session's handlers run one at a time, each holding one of `Threads` threads of the
`io_context`; an asynchronous read holds none. `ReadCorrupt`, `ReadUnknown` and `ReadKnown` are
the three outcomes of `on_read`. `Draw` is `generateWorkerUid`; after a collision it never ends
(`spin`). `LinkWorker` and `PushWorker` are the `push_front` of a list without a lock: two at once
lose a worker (`lost`). A worker's queue holds data (acknowledged, counted by the window) and answers.
`TakeResent`, `TakeHead`, `TakeAnswer` and `FindNothing` are what `getQueuedPacket` does with it: a
pending packet sent again, which the timer may ask for at any time (its flag is not kept here); the packet at the front,
unless it is data and the window is full; the first answer behind such a packet; or nothing, whatever is queued.
`AskMode` is the look at the quick-send mode that follows nothing, which sends a handshake or goes round the loop: a
handler of a worker whose window is full stays in it, and cannot read the acknowledgement its own client would
send. `ReadKnown` may bring an acknowledgement, which a processor counts later (`Acknowledge`). A packet is written twice, once
by `write`, which throws when the connection is broken (`Written`). The removal of uids from
`announced` and a list of workers that is broken in memory are left out.

### Results

`TakePacket` ... `Answer` are one task of `start_validator`: `FindMatch`, `OpenCsv`, `WriteCsv`,
`PushDataToDb` for its data, `LookUpWorker`, `CompareStatus`, `WriteStatus`, `AssignStatus`,
`Answer` for its status. `QueueTable`, `CoreCompare`, `CoreWrite`, `CoreAssign` are the same
`updateTaskStatus` by the sender core. A file holds the number of the packet whose data it has, or
is empty, or torn when two processors write it at once. `stored`, `confirmed`, `overlapped` and
`spoiled` are history. A database write may fail, and one without a connection ends the program.
Heads with several of their bits set, a file that cannot be opened, and the refusal of an answer by
a full queue (`WorkerNode`) are left out; tables that have an entry keep it.

## 3. Runs

The passing runs exhaust their states, most within two minutes, `SessionPolls` within four.

| run | instance | properties | shows |
|---|---|---|---|
| `Sinks` | 2 pushers, 2 poppers, 3 priorities, room 2, 4 objects | `TypeOK`, `OvershootBound`, `NoDuplication`, `NothingLost`, `LowItemsAreFifo` | no object is lost or copied, also when two poppers go for the last one; low-priority objects keep their order |
| `NodeResults` | 1 worker, 1 table, 1 template, 1 processor, all results, queue size 0 | `TypeOK`, `QueueBound`, `TimerListAlive`, `Custody`, `KeepsLedger` | full queues and windows, refused packets, a packet sent early in the place of an answer |
| `NodeTemplates` | 2 workers, 1 template, 2 processors | `Lifecycle`, `KeepsLedger` | two packets that share an entry of the registry, resends to the other worker, two acknowledging processors |
| `NodeLockCycle` | 1 worker, 1 table | `NoLockCycle` (violated) | timer and session, or timer and processor, wait for each other |
| `SchedTasks` | 2 sessions, 2 threads of 2 slots, pool and sink of 2, 4 packets | `TypeOK`, `PacketsCovered`, `NeverWraps`, `PoolOvershoot` | refused tasks and lost updates leave no packet without a processor to come |
| `SchedStranded` | as `SchedTasks` | `NoPacketStranded` (violated) | a lost signal leaves a packet and its task waiting |
| `TemplatesKept` | 1 worker, 2 templates one after the other, queue size 0 | `TSTypeOK`, `UnreadyCanReset`, `NewWorkersTaken` | an unready worker has an entry that resets of its templates can empty, a new worker is served |
| `TemplatesToAll` | 2 workers, growing templates | `AllWorkersUpdated` (violated) | only the first of two workers is updated |
| `MonitorRows` | 3 rows, 3 writes, 3 seconds, 1 failed query for a stamp, any number of failed lists | `TypeOK`, `UserRowsFound`, `ExtractionBound`, `TemplatesFound`, `RowsServed` | which rows are found, how often, and that a row that stays is served |
| `DispatchTables` | 2 workers, 2 tables of 2 priorities, sink of 1, queue size 0, 2 reports | `TypeOK`, `QuickestThenFullest`, `EntryKnowsWorker`, `TablesLive`, `TablesLeaveSink` | a table goes its way in order and once, to the worker meant, and does not stay in the sink |
| `SessionPolls` | 2 sessions, 2 threads, 2 uids, 3 registrations or leaves, one worker with a queue of 2 and a window of 1 | `TypeOK`, `UidShare`, `PollsRegistered`, `PollAnswered` | who shares a uid, whose packets a client gets, which handlers are answered |
| `ResultsKept` | 1 table and a stranger's, 2 processors, 3 packets, 1 failed write | `TypeOK`, `StoredFirst`, `KindsApart`, `SerialAgree`, `StatusAdvances` | results are stored first, do not mix, and agree unless two threads were at the table |

Why the bounds are enough: the limits (room of a sink, of the pool, of a queue, the
window) are constants and are taken so small that each is reached and overshot; 4 objects
or packets fill and overfill them while others are in hand. Two threads of each kind that
matters show every race between two; a third adds no order of steps that two do not have,
except where the property is about their number (`OvershootBound`, `UidShare`), and there the
proof is for any number. Three packets at two processors give one that overlaps with two others,
one after the other; three rows in two seconds give a pair that shares one and a third that does
not. `WORKER_QUEUE_SIZE = 0` gives a queue of one packet and a window of one; 1, in `SessionPolls`, a queue of two, so that
an answer can stand behind data that waits for the window. There registrations and leaves share one
bound (`MaxWorkers`), so that three workers, or fewer with clients that come back, are reached, and packets are queued for the
first worker only (`MaxServed`): what is polled for the others is quick send or nothing. A passing run with
`CHECK_DEADLOCK FALSE` is one in which the bounds let everything come to rest, or in which
the code itself does (`NodeLockCycle`).

**Fairness.** Weak fairness of threads that run for ever, of nothing else:

- `TemplateSync` and `Dispatch`: the sender core's step. It has a task thread to itself, since
  its timer never asks for a pause (`task_scheduler.cpp:40` sets `jobShouldPause` to 0) and it
  never finishes. (Its start is subject to the lost signal that `SchedStranded` shows: it may be
  delayed until the first packet.) `TablesLeaveSink` moreover assumes that some worker stays ready
  with statistics, and holds while the worker locks are given back, which `NodeLockCycle` shows
  they may not be.
- `Monitor`: the service's loop, which sleeps and polls again.
- `Session`: per session, the handler that is running. It holds a thread of its own until it is
  done. Reads, connections, clients, the timer and the processors are not fair: `PollAnswered` claims nothing
  for a handler that waits for them.

`WorkerNode`, `TaskScheduler` and `Results` have no liveness property: in the first the threads
do deadlock, in the second packets do strand, and the third is what a thread does with one packet.

### Defects the models show

With a run of their own: the three violated properties above. Found with the same models,
or while reading, without one:

*Sinks and scheduler*
- `sink_stack.hpp:24`: the counters of the items are uninitialised, so the sender sink does not
  order by priority, as `Documentation/sink.md:4` says it does.
- `sink_stack.cpp:70`: with two poppers `popObject` may take the front of an empty list, as it does in the
  run `Sinks` and as the receiver sink's processors may (with one, as the sender sink has, it cannot: proved).
- `sink_stack.cpp:86`: `isSinkFull` uses `>` although pushes are refused at `>=`: the monitors'
  guard never holds a poll back (`SenderSinkSafe`), and a refused table is lost.
- `task_scheduler.cpp:40`: `jobShouldPause` is never set, so no job is ever paused; `:112`: the
  first queue is returned when no queue has room, and `:99`: the slot of the wrong index is read, so
  that it may also seem the quickest: a packet processor is placed behind the sender core and never runs,
  even when no signal is lost (the model reaches that state, too); with five threads the index is out of
  bounds; `:158`, `:203`: the counter of a queue loses updates, and a job beyond a count that is too small may never
  be looked at; `:220`: a job is read after its slot was marked free.

*Worker node and timeout*
- `worker.cpp:96`: the flag is reset and the lock given back before the queue is looked at;
  the session may go on without the lock and post it twice.
- `worker.cpp:114`: with a full window `erase(i--)` sends the packet before the answer and drops the answer, against the
  comment at `:107`, "Only send non ackable packets": a packet goes out beyond the window, and untimed. The run
  `NodeResults` reaches it; `KeepsLedger` calls such a packet early and does not count it. It is sent a second time in its
  turn, and an acknowledgement of its first copy finds nothing.
- `worker.cpp:137`: the free space is 0 minus the size, so that of equally quick workers the fullest is
  chosen (`QuickestThenFullest`), although the comments at `sender_core.cpp:123` and `:141` ask for the emptiest queue.
- `sender_core.cpp:125`, `:128`: the size is read once to be compared and once to be kept, without a lock. A queue that
  gets shorter in between is kept with a size that was not compared; then not even the fullest is chosen. The run
  `DispatchTables` reaches it, and `QuickestThenFullest` excludes it by name (`shrank`).
- `socket.cpp:176` with `worker.cpp:106`: a handler without quick send whose worker has only data behind a full
  window goes round its loop although it has packets. Its own session cannot read the acknowledgement that would make
  room; it goes on once the timer has a pending packet sent again, or another session of the worker reads.
- `timeout.cpp:51`: the timer waits for the lock it holds once it meets final data that was
  not acknowledged; `:75`: a template's packet may be put in front of the queue of another worker.

*Sender core, templates, registry*
- `sender_core.cpp:237`: an update while the packets are queued is forgotten with the flag.
- `sender_core.cpp:157`: the worker is found for the priority of the table that is on top before the pop; the one
  that is popped may be another (`TablesLive` has it go its way all the same).
- `sender_core.cpp:198`, `:206`: the packet is queued before the worker is entered in the list and made unready. An
  acknowledgement in between finds no entry, and the entry made afterwards waits for what was acknowledged already: the
  worker stays unready for good, and gets no user data, unless it reports a reset of its templates. `UnreadyCanReset` says
  that such reports always suffice; that acknowledgements do is false, as TLC shows on the same model.
- `sender_core.cpp:206`: a worker has an entry per packet and is ready when the first is
  done; with an empty template table no worker ever becomes ready.
- `userdata_template_registry.cpp:33`: `itemPresent` starts true, so that nothing is ever discarded, although the
  comment at `:30` says that what is no longer in the table is. Discarding alone would not be
  right either: an acknowledgement on its way for a template that was discarded would no longer be found
  (`process_status_packet.cpp:131`), and its worker stay unready.
- `userdata_template_registry.cpp:44`: a template that is modified keeps its first content and is
  not sent again, although `Documentation/Monitor.md:29` says it is.
- `outgoing_data_registry.cpp:109`: of two concurrent updates the lower status may win; `.hpp:23`: a
  method is named `delete`, which a compiler refuses (the models read it as another name).

*Workers and sessions*
- `worker_registry.cpp:26`: workers may get the same uid, although the comment at `:25` excludes it,
  and a worker may be lost from the list. Without such a loss at most as many workers as there are
  threads share a uid (`UidShare`, proved). After one there may be more: a handler that holds an old
  list drops a worker, whose uid is drawn again, and then another puts the dropped one back; TLC finds
  four workers of one uid on three threads when `UidShare` does not exclude it.
- `worker_registry.cpp:28`: after one collision the loop does not end and its thread is lost.
- `socket.cpp:167`: an invalid packet is answered with an empty uid; the client is then registered as a new worker, and
  what was queued for the old one waits for nobody.
- `socket.cpp:176`: workers without quick send hold a thread while they wait; as many idle ones as
  threads stop the server. `:186`: a reply is written twice, and `write` throws when the client has gone.

*Monitors and database*
- `data_extractor.cpp:148`: a table the full sink refuses is entered as extracted and lost.
- `userdata_template_registry.cpp:49`: the empty content a failed query left for a template is never replaced.
- `monitor_user_table.cpp:42`: rows that share their second with a row already saved are never found;
  a failed query for the stamp has everything extracted again; a failed list is lost.
- `monitor_user_table.cpp:30`: a refused connection is not noticed, and the uninitialised one used.
- `outgoing_data_registry.cpp:7`: whether a table is entered depends on an uninitialised flag.
- `data_extractor.cpp:40`: a file that is missing is read through a NULL pointer or left out.

*Results*
- `process_data_packet.cpp:37`: the text of an error is stored as the final result, and so are the data
  of an error or acknowledgement that comes after it.
- `process_data_packet.cpp:41`: two processors with results of one table write one file at once; it may be torn.
- `outgoing_data_registry.cpp:92`: a database write that fails is reported as success.
- `outgoing_data_registry.cpp:103`: after an error a later final result is stored, but its status is not.

## 4. Proofs

| theorem | module | says |
|---|---|---|
| `Typing` | `SinkProofs` | `Spec => []TypeOK` |
| `Overshoot` | `SinkProofs` | `Spec => []OvershootBound` |
| `SingleConsumer` | `SinkProofs` | with one popper, `Spec => []NeverPopsEmpty` (no run repeats it) |
| `SinkNoDuplication` | `SinkProofs` | `Spec => []NoDuplication` |
| `SinkKeeps` | `SinkProofs` | `Spec => NothingLost` |
| `ReceiverFifo` | `SinkProofs` | with one priority, `Spec => ReceiverIsFifo` (the sink implements `Fifo`; no run repeats it) |
| `LowFifo` | `SinkProofs` | `Spec => LowItemsAreFifo` (the low-priority items of any sink implement `Fifo`) |
| `NodeTyping` | `WorkerNodeProofs` | `Spec => []TypeOK` |
| `SenderQueueBound` | `WorkerNodeProofs` | `Spec => []QueueBound` |
| `PacketLife` | `WorkerNodeProofs` | `Spec => []Lifecycle` |
| `TimerSafety` | `WorkerNodeProofs` | `Spec => []TimerListAlive` |
| `PacketCustody` | `WorkerNodeProofs` | `Spec => []Custody` |
| `LedgerKept` | `WorkerNodeProofs` | `Spec => KeepsLedger` (the worker node implements `Ledger`) |
| `SchedTyping` | `TaskSchedulerProofs` | `Spec => []TypeOK` |
| `PoolBound` | `TaskSchedulerProofs` | `Spec => []PoolOvershoot` |
| `PacketsKept` | `TaskSchedulerProofs` | `Spec => []PacketsCovered` |
| `CounterNeverWraps` | `TaskSchedulerProofs` | `Spec => []NeverWraps` |
| `SenderSinkSafe` | `DispatchProofs` | the sender sink is never popped empty and never exceeds its size |
| `DispatchTyping` | `DispatchProofs` | `Spec => []TypeOK` |
| `QuickestChosen` | `DispatchProofs` | `Spec => []QuickestThenFullest` |
| `EntryWorker` | `DispatchProofs` | `Spec => []EntryKnowsWorker` |
| `WayOfTables` | `DispatchProofs` | `Spec => TablesLive` (`Dispatch` implements `TableLife`) |
| `ResultsTyping` | `ResultsProofs` | `Spec => []TypeOK` |
| `StoredBeforeReported` | `ResultsProofs` | `Spec => []StoredFirst` |
| `KindsStayApart` | `ResultsProofs` | `Spec => []KindsApart` |
| `StatusMonotone` | `ResultsProofs` | `Spec => StatusAdvances` |
| `SerialTables` | `ResultsProofs` | `Spec => []SerialAgree` |
| `SessionTyping` | `SessionProofs` | `Spec => []TypeOK` |
| `FewShareUids` | `SessionProofs` | `Spec => []UidShare` |
| `PolledByOwn` | `SessionProofs` | `Spec => []PollsRegistered` |
| `MonitorTyping` | `MonitorProofs` | `Spec => []TypeOK` |
| `UserRowsExtracted` | `MonitorProofs` | `Spec => []UserRowsFound` |
| `ExtractedSeldom` | `MonitorProofs` | `Spec => []ExtractionBound` |
| `TemplatesRegistered` | `MonitorProofs` | `Spec => []TemplatesFound` |
| `TemplateTyping` | `MonitorProofs` | `TSSpec => []TSTypeOK`, of `TemplateSync` |
| `UnreadyResettable` | `MonitorProofs` | `TSSpec => []UnreadyCanReset` |

They assume the assumption named in the component's module (`SinkAssumption`,
`WorkerNodeAssumption`, `TaskSchedulerAssumption`, `DispatchAssumption`, `ResultsAssumption` with
`SentAssumption`, `SessionAssumption`, `MonitorAssumption`, `TemplateSyncAssumption`), nothing else, and hold for any number of
threads, workers, tables, rows and packets and any sizes. Two of the assumptions are of weight:
a queue has fewer than 256 slots, as its counter is a `uint8` (4 in the code), and no more task threads
than slots, since the code indexes beyond a queue otherwise. `SingleConsumer` and `ReceiverFifo` carry
their condition in the statement; the sender sink meets the first (lemma `SinkUse` of `DispatchProofs`), the receiver sink the second.

- *Sink.* The bound on the overshoot is not inductive: a pusher that has passed the test
  may find the list grown. The strengthening counts those in between: the list and the
  pushers that hold an object are together within the bound as long as somebody may still
  insert. `SingleConsumer` rests on: only the one popper shortens the list, so what it saw
  is still there. `ReceiverFifo` needs that with low priority alone no item is ever beaten (its
  counter is 0 and no byte is smaller), so that each insertion is at the end, and that the
  numbers of the objects in hand, in the list and handed out are distinct.
  `SinkNoDuplication` needs the same freshness: an object in a pusher's hands is neither in the list nor
  handed out, and no other pusher has it. `SinkKeeps` follows what is in hand, listed or handed out: an insertion
  at any position keeps the elements of a list, and a popper that finds it empty takes none. `LowFifo` maps the sink to the list of its low items (`LowItems`,
  a loop over it). A low item is still inserted last; one of another priority may stand anywhere, and leaves
  the low ones as they were, because the low items of two lists put together are those of the one followed by
  those of the other (`LowItemsConcat`).
- *Worker node.* `TypeOK` needs `Typed`, which adds what a session holds in its hand between
  two steps: the head of the queue it is about to remove is the packet it has timed, however
  often the lock was broken (only the session of a worker shortens its sender queue).
- *Packet life.* The invariant `Alive` is `Typed`, `Lifecycle` and `TimerListAlive`. A packet
  is deleted only after it was taken off the timer's list, with the timer's lock free, and it
  enters that list only from the sender queue, where `Lifecycle` says it is neither timed nor
  deleted. The lemmas `Waits...` say what an append, a removal and a timing of a packet do to
  the part of `Lifecycle` that speaks of one queue; each action has a lemma of its own.
- *Queue bound.* As for the sink: the packets of a queue are counted together with the threads between the
  test of `queuePacket` and its lock. A session only shortens a queue; the timer's `pushToFront`, which asks
  for no room, is counted for itself.
- *Custody and ledger.* As long as a worker's lock excludes (`Intact`: semaphore and threads inside its lists are one
  together), the timed packet of a table is in one place: pending once, or in the hand of the session that
  has just timed it (`OnePlace`). That needs `Own`: a table's packet is made for one worker only, so the timer's
  shared entry leads to the right one. `TimedKept` says the part that survives a broken lock. For `Ledger`,
  each action is a step of it or a stutter. That the timed packets stay within the window rests on `WindowKept`: only
  the session of a worker adds to its unacknowledged packets, so what it counted is an upper bound when it adds. That
  a packet which reached a worker ahead of its turn is one of that worker's own queue, and stays there, is `Early`:
  only the session takes a packet from the queue, and what it copies out is timed already or the one `erase(i--)` gave it
  (`CopySource`).
- *Scheduler.* `Typed` adds that a taken slot has a job and that the scheduler pops only from a pool that is
  not empty (it alone pops). `MainFirst` says that main adds the sender core before any session runs, which is worth
  one task in the bound of the pool. `Fresh` and `Started` follow the sender core: the scheduler places it first,
  into slot 0 of thread 0, where it stays and is never done. Hence every other task is a processor, a full pool (of
  two at least) holds one, and a task that is dropped is never the last for its packet: `PacketsKept`.
  `NeverWraps` is not a matter of bookkeeping, since lost updates make counters too big and too small. It rests on two
  facts (`Counted`): a queue other than the first is given a job only while its counter is below `QUEUE_SIZE`, so
  that no counter exceeds the slots and no increment overflows; and the first queue, which is given jobs whatever its
  counter says, never finishes one, because its thread comes to the sender core before it comes to any job a
  second time. A counter that is decremented was read as positive by the same thread, and nobody else lowers it.
- *Dispatch.* A step-by-step simulation: four actions contain a step of `Sink`, all others leave
  its variables alone. Then what is proved of every sink holds of this one (`SinkSafe`). `Typed` adds that the
  statistics a worker has reported have threads to divide by, also while they are read half assigned.
  `QuickestChosen`: the last best of a scan is least among all only because the order of the fractions is
  transitive (`Beats`), and comparisons are made with values read at different times, of which each
  worker's last are kept. `ChoiceInv` says what the worker in hand is to the best so far at each step of the loop: quicker, or
  as quick and with no shorter queue when it was compared. What is kept is its size as it is read again; unless it
  shrank the new best beats all the old one did (`KeptBeats`). `EntryInv` has what the core holds between queueing a packet and assigning its worker;
  a packet with an entry has it for good. For `TableLife` the lemmas say of each step which table it moves, and that
  it leaves all others where they are.
- *Results.* `Typed` adds that only packets which report something get to the status. `Kinds`
  says of what a file or column holds what `KindsApart` says, with `FinalToDb`, that what is about
  to go to the database is no intermediate result. `Storing` follows a packet from its data to its
  answer. `StatusKept` has `Sole` (a table never overlapped has one thread at most) and `Ahead`:
  entry, column and what the thread at the table is about to write are in order. `Filing` does the
  same for the file and the column, which differ only between the two writes of one thread.
- *Session.* `Typed` adds the numbers and uids of workers: one about to draw has none and is alone
  with its object, one that is listed or seen has one. `Shares`: while the list has dropped none, all
  that have a uid are listed or on their way, so a uid that is drawn, not being listed, is held only by
  handlers on their way, each with its thread. The attempt to prove `UidShare` without `lost` is what
  showed that it is false. `Polled` adds that clients use uids they were told.
- *Monitor.* `Typed` adds `Timely`: no stamp is ahead of the clock. `Counted` adds to the times a row was
  extracted those it is listed for and those it is yet to be: a row has two chances, and a failed query
  gives one more. `Passed` adds that saved stamps are stamps of rows, so that a row entered under one
  has a twin. `Brought` follows the names of templates to the registry.
- *Templates.* `MonitorProofs` goes on with `TemplateSync`, for whatever names the monitor finds (it extends both modules,
  so the specification of `TemplateSync` has the names `TSInit`, `TSNext`, `TSSpec`). `Templated` is
  `TSTypeOK` with `Serving` (while the sender core is at a packet there is a worker to serve) and `Queued`: what it
  has read of the templates, a part of a list that is being rebuilt included, is in the list. `UnreadyCanReset` has two
  halves. `Tracked`: a worker is made unready on the way to a new entry, and an entry goes only when it makes its worker
  ready, even if it is not the one the acknowledgement was for (`UpdateKeeps`). `Recognised`: what an entry waits for, and
  what the next one will, are templates of the list, since a merge keeps what was there (`MergedKeeps`).
- *Lists.* `StdListProofs` has what `InsertAt`, `RemoveAt`, `EraseFirst` and `Without` return,
  and that a first match exists.
- *Loops.* What a loop over a list computes is a recursive function (`FoldBy`). Its lemmas go by an induction
  over lists that is stated with a set instead of an operator: a set that has the empty list, and with every list
  that list with one more element, has all lists (`SeqInduction`).

Every invariant of the passing runs is proved, and every action property and refinement. Only
model-checked are the liveness properties `NewWorkersTaken`, `TablesLeaveSink`, `RowsServed` and `PollAnswered`, which are out of the prover's reach as all
liveness is; and the limit that `QueueTemplate` sets to what a worker has outstanding (`Outstanding`, a
sum over a function): the proofs hold whatever it is.

## 5. What is not modelled, and the plan

Of the 31 800 lines of the repository's code some 28 000 are vendored JSON and JSON schema libraries
(`include/json.hpp`, `lib/`). The server's own code has about 3 700 lines, and what the models leave out of
it is this: the logger and other types (`include/`), the console dialogue and start-up (`main.cpp`,
`configs.*`), schema validation and the layout of packets, SQL and file access as such (what a failure
leaves behind is in `Monitor` and `Results`), `boost::beast`; and code that cannot be reached (`exit_sched`,
`monitorStop` being set, the removal of silent workers with all it calls: `deleteWorker`, `shutDown`,
`pushPendingPackets`). The memory model is sequentially consistent but for the races that are named.

What is left, in the order of its weight:

1. `Server`: sinks, scheduler, dispatch, worker node and results composed, with the way of a table from
   the monitor to its final result as the abstract specification. The parts are joined two by two so far
   (`Dispatch` and `Sink`); all at once exceed what TLC can enumerate, so it needs abstract stand-ins.
2. Two acknowledging processors on different packets of one worker with full queues, and two tables in
   `Results`: at present each is run with one.
