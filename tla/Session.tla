------------------------------- MODULE Session -------------------------------
(***************************************************************************)
(* The sessions of the workers and their registration:                     *)
(*                                                                         *)
(*   socket/socket.cpp                  on_read, the replies, the threads  *)
(*   socket/prevalidate_json.cpp        what counts as a packet            *)
(*   worker_node/worker_registry.cpp    uids and the list of workers       *)
(*   worker_node/worker.cpp             what getQueuedPacket answers       *)
(*                                                                         *)
(* A session's handlers run one after the other, on any of the threads of  *)
(* the io_context; on_read holds its thread until it has a reply.  Workers *)
(* connect, send one packet at a time, adopt the uid of a handshake, leave *)
(* without notice and come back.  Sender core, processors and timer only   *)
(* appear in what they do to a worker's queue, and its lock is whole here: *)
(* see WorkerNode.                                                         *)
(***************************************************************************)
EXTENDS Naturals, Sequences, FiniteSets, StdList

CONSTANTS
  Sessions,     \* connections that exist at a time
  Threads,      \* startSocket: the threads of the io_context
  Uids,         \* the numbers generateWorkerUid draws from: 1000..9999
  NoUid,        \* the empty id
  MaxWorkers,   \* bound: so often a worker registers or a client leaves
  WORKER_QUEUE_SIZE,  \* configs.h: 20
  MaxServed     \* bound: packets are queued for this many of the workers

ASSUME SessionAssumption ==
  /\ IsFiniteSet(Sessions)
  /\ Threads \in Nat \ {0}
  /\ Uids # {} /\ NoUid \notin Uids
  /\ WORKER_QUEUE_SIZE \in Nat
  /\ MaxWorkers \in Nat /\ MaxServed \in Nat

\* Worker objects, numbered as they are made; 0 is none.
Worker == 1..MaxWorkers

\* isAckable: a packet of data or of templates is acknowledged, an answer is not.
Kind == {"data", "answer"}

VARIABLES
  pc,                 \* per session: where it is
  worker,             \* per session: the worker object it registers or polls
  seen,               \* per session: the list it is about to put a worker before
  client,             \* per session: the client is there
  clientUid,          \* per session: the uid its client uses
  currentWorkerList,  \* WorkerRegistry: worker objects, front first
  workerUid,          \* per worker object: its uid, NoUid before it is drawn
  announced,          \* SenderCoreData::workerUidList, the workers ever put in it
  quickSendMode,      \* per worker object
  senderQueue,        \* per worker object: the packets in its queue
  pending,            \* per worker object: sent and not acknowledged
  acks,               \* per worker object: acknowledgements read, not yet processed
  granted,            \* history: the uids clients were told
  lost,               \* history: the workers a push has dropped from the list
  made,               \* worker objects made so far
  leaves,             \* clients that left so far
  crashed             \* an exception or undefined behaviour ended the program

registry == <<currentWorkerList, workerUid, announced, lost, made>>
clients  == <<client, clientUid, granted, leaves>>
queue    == <<senderQueue, pending, acks>>
nodes    == <<quickSendMode, queue>>
vars     == <<pc, worker, seen, clients, registry, nodes, crashed>>

Init ==
  /\ pc = [s \in Sessions |-> "off"]
  /\ worker = [s \in Sessions |-> 0]
  /\ seen = [s \in Sessions |-> << >>]
  /\ client = [s \in Sessions |-> FALSE]
  /\ clientUid = [s \in Sessions |-> NoUid]
  /\ currentWorkerList = << >>
  /\ workerUid = [n \in Worker |-> NoUid]
  /\ announced = {}
  /\ quickSendMode = [n \in Worker |-> FALSE]
  /\ senderQueue = [n \in Worker |-> << >>]
  /\ pending = [n \in Worker |-> 0]
  /\ acks = [n \in Worker |-> 0]
  /\ granted = {}
  /\ lost = {}
  /\ made = 0
  /\ leaves = 0
  /\ crashed = FALSE

-----------------------------------------------------------------------------
At(s, place) == ~crashed /\ pc[s] = place
Goto(s, place) == pc' = [pc EXCEPT ![s] = place]

\* The sessions that hold a thread: an asynchronous read holds none.
Running    == {s \in Sessions : pc[s] \notin {"off", "reading"}}
FreeThread == Cardinality(Running) < Threads

\* A worker connects, for the first time or again with the uid it was told.
Connect(s) ==
  /\ At(s, "off")
  /\ FreeThread
  /\ client' = [client EXCEPT ![s] = TRUE]
  /\ \E u \in {NoUid} \cup (granted \ {clientUid[r] : r \in {r \in Sessions : client[r]}}) :
       clientUid' = [clientUid EXCEPT ![s] = u]
  /\ Goto(s, "reading")
  /\ UNCHANGED <<worker, seen, granted, leaves, registry, nodes, crashed>>

Leave(s) ==
  /\ ~crashed
  /\ client[s] /\ made + leaves < MaxWorkers
  /\ client' = [client EXCEPT ![s] = FALSE]
  /\ clientUid' = [clientUid EXCEPT ![s] = NoUid]
  /\ leaves' = leaves + 1
  /\ UNCHANGED <<pc, worker, seen, granted, registry, nodes, crashed>>

\* async_read reports the error.
EndSession(s) ==
  /\ At(s, "reading")
  /\ ~client[s] /\ FreeThread
  /\ Goto(s, "off")
  /\ UNCHANGED <<worker, seen, clients, registry, nodes, crashed>>

-----------------------------------------------------------------------------
(***************************************************************************)
(* on_read.                                                                *)
(***************************************************************************)
Listed(list) == {list[i] : i \in DOMAIN list}

\* getWorkerFromUid: the first in the list, the last one registered.
FoundAt(u) == {i \in DOMAIN currentWorkerList : workerUid[currentWorkerList[i]] = u}

\* Mutant: the front of the list, whoever it is.
WorkerFromUidFront(u) == Head(currentWorkerList)

WorkerFromUid(u) ==
  currentWorkerList[CHOOSE i \in FoundAt(u) : \A j \in FoundAt(u) : i <= j]

ReadBegins(s) == At(s, "reading") /\ client[s] /\ FreeThread

\* Mutant: only a packet without an id counts as one of a new worker.
ReadCorruptPolls(s) ==
  /\ ReadBegins(s)
  /\ Goto(s, "poll")
  /\ UNCHANGED <<worker, seen, clients, registry, nodes, crashed>>

\* A packet that is no JSON, or has no head or id, is answered by a handshake
\* with an empty uid.
ReadCorrupt(s) ==
  /\ ReadBegins(s)
  /\ Goto(s, "handshake")
  /\ UNCHANGED <<worker, seen, clients, registry, nodes, crashed>>

\* The uid is unknown: generateWorkerUid.  (An empty id never counts as empty, but
\* is unknown as well.)
ReadUnknown(s) ==
  /\ ReadBegins(s)
  /\ FoundAt(clientUid[s]) = {}
  /\ made + leaves < MaxWorkers
  /\ made' = made + 1
  /\ worker' = [worker EXCEPT ![s] = made + 1]
  /\ Goto(s, "draw")
  /\ UNCHANGED <<seen, clients, currentWorkerList, workerUid, announced, lost, nodes,
                 crashed>>

\* The packet goes to the receiver sink with its processor task (TaskScheduler): it
\* may acknowledge a packet that was sent.
ReadKnown(s, quick) ==
  /\ ReadBegins(s)
  /\ FoundAt(clientUid[s]) # {}
  /\ LET n == WorkerFromUid(clientUid[s])
     IN  /\ worker' = [worker EXCEPT ![s] = n]
         /\ quickSendMode' = [quickSendMode EXCEPT ![n] = quick]
         /\ \E k \in 0..1 : /\ acks[n] + k <= pending[n]
                            /\ acks' = [acks EXCEPT ![n] = @ + k]
  /\ Goto(s, "poll")
  /\ UNCHANGED <<seen, clients, registry, senderQueue, pending, crashed>>

\* Mutant: the list is not searched.
CollidesNever(u) == FALSE

Collides(u) == FoundAt(u) # {}

\* After a collision the flag that ends the loop is never set again: the thread
\* draws for ever.
Draw(s) ==
  /\ At(s, "draw")
  /\ \E u \in Uids :
       IF Collides(u)
         THEN Goto(s, "spin") /\ UNCHANGED workerUid
         ELSE /\ workerUid' = [workerUid EXCEPT ![worker[s]] = u]
              /\ Goto(s, "link")
  /\ UNCHANGED <<worker, seen, clients, currentWorkerList, announced, lost, made, nodes,
                 crashed>>

\* push_front of the worker list, without a lock: the head is read, then written.
LinkWorker(s) ==
  /\ At(s, "link")
  /\ seen' = [seen EXCEPT ![s] = currentWorkerList]
  /\ Goto(s, "push")
  /\ UNCHANGED <<worker, clients, registry, nodes, crashed>>

\* The sender core's list of uids is pushed to as well, under its lock.
PushWorker(s) ==
  /\ At(s, "push")
  /\ currentWorkerList' = <<worker[s]>> \o seen[s]
  /\ lost' = lost \cup (Listed(currentWorkerList) \ Listed(seen[s]))
  /\ seen' = [seen EXCEPT ![s] = << >>]
  /\ announced' = announced \cup {workerUid[worker[s]]}
  /\ Goto(s, "handshake")
  /\ UNCHANGED <<worker, clients, workerUid, made, nodes, crashed>>

-----------------------------------------------------------------------------
(***************************************************************************)
(* on_read's loop: getQueuedPacket, and quick-send mode asked when it gave *)
(* nothing.  A packet at the front that must be acknowledged waits while   *)
(* too many are pending; an answer behind it is taken out instead.         *)
(***************************************************************************)
WindowFull(n) == pending[n] > WORKER_QUEUE_SIZE \div 2
HeadGoes(n)   == senderQueue[n] # << >> /\ (Head(senderQueue[n]) = "data" => ~WindowFull(n))
AnswerGoes(n) == "answer" \in ToSet(senderQueue[n])

\* The queue has a packet that may go out.
Sendable(n) == HeadGoes(n) \/ AnswerGoes(n)

\* The timer put a pending packet to the front (pushToFront), whichever the moment:
\* it is returned once more and the queue stays as it is.
TakeResent(s) ==
  /\ At(s, "poll")
  /\ pending[worker[s]] > 0
  /\ Goto(s, "reply")
  /\ UNCHANGED <<worker, seen, clients, registry, nodes, crashed>>

TakeHead(s) ==
  LET n == worker[s] IN
  /\ At(s, "poll")
  /\ HeadGoes(n)
  /\ senderQueue' = [senderQueue EXCEPT ![n] = Tail(@)]
  /\ pending' = [pending EXCEPT ![n] = IF Head(senderQueue[n]) = "data" THEN @ + 1 ELSE @]
  /\ Goto(s, "reply")
  /\ UNCHANGED <<worker, seen, clients, registry, quickSendMode, acks, crashed>>

\* erase(i--): the answer is lost and the packet before it sent, see WorkerNode.
TakeAnswer(s) ==
  LET n == worker[s] IN
  /\ At(s, "poll")
  /\ ~HeadGoes(n) /\ AnswerGoes(n)
  /\ senderQueue' = [senderQueue EXCEPT ![n] = EraseFirst(@, "answer")]
  /\ Goto(s, "reply")
  /\ UNCHANGED <<worker, seen, clients, registry, quickSendMode, pending, acks, crashed>>

FindNothing(s) ==
  /\ At(s, "poll")
  /\ ~Sendable(worker[s])
  /\ Goto(s, "mode")
  /\ UNCHANGED <<worker, seen, clients, registry, nodes, crashed>>

\* Mutant: the mode only counts when the queue is empty.
AskModeEmpty(s) ==
  /\ At(s, "mode")
  /\ Goto(s, IF quickSendMode[worker[s]] /\ senderQueue[worker[s]] = << >>
               THEN "handshake" ELSE "poll")
  /\ UNCHANGED <<worker, seen, clients, registry, nodes, crashed>>

\* Without quick send the loop goes round, and the handler keeps its thread: when the
\* window is full, until a packet is sent again or another session of the worker reads.
AskMode(s) ==
  /\ At(s, "mode")
  /\ Goto(s, IF quickSendMode[worker[s]] THEN "handshake" ELSE "poll")
  /\ UNCHANGED <<worker, seen, clients, registry, nodes, crashed>>

-----------------------------------------------------------------------------
(***************************************************************************)
(* The reply, written twice: by write, which throws when the connection is *)
(* broken - nobody catches - and by async_write from a buffer that is gone.*)
(* on_write reads on, or ends the session when the connection is broken,   *)
(* as the read would.                                                      *)
(***************************************************************************)
Written(s) ==
  /\ Goto(s, "reading")
  /\ worker' = [worker EXCEPT ![s] = 0]
  /\ crashed' \in IF client[s] THEN {FALSE} ELSE BOOLEAN
  /\ UNCHANGED <<seen, client, leaves, registry, nodes>>

\* The client adopts the uid of the handshake, the empty one included.
Handshake(s) ==
  LET u == IF worker[s] = 0 THEN NoUid ELSE workerUid[worker[s]] IN
  /\ At(s, "handshake")
  /\ IF client[s]
       THEN /\ clientUid' = [clientUid EXCEPT ![s] = u]
            /\ granted' = granted \cup ({u} \ {NoUid})
       ELSE UNCHANGED <<clientUid, granted>>
  /\ Written(s)

Reply(s) ==
  /\ At(s, "reply")
  /\ Written(s)
  /\ UNCHANGED <<clientUid, granted>>

\* The sender core queues data, a processor answers, unless the queue is full.
QueuePacket(n, kind) ==
  /\ ~crashed
  /\ n \in Listed(currentWorkerList) /\ n <= MaxServed
  /\ Len(senderQueue[n]) <= WORKER_QUEUE_SIZE
  /\ senderQueue' = [senderQueue EXCEPT ![n] = Append(@, kind)]
  /\ UNCHANGED <<pc, worker, seen, clients, registry, quickSendMode, pending, acks, crashed>>

\* A processor: matchAckablePacket.
Acknowledge(n) ==
  /\ ~crashed
  /\ acks[n] > 0
  /\ acks' = [acks EXCEPT ![n] = @ - 1]
  /\ pending' = [pending EXCEPT ![n] = @ - 1]
  /\ UNCHANGED <<pc, worker, seen, clients, registry, quickSendMode, senderQueue, crashed>>

PollStep(s) == TakeResent(s) \/ TakeHead(s) \/ TakeAnswer(s) \/ FindNothing(s) \/ AskMode(s)

ReadStep(s) ==
  \/ Draw(s) \/ LinkWorker(s) \/ PushWorker(s)
  \/ PollStep(s) \/ Handshake(s) \/ Reply(s)

ClientStep(s) ==
  \/ Connect(s) \/ Leave(s) \/ EndSession(s)
  \/ ReadCorrupt(s) \/ ReadUnknown(s) \/ \E quick \in BOOLEAN : ReadKnown(s, quick)

NodeStep(n) == (\E kind \in Kind : QueuePacket(n, kind)) \/ Acknowledge(n)

Next ==
  \/ \E s \in Sessions : ClientStep(s) \/ ReadStep(s)
  \/ \E n \in Worker : NodeStep(n)

\* The thread that runs on_read goes on with it.
Fairness == \A s \in Sessions : WF_vars(ReadStep(s))

Spec == Init /\ [][Next]_vars /\ Fairness

-----------------------------------------------------------------------------
SessionPc == {"off", "reading", "draw", "spin", "link", "push", "poll", "mode",
              "handshake", "reply"}

\* Type invariant.  No more handlers run than there are threads, a session that
\* registers or polls has its worker, and no more packets are acknowledged than are
\* pending.
TypeOK ==
  /\ pc \in [Sessions -> SessionPc]
  /\ Cardinality(Running) <= Threads
  /\ worker \in [Sessions -> Worker \cup {0}]
  /\ \A s \in Sessions :
       pc[s] \notin {"off", "reading", "handshake"} => worker[s] \in Worker
  /\ seen \in [Sessions -> Seq(Worker)]
  /\ client \in [Sessions -> BOOLEAN]
  /\ clientUid \in [Sessions -> Uids \cup {NoUid}]
  /\ currentWorkerList \in Seq(Worker)
  /\ workerUid \in [Worker -> Uids \cup {NoUid}]
  /\ announced \subseteq Uids
  /\ quickSendMode \in [Worker -> BOOLEAN]
  /\ senderQueue \in [Worker -> Seq(Kind)]
  /\ pending \in [Worker -> Nat] /\ acks \in [Worker -> Nat]
  /\ \A n \in Worker : acks[n] <= pending[n]
  /\ granted \subseteq Uids
  /\ lost \subseteq Worker
  /\ made \in 0..MaxWorkers
  /\ leaves \in Nat
  /\ crashed \in BOOLEAN

\* generateWorkerUid tests and inserts without a lock, so workers may get the same
\* uid - but never more of them than there are threads to test it at once, as long
\* as the unlocked list drops none.  (After that more may share one.)
Sharing(u) == {n \in Worker : workerUid[n] = u}
UidShare == lost = {} => \A u \in Uids : Cardinality(Sharing(u)) <= Threads

\* on_read's loop: no handler polls for ever for a worker in quick-send mode, whatever
\* is queued, or for one whose queue has something that may go out: it answers and
\* gives its thread back, unless another session of that worker ends the mode or takes
\* the packet before.  (What waits behind a full window answers no handler.)
Polling(s) == pc[s] \in {"poll", "mode"}
PollAnswered ==
  \A s \in Sessions :
    LET quick == Polling(s) /\ quickSendMode[worker[s]]
        goes  == Polling(s) /\ Sendable(worker[s])
    IN  []<>(~quick \/ crashed) /\ []<>(~goes \/ crashed)

\* on_read: whatever clients leave and come back, and even when two workers share a
\* uid, a packet of a worker goes to a client that was told that worker's uid, and
\* a worker that is polled has been registered.
PollsRegistered ==
  \A s \in Sessions :
    pc[s] \in {"poll", "mode", "reply"} =>
      /\ workerUid[worker[s]] \in granted
      /\ client[s] => clientUid[s] = workerUid[worker[s]]
=============================================================================
