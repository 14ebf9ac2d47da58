----------------------------- MODULE TemplateSync -----------------------------
(***************************************************************************)
(* How workers are kept up to date with the templates (the rules for       *)
(* processing user data), and when a worker counts as ready for user data: *)
(*                                                                         *)
(*   sender_unit/userdata_template_registry.cpp  the list of templates     *)
(*   sender_unit/worker_instance_list.cpp        what each worker still has*)
(*                                               to acknowledge            *)
(*   sender_unit/sender_core.cpp                 who is sent the templates *)
(*   worker_node/worker_registry.cpp             registration of a worker  *)
(*   packet_processor/process_status_packet.cpp  acknowledgements, resets  *)
(*                                                                         *)
(* Threads: the template monitor, the sender core, the sessions that       *)
(* register workers and the packet processors.  Only the list of templates *)
(* has a lock, and only the monitor and isMatchingFound take it: the       *)
(* sender core may read the packets and the ids while they are rebuilt.    *)
(* The queues of a worker and their timer are in WorkerNode: here a packet *)
(* is outstanding from queuePacket to its acknowledgement.  Operations on  *)
(* one container by two threads are taken one after the other, although    *)
(* newWorkerList and workerList have no lock.                              *)
(***************************************************************************)
EXTENDS StdList

CONSTANTS
  Workers,            \* worker uids
  Templates,          \* template names
  Processors,         \* threads running the packet processor
  Tables,             \* the names the monitor reads, update by update (bound)
  WORKER_QUEUE_SIZE,  \* configs.h: 20
  Nobody, Nothing

ASSUME TemplateSyncAssumption ==
  /\ IsFiniteSet(Templates) /\ IsFiniteSet(Workers)
  /\ Tables \in Seq(Seq(Templates) \ {<< >>}) /\ WORKER_QUEUE_SIZE \in Nat
  /\ Nobody \notin Workers /\ Nothing \notin Templates

VARIABLES
  currentWorkerList,     \* WorkerRegistry: registered workers, last one first
  joining,               \* registered, not yet made known to the sender core
  newWorkerList,         \* SenderCoreData::newWorkerList
  uDataTemplateList,     \* UserDataTemplate: names in the list
  dataUpdated,           \* UserDataTemplate::dataUpdated
  templateIdList,        \* WorkerInstanceList::templateIdList
  workerList,            \* WorkerInstanceList::workerList
  workerReady,           \* Worker::workerReady
  outstanding,           \* per worker and template: packets not acknowledged
  reached,               \* workers that a template was ever queued for
  updates,               \* changes of the template table so far (bound)
  monitor,               \* the template monitor; it holds the lock unless idle
  sender,                \* the sender core
  processor              \* per packet processor: the acknowledgement in hand

registration  == <<currentWorkerList, joining>>
templates == <<uDataTemplateList, templateIdList, updates>>
tracking  == <<workerList, workerReady>>
packets   == <<outstanding, reached>>
tsVars      == <<registration, newWorkerList, templates, dataUpdated, tracking, packets,
               monitor, sender, processor>>

Idle == [pc |-> "idle", worker |-> Nobody, template |-> Nothing]

TSInit ==
  /\ currentWorkerList = << >>
  /\ joining = {}
  /\ newWorkerList = << >>
  /\ uDataTemplateList = << >>
  /\ dataUpdated = TRUE
  /\ templateIdList = {}
  /\ workerList = << >>
  /\ workerReady = [w \in Workers |-> FALSE]
  /\ outstanding = [w \in Workers |-> [n \in Templates |-> 0]]
  /\ reached = {}
  /\ updates = 0
  /\ monitor = "idle"
  /\ sender = [pc |-> "idle", updating |-> FALSE, left |-> {},
               json |-> << >>, todo |-> << >>]
  /\ processor = [p \in Processors |-> Idle]

-----------------------------------------------------------------------------
(***************************************************************************)
(* A session registers a worker: generateWorkerUid.                        *)
(***************************************************************************)
Register(w) ==
  /\ \A i \in DOMAIN currentWorkerList : currentWorkerList[i] # w
  /\ currentWorkerList' = <<w>> \o currentWorkerList
  /\ joining' = joining \cup {w}
  /\ UNCHANGED <<newWorkerList, templates, dataUpdated, tracking, packets, monitor,
                 sender, processor>>

\* senderCoreData->addWorker.
Announce(w) ==
  /\ w \in joining
  /\ joining' = joining \ {w}
  /\ newWorkerList' = Append(newWorkerList, w)
  /\ UNCHANGED <<currentWorkerList, templates, dataUpdated, tracking, packets,
                 monitor, sender, processor>>

-----------------------------------------------------------------------------
(***************************************************************************)
(* The monitor has found a change and calls UserDataTemplate::update.      *)
(***************************************************************************)
\* itemPresent starts TRUE, so that nothing is ever discarded, although the comment
\* asks for it (userdata_template_registry.cpp:30, :33); new names go last.
AddName == [list \in Seq(Templates) |-> [n \in Templates |->
             IF n \in ToSet(list) THEN list ELSE Append(list, n)]]
Merged(found) == FoldBy(AddName, uDataTemplateList, found)

\* Under the lock: the list is merged; from now on its packets are rebuilt.
UpdateList ==
  LET found == Tables[updates + 1] IN
  /\ monitor = "idle" /\ updates < Len(Tables)
  /\ updates' = updates + 1
  /\ uDataTemplateList' = Merged(found)
  /\ monitor' = "packets"
  /\ UNCHANGED <<registration, newWorkerList, templateIdList, dataUpdated, tracking,
                 packets, sender, processor>>

\* The packets are complete; from now on the ids are rebuilt.
SetFlag ==
  /\ monitor = "packets"
  /\ dataUpdated' = TRUE
  /\ monitor' = "ids"
  /\ UNCHANGED <<registration, newWorkerList, templates, tracking, packets, sender,
                 processor>>

\* updateInstanceList is through, and the lock is given back.
FinishUpdate ==
  /\ monitor = "ids"
  /\ templateIdList' = ToSet(uDataTemplateList)
  /\ monitor' = "idle"
  /\ UNCHANGED <<registration, newWorkerList, uDataTemplateList, updates, dataUpdated,
                 tracking, packets, sender, processor>>

\* What is read without the lock: while a container is cleared and filled again
\* in the order of the list, as far as that has got.
ReadablePackets == IF monitor = "packets" THEN Prefixes(uDataTemplateList)
                                          ELSE {uDataTemplateList}
ReadableIds ==
  IF monitor = "ids" THEN {templateIdList} \cup {ToSet(s) : s \in Prefixes(uDataTemplateList)}
                     ELSE {templateIdList}

-----------------------------------------------------------------------------
(***************************************************************************)
(* The sender core: startSenderCore as far as templates go.                *)
(***************************************************************************)
\* compare() is true of different names: a worker counts as listed as soon as
\* some other worker is.
AddMissing == [list \in Seq(Workers) |-> [worker \in Workers |->
                IF ToSet(list) \subseteq {worker} THEN Append(list, worker) ELSE list]]

\* getUpdateStatus and, when it is set, updateAllWorkerInstances up to the call
\* of pushInstanceToWorkerQueue.
StartSender ==
  /\ sender.pc = "idle"
  /\ IF dataUpdated
       THEN /\ newWorkerList' = FoldBy(AddMissing, newWorkerList, currentWorkerList)
            /\ sender' = [sender EXCEPT !.pc = "json", !.updating = TRUE,
                                               !.left = ToSet(currentWorkerList)]
       ELSE /\ sender' = [sender EXCEPT !.pc = "new"]
            /\ UNCHANGED newWorkerList
  /\ UNCHANGED <<registration, templates, dataUpdated, tracking, packets, monitor,
                 processor>>

\* isNewWorkerListEmpty; when it is empty user data is sent instead (Dispatch).
TestNew ==
  /\ sender.pc = "new"
  /\ sender' = [sender EXCEPT !.pc = IF newWorkerList = << >> THEN "idle" ELSE "json"]
  /\ UNCHANGED <<registration, newWorkerList, templates, dataUpdated, tracking, packets,
                 monitor, processor>>

\* toJson, without the lock.
ReadJson ==
  /\ sender.pc = "json"
  /\ \E json \in ReadablePackets :
       sender' = [sender EXCEPT !.pc = "take", !.json = json]
  /\ UNCHANGED <<registration, newWorkerList, templates, dataUpdated, tracking, packets,
                 monitor, processor>>

\* The head of the loop over the new workers.
TakeWorker ==
  /\ sender.pc = "take"
  /\ sender' = IF newWorkerList # << >>
                 THEN [sender EXCEPT !.pc = "queue", !.todo = sender.json]
               ELSE IF sender.updating
                 THEN [sender EXCEPT !.pc = "reset"]
               ELSE [sender EXCEPT !.pc = "idle"]
  /\ UNCHANGED <<registration, newWorkerList, templates, dataUpdated, tracking, packets,
                 monitor, processor>>

Served == Head(newWorkerList)

\* The packets of templates that are in the queue of a worker or on their way.
Outstanding(w) == FoldFunction(+, 0, outstanding[w])

\* Sent and not yet acknowledged: no more than the window of getQueuedPacket.
Window == WORKER_QUEUE_SIZE \div 2 + 1

\* queuePacket: a sender queue that is full refuses, and nobody looks.  User data
\* and answers fill it too, so that it may be full whatever the templates do; of
\* the outstanding packets those that were sent are no longer in it.
QueueTemplate ==
  /\ sender.pc = "queue" /\ sender.todo # << >>
  /\ \/ /\ Outstanding(Served) <= WORKER_QUEUE_SIZE + Window
        /\ outstanding' = [outstanding EXCEPT ![Served][Head(sender.todo)] = @ + 1]
     \/ UNCHANGED outstanding
  /\ reached' = reached \cup {Served}
  /\ sender' = [sender EXCEPT !.pc = "unready", !.todo = Tail(@)]
  /\ UNCHANGED <<registration, newWorkerList, templates, dataUpdated, tracking, monitor,
                 processor>>

AddEntry(w) ==
  \E ids \in ReadableIds : workerList' = Append(workerList, [worker |-> w, ids |-> ids])

\* addWorker: resetWorkerReady ...
ResetReady ==
  /\ sender.pc = "unready"
  /\ workerReady' = [workerReady EXCEPT ![Served] = FALSE]
  /\ sender' = [sender EXCEPT !.pc = "track"]
  /\ UNCHANGED <<registration, newWorkerList, templates, dataUpdated, workerList, packets,
                 monitor, processor>>

\* Mutant: no entry when there is nothing to wait for.
TrackIfWaiting ==
  /\ sender.pc = "track"
  /\ \/ AddEntry(Served) /\ Last(workerList').ids # {}
     \/ {} \in ReadableIds /\ UNCHANGED workerList
  /\ sender' = [sender EXCEPT !.pc = "queue"]
  /\ UNCHANGED <<registration, newWorkerList, templates, dataUpdated, workerReady, packets,
                 monitor, processor>>

\* ... and an entry of its own for every packet, each with all the ids.
TrackWorker ==
  /\ sender.pc = "track"
  /\ AddEntry(Served)
  /\ sender' = [sender EXCEPT !.pc = "queue"]
  /\ UNCHANGED <<registration, newWorkerList, templates, dataUpdated, workerReady, packets,
                 monitor, processor>>

\* Mutant: the worker stays in the list.
KeepWorker ==
  /\ sender.pc = "queue" /\ sender.todo = << >>
  /\ sender' = [sender EXCEPT !.pc = "take"]
  /\ UNCHANGED <<registration, newWorkerList, templates, dataUpdated, tracking, packets,
                 monitor, processor>>

\* All templates queued: the worker leaves the list.
DropWorker ==
  /\ sender.pc = "queue" /\ sender.todo = << >>
  /\ newWorkerList' = Tail(newWorkerList)
  /\ sender' = [sender EXCEPT !.pc = "take", !.left = @ \ {Served}]
  /\ UNCHANGED <<registration, templates, dataUpdated, tracking, packets, monitor, processor>>

\* resetFlag, whatever the monitor has done meanwhile.
ResetFlag ==
  /\ sender.pc = "reset"
  /\ dataUpdated' = FALSE
  /\ sender' = [sender EXCEPT !.pc = "new", !.updating = FALSE, !.left = {}]
  /\ UNCHANGED <<registration, newWorkerList, templates, tracking, packets, monitor,
                 processor>>

-----------------------------------------------------------------------------
(***************************************************************************)
(* A packet processor: P_DATA_ACK and P_RESET of packetStatusParse.        *)
(***************************************************************************)
\* Mutant: a second acknowledgement counts as well.
AcknowledgeAgain(p, w, n) ==
  /\ processor[p].pc = "idle"
  /\ w \in reached /\ n \in ToSet(uDataTemplateList)
  /\ outstanding' = [outstanding EXCEPT ![w][n] = @ - 1]
  /\ processor' = [processor EXCEPT ![p] = [pc |-> "match", worker |-> w, template |-> n]]
  /\ UNCHANGED <<registration, newWorkerList, templates, dataUpdated, tracking, reached,
                 monitor, sender>>

\* matchAckablePacket has found and removed the packet.
Acknowledge(p, w, n) ==
  /\ processor[p].pc = "idle"
  /\ outstanding[w][n] > 0
  /\ outstanding' = [outstanding EXCEPT ![w][n] = @ - 1]
  /\ processor' = [processor EXCEPT ![p] = [pc |-> "match", worker |-> w, template |-> n]]
  /\ UNCHANGED <<registration, newWorkerList, templates, dataUpdated, tracking, reached,
                 monitor, sender>>

\* A worker reports a template as reset.
Reset(p, w, n) ==
  /\ processor[p].pc = "idle"
  /\ w \in reached /\ n \in ToSet(uDataTemplateList)
  /\ processor' = [processor EXCEPT ![p] = [pc |-> "match", worker |-> w, template |-> n]]
  /\ UNCHANGED <<registration, newWorkerList, templates, dataUpdated, tracking, packets,
                 monitor, sender>>

\* isMatchingFound, which waits for the lock of the list.
Match(p) ==
  /\ processor[p].pc = "match"
  /\ monitor = "idle"
  /\ processor' = [processor EXCEPT ![p] =
       IF @.template \in ToSet(uDataTemplateList) THEN [@ EXCEPT !.pc = "update"] ELSE Idle]
  /\ UNCHANGED <<registration, newWorkerList, templates, dataUpdated, tracking, packets,
                 monitor, sender>>

EntriesOf(w) == {i \in DOMAIN workerList : workerList[i].worker = w}

\* updateWorker: the first entry of the worker loses the template; when it has
\* none left the worker is ready and the entry goes.
UpdateWorker(p) ==
  LET w   == processor[p].worker
      i   == CHOOSE k \in EntriesOf(w) : \A j \in EntriesOf(w) : k <= j
      ids == workerList[i].ids \ {processor[p].template}
  IN
  /\ processor[p].pc = "update"
  /\ \/ /\ EntriesOf(w) = {}
        /\ UNCHANGED tracking
     \/ /\ EntriesOf(w) # {} /\ ids = {}
        /\ workerReady' = [workerReady EXCEPT ![w] = TRUE]
        /\ workerList' = RemoveAt(workerList, i)
     \/ /\ EntriesOf(w) # {} /\ ids # {}
        /\ workerList' = [workerList EXCEPT ![i].ids = ids]
        /\ UNCHANGED workerReady
  /\ processor' = [processor EXCEPT ![p] = Idle]
  /\ UNCHANGED <<registration, newWorkerList, templates, dataUpdated, packets, monitor, sender>>

-----------------------------------------------------------------------------
TSNext ==
  \/ \E w \in Workers : Register(w)
  \/ \E w \in Workers : Announce(w)
  \/ UpdateList
  \/ SetFlag
  \/ FinishUpdate
  \/ StartSender
  \/ TestNew
  \/ ReadJson
  \/ TakeWorker
  \/ QueueTemplate
  \/ ResetReady
  \/ TrackWorker
  \/ DropWorker
  \/ ResetFlag
  \/ \E p \in Processors, w \in Workers, n \in Templates : Acknowledge(p, w, n)
  \/ \E p \in Processors, w \in Workers, n \in Templates : Reset(p, w, n)
  \/ \E p \in Processors : Match(p)
  \/ \E p \in Processors : UpdateWorker(p)

\* The sender core's step: it has a thread of the scheduler to itself.
SenderStep ==
  \/ StartSender \/ TestNew \/ ReadJson \/ TakeWorker
  \/ QueueTemplate
  \/ ResetReady \/ TrackWorker \/ DropWorker \/ ResetFlag

TSSpec == TSInit /\ [][TSNext]_tsVars /\ WF_tsVars(SenderStep)

-----------------------------------------------------------------------------
\* The state has its type.
TSTypeOK ==
  /\ currentWorkerList \in Seq(Workers) /\ joining \subseteq Workers
  /\ newWorkerList \in Seq(Workers)
  /\ uDataTemplateList \in Seq(Templates) /\ templateIdList \subseteq Templates
  /\ dataUpdated \in BOOLEAN
  /\ workerList \in Seq([worker : Workers, ids : SUBSET Templates])
  /\ workerReady \in [Workers -> BOOLEAN]
  /\ outstanding \in [Workers -> [Templates -> Nat]]
  /\ reached \subseteq Workers
  /\ updates \in 0 .. Len(Tables)
  /\ monitor \in {"idle", "packets", "ids"}
  /\ sender \in [pc : {"idle", "json", "take", "queue", "unready", "track", "reset", "new"},
                 updating : BOOLEAN, left : SUBSET Workers,
                 json : Seq(Templates), todo : Seq(Templates)]
  /\ processor \in [Processors -> [pc : {"idle", "match", "update"},
                                   worker : Workers \cup {Nobody},
                                   template : Templates \cup {Nothing}]]

\* A worker that was sent templates and is not ready can be made ready by reports
\* that its templates were reset: it has an entry (worker_instance_list.cpp:31,
\* :45), or is about to be given one, and every template an entry waits for is one
\* that isMatchingFound finds, although packets and ids are read while they are
\* rebuilt.  Acknowledgements alone may not do: one that arrives between
\* queuePacket and addWorker (sender_core.cpp:198, :206) finds no entry, and the
\* entry made afterwards waits for what was acknowledged already.
UnreadyCanReset ==
  \A w \in Workers :
    w \in reached /\ ~workerReady[w] =>
      \/ sender.pc \in {"unready", "track"} /\ Served = w
      \/ /\ EntriesOf(w) # {} /\ uDataTemplateList # << >>
         /\ \A i \in EntriesOf(w) : workerList[i].ids \subseteq ToSet(uDataTemplateList)

\* A new worker made known to the sender core does not wait for ever
\* (sender_core.cpp:278): it is taken from the list once its packets are queued.
NewWorkersTaken ==
  \A w \in Workers : w \in ToSet(newWorkerList) ~> w \notin ToSet(newWorkerList)

\* "all workers connected are updated with this new information" (README.md:19):
\* when the flag is about to be reset, every worker registered when the update
\* was taken up has had the templates queued, or is about to as a new one.
AllWorkersUpdated ==
  sender.pc = "reset" /\ sender.json # << >> =>
    sender.left \subseteq joining \cup ToSet(newWorkerList)
=============================================================================
