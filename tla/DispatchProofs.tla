--------------------------- MODULE DispatchProofs ---------------------------
(***************************************************************************)
(* User tables on their way through the server, for every number of        *)
(* workers and tables and every size of the sink and of the queues.        *)
(***************************************************************************)
EXTENDS Dispatch, SequenceTheorems, FiniteSetTheorems, FunctionTheorems, TLAPS

-----------------------------------------------------------------------------
(***************************************************************************)
(* The sender sink inside Dispatch: its component Sink, with the monitor   *)
(* for its only pusher and the sender core for its only popper.            *)
(***************************************************************************)

\* Extractor and sender core use the sender sink by pushObject and popObject only
\* (data_extractor.cpp, sender_core.cpp): each step of Dispatch is one of Sink, or
\* leaves the sink alone.
LEMMA SinkUse == Spec => S!Spec
<1>1. Init => S!Init
  BY DEF Init
<1>2. [Next]_vars => [S!Next]_(S!vars)
  <2> SUFFICES ASSUME [Next]_vars
               PROVE  [S!Next]_(S!vars)
    OBVIOUS
  <2>1. ASSUME ExtractTable
        PROVE  S!Next
    BY <2>1 DEF ExtractTable, S!Next
  <2>2. ASSUME PushTable
        PROVE  [S!Next]_(S!vars)
    BY <2>2 DEF PushTable, S!Next, S!vars, sink
  <2>3. ASSUME PopTest
        PROVE  S!Next
    BY <2>3 DEF PopTest, S!Next
  <2>4. ASSUME PopTable
        PROVE  S!Next
    BY <2>4 DEF PopTable, S!Next
  <2>5. ASSUME ~ExtractTable, ~PushTable, ~PopTest, ~PopTable
        PROVE  UNCHANGED sink
    BY <2>5 DEF Next, ExtractorStep, CoreStep, WorkerStep, vars, AddEntry, LookAtSink, FindIdealWorker, ConsiderWorker,
       CompareSizes, KeepWorker, NobodyFound,
       BuildPacket, QueueTest, QueuePacket, AssignWorker, UpdateTaskStatus, Deliver,
       Acknowledge, ReadNullEntry, BeginReport, SetWorkerStats, SetReady, ResetReady
  <2> QED BY <2>1, <2>2, <2>3, <2>4, <2>5 DEF S!vars, sink
<1> QED BY <1>1, <1>2, PTL DEF Spec, S!Spec

\* What is proved of every sink, for this one.
SP == INSTANCE SinkProofs WITH
        Pushers <- {"monitor"}, Poppers <- {"sender"}, crashed <- popCrash

\* The constants of Dispatch meet the assumptions of the sink.
LEMMA SinkConstants == SP!SinkAssumption
<1>1. SP!IsFiniteSet({"monitor"})
  BY SP!FS_Singleton
<1>2. {"monitor"} # {}
  OBVIOUS
<1> QED BY <1>1, <1>2, DispatchAssumption DEF SP!SinkAssumption, SP!TaskPriority

\* The sink of Dispatch is the one SinkProofs speaks of.
LEMMA SameSink == S!Spec => SP!Spec
<1>1. S!Init => SP!Init
  BY DEF S!Init, SP!Init, S!Idle, SP!Idle
<1>2. [S!Next]_(S!vars) => [SP!Next]_(SP!vars)
  BY DEF S!Next, SP!Next, S!vars, SP!vars, S!PushTest, SP!PushTest, S!PushInsert,
     SP!PushInsert, S!PopTest, SP!PopTest, S!PopTake, SP!PopTake, S!Idle, SP!Idle,
     S!HasRoom, SP!HasRoom, S!SeesItem, SP!SeesItem, S!InsertAt, SP!InsertAt,
     S!InsertPosition, SP!InsertPosition, S!Beaten, SP!Beaten, S!NewItem, SP!NewItem,
     S!CalculateStarveCounter, SP!CalculateStarveCounter, S!HIGH_PRIORITY,
     SP!HIGH_PRIORITY, S!MEDIUM_PRIORITY, SP!MEDIUM_PRIORITY
<1> QED BY <1>1, <1>2, PTL DEF S!Spec, SP!Spec

\* The sender core reads the size of the sender sink, chooses a worker, and takes
\* the front much later: it never finds the sink empty, and the sink never holds
\* more than its size (so that the monitor's isSinkFull, which compares with >,
\* never holds it back).
THEOREM SenderSinkSafe ==
  Spec => [](~popCrash /\ Len(sinkItemList) <= MAX_POOL_SIZE)
<1>1. SP!Spec => []SP!NeverPopsEmpty
  <2>1. \A p, q \in {"sender"} : p = q
    OBVIOUS
  <2> QED BY <2>1, SinkConstants, SP!SingleConsumer
<1>2. SP!Spec => []SP!OvershootBound
  BY SinkConstants, SP!Overshoot
<1>3. SP!NeverPopsEmpty /\ SP!OvershootBound =>
        ~popCrash /\ Len(sinkItemList) <= MAX_POOL_SIZE
  <2>1. SP!Cardinality({"monitor"}) = 1
    BY SP!FS_Singleton
  <2>2. MAX_POOL_SIZE \in Nat
    BY DispatchAssumption
  <2> QED BY <2>1, <2>2 DEF SP!NeverPopsEmpty, SP!OvershootBound
<1> QED BY <1>1, <1>2, <1>3, SameSink, SinkUse, PTL

\* What the other proofs use of the sink: the objects in it, in the monitor's
\* hands and handed out are of calls made, and apart.
SinkSafe ==
  /\ S!TypeOK
  /\ popping # {} => sinkItemList # << >>
  /\ \A i \in 1..Len(sinkItemList) :
       /\ sinkItemList[i].object <= calls
       /\ \A j \in 1..Len(popped) : sinkItemList[i].object # popped[j].object
  /\ \A i \in 1..Len(popped) : popped[i].object <= calls
  /\ pushing["monitor"] # S!Idle =>
       /\ pushing["monitor"].object <= calls
       /\ \A i \in 1..Len(popped) : popped[i].object # pushing["monitor"].object

\* SinkSafe holds whatever the other threads of Dispatch do.
LEMMA SinkFacts == Spec => []SinkSafe
<1>1. SP!Spec => []SP!TypeOK
  BY SinkConstants, SP!Typing
<1>2. SP!Spec => [](SP!PopperHasItem /\ SP!NeverPopsEmpty)
  <2>1. \A p, q \in {"sender"} : p = q
    OBVIOUS
  <2> QED BY <2>1, SinkConstants, SP!ConsumerInvariant
<1>3. SP!Spec => []SP!FreshInv
  BY SinkConstants, SP!Freshness
<1>4. SP!Spec => []SP!DistinctInv
  BY SinkConstants, SP!Distinctness
<1>5. SP!TypeOK /\ SP!PopperHasItem /\ SP!FreshInv /\ SP!DistinctInv => SinkSafe
  <2> SUFFICES ASSUME SP!TypeOK, SP!PopperHasItem, SP!FreshInv, SP!DistinctInv
               PROVE  SinkSafe
    OBVIOUS
  <2>1. S!TypeOK
    BY DEF S!TypeOK, SP!TypeOK, S!Item, SP!Item, S!Call, SP!Call, S!Idle, SP!Idle,
       S!Object, SP!Object
  <2>2. pushing["monitor"] # S!Idle => "monitor" \in SP!Inserting
    BY DEF SP!Inserting, S!Idle, SP!Idle
  <2> QED BY <2>1, <2>2 DEF SinkSafe, SP!PopperHasItem, SP!FreshInv, SP!Fresh,
          SP!DistinctInv
<1> QED BY <1>1, <1>2, <1>3, <1>4, <1>5, SameSink, SinkUse, PTL

-----------------------------------------------------------------------------
(***************************************************************************)
(* Type correctness.  TypeOK is strengthened by what the search needs: the *)
(* statistics a worker reported have threads to divide by.                 *)
(***************************************************************************)
Reported == {s \in Stats : s.threads > 0}
CoreType == [pc : CorePc, priority : 0..3, i : 0..Len(WorkerList)+1,
             new : Score \cup {NoScore}, best : Score \cup {NoScore},
             scores : SUBSET Score, shrank : BOOLEAN,
             packet : [table : 0..MaxObjects, entry : BOOLEAN]]
Holding  == {"build", "test", "queue", "assign", "status"}
Weighing == {"compare", "keep"}

\* The extractor and the entries of the registry.
RegistryTyped ==
  /\ extractor \in {"idle", "push", "add"}
  /\ extractor # "idle" => calls # 0
  /\ entries \subseteq Tables
  /\ dataWorker \in [Tables -> Workers \cup {NoWorker}]
  /\ taskStatus \in [Tables -> {DATA_QUEUED, DATA_READY}]

\* What the workers reported.
StatsTyped ==
  /\ workerReady \subseteq Workers
  /\ workerStats \in [Workers -> Reported \cup {NoStats}]
  /\ reporting \in [Workers -> Reported \cup {NoStats}]
  /\ reports \in 0..MaxReports

\* The queues of the workers.
QueuesTyped ==
  /\ senderQueue \in [Workers -> Seq(Packet)]
  /\ unacked \in [Workers -> SUBSET Packet]
  /\ acked \subseteq Tables
  /\ handed \in [Tables -> Workers \cup {NoWorker}]

\* The sender core, which has chosen a worker whenever it is past the search.
CoreTyped ==
  /\ core \in CoreType
  /\ core.best \in core.scores \cup {NoScore}
  /\ core.pc \in Weighing => core.new \in Score /\ core.i \in DOMAIN WorkerList
  /\ core.pc \notin Searching => core.best # NoScore
  /\ core.pc \in Holding => core.packet.table # 0
  /\ crashed \in BOOLEAN

Typed == RegistryTyped /\ StatsTyped /\ QueuesTyped /\ CoreTyped

\* The sum over priorities, a recursion over 0..3, is unfolded.
LEMMA TasksUpToType ==
  ASSUME NEW tasks \in [0..3 -> Nat], NEW priority \in 0..3
  PROVE  TasksUpTo(tasks, priority) \in Nat
<1> DEFINE upTo == CHOOSE f : f = [p \in 0..3 |->
                     tasks[p] + IF p = 0 THEN 0 ELSE f[p - 1]]
           g == [p \in 0..3 |-> CASE p = 0 -> tasks[0]
                                 [] p = 1 -> tasks[1] + tasks[0]
                                 [] p = 2 -> tasks[2] + (tasks[1] + tasks[0])
                                 [] OTHER ->
                                      tasks[3] + (tasks[2] + (tasks[1] + tasks[0]))]
<1>1. g = [p \in 0..3 |-> tasks[p] + IF p = 0 THEN 0 ELSE g[p - 1]]
  <2>1. tasks[0] \in Nat /\ tasks[1] \in Nat /\ tasks[2] \in Nat /\ tasks[3] \in Nat
    OBVIOUS
  <2>2. \A p \in 0..3 : p = 0 \/ p = 1 \/ p = 2 \/ p = 3
    OBVIOUS
  <2>3. /\ g[0] = tasks[0] /\ g[1] = tasks[1] + g[0]
        /\ g[2] = tasks[2] + g[1] /\ g[3] = tasks[3] + g[2]
    OBVIOUS
  <2>4. \A p \in 0..3 : g[p] = tasks[p] + IF p = 0 THEN 0 ELSE g[p - 1]
    <3> HIDE DEF g
    <3>1. 1 - 1 = 0 /\ 2 - 1 = 1 /\ 3 - 1 = 2
      OBVIOUS
    <3>2. tasks[0] + 0 = tasks[0]
      BY <2>1
    <3> QED BY <2>2, <2>3, <3>1, <3>2
  <2> QED BY <2>4
<1>2. upTo = [p \in 0..3 |-> tasks[p] + IF p = 0 THEN 0 ELSE upTo[p - 1]]
  <2> HIDE DEF g
  <2> QED BY <1>1
<1> HIDE DEF upTo, g
<1>3. upTo[0] \in Nat
  BY <1>2
<1>4. upTo[1] \in Nat
  BY <1>2, <1>3
<1>5. upTo[2] \in Nat
  BY <1>2, <1>4
<1>6. upTo[3] \in Nat
  BY <1>2, <1>5
<1>7. priority = 0 \/ priority = 1 \/ priority = 2 \/ priority = 3
  OBVIOUS
<1>8. upTo[priority] \in Nat
  BY <1>3, <1>4, <1>5, <1>6, <1>7
<1> QED BY <1>8 DEF TasksUpTo, upTo

\* There are finitely many packets, so the unacknowledged ones can be counted.
LEMMA PacketsFinite == \A T \in SUBSET Packet : Cardinality(T) \in Nat
<1> DEFINE f == [p \in Tables \X BOOLEAN |-> [table |-> p[1], entry |-> p[2]]]
<1>1. IsFiniteSet(Tables)
  BY FS_Interval, DispatchAssumption DEF Tables
<1>2. IsFiniteSet(Tables \X BOOLEAN)
  <2>1. IsFiniteSet(BOOLEAN)
    <3>1. BOOLEAN = {TRUE, FALSE}
      OBVIOUS
    <3>2. IsFiniteSet({TRUE} \cup {FALSE})
      BY FS_Singleton, FS_Union
    <3>3. {TRUE} \cup {FALSE} = {TRUE, FALSE}
      OBVIOUS
    <3> QED BY <3>1, <3>2, <3>3
  <2> QED BY <1>1, <2>1, FS_Product
<1>3. f \in Surjection(Tables \X BOOLEAN, Packet)
  <2>1. f \in [Tables \X BOOLEAN -> Packet]
    BY DEF Packet
  <2>2. \A q \in Packet : \E p \in Tables \X BOOLEAN : f[p] = q
    <3> TAKE q \in Packet
    <3>1. q.table \in Tables /\ q.entry \in BOOLEAN
          /\ q = [table |-> q.table, entry |-> q.entry]
      BY DEF Packet
    <3>2. <<q.table, q.entry>> \in Tables \X BOOLEAN
      BY <3>1
    <3>3. f[<<q.table, q.entry>>] = q
      BY <3>1, <3>2
    <3> QED BY <3>2, <3>3
  <2> HIDE DEF f
  <2> QED BY <2>1, <2>2, Fun_IsSurj
<1> HIDE DEF f
<1>4. IsFiniteSet(Packet)
  BY <1>2, <1>3, FS_Surjection
<1> QED BY <1>4, FS_Subset, FS_CardinalityType

\* What findIdealWorker makes of a worker that has reported is a fraction: a
\* reader that meets the statistics half assigned still finds threads in them.
LEMMA ScoreType ==
  ASSUME Typed, NEW w \in Workers, NEW s \in Readable(w), s.tasks # << >>,
         NEW priority \in 0..3
  PROVE  ScoreOf(w, s, priority) \in Score
<1>1. workerStats[w] \in Reported \cup {NoStats} /\ reporting[w] \in Reported \cup {NoStats}
  BY DEF Typed, StatsTyped
<1>2. \A r \in Reported : /\ r = [threads |-> r.threads, tasks |-> r.tasks, avg |-> r.avg]
                          /\ r.threads \in Nat /\ r.threads > 0
                          /\ r.tasks \in [0..3 -> Nat] /\ r.avg \in Nat
  BY DEF Reported, Stats
<1>3. s.threads \in Nat \ {0} /\ s.tasks \in [0..3 -> Nat] /\ s.avg \in Nat
  <2>1. CASE reporting[w] = NoStats
    BY <1>1, <1>2, <2>1 DEF Readable, NoStats
  <2>2. CASE reporting[w] # NoStats
    <3> DEFINE old == workerStats[w]
               new == reporting[w]
    <3>1. new \in Reported
      BY <1>1, <2>2
    <3>2. s \in {old, [old EXCEPT !.threads = new.threads], [new EXCEPT !.avg = old.avg], new}
      BY <2>2 DEF Readable
    <3>3. old.avg \in Nat
      BY <1>1, <1>2 DEF NoStats
    <3>4. CASE s = old
      BY <1>1, <1>2, <3>4 DEF NoStats
    <3>5. CASE s = [old EXCEPT !.threads = new.threads]
      <4>1. CASE old \in Reported
        BY <1>2, <3>1, <3>5, <4>1
      <4>2. CASE old = NoStats
        BY <3>5, <4>2 DEF NoStats
      <4> QED BY <1>1, <4>1, <4>2
    <3>6. CASE s = [new EXCEPT !.avg = old.avg]
      BY <1>2, <3>1, <3>3, <3>6
    <3>7. CASE s = new
      BY <1>2, <3>1, <3>7
    <3> QED BY <3>2, <3>4, <3>5, <3>6, <3>7
  <2> QED BY <2>1, <2>2
<1>4. TasksUpTo(s.tasks, priority) \in Nat
  BY <1>3, TasksUpToType
<1>5. s.avg * TasksUpTo(s.tasks, priority) \in Nat
  BY <1>3, <1>4
<1> QED BY <1>3, <1>5 DEF ScoreOf, Score

\* The worker in hand with the size of its queue.
LEMMA SizedType ==
  ASSUME Typed, core.new \in Score
  PROVE  /\ SizedNew \in Score /\ SizedNew.worker = core.new.worker
         /\ SizedNew.num = core.new.num /\ SizedNew.den = core.new.den
<1>1. PICK w \in Workers : w = core.new.worker
  BY DEF Score
<1>2. GetQueueSize(w) \in Int
  <2>1. Len(senderQueue[w]) \in Nat
    BY LenProperties DEF Typed, QueuesTyped
  <2>2. Cardinality(unacked[w]) \in Nat
    BY PacketsFinite DEF Typed, QueuesTyped
  <2> QED BY <2>1, <2>2 DEF GetQueueSize
<1>3. PICK z \in Int : z = GetQueueSize(w)
  BY <1>2
<1>4. SizedNew = [core.new EXCEPT !.size = z]
  BY <1>1, <1>3 DEF SizedNew
<1> QED BY <1>4 DEF Score

\* The worker that was chosen is one of the list.
LEMMA BestWorker ==
  ASSUME Typed, core.pc \notin Searching
  PROVE  core.best \in Score /\ core.best.worker \in Workers
BY DEF Typed, CoreTyped, CoreType, Score

\* The initial state is well typed.
LEMMA TypedInit == Init => Typed
<1> SUFFICES ASSUME Init PROVE Typed
  OBVIOUS
<1> USE DispatchAssumption
<1>1. RegistryTyped
  BY DEF Init, RegistryTyped
<1>2. StatsTyped
  BY DEF Init, StatsTyped
<1>3. QueuesTyped
  BY DEF Init, QueuesTyped
<1>4. CoreTyped
  <2>1. Len(WorkerList) \in Nat
    BY LenProperties
  <2>2. core \in CoreType
    BY <2>1 DEF Init, Idle, CoreType, CorePc
  <2> QED BY <2>2 DEF Init, Idle, CoreTyped, Holding, Weighing, Searching
<1> QED BY <1>1, <1>2, <1>3, <1>4 DEF Typed

\* The extractor adds the entry of the table it numbered; only entries that exist
\* get a worker and a status.
LEMMA RegistryStep ==
  ASSUME S!TypeOK, Typed, [Next]_vars
  PROVE  RegistryTyped'
<1>0. calls \in 0..MaxObjects
  BY DEF S!TypeOK
<1>1. ASSUME ExtractTable
      PROVE  RegistryTyped'
  <2>1. calls' = calls + 1
    BY <1>1 DEF ExtractTable, S!PushTest
  <2>2. calls' # 0
    BY <1>0, <2>1
  <2> QED BY <1>1, <2>2 DEF ExtractTable, Typed, RegistryTyped, registry
<1>2. ASSUME PushTable
      PROVE  RegistryTyped'
  <2>1. calls' = calls
    BY <1>2 DEF PushTable, S!PushInsert, sink
  <2> QED BY <1>2, <2>1 DEF PushTable, Typed, RegistryTyped, registry
<1>3. ASSUME AddEntry
      PROVE  RegistryTyped'
  <2>1. calls \in Tables
    BY <1>0, <1>3 DEF AddEntry, Typed, RegistryTyped, Tables
  <2>2. entries' \subseteq Tables
    BY <1>3, <2>1 DEF AddEntry, Typed, RegistryTyped
  <2> QED BY <1>3, <2>2 DEF AddEntry, Typed, RegistryTyped
<1>4. ASSUME AssignWorker
      PROVE  RegistryTyped'
  <2>1. core.best.worker \in Workers
    BY <1>4, BestWorker DEF AssignWorker, CoreAt, Searching
  <2>2. dataWorker' \in [Tables -> Workers \cup {NoWorker}]
    BY <1>4, <2>1 DEF AssignWorker, Typed, RegistryTyped
  <2> QED BY <1>4, <2>2 DEF AssignWorker, Typed, RegistryTyped, sink
<1>5. ASSUME UpdateTaskStatus
      PROVE  RegistryTyped'
  <2>1. taskStatus' \in [Tables -> {DATA_QUEUED, DATA_READY}]
    BY <1>5 DEF UpdateTaskStatus, Typed, RegistryTyped
  <2> QED BY <1>5, <2>1 DEF UpdateTaskStatus, Typed, RegistryTyped, sink
<1>6. ASSUME ~ExtractTable, ~PushTable, ~AddEntry, ~AssignWorker, ~UpdateTaskStatus
      PROVE  RegistryTyped'
  <2>1. UNCHANGED <<registry, extractor, calls>>
    BY <1>6 DEF Next, ExtractorStep, CoreStep, WorkerStep, vars, sink, LookAtSink, FindIdealWorker,
       ConsiderWorker, CompareSizes, KeepWorker, NobodyFound, PopTest, PopTable, S!PopTest, S!PopTake,
       BuildPacket, QueueTest, QueuePacket, Deliver, Acknowledge, ReadNullEntry,
       BeginReport, SetWorkerStats, SetReady, ResetReady
  <2> QED BY <2>1 DEF Typed, RegistryTyped, registry
<1> QED BY <1>1, <1>2, <1>3, <1>4, <1>5, <1>6

\* A report is assigned as it came.
LEMMA StatsStep ==
  ASSUME Typed, [Next]_vars
  PROVE  StatsTyped'
<1>1. ASSUME NEW w \in Workers, NEW s \in Reports[w], BeginReport(w, s)
      PROVE  StatsTyped'
  <2>1. s \in Reported
    BY DispatchAssumption DEF Reported
  <2>2. reporting' \in [Workers -> Reported \cup {NoStats}]
    BY <1>1, <2>1 DEF BeginReport, Typed, StatsTyped
  <2>3. reports' \in 0..MaxReports
    BY <1>1, DispatchAssumption DEF BeginReport, Typed, StatsTyped
  <2> QED BY <1>1, <2>2, <2>3 DEF BeginReport, Typed, StatsTyped
<1>2. ASSUME NEW w \in Workers, SetWorkerStats(w)
      PROVE  StatsTyped'
  <2>1. /\ workerStats' \in [Workers -> Reported \cup {NoStats}]
        /\ reporting' \in [Workers -> Reported \cup {NoStats}]
    BY <1>2 DEF SetWorkerStats, Typed, StatsTyped
  <2> QED BY <1>2, <2>1 DEF SetWorkerStats, Typed, StatsTyped
<1>3. ASSUME NEW w \in Workers, SetReady(w) \/ ResetReady(w)
      PROVE  StatsTyped'
  BY <1>3 DEF SetReady, ResetReady, Typed, StatsTyped, stats
<1>4. ASSUME UNCHANGED <<workerReady, stats>>
      PROVE  StatsTyped'
  BY <1>4 DEF Typed, StatsTyped, stats
<1>5. CASE ExtractorStep \/ CoreStep \/ UNCHANGED vars
  BY <1>4, <1>5 DEF ExtractorStep, CoreStep, vars, ExtractTable, PushTable, AddEntry,
     LookAtSink, FindIdealWorker, ConsiderWorker,
       CompareSizes, KeepWorker, NobodyFound, PopTest, PopTable, BuildPacket,
     QueueTest, QueuePacket, AssignWorker, UpdateTaskStatus
<1>6. CASE \E w \in Workers : Deliver(w) \/ ReadNullEntry(w) \/
             \E packet \in Packet : Acknowledge(w, packet)
  BY <1>4, <1>6 DEF Deliver, ReadNullEntry, Acknowledge
<1> QED BY <1>1, <1>2, <1>3, <1>5, <1>6 DEF Next, WorkerStep

\* Packets go from the sender core to a queue, from there to the unacknowledged.
LEMMA QueuesStep ==
  ASSUME Typed, [Next]_vars
  PROVE  QueuesTyped'
<1>1. ASSUME QueueTest
      PROVE  QueuesTyped'
  <2>1. core.best.worker \in Workers
    BY <1>1, BestWorker DEF QueueTest, CoreAt, Searching
  <2>2. handed' \in [Tables -> Workers \cup {NoWorker}]
    BY <1>1, <2>1 DEF QueueTest, HandTo, Typed, QueuesTyped
  <2> QED BY <1>1, <2>2 DEF QueueTest, Typed, QueuesTyped
<1>2. ASSUME QueuePacket
      PROVE  QueuesTyped'
  <2>1. core.best.worker \in Workers
    BY <1>2, BestWorker DEF QueuePacket, CoreAt, Searching
  <2>2. handed' \in [Tables -> Workers \cup {NoWorker}]
    BY <1>2, <2>1 DEF QueuePacket, HandTo, Typed, QueuesTyped
  <2>3. core.packet \in Packet
    BY <1>2 DEF QueuePacket, CoreAt, Typed, CoreTyped, CoreType, Holding, Packet, Tables
  <2>4. Append(senderQueue[core.best.worker], core.packet) \in Seq(Packet)
    BY <2>1, <2>3, AppendProperties DEF Typed, QueuesTyped
  <2>5. senderQueue' \in [Workers -> Seq(Packet)]
    BY <1>2, <2>1, <2>4 DEF QueuePacket, Typed, QueuesTyped
  <2> QED BY <1>2, <2>2, <2>5 DEF QueuePacket, Typed, QueuesTyped
<1>3. ASSUME NEW w \in Workers, Deliver(w)
      PROVE  QueuesTyped'
  <2>1. Head(senderQueue[w]) \in Packet /\ Tail(senderQueue[w]) \in Seq(Packet)
    BY <1>3, HeadTailProperties DEF Deliver, Typed, QueuesTyped
  <2>2. senderQueue' \in [Workers -> Seq(Packet)]
    BY <1>3, <2>1 DEF Deliver, Typed, QueuesTyped
  <2>3. unacked' \in [Workers -> SUBSET Packet]
    BY <1>3, <2>1 DEF Deliver, Typed, QueuesTyped
  <2> QED BY <1>3, <2>2, <2>3 DEF Deliver, Typed, QueuesTyped
<1>4. ASSUME NEW w \in Workers, NEW packet \in Packet, Acknowledge(w, packet)
      PROVE  QueuesTyped'
  <2>1. unacked' \in [Workers -> SUBSET Packet]
    BY <1>4 DEF Acknowledge, Typed, QueuesTyped
  <2>2. acked' \subseteq Tables
    BY <1>4 DEF Acknowledge, Typed, QueuesTyped, Packet
  <2> QED BY <1>4, <2>1, <2>2 DEF Acknowledge, Typed, QueuesTyped
<1>5. ASSUME UNCHANGED worker
      PROVE  QueuesTyped'
  BY <1>5 DEF Typed, QueuesTyped, worker
<1>6. ASSUME ~QueueTest, ~QueuePacket, ~(\E w \in Workers : Deliver(w)),
             ~(\E w \in Workers : \E packet \in Packet : Acknowledge(w, packet))
      PROVE  UNCHANGED worker
  BY <1>6 DEF Next, ExtractorStep, CoreStep, WorkerStep, vars, ExtractTable, PushTable,
     AddEntry, LookAtSink, FindIdealWorker, ConsiderWorker,
       CompareSizes, KeepWorker, NobodyFound, PopTest, PopTable, BuildPacket,
     AssignWorker, UpdateTaskStatus, ReadNullEntry, BeginReport, SetWorkerStats,
     SetReady, ResetReady
<1> QED BY <1>1, <1>2, <1>3, <1>4, <1>5, <1>6

\* The worker findIdealWorker looks at next is one of the list.
LEMMA ListedWorker ==
  ASSUME core.i \in DOMAIN WorkerList
  PROVE  WorkerList[core.i] \in Workers
BY DEF Workers

\* Only a ready worker that has reported is considered.
LEMMA ConsiderCases ==
  ASSUME Typed, ConsiderWorker
  PROVE  \/ core' = NextWorker
         \/ \E new \in Score : core' = Weigh(new) /\ new.worker \in workerReady
<1> DEFINE w == WorkerList[core.i]
<1>1. w \in Workers
  BY ListedWorker DEF ConsiderWorker
<1>2. core.priority \in 0..3
  BY DEF Typed, CoreTyped, CoreType
<1> HIDE DEF w
<1>3. PICK s \in Readable(w) :
        core' = IF IsCandidate(w, s) THEN Weigh(ScoreOf(w, s, core.priority)) ELSE NextWorker
  BY DEF ConsiderWorker, w
<1>4. CASE IsCandidate(w, s)
  <2>1. ScoreOf(w, s, core.priority) \in Score
    BY <1>1, <1>2, <1>4, ScoreType DEF IsCandidate
  <2>2. ScoreOf(w, s, core.priority).worker = w
    BY DEF ScoreOf
  <2>3. core' = Weigh(ScoreOf(w, s, core.priority))
    BY <1>3, <1>4
  <2> QED BY <1>4, <2>1, <2>2, <2>3 DEF IsCandidate
<1>5. CASE ~IsCandidate(w, s)
  BY <1>3, <1>5
<1> QED BY <1>4, <1>5

\* The loop goes on to the next worker.
LEMMA OnwardShape ==
  ASSUME Typed, core.i \in DOMAIN WorkerList, NEW x \in Score
  PROVE  /\ NextWorker \in CoreType /\ PassOver(x) \in CoreType
         /\ NextWorker.pc = "scan" /\ PassOver(x).pc = "scan"
         /\ NextWorker.best = core.best /\ PassOver(x).best = core.best
         /\ NextWorker.shrank = core.shrank /\ PassOver(x).shrank = core.shrank
         /\ NextWorker.packet = core.packet /\ PassOver(x).packet = core.packet
         /\ NextWorker.scores = core.scores /\ PassOver(x).scores = core.scores \cup {x}
<1>1. core \in CoreType /\ core.i + 1 \in 0..Len(WorkerList)+1
  BY DispatchAssumption, LenProperties DEF Typed, CoreTyped, CoreType
<1>2. NextWorker \in CoreType /\ NextWorker.pc = "scan" /\ NextWorker.best = core.best
      /\ NextWorker.shrank = core.shrank /\ NextWorker.packet = core.packet
      /\ NextWorker.scores = core.scores
  BY <1>1 DEF NextWorker, CoreType, CorePc
<1>3. core.scores \cup {x} \in SUBSET Score
  BY <1>1 DEF CoreType
<1>4. PassOver(x) = [NextWorker EXCEPT !.scores = core.scores \cup {x}]
  BY <1>2 DEF PassOver
<1> QED BY <1>2, <1>3, <1>4 DEF CoreType

\* A step of findIdealWorker stays in the search, and keeps types and packet.
LEMMA SearchShape ==
  ASSUME Typed, FindIdealWorker
  PROVE  /\ core.pc \in {"scan", "compare", "keep"}
         /\ core'.pc \in {"scan", "compare", "keep"}
         /\ core' \in CoreType /\ core'.packet = core.packet
         /\ core'.best \in core'.scores \cup {NoScore}
         /\ core'.pc \in Weighing => core'.new \in Score /\ core'.i \in DOMAIN WorkerList
         /\ crashed' \in BOOLEAN
<1>0. /\ core \in CoreType /\ core.best \in core.scores \cup {NoScore}
      /\ crashed \in BOOLEAN
  BY DEF Typed, CoreTyped
<1>1. CASE ConsiderWorker
  <2>1. core.pc = "scan" /\ core.i \in DOMAIN WorkerList /\ crashed' \in BOOLEAN
    BY <1>1 DEF ConsiderWorker, CoreAt
  <2>2. CASE core' = NextWorker
    <3>1. NextWorker = [core EXCEPT !.pc = "scan", !.i = core.i + 1, !.new = NoScore]
      BY DEF NextWorker
    <3>2. core.i + 1 \in 0..Len(WorkerList)+1
      BY <2>1, DispatchAssumption, LenProperties
    <3> QED BY <1>0, <2>1, <2>2, <3>1, <3>2 DEF CoreType, CorePc, Weighing
  <2>3. ASSUME NEW new \in Score, core' = Weigh(new)
        PROVE  /\ core'.pc \in {"scan", "compare", "keep"}
               /\ core' \in CoreType /\ core'.packet = core.packet
               /\ core'.best \in core'.scores \cup {NoScore}
               /\ core'.pc \in Weighing =>
                    core'.new \in Score /\ core'.i \in DOMAIN WorkerList
    <3>1. CASE core' = PassOver(new)
      BY <1>0, <2>1, <3>1, OnwardShape DEF Weighing
    <3>2. CASE \E pc \in Weighing : core' = [core EXCEPT !.pc = pc, !.new = new]
      BY <1>0, <2>1, <3>2 DEF CoreType, CorePc, Weighing
    <3>3. core' = PassOver(new) \/
          \E pc \in Weighing : core' = [core EXCEPT !.pc = pc, !.new = new]
      <4>1. PICK pc : pc = IF Equal(new, core.best) THEN "compare" ELSE "keep"
        OBVIOUS
      <4>2. pc \in Weighing /\ "keep" \in Weighing
        BY <4>1 DEF Weighing
      <4>3. \/ core' = [core EXCEPT !.pc = "keep", !.new = new]
            \/ core' = PassOver(new)
            \/ core' = [core EXCEPT !.pc = pc, !.new = new]
        BY <2>3, <4>1 DEF Weigh
      <4> QED BY <4>2, <4>3
    <3> QED BY <3>1, <3>2, <3>3
  <2> QED BY <1>1, <2>1, <2>2, <2>3, ConsiderCases
<1>2. CASE CompareSizes
  <2>1. core.pc = "compare" /\ crashed' \in BOOLEAN /\ core.new \in Score
        /\ core.i \in DOMAIN WorkerList
    BY <1>0, <1>2 DEF CompareSizes, CoreAt, Typed, CoreTyped, Weighing
  <2>2. PICK x \in Score : x = SizedNew
    BY <2>1, SizedType
  <2>3. core' = PassOver(x) \/ core' = [core EXCEPT !.pc = "keep", !.new = x]
    BY <1>2, <2>2 DEF CompareSizes
  <2>4. CASE core' = PassOver(x)
    BY <1>0, <2>1, <2>4, OnwardShape DEF Weighing
  <2>5. CASE core' = [core EXCEPT !.pc = "keep", !.new = x]
    BY <1>0, <2>1, <2>5 DEF CoreType, CorePc, Weighing
  <2> QED BY <2>1, <2>3, <2>4, <2>5
<1>3. CASE KeepWorker
  <2>1. core.pc = "keep" /\ crashed' \in BOOLEAN /\ core.new \in Score
        /\ core.i \in DOMAIN WorkerList
    BY <1>0, <1>3 DEF KeepWorker, CoreAt, Typed, CoreTyped, Weighing
  <2>2. PICK x \in Score : x = SizedNew
    BY <2>1, SizedType
  <2>3. PICK y : y = PassOver(x)
    OBVIOUS
  <2>4. y \in CoreType /\ y.pc = "scan" /\ y.packet = core.packet
        /\ y.scores = core.scores \cup {x}
    BY <2>1, <2>3, OnwardShape
  <2>5. \E b \in BOOLEAN : core' = [y EXCEPT !.best = x, !.shrank = b]
    <3>1. PICK b \in BOOLEAN : b = ((core.best # NoScore /\ Equal(core.new, core.best))
                                    /\ (y.shrank \/ x.size > core.new.size))
      OBVIOUS
    <3> QED BY <1>3, <2>2, <2>3, <3>1 DEF KeepWorker
  <2> QED BY <2>1, <2>4, <2>5 DEF CoreType, CorePc, Weighing
<1> QED BY <1>1, <1>2, <1>3 DEF FindIdealWorker

\* The sender core: each step of it, and the others that may end the program.
LEMMA CoreTypeStep ==
  ASSUME SinkSafe, Typed, [Next]_vars
  PROVE  CoreTyped'
<1>0. /\ core \in CoreType /\ Len(WorkerList) \in Nat
      /\ DOMAIN WorkerList = 1..Len(WorkerList)
      /\ NoWorker \notin Workers /\ crashed \in BOOLEAN
  BY DispatchAssumption, LenProperties DEF Typed, CoreTyped
<1>1. ASSUME LookAtSink
      PROVE  CoreTyped'
  <2>1. sinkItemList \in Seq(S!Item) /\ sinkItemList # << >>
    BY <1>1 DEF LookAtSink, IsSinkEmpty, SinkSafe, S!TypeOK
  <2>2. Head(sinkItemList) \in S!Item
    BY <2>1, HeadTailProperties
  <2>3. GetTopTaskPriority \in 0..3
    BY <2>2, DispatchAssumption DEF S!Item, GetTopTaskPriority
  <2>4. core' = [Idle EXCEPT !.pc = "scan", !.priority = GetTopTaskPriority, !.i = 1]
    BY <1>1 DEF LookAtSink
  <2>5. /\ core' \in CoreType /\ core'.best = NoScore /\ core'.pc = "scan"
    <3>1. Idle \in CoreType /\ Idle.best = NoScore
      BY <1>0, DispatchAssumption DEF Idle, CoreType, CorePc
    <3>2. 1 \in 0..Len(WorkerList)+1
      BY <1>0
    <3> QED BY <2>3, <2>4, <3>1, <3>2 DEF CoreType, CorePc
  <2> QED BY <1>0, <1>1, <2>5 DEF LookAtSink, CoreTyped, Holding, Weighing, Searching
<1>2. ASSUME FindIdealWorker
      PROVE  CoreTyped'
  BY <1>2, SearchShape DEF Typed, CoreTyped, Holding, Searching
<1>3. ASSUME NobodyFound \/ UpdateTaskStatus
      PROVE  CoreTyped'
  <2>1. core' = Idle
    BY <1>3 DEF NobodyFound, UpdateTaskStatus
  <2>2. Idle \in CoreType
    BY <1>0, DispatchAssumption DEF Idle, CoreType, CorePc
  <2>3. Idle.pc = "idle" /\ Idle.best = NoScore
    BY DEF Idle
  <2> QED BY <1>0, <1>3, <2>1, <2>2, <2>3
          DEF CoreTyped, Holding, Weighing, Searching, NobodyFound, UpdateTaskStatus
<1>4. ASSUME PopTest
      PROVE  CoreTyped'
  <2>1. /\ core' = [core EXCEPT !.pc = "take"] /\ core.best # NoScore
        /\ crashed' = crashed
    BY <1>4 DEF PopTest
  <2>2. core' \in CoreType /\ core'.pc = "take" /\ core'.best = core.best
        /\ core'.scores = core.scores
    BY <1>0, <2>1 DEF CoreType, CorePc
  <2> QED BY <1>0, <2>1, <2>2 DEF Typed, CoreTyped, Holding, Weighing, Searching
<1>5. ASSUME PopTable
      PROVE  CoreTyped'
  <2>1. sinkItemList \in Seq(S!Item) /\ sinkItemList # << >>
    BY <1>5 DEF PopTable, S!PopTake, SinkSafe, S!TypeOK
  <2>2. Head(sinkItemList) \in S!Item
    BY <2>1, HeadTailProperties
  <2>3. Head(sinkItemList).object \in Tables
    BY <2>2 DEF S!Item, S!Object, Tables
  <2>4. /\ core' = [core EXCEPT !.pc = "build", !.packet.table = Head(sinkItemList).object]
        /\ core.pc = "take" /\ crashed' = crashed
    BY <1>5 DEF PopTable, CoreAt
  <2> DEFINE o == Head(sinkItemList).object
  <2> HIDE DEF o
  <2>5. /\ core' \in CoreType /\ core'.pc = "build" /\ core'.best = core.best
        /\ core'.scores = core.scores /\ core'.packet.table # 0
    <3>1. o \in 0..MaxObjects /\ o # 0
      BY <2>3, DispatchAssumption DEF Tables, o
    <3>2. core' = [core EXCEPT !.pc = "build", !.packet.table = o]
      BY <2>4 DEF o
    <3> QED BY <1>0, <3>1, <3>2 DEF CoreType, CorePc
  <2> QED BY <1>0, <2>4, <2>5 DEF Typed, CoreTyped, Holding, Weighing, Searching
<1>6. ASSUME BuildPacket
      PROVE  CoreTyped'
  <2> DEFINE e == core.packet.table \in entries
  <2>1. /\ core' = [core EXCEPT !.pc = "test", !.packet.entry = e]
        /\ core.pc = "build" /\ crashed' \in BOOLEAN /\ e \in BOOLEAN
    BY <1>6 DEF BuildPacket, CoreAt
  <2> HIDE DEF e
  <2>2. /\ core' \in CoreType /\ core'.pc = "test" /\ core'.best = core.best
        /\ core'.scores = core.scores /\ core'.packet.table = core.packet.table
    BY <1>0, <2>1 DEF CoreType, CorePc
  <2> QED BY <2>1, <2>2 DEF Typed, CoreTyped, Holding, Weighing, Searching
<1>7. ASSUME QueueTest \/ QueuePacket \/ AssignWorker
      PROVE  CoreTyped'
  <2>1. /\ \E pc \in {"queue", "assign", "status"} : core' = [core EXCEPT !.pc = pc]
        /\ core.pc \in {"test", "queue", "assign"} /\ crashed' = crashed
    BY <1>7 DEF QueueTest, QueuePacket, AssignWorker, CoreAt
  <2>2. PICK pc \in {"queue", "assign", "status"} : core' = [core EXCEPT !.pc = pc]
    BY <2>1
  <2>3. /\ core' \in CoreType /\ core'.pc = pc /\ core'.best = core.best
        /\ core'.scores = core.scores /\ core'.packet = core.packet
    BY <1>0, <2>2 DEF CoreType, CorePc
  <2> QED BY <1>0, <2>1, <2>3 DEF Typed, CoreTyped, Holding, Weighing, Searching
<1>8. ASSUME core' = core, crashed' \in BOOLEAN
      PROVE  CoreTyped'
  BY <1>8 DEF Typed, CoreTyped
<1>9. ASSUME ~CoreStep
      PROVE  core' = core /\ crashed' \in BOOLEAN
  BY <1>0, <1>9 DEF Next, ExtractorStep, WorkerStep, vars, ExtractTable, PushTable,
     AddEntry, Deliver, Acknowledge, ReadNullEntry, BeginReport, SetWorkerStats,
     SetReady, ResetReady
<1> QED BY <1>1, <1>2, <1>3, <1>4, <1>5, <1>6, <1>7, <1>8, <1>9 DEF CoreStep

\* Typed is inductive over what is proved of the sink.
LEMMA TypedInvariant == Spec => []Typed
<1>1. SinkSafe /\ Typed /\ [Next]_vars => Typed'
  <2> SUFFICES ASSUME SinkSafe, Typed, [Next]_vars PROVE Typed'
    OBVIOUS
  <2> QED BY RegistryStep, StatsStep, QueuesStep, CoreTypeStep DEF Typed, SinkSafe
<1> QED BY <1>1, TypedInit, SinkFacts, PTL DEF Spec

\* TypeOK holds in every state: the core never scores a worker that has no threads
\* (sender_core.cpp divides by them), goes on without a worker, or packs no table.
THEOREM DispatchTyping == Spec => []TypeOK
<1>1. SinkSafe /\ Typed => TypeOK
  <2> SUFFICES ASSUME SinkSafe, Typed PROVE TypeOK
    OBVIOUS
  <2>1. S!TypeOK
    BY DEF SinkSafe
  <2>2. /\ extractor \in {"idle", "push", "add"} /\ entries \subseteq Tables
        /\ dataWorker \in [Tables -> Workers \cup {NoWorker}]
        /\ taskStatus \in [Tables -> {DATA_QUEUED, DATA_READY}]
    BY DEF Typed, RegistryTyped
  <2>3. /\ workerReady \subseteq Workers /\ reports \in 0..MaxReports
        /\ \A w \in Workers : workerStats[w] \in Stats \cup {NoStats}
        /\ \A w \in Workers : reporting[w] \in Stats \cup {NoStats}
    BY DEF Typed, StatsTyped, Reported
  <2>4. /\ senderQueue \in [Workers -> Seq(Packet)]
        /\ unacked \in [Workers -> SUBSET Packet]
        /\ acked \subseteq Tables /\ handed \in [Tables -> Workers \cup {NoWorker}]
    BY DEF Typed, QueuesTyped
  <2>5. /\ core.pc \in CorePc /\ core.i \in 0..Len(WorkerList) + 1
        /\ core.scores \subseteq Score
        /\ core.best \in core.scores \cup {NoScore}
        /\ core.new \in Score \cup {NoScore} /\ core.shrank \in BOOLEAN
        /\ core.pc \in {"compare", "keep"} => core.new \in Score
        /\ core.pc \notin Searching => core.best # NoScore
        /\ crashed \in BOOLEAN
    BY DEF Typed, CoreTyped, CoreType, Weighing
  <2>6. core.pc \in Holding => core.packet \in Packet
    BY DEF Typed, CoreTyped, CoreType, Packet, Tables
  <2> QED BY <2>1, <2>2, <2>3, <2>4, <2>5, <2>6 DEF TypeOK, Holding
<1> QED BY <1>1, SinkFacts, TypedInvariant, PTL

-----------------------------------------------------------------------------
(***************************************************************************)
(* The choice of a worker.  findIdealWorker compares each worker with the  *)
(* best before it; that the last best is least among all needs the order   *)
(* of fractions to be transitive.                                          *)
(***************************************************************************)
\* Multiplying by a natural number keeps the order.
LEMMA TimesMonotone ==
  ASSUME NEW m \in Nat, NEW n \in Nat, NEW k \in Nat, m <= n
  PROVE  m * k <= n * k
<1>1. PICK d \in Nat : n = m + d
  <2>1. n - m \in Nat /\ n = m + (n - m)
    OBVIOUS
  <2> QED BY <2>1
<1>2. n * k = m * k + d * k
  BY <1>1
<1>3. d * k \in Nat /\ m * k \in Nat
  OBVIOUS
<1> QED BY <1>2, <1>3

\* A positive factor may be cancelled.
LEMMA TimesCancel ==
  ASSUME NEW m \in Nat, NEW n \in Nat, NEW k \in Nat \ {0}, m * k <= n * k
  PROVE  m <= n
<1> SUFFICES ASSUME ~(m <= n) PROVE FALSE
  OBVIOUS
<1>1. n + 1 <= m /\ n + 1 \in Nat
  OBVIOUS
<1>2. (n + 1) * k <= m * k
  BY <1>1, TimesMonotone
<1>3. (n + 1) * k = n * k + k
  OBVIOUS
<1>4. n * k \in Nat /\ m * k \in Nat
  OBVIOUS
<1> QED BY <1>2, <1>3, <1>4

\* The order of points is transitive, ...
LEMMA AtMostTransitive ==
  ASSUME NEW a \in Score, NEW b \in Score, NEW c \in Score,
         AtMost(a, b), AtMost(b, c)
  PROVE  AtMost(a, c)
<1>1. /\ a.num \in Nat /\ b.num \in Nat /\ c.num \in Nat
      /\ a.den \in Nat \ {0} /\ b.den \in Nat \ {0} /\ c.den \in Nat \ {0}
  BY DEF Score
<1>2. a.num * b.den <= b.num * a.den /\ b.num * c.den <= c.num * b.den
  BY DEF AtMost
<1> DEFINE x == a.num
           p == a.den
           y == b.num
           q == b.den
           z == c.num
           r == c.den
<1>3. /\ x \in Nat /\ y \in Nat /\ z \in Nat
      /\ p \in Nat \ {0} /\ q \in Nat \ {0} /\ r \in Nat \ {0}
      /\ x * q <= y * p /\ y * r <= z * q
  BY <1>1, <1>2
<1> HIDE DEF x, p, y, q, z, r
<1>4. x * q \in Nat /\ y * p \in Nat /\ y * r \in Nat /\ z * q \in Nat
      /\ x * r \in Nat /\ z * p \in Nat
  BY <1>3
<1>5. (x * q) * r <= (y * p) * r
  BY <1>3, <1>4, TimesMonotone
<1>6. (y * r) * p <= (z * q) * p
  BY <1>3, <1>4, TimesMonotone
<1>7. /\ (x * q) * r = (x * r) * q /\ (y * p) * r = (y * r) * p
      /\ (z * q) * p = (z * p) * q
  BY <1>3
<1>8. (x * r) * q <= (z * p) * q
  <2>1. (x * r) * q \in Nat /\ (y * r) * p \in Nat /\ (z * p) * q \in Nat
    BY <1>3, <1>4
  <2> QED BY <1>5, <1>6, <1>7, <2>1
<1>9. x * r <= z * p
  BY <1>3, <1>4, <1>8, TimesCancel
<1> QED BY <1>9 DEF AtMost, x, r, z, p

\* ... and any two workers compare.
LEMMA AtMostTotal ==
  ASSUME NEW a \in Score, NEW b \in Score
  PROVE  AtMost(a, a) /\ (AtMost(a, b) \/ AtMost(b, a))
<1>1. a.num * b.den \in Nat /\ b.num * a.den \in Nat /\ a.num * a.den \in Nat
  BY DEF Score
<1> QED BY <1>1 DEF AtMost

\* The worker so far is at least as good as another: quicker, or as quick and,
\* unless a queue shrank while its size was read, with no shorter queue.
Beats(a, b, shrank) == AtMost(a, b) /\ (Equal(a, b) /\ ~shrank => a.size <= b.size)

\* What holds between the steps of the loop.
ChoiceInv ==
  /\ core.pc = "idle" => core.scores = {}
  /\ core.best = NoScore => core.scores = {}
  /\ core.best # NoScore => \A s \in core.scores : Beats(core.best, s, core.shrank)
  /\ \A s \in core.scores : s.worker \in workerReady
  /\ core.pc \in Weighing => core.new.worker \in workerReady
  /\ core.pc = "compare" => core.best # NoScore /\ Equal(core.new, core.best)
  /\ core.pc = "keep" /\ core.best # NoScore => Beats(core.new, core.best, FALSE)

\* A worker that findIdealWorker passes over is beaten by the one so far.
LEMMA PassedBeats ==
  ASSUME NEW best \in Score, NEW x \in Score, NEW b \in BOOLEAN,
         ~AtMost(x, best) \/ (Equal(x, best) /\ x.size > best.size)
  PROVE  Beats(best, x, b)
<1>1. best.size \in Int /\ x.size \in Int
  BY DEF Score
<1>2. AtMost(best, x)
  BY AtMostTotal DEF Equal
<1>3. Equal(best, x) => best.size <= x.size
  BY <1>1 DEF Equal
<1> QED BY <1>2, <1>3 DEF Beats

\* A worker that is kept, x when it was compared and new now, beats all that the
\* one before it did.
LEMMA KeptBeats ==
  ASSUME NEW T \in SUBSET Score, NEW best \in Score, NEW x \in Score, NEW new \in Score,
         new.num = x.num, new.den = x.den,
         AtMost(x, best), Equal(x, best) => x.size <= best.size,
         NEW b \in BOOLEAN, \A s \in T : Beats(best, s, b),
         NEW c \in BOOLEAN, c <=> Equal(x, best) /\ (b \/ new.size > x.size)
  PROVE  \A s \in T \cup {new} : Beats(new, s, c)
<1>1. best.size \in Int /\ new.size \in Int /\ x.size \in Int /\ \A s \in T : s.size \in Int
  BY DEF Score
<1>2. AtMost(new, best) /\ (Equal(x, best) => x.size <= best.size)
  BY DEF AtMost
<1>3. Equal(x, best) <=> Equal(new, best)
  BY DEF Equal, AtMost
<1>4. Beats(new, new, c)
  BY <1>1, AtMostTotal DEF Beats
<1>5. ASSUME NEW s \in T
      PROVE  Beats(new, s, c)
  <2>1. AtMost(best, s) /\ (Equal(best, s) /\ ~b => best.size <= s.size) /\ s \in Score
    BY DEF Beats
  <2>2. AtMost(new, s)
    BY <1>2, <2>1, AtMostTransitive
  <2>3. ASSUME Equal(new, s), ~c
        PROVE  new.size <= s.size
    <3>1. AtMost(s, new)
      BY <2>3 DEF Equal
    <3>2. AtMost(s, best)
      BY <1>2, <2>1, <3>1, AtMostTransitive
    <3>3. AtMost(best, new)
      BY <2>1, <3>1, AtMostTransitive
    <3>4. Equal(x, best) /\ Equal(best, s)
      BY <1>2, <1>3, <2>1, <3>2, <3>3 DEF Equal
    <3>5. best.size <= s.size /\ ~(new.size > x.size) /\ x.size <= best.size
      BY <1>2, <2>1, <2>3, <3>4
    <3> QED BY <1>1, <3>5
  <2> QED BY <2>2, <2>3 DEF Beats
<1> QED BY <1>4, <1>5

\* The steps of findIdealWorker keep ChoiceInv.
LEMMA SearchStep ==
  ASSUME Typed, ChoiceInv, FindIdealWorker
  PROVE  ChoiceInv'
<1>0. /\ core \in CoreType /\ core.best \in core.scores \cup {NoScore}
      /\ core.scores \in SUBSET Score /\ core.shrank \in BOOLEAN
      /\ \A s \in Score : s # NoScore
  BY DispatchAssumption DEF Typed, CoreTyped, CoreType, Score, NoScore
<1>1. workerReady' = workerReady
  BY DEF FindIdealWorker, ConsiderWorker, CompareSizes, KeepWorker
<1>2. ASSUME NEW x \in Score, core' = PassOver(x), core.i \in DOMAIN WorkerList,
             core.best # NoScore, x.worker \in workerReady,
             ~AtMost(x, core.best) \/ (Equal(x, core.best) /\ x.size > core.best.size)
      PROVE  ChoiceInv'
  <2>1. /\ core'.pc = "scan" /\ core'.best = core.best /\ core'.shrank = core.shrank
        /\ core'.scores = core.scores \cup {x}
    BY <1>2, OnwardShape
  <2>2. core.best \in Score
    BY <1>0, <1>2
  <2>3. Beats(core.best, x, core.shrank)
    BY <1>0, <1>2, <2>2, PassedBeats
  <2>4. \A s \in core'.scores : Beats(core'.best, s, core'.shrank)
    BY <1>2, <2>1, <2>3 DEF ChoiceInv
  <2>5. \A s \in core'.scores : s.worker \in workerReady'
    BY <1>1, <1>2, <2>1 DEF ChoiceInv
  <2> QED BY <1>2, <2>1, <2>4, <2>5 DEF ChoiceInv, Weighing
<1>3. ASSUME NEW pc \in Weighing, NEW x \in Score, core.pc # "idle",
             core' = [core EXCEPT !.pc = pc, !.new = x], x.worker \in workerReady,
             pc = "compare" => core.best # NoScore /\ Equal(x, core.best),
             pc = "keep" /\ core.best # NoScore => Beats(x, core.best, FALSE)
      PROVE  ChoiceInv'
  <2>1. /\ core'.pc = pc /\ core'.new = x /\ core'.best = core.best
        /\ core'.scores = core.scores /\ core'.shrank = core.shrank
    BY <1>0, <1>3 DEF CoreType
  <2>2. /\ core'.best = NoScore => core'.scores = {}
        /\ core'.best # NoScore =>
             \A s \in core'.scores : Beats(core'.best, s, core'.shrank)
        /\ \A s \in core'.scores : s.worker \in workerReady'
    BY <1>1, <2>1 DEF ChoiceInv
  <2>3. core'.pc # "idle" /\ core'.new.worker \in workerReady'
    BY <1>1, <1>3, <2>1 DEF Weighing
  <2>4. core'.pc = "compare" => core'.best # NoScore /\ Equal(core'.new, core'.best)
    BY <1>3, <2>1
  <2>5. core'.pc = "keep" /\ core'.best # NoScore => Beats(core'.new, core'.best, FALSE)
    BY <1>3, <2>1
  <2> QED BY <2>2, <2>3, <2>4, <2>5 DEF ChoiceInv
<1>4. CASE ConsiderWorker
  <2>1. core.pc = "scan" /\ core.i \in DOMAIN WorkerList
    BY <1>4 DEF ConsiderWorker, CoreAt
  <2>2. CASE core' = NextWorker
    <3>1. core'.pc = "scan" /\ core'.best = core.best /\ core'.scores = core.scores
          /\ core'.shrank = core.shrank
      BY <1>0, <2>2 DEF NextWorker, CoreType
    <3> QED BY <1>1, <3>1 DEF ChoiceInv, Weighing
  <2>3. ASSUME NEW new \in Score, core' = Weigh(new), new.worker \in workerReady
        PROVE  ChoiceInv'
    <3>1. CASE core.best = NoScore
      <4>1. core' = [core EXCEPT !.pc = "keep", !.new = new] /\ "keep" \in Weighing
        BY <2>3, <3>1 DEF Weigh, Weighing
      <4> QED BY <1>3, <2>1, <2>3, <3>1, <4>1
    <3>2. CASE core.best # NoScore /\ ~AtMost(new, core.best)
      <4>1. core' = PassOver(new)
        BY <2>3, <3>2 DEF Weigh
      <4> QED BY <1>2, <2>1, <2>3, <3>2, <4>1
    <3>3. CASE core.best # NoScore /\ AtMost(new, core.best)
      <4>1. CASE Equal(new, core.best)
        <5>1. core' = [core EXCEPT !.pc = "compare", !.new = new] /\ "compare" \in Weighing
          BY <2>3, <3>3, <4>1 DEF Weigh, Weighing
        <5> QED BY <1>3, <2>1, <2>3, <3>3, <4>1, <5>1
      <4>2. CASE ~Equal(new, core.best)
        <5>1. core' = [core EXCEPT !.pc = "keep", !.new = new] /\ "keep" \in Weighing
          BY <2>3, <3>3, <4>2 DEF Weigh, Weighing
        <5>2. Beats(new, core.best, FALSE)
          BY <3>3, <4>2 DEF Beats
        <5> QED BY <1>3, <2>1, <2>3, <5>1, <5>2
      <4> QED BY <4>1, <4>2
    <3> QED BY <3>1, <3>2, <3>3
  <2> QED BY <1>4, <2>2, <2>3, ConsiderCases
<1>5. CASE CompareSizes
  <2>1. core.pc = "compare" /\ core.new \in Score /\ core.i \in DOMAIN WorkerList
        /\ core.best # NoScore /\ Equal(core.new, core.best)
        /\ core.new.worker \in workerReady
    BY <1>5 DEF CompareSizes, CoreAt, Typed, CoreTyped, ChoiceInv, Weighing
  <2>2. PICK x \in Score : /\ x = SizedNew /\ x.worker = core.new.worker
                           /\ x.num = core.new.num /\ x.den = core.new.den
    BY <2>1, SizedType
  <2>3. Equal(x, core.best)
    BY <2>1, <2>2 DEF Equal, AtMost
  <2>4. CASE x.size > core.best.size
    <3>1. core' = PassOver(x)
      BY <1>5, <2>2, <2>4 DEF CompareSizes
    <3> QED BY <1>2, <2>1, <2>2, <2>3, <2>4, <3>1
  <2>5. CASE ~(x.size > core.best.size)
    <3>1. core' = [core EXCEPT !.pc = "keep", !.new = x] /\ "keep" \in Weighing
      BY <1>5, <2>2, <2>5 DEF CompareSizes, Weighing
    <3>2. x.size \in Int /\ core.best.size \in Int
      BY <1>0, <2>1 DEF Score
    <3>3. Beats(x, core.best, FALSE)
      BY <2>3, <2>5, <3>2 DEF Beats, Equal
    <3> QED BY <1>3, <2>1, <2>2, <3>1, <3>3
  <2> QED BY <2>4, <2>5
<1>6. CASE KeepWorker
  <2>1. core.pc = "keep" /\ core.new \in Score /\ core.i \in DOMAIN WorkerList
        /\ core.new.worker \in workerReady
    BY <1>6 DEF KeepWorker, CoreAt, Typed, CoreTyped, ChoiceInv, Weighing
  <2>2. PICK x \in Score : /\ x = SizedNew /\ x.worker = core.new.worker
                           /\ x.num = core.new.num /\ x.den = core.new.den
    BY <2>1, SizedType
  <2>3. PICK y : y = PassOver(x)
    OBVIOUS
  <2>4. /\ y \in CoreType /\ y.pc = "scan" /\ y.shrank = core.shrank
        /\ y.scores = core.scores \cup {x}
    BY <2>1, <2>3, OnwardShape
  <2>5. PICK c \in BOOLEAN : c = ((core.best # NoScore /\ Equal(core.new, core.best))
                                  /\ (y.shrank \/ x.size > core.new.size))
    OBVIOUS
  <2>6. core' = [y EXCEPT !.best = x, !.shrank = c]
    BY <1>6, <2>2, <2>3, <2>5 DEF KeepWorker
  <2>7. /\ core'.pc = "scan" /\ core'.best = x /\ core'.shrank = c
        /\ core'.scores = core.scores \cup {x}
    BY <2>4, <2>6 DEF CoreType
  <2>8. \A s \in core.scores \cup {x} : Beats(x, s, c)
    <3>1. CASE core.best = NoScore
      <4>1. core.scores = {} /\ Beats(x, x, c)
        BY <3>1, AtMostTotal DEF ChoiceInv, Beats, Score
      <4> QED BY <4>1
    <3>2. CASE core.best # NoScore
      <4>1. /\ core.best \in Score /\ Beats(core.new, core.best, FALSE)
            /\ \A s \in core.scores : Beats(core.best, s, core.shrank)
        BY <1>0, <2>1, <3>2 DEF ChoiceInv
      <4>2. PICK b \in BOOLEAN : b = core.shrank
        BY <1>0
      <4>3. c <=> Equal(core.new, core.best) /\ (b \/ x.size > core.new.size)
        BY <2>4, <2>5, <3>2, <4>2
      <4>4. \A s \in core.scores : Beats(core.best, s, b)
        BY <4>1, <4>2
      <4>5. PICK T \in SUBSET Score, best \in Score, n \in Score :
              T = core.scores /\ best = core.best /\ n = core.new
        BY <1>0, <2>1, <4>1
      <4>6. \A s \in T : Beats(best, s, b)
        BY <4>4, <4>5
      <4>7. /\ AtMost(n, best) /\ (Equal(n, best) => n.size <= best.size)
            /\ x.num = n.num /\ x.den = n.den
        BY <2>2, <4>1, <4>5 DEF Beats
      <4>8. c <=> Equal(n, best) /\ (b \/ x.size > n.size)
        BY <4>3, <4>5
      <4>9. \A s \in T \cup {x} : Beats(x, s, c)
        BY ONLY <4>6, <4>7, <4>8, KeptBeats
      <4> QED BY <4>5, <4>9
    <3> QED BY <3>1, <3>2
  <2>9. \A s \in core'.scores : s.worker \in workerReady'
    BY <1>1, <2>1, <2>2, <2>7 DEF ChoiceInv
  <2>10. core'.best # NoScore
    BY <1>0, <2>7
  <2> QED BY <2>7, <2>8, <2>9, <2>10 DEF ChoiceInv, Weighing
<1> QED BY <1>4, <1>5, <1>6 DEF FindIdealWorker

\* ChoiceInv is inductive.
LEMMA ChoiceInvariant == Spec => []ChoiceInv
<1>1. Init => ChoiceInv
  BY DEF Init, Idle, ChoiceInv, Weighing
<1>2. Typed /\ ChoiceInv /\ [Next]_vars => ChoiceInv'
  <2> SUFFICES ASSUME Typed, ChoiceInv, [Next]_vars
               PROVE  ChoiceInv'
    OBVIOUS
  <2>0. /\ core \in CoreType /\ core.scores \in SUBSET Score
        /\ core.best \in core.scores \cup {NoScore}
        /\ \A s \in Score : s # NoScore
    BY DispatchAssumption DEF Typed, CoreTyped, CoreType, Score, NoScore
  <2>1. ASSUME FindIdealWorker
        PROVE  ChoiceInv'
    BY <2>1, SearchStep
  <2>2. ASSUME LookAtSink \/ NobodyFound \/ UpdateTaskStatus
        PROVE  ChoiceInv'
    <3>1. core'.scores = {} /\ core'.pc \notin Weighing
      <4>1. CASE LookAtSink
        <5>1. core' = [Idle EXCEPT !.pc = "scan", !.priority = GetTopTaskPriority,
                                   !.i = 1]
          BY <4>1 DEF LookAtSink
        <5> QED BY <5>1 DEF Idle, Weighing
      <4>2. CASE NobodyFound \/ UpdateTaskStatus
        BY <4>2 DEF NobodyFound, UpdateTaskStatus, Idle, Weighing
      <4> QED BY <2>2, <4>1, <4>2
    <3> QED BY <3>1 DEF ChoiceInv, Weighing
  <2>3. ASSUME PopTest \/ PopTable \/ BuildPacket \/ QueueTest \/ QueuePacket \/ AssignWorker
        PROVE  ChoiceInv'
    <3>1. /\ core'.best = core.best /\ core'.scores = core.scores
          /\ core'.shrank = core.shrank /\ workerReady' = workerReady
          /\ core'.pc # "idle" /\ core'.pc \notin Weighing
      BY <2>0, <2>3 DEF PopTest, PopTable, BuildPacket, QueueTest, QueuePacket,
         AssignWorker, CoreType, Weighing
    <3> QED BY <3>1 DEF ChoiceInv, Weighing
  <2>4. ASSUME NEW w \in Workers, SetReady(w)
        PROVE  ChoiceInv'
    BY <2>4 DEF SetReady, ChoiceInv
  <2>5. ASSUME NEW w \in Workers, ResetReady(w)
        PROVE  ChoiceInv'
    BY <2>5 DEF ResetReady, CoreAt, ChoiceInv, Weighing
  <2>6. ASSUME UNCHANGED <<core, workerReady>>
        PROVE  ChoiceInv'
    BY <2>6 DEF ChoiceInv
  <2>7. CASE ExtractorStep \/ UNCHANGED vars
    BY <2>6, <2>7 DEF ExtractorStep, vars, ExtractTable, PushTable, AddEntry
  <2>8. ASSUME NEW w \in Workers, WorkerStep(w)
        PROVE  ChoiceInv'
    BY <2>4, <2>5, <2>6, <2>8 DEF WorkerStep, Deliver, Acknowledge, ReadNullEntry,
       BeginReport, SetWorkerStats
  <2> QED BY <2>1, <2>2, <2>3, <2>7, <2>8 DEF Next, CoreStep
<1> QED BY <1>1, <1>2, TypedInvariant, PTL DEF Spec

\* The worker a table is handed to has the least points of all that were
\* considered and, among equals, the most packets waiting - unless its queue shrank
\* between the two times it was read - for any number of workers, and whatever
\* they report while they are compared (sender_core.cpp).
THEOREM QuickestChosen == Spec => []QuickestThenFullest
<1>1. Typed /\ ChoiceInv => QuickestThenFullest
  BY DEF Typed, CoreTyped, ChoiceInv, QuickestThenFullest, Beats
<1> QED BY <1>1, TypedInvariant, ChoiceInvariant, PTL

-----------------------------------------------------------------------------
(***************************************************************************)
(* Where a table is.  Each step of the program moves at most one table;    *)
(* the lemmas say which predicate changes for which table.                 *)
(***************************************************************************)
QueuedAt(w, t) == \E i \in DOMAIN senderQueue[w] : senderQueue[w][i].table = t
SentTo(w, t)   == \E packet \in unacked[w] : packet.table = t
HandedOut(t)   == \E i \in DOMAIN popped : popped[i].object = t
Waiting(t)     == pushing["monitor"].object = t \/ InSink(t)

\* A table is in at most one queue or with one worker, only there where it was
\* handed to, and only if the sink gave it out; an acknowledged one is nowhere.
WayInv ==
  /\ \A w \in Workers, t \in Tables : QueuedAt(w, t) \/ SentTo(w, t) => handed[t] = w
  /\ \A w \in Workers, t \in Tables : ~(QueuedAt(w, t) /\ SentTo(w, t))
  /\ \A t \in acked : /\ handed[t] # NoWorker
                      /\ \A w \in Workers : ~QueuedAt(w, t) /\ ~SentTo(w, t)
  /\ \A w \in Workers : \A i, j \in DOMAIN senderQueue[w] :
       senderQueue[w][i].table = senderQueue[w][j].table => i = j
  /\ \A w \in Workers : \A p, q \in unacked[w] : p.table = q.table => p = q
  /\ \A t \in Tables : handed[t] # NoWorker => HandedOut(t)
  /\ core.pc \in {"build", "test", "queue"} =>
       /\ handed[core.packet.table] = NoWorker
       /\ HandedOut(core.packet.table)

\* queuePacket: one more packet of one worker.
LEMMA QueueShape ==
  ASSUME Typed, QueuePacket
  PROVE  /\ core.best.worker \in Workers /\ core.packet \in Packet
         /\ \A w \in Workers \ {core.best.worker} : senderQueue'[w] = senderQueue[w]
         /\ senderQueue'[core.best.worker] =
              Append(senderQueue[core.best.worker], core.packet)
         /\ \A t \in Tables \ {core.packet.table} : handed'[t] = handed[t]
         /\ handed'[core.packet.table] = core.best.worker
         /\ \A w \in Workers, t \in Tables :
              QueuedAt(w, t)' <=> \/ QueuedAt(w, t)
                                  \/ w = core.best.worker /\ t = core.packet.table
<1> DEFINE b == core.best.worker
           p == core.packet
<1>1. b \in Workers
  BY BestWorker DEF QueuePacket, CoreAt, Searching
<1>2. p \in Packet /\ p.table \in Tables
  BY DEF QueuePacket, CoreAt, Typed, CoreTyped, CoreType, Holding, Packet, Tables
<1>3. /\ senderQueue' = [senderQueue EXCEPT ![b] = Append(@, p)]
      /\ handed' = [handed EXCEPT ![p.table] = b]
  BY DEF QueuePacket, HandTo
<1>4. senderQueue \in [Workers -> Seq(Packet)] /\ handed \in [Tables -> Workers \cup {NoWorker}]
  BY DEF Typed, QueuesTyped
<1> HIDE DEF b, p
<1>5. /\ \A w \in Workers \ {b} : senderQueue'[w] = senderQueue[w]
      /\ senderQueue'[b] = Append(senderQueue[b], p)
      /\ \A t \in Tables \ {p.table} : handed'[t] = handed[t]
      /\ handed'[p.table] = b
  BY <1>1, <1>2, <1>3, <1>4
<1>6. ASSUME NEW w \in Workers, w = b, NEW t \in Tables
      PROVE  QueuedAt(w, t)' <=> QueuedAt(w, t) \/ t = p.table
  <2>1. /\ Len(senderQueue[b]) \in Nat /\ DOMAIN senderQueue[b] = 1..Len(senderQueue[b])
        /\ DOMAIN senderQueue'[b] = 1..Len(senderQueue[b])+1
        /\ \A i \in 1..Len(senderQueue[b]) : senderQueue'[b][i] = senderQueue[b][i]
        /\ senderQueue'[b][Len(senderQueue[b])+1] = p
    BY <1>1, <1>2, <1>4, <1>5, AppendProperties, LenProperties
  <2>2. \A i \in 1..Len(senderQueue[b])+1 :
          i \in 1..Len(senderQueue[b]) \/ i = Len(senderQueue[b]) + 1
    BY <2>1
  <2>3. Len(senderQueue[b]) + 1 \in 1..Len(senderQueue[b])+1
    BY <2>1
  <2>4. \A i \in 1..Len(senderQueue[b]) : i \in 1..Len(senderQueue[b])+1
    BY <2>1
  <2> QED BY <1>6, <2>1, <2>2, <2>3, <2>4 DEF QueuedAt
<1>7. \A w \in Workers \ {b}, t \in Tables : QueuedAt(w, t)' <=> QueuedAt(w, t)
  BY <1>5 DEF QueuedAt
<1> QED BY <1>1, <1>2, <1>5, <1>6, <1>7 DEF b, p

\* The session takes the only packet of a table from the queue.
LEMMA DeliverShape ==
  ASSUME Typed, WayInv, NEW w \in Workers, Deliver(w)
  PROVE  /\ senderQueue[w] # << >>
         /\ Head(senderQueue[w]) \in Packet
         /\ \A v \in Workers \ {w} : /\ senderQueue'[v] = senderQueue[v]
                                     /\ unacked'[v] = unacked[v]
         /\ senderQueue'[w] = Tail(senderQueue[w])
         /\ unacked'[w] = unacked[w] \cup {Head(senderQueue[w])}
         /\ QueuedAt(w, Head(senderQueue[w]).table)
         /\ \A v \in Workers, t \in Tables :
              QueuedAt(v, t)' <=> /\ QueuedAt(v, t)
                                  /\ ~(v = w /\ t = Head(senderQueue[w]).table)
         /\ \A v \in Workers, t \in Tables :
              SentTo(v, t)' <=> \/ SentTo(v, t)
                                \/ v = w /\ t = Head(senderQueue[w]).table
<1> DEFINE q == senderQueue[w]
           h == Head(q)
<1>1. senderQueue \in [Workers -> Seq(Packet)] /\ unacked \in [Workers -> SUBSET Packet]
  BY DEF Typed, QueuesTyped
<1>2. q \in Seq(Packet) /\ q # << >>
  BY <1>1 DEF Deliver
<1>3. /\ unacked' = [unacked EXCEPT ![w] = @ \cup {h}]
      /\ senderQueue' = [senderQueue EXCEPT ![w] = Tail(@)]
  BY DEF Deliver
<1>4. /\ \A v \in Workers \ {w} : senderQueue'[v] = senderQueue[v] /\ unacked'[v] = unacked[v]
      /\ senderQueue'[w] = Tail(q) /\ unacked'[w] = unacked[w] \cup {h}
  <2> HIDE DEF h
  <2> QED BY <1>1, <1>3
<1> HIDE DEF q
<1>5. /\ Len(q) \in Nat \ {0} /\ DOMAIN q = 1..Len(q)
      /\ DOMAIN Tail(q) = 1..Len(q)-1
      /\ \A i \in 1..Len(q)-1 : Tail(q)[i] = q[i+1]
      /\ h = q[1] /\ h \in Packet
  BY <1>2, EmptySeq, LenProperties, HeadTailProperties
<1>6. \A i, j \in DOMAIN q : q[i].table = q[j].table => i = j
  BY DEF WayInv, q
<1> HIDE DEF h
<1>7. \A i \in 1..Len(q)-1 : i + 1 \in DOMAIN q /\ i + 1 # 1
  BY <1>5
<1>8. 1 \in DOMAIN q
  BY <1>5
<1>9. ~(\E i \in 1..Len(q)-1 : Tail(q)[i].table = h.table)
  BY <1>5, <1>6, <1>7, <1>8
<1>10. ASSUME NEW t \in Tables, t # h.table
       PROVE  (\E i \in 1..Len(q)-1 : Tail(q)[i].table = t) <=>
              (\E i \in DOMAIN q : q[i].table = t)
  <2>1. ASSUME NEW i \in DOMAIN q, q[i].table = t
        PROVE  \E j \in 1..Len(q)-1 : Tail(q)[j].table = t
    <3>1. i # 1
      BY <1>5, <1>10, <2>1
    <3>2. i - 1 \in 1..Len(q)-1 /\ (i - 1) + 1 = i
      BY <1>5, <3>1
    <3>3. Tail(q)[i - 1] = q[i]
      BY <1>5, <3>2
    <3> QED BY <2>1, <3>2, <3>3
  <2>2. ASSUME NEW j \in 1..Len(q)-1, Tail(q)[j].table = t
        PROVE  \E i \in DOMAIN q : q[i].table = t
    BY <1>5, <1>7, <2>2
  <2> QED BY <2>1, <2>2
<1>15. ASSUME NEW t \in Tables
       PROVE  /\ QueuedAt(w, t) <=> \E i \in DOMAIN q : q[i].table = t
              /\ QueuedAt(w, t)' <=> \E i \in 1..Len(q)-1 : Tail(q)[i].table = t
  <2>1. QueuedAt(w, t) <=> \E i \in DOMAIN q : q[i].table = t
    BY DEF QueuedAt, q
  <2>2. QueuedAt(w, t)' <=> \E i \in DOMAIN (senderQueue'[w]) : senderQueue'[w][i].table = t
    BY DEF QueuedAt
  <2>3. senderQueue'[w] = Tail(q) /\ DOMAIN (senderQueue'[w]) = 1..Len(q)-1
    BY <1>4, <1>5
  <2> QED BY <2>1, <2>2, <2>3
<1>11. /\ QueuedAt(w, h.table)
       /\ \A t \in Tables : t = h.table => ~QueuedAt(w, t)'
  <2>1. h.table \in Tables
    BY <1>5 DEF Packet
  <2> QED BY <1>5, <1>8, <1>9, <1>15, <2>1
<1>12. \A t \in Tables : t # h.table => (QueuedAt(w, t)' <=> QueuedAt(w, t))
  BY <1>10, <1>15
<1>13. \A v \in Workers \ {w}, t \in Tables :
         (QueuedAt(v, t)' <=> QueuedAt(v, t)) /\ (SentTo(v, t)' <=> SentTo(v, t))
  BY <1>4 DEF QueuedAt, SentTo
<1>14. \A t \in Tables : SentTo(w, t)' <=> SentTo(w, t) \/ t = h.table
  BY <1>4 DEF SentTo
<1> QED BY <1>2, <1>4, <1>5, <1>11, <1>12, <1>13, <1>14 DEF h, q

\* An acknowledgement takes the only packet of a table from the worker.
LEMMA AcknowledgeShape ==
  ASSUME Typed, WayInv, NEW w \in Workers, NEW packet \in Packet, Acknowledge(w, packet)
  PROVE  /\ \A v \in Workers \ {w} : unacked'[v] = unacked[v]
         /\ unacked'[w] = unacked[w] \ {packet}
         /\ SentTo(w, packet.table)
         /\ \A v \in Workers, t \in Tables :
              SentTo(v, t)' <=> SentTo(v, t) /\ ~(v = w /\ t = packet.table)
<1>1. unacked \in [Workers -> SUBSET Packet]
  BY DEF Typed, QueuesTyped
<1>2. unacked' = [unacked EXCEPT ![w] = @ \ {packet}] /\ packet \in unacked[w]
  BY DEF Acknowledge
<1>3. /\ \A v \in Workers \ {w} : unacked'[v] = unacked[v]
      /\ unacked'[w] = unacked[w] \ {packet}
  BY <1>1, <1>2
<1>4. \A p \in unacked[w] : p.table = packet.table => p = packet
  BY <1>2 DEF WayInv
<1>5. \A t \in Tables : SentTo(w, t)' <=> SentTo(w, t) /\ t # packet.table
  BY <1>2, <1>3, <1>4 DEF SentTo
<1>6. \A v \in Workers \ {w}, t \in Tables : SentTo(v, t)' <=> SentTo(v, t)
  BY <1>3 DEF SentTo
<1>7. SentTo(w, packet.table)
  BY <1>2 DEF SentTo
<1> QED BY <1>3, <1>5, <1>6, <1>7

\* The sink gives its front object to the sender core, for the first time.
LEMMA PopShape ==
  ASSUME SinkSafe, Typed, PopTable
  PROVE  /\ core'.packet.table \in Tables /\ core'.pc = "build"
         /\ InSink(core'.packet.table) /\ ~HandedOut(core'.packet.table)
         /\ \A t \in Tables : HandedOut(t)' <=> HandedOut(t) \/ t = core'.packet.table
         /\ \A t \in Tables \ {core'.packet.table} : InSink(t)' <=> InSink(t)
<1> DEFINE s == sinkItemList
           h == Head(s)
<1>1. s \in Seq(S!Item) /\ s # << >> /\ popped \in Seq(S!Item)
  BY DEF PopTable, S!PopTake, SinkSafe, S!TypeOK
<1>2. sinkItemList' = Tail(s) /\ popped' = Append(popped, h)
  BY <1>1 DEF PopTable, S!PopTake
<1>3. core'.packet.table = h.object /\ core'.pc = "build"
  BY DEF PopTable, Typed, CoreTyped, CoreType
<1>4. /\ \A i \in 1..Len(s) : \A j \in 1..Len(popped) : s[i].object # popped[j].object
  BY DEF SinkSafe
<1>5. /\ Len(s) \in Nat \ {0} /\ DOMAIN s = 1..Len(s)
      /\ DOMAIN Tail(s) = 1..Len(s)-1
      /\ \A i \in 1..Len(s)-1 : Tail(s)[i] = s[i+1]
      /\ h = s[1] /\ h \in S!Item
  BY <1>1, EmptySeq, LenProperties, HeadTailProperties
<1>6. /\ Len(popped) \in Nat /\ DOMAIN popped = 1..Len(popped)
      /\ DOMAIN popped' = 1..Len(popped)+1
      /\ \A i \in 1..Len(popped) : popped'[i] = popped[i]
      /\ popped'[Len(popped)+1] = h
  BY <1>1, <1>2, <1>5, AppendProperties, LenProperties
<1>7. h.object \in Tables
  BY <1>5 DEF S!Item, S!Object, Tables
<1> HIDE DEF h, s
<1>8. InSink(h.object) /\ ~HandedOut(h.object)
  <2>1. 1 \in 1..Len(s)
    BY <1>5
  <2> QED BY <1>4, <1>5, <1>6, <2>1 DEF InSink, HandedOut, s
<1>9. \A t \in Tables : HandedOut(t)' <=> HandedOut(t) \/ t = h.object
  <2> TAKE t \in Tables
  <2>1. \A i \in 1..Len(popped)+1 : i \in 1..Len(popped) \/ i = Len(popped) + 1
    BY <1>6
  <2>2. /\ Len(popped) + 1 \in 1..Len(popped)+1
        /\ \A i \in 1..Len(popped) : i \in 1..Len(popped)+1
    BY <1>6
  <2> QED BY <1>6, <2>1, <2>2 DEF HandedOut
<1>10. ASSUME NEW t \in Tables, t # h.object
       PROVE  InSink(t)' <=> InSink(t)
  <2>1. ASSUME NEW i \in 1..Len(s), s[i].object = t
        PROVE  \E j \in 1..Len(s)-1 : Tail(s)[j].object = t
    <3>1. i # 1
      BY <1>5, <1>10, <2>1
    <3>2. i - 1 \in 1..Len(s)-1 /\ (i - 1) + 1 = i
      BY <1>5, <3>1
    <3>3. Tail(s)[i - 1] = s[i]
      BY <1>5, <3>2
    <3> QED BY <2>1, <3>2, <3>3
  <2>2. ASSUME NEW j \in 1..Len(s)-1, Tail(s)[j].object = t
        PROVE  \E i \in 1..Len(s) : s[i].object = t
    <3>1. j + 1 \in 1..Len(s)
      BY <1>5
    <3> QED BY <1>5, <2>2, <3>1
  <2> QED BY <1>2, <1>5, <2>1, <2>2 DEF InSink, s
<1> QED BY <1>3, <1>7, <1>8, <1>9, <1>10

\* A step that leaves the queues alone keeps the way of the tables.
LEMMA WayAway ==
  ASSUME WayInv, UNCHANGED <<worker, popped>>,
         \/ core'.pc \notin {"build", "test", "queue"}
         \/ core.pc \in {"build", "test", "queue"}
              /\ core'.packet.table = core.packet.table
  PROVE  WayInv'
<1>1. \A w, t : (QueuedAt(w, t)' <=> QueuedAt(w, t)) /\ (SentTo(w, t)' <=> SentTo(w, t))
  BY DEF QueuedAt, SentTo, worker
<1>2. \A t : HandedOut(t)' <=> HandedOut(t)
  BY DEF HandedOut
<1>3. senderQueue' = senderQueue /\ unacked' = unacked /\ acked' = acked /\ handed' = handed
  BY DEF worker
<1>4. core'.pc \in {"build", "test", "queue"} =>
        handed'[core'.packet.table] = NoWorker /\ HandedOut(core'.packet.table)
  BY <1>3 DEF WayInv
<1>5. (HandedOut(core.packet.table))' <=> HandedOut(core'.packet.table)
  BY DEF HandedOut
<1> QED BY <1>1, <1>2, <1>3, <1>4, <1>5 DEF WayInv

\* WayInv is inductive: the sink gives each table out once, the core hands it to
\* one worker, whose queue gives it to the worker, who acknowledges it.
LEMMA WayStep ==
  ASSUME SinkSafe, Typed, WayInv, [Next]_vars
  PROVE  WayInv'
<1>0. /\ NoWorker \notin Workers
      /\ senderQueue \in [Workers -> Seq(Packet)] /\ unacked \in [Workers -> SUBSET Packet]
      /\ acked \subseteq Tables /\ handed \in [Tables -> Workers \cup {NoWorker}]
      /\ core \in CoreType
  BY DispatchAssumption DEF Typed, QueuesTyped, CoreTyped
<1>1. ASSUME PopTable
      PROVE  WayInv'
  <2> DEFINE o == core'.packet.table
  <2>1. /\ o \in Tables /\ ~HandedOut(o)
        /\ \A t \in Tables : HandedOut(t)' <=> HandedOut(t) \/ t = o
    BY <1>1, PopShape
  <2>2. UNCHANGED worker
    BY <1>1 DEF PopTable
  <2>3. \A w, t : (QueuedAt(w, t)' <=> QueuedAt(w, t)) /\ (SentTo(w, t)' <=> SentTo(w, t))
    BY <2>2 DEF QueuedAt, SentTo, worker
  <2>4. handed[o] = NoWorker
    BY <2>1 DEF WayInv
  <2>5. HandedOut(core.packet.table)'
    <3>1. \E i \in DOMAIN popped' : popped'[i].object = o
      BY <2>1 DEF HandedOut
    <3> QED BY <3>1 DEF HandedOut
  <2>6. core'.packet.table = o
    OBVIOUS
  <2> HIDE DEF o
  <2> QED BY <2>1, <2>2, <2>3, <2>4, <2>5, <2>6 DEF WayInv, worker
<1>2. ASSUME QueueTest, ~CanQueue(core.best.worker)
      PROVE  WayInv'
  <2>1. /\ core.pc = "test" /\ core'.pc = "assign" /\ popped' = popped
        /\ senderQueue' = senderQueue /\ unacked' = unacked /\ acked' = acked
        /\ handed' = [handed EXCEPT ![core.packet.table] = core.best.worker]
    BY <1>0, <1>2 DEF QueueTest, CoreAt, HandTo, sink, CoreType
  <2>2. handed[core.packet.table] = NoWorker /\ HandedOut(core.packet.table)
    BY <2>1 DEF WayInv
  <2>3. /\ \A w \in Workers : /\ ~QueuedAt(w, core.packet.table)
                              /\ ~SentTo(w, core.packet.table)
        /\ core.packet.table \notin acked
    <3>1. core.packet.table \in Tables
      BY <1>0, <2>1 DEF Typed, CoreTyped, CoreType, Holding, Tables
    <3> QED BY <1>0, <2>2, <3>1 DEF WayInv
  <2>4. \A t \in Tables : t # core.packet.table => handed'[t] = handed[t]
    BY <1>0, <2>1
  <2>5. \A w, t : (QueuedAt(w, t)' <=> QueuedAt(w, t)) /\ (SentTo(w, t)' <=> SentTo(w, t))
    BY <2>1 DEF QueuedAt, SentTo
  <2>6. \A t : HandedOut(t)' <=> HandedOut(t)
    BY <2>1 DEF HandedOut
  <2>7. /\ \A w \in Workers, t \in Tables :
             QueuedAt(w, t) \/ SentTo(w, t) => handed'[t] = w
        /\ \A t \in acked : handed'[t] # NoWorker
        /\ \A t \in Tables : handed'[t] # NoWorker => HandedOut(t)
    BY <1>0, <2>2, <2>3, <2>4 DEF WayInv
  <2> QED BY <2>1, <2>5, <2>6, <2>7 DEF WayInv
<1>3. ASSUME QueueTest, CanQueue(core.best.worker)
      PROVE  WayInv'
  <2>1. /\ core.pc = "test" /\ UNCHANGED <<worker, popped>>
        /\ core'.packet.table = core.packet.table
    BY <1>0, <1>3 DEF QueueTest, CoreAt, sink, worker, CoreType
  <2> QED BY <2>1, WayAway
<1>4. ASSUME QueuePacket
      PROVE  WayInv'
  <2> DEFINE b == core.best.worker
             o == core.packet.table
  <2>1. /\ b \in Workers /\ o \in Tables
        /\ \A w \in Workers \ {b} : senderQueue'[w] = senderQueue[w]
        /\ senderQueue'[b] = Append(senderQueue[b], core.packet)
        /\ \A t \in Tables \ {o} : handed'[t] = handed[t]
        /\ handed'[o] = b
        /\ \A w \in Workers, t \in Tables :
             QueuedAt(w, t)' <=> QueuedAt(w, t) \/ (w = b /\ t = o)
    BY <1>4, QueueShape DEF Packet
  <2>2. /\ unacked' = unacked /\ acked' = acked /\ popped' = popped
        /\ core.pc = "queue" /\ core'.pc = "assign"
    BY <1>0, <1>4 DEF QueuePacket, CoreAt, sink, CoreType
  <2>3. handed[o] = NoWorker /\ HandedOut(o)
    BY <2>2 DEF WayInv
  <2> HIDE DEF b, o
  <2>4. /\ \A w \in Workers : ~QueuedAt(w, o) /\ ~SentTo(w, o)
        /\ o \notin acked
    BY <1>0, <2>1, <2>3 DEF WayInv
  <2>5. \A w, t : SentTo(w, t)' <=> SentTo(w, t)
    BY <2>2 DEF SentTo
  <2>6. \A t : HandedOut(t)' <=> HandedOut(t)
    BY <2>2 DEF HandedOut
  <2>7. \A w \in Workers, t \in Tables : QueuedAt(w, t)' \/ SentTo(w, t)' => handed'[t] = w
    BY <2>1, <2>4, <2>5 DEF WayInv
  <2>8. \A w \in Workers, t \in Tables : ~(QueuedAt(w, t)' /\ SentTo(w, t)')
    BY <2>1, <2>4, <2>5 DEF WayInv
  <2>9. \A t \in acked' : /\ handed'[t] # NoWorker
                          /\ \A w \in Workers : ~QueuedAt(w, t)' /\ ~SentTo(w, t)'
    BY <1>0, <2>1, <2>2, <2>4, <2>5 DEF WayInv
  <2>10. ASSUME NEW w \in Workers, NEW i \in DOMAIN senderQueue'[w],
                NEW j \in DOMAIN senderQueue'[w],
                senderQueue'[w][i].table = senderQueue'[w][j].table
         PROVE  i = j
    <3>1. CASE w # b
      BY <2>1, <2>10, <3>1 DEF WayInv
    <3>2. CASE w = b
      <4> DEFINE q == senderQueue[b]
      <4>1. /\ Len(q) \in Nat /\ DOMAIN q = 1..Len(q)
            /\ DOMAIN senderQueue'[b] = 1..Len(q)+1
            /\ \A k \in 1..Len(q) : senderQueue'[b][k] = q[k]
            /\ senderQueue'[b][Len(q)+1].table = o
        <5>1. core.packet \in Packet /\ core.packet.table = o
          BY <1>4, QueueShape DEF o
        <5>2. q \in Seq(Packet)
          BY <1>0, <2>1
        <5> HIDE DEF q
        <5>3. senderQueue'[b] = Append(q, core.packet)
          BY <2>1 DEF q
        <5> QED BY <5>1, <5>2, <5>3, AppendProperties, LenProperties
      <4>2. \A k \in 1..Len(q) : q[k].table # o
        BY <2>1, <2>4, <4>1 DEF QueuedAt
      <4>3. \A k, l \in DOMAIN q : q[k].table = q[l].table => k = l
        BY <2>1 DEF WayInv
      <4> HIDE DEF q
      <4>4. /\ i \in 1..Len(q) \/ i = Len(q) + 1
            /\ j \in 1..Len(q) \/ j = Len(q) + 1
        BY <2>10, <3>2, <4>1
      <4> QED BY <2>10, <3>2, <4>1, <4>2, <4>3, <4>4
    <3> QED BY <3>1, <3>2
  <2>11. \A t \in Tables : handed'[t] # NoWorker => HandedOut(t)'
    BY <2>1, <2>3, <2>6 DEF WayInv
  <2>12. \A w \in Workers : \A p, q \in unacked'[w] : p.table = q.table => p = q
    BY <2>2 DEF WayInv
  <2> QED BY <2>2, <2>7, <2>8, <2>9, <2>10, <2>11, <2>12 DEF WayInv
<1>5. ASSUME NEW w \in Workers, Deliver(w)
      PROVE  WayInv'
  <2> DEFINE h == Head(senderQueue[w])
  <2>1. /\ senderQueue[w] # << >> /\ h \in Packet
        /\ \A v \in Workers \ {w} : senderQueue'[v] = senderQueue[v] /\ unacked'[v] = unacked[v]
        /\ senderQueue'[w] = Tail(senderQueue[w]) /\ unacked'[w] = unacked[w] \cup {h}
        /\ QueuedAt(w, h.table)
        /\ \A v \in Workers, t \in Tables :
             QueuedAt(v, t)' <=> QueuedAt(v, t) /\ ~(v = w /\ t = h.table)
        /\ \A v \in Workers, t \in Tables :
             SentTo(v, t)' <=> SentTo(v, t) \/ (v = w /\ t = h.table)
    BY <1>5, DeliverShape
  <2>2. /\ acked' = acked /\ handed' = handed /\ popped' = popped /\ core' = core
    BY <1>5 DEF Deliver, sink
  <2> HIDE DEF h
  <2>3. h.table \in Tables /\ ~SentTo(w, h.table) /\ h.table \notin acked
        /\ handed[h.table] = w
    <3>1. h.table \in Tables
      BY <2>1 DEF Packet
    <3> QED BY <2>1, <3>1 DEF WayInv
  <2>4. \A t : HandedOut(t)' <=> HandedOut(t)
    BY <2>2 DEF HandedOut
  <2>5. /\ \A v \in Workers, t \in Tables : QueuedAt(v, t)' \/ SentTo(v, t)' => handed'[t] = v
        /\ \A v \in Workers, t \in Tables : ~(QueuedAt(v, t)' /\ SentTo(v, t)')
        /\ \A t \in acked' : /\ handed'[t] # NoWorker
                             /\ \A v \in Workers : ~QueuedAt(v, t)' /\ ~SentTo(v, t)'
    <3>1. \A v \in Workers, t \in Tables : QueuedAt(v, t)' \/ SentTo(v, t)' => handed'[t] = v
      BY <2>1, <2>2, <2>3 DEF WayInv
    <3>2. \A v \in Workers, t \in Tables : ~(QueuedAt(v, t)' /\ SentTo(v, t)')
      BY <2>1, <2>3 DEF WayInv
    <3>3. \A t \in acked' : /\ handed'[t] # NoWorker
                            /\ \A v \in Workers : ~QueuedAt(v, t)' /\ ~SentTo(v, t)'
      BY <1>0, <2>1, <2>2, <2>3 DEF WayInv
    <3> QED BY <3>1, <3>2, <3>3
  <2>6. \A v \in Workers : \A i, j \in DOMAIN senderQueue'[v] :
          senderQueue'[v][i].table = senderQueue'[v][j].table => i = j
    <3>1. \A v \in Workers \ {w} : \A i, j \in DOMAIN senderQueue'[v] :
            senderQueue'[v][i].table = senderQueue'[v][j].table => i = j
      BY <2>1 DEF WayInv
    <3> DEFINE q == senderQueue[w]
    <3>2. q \in Seq(Packet) /\ q # << >>
      BY <1>0, <2>1
    <3>3. \A k, l \in DOMAIN q : q[k].table = q[l].table => k = l
      BY DEF WayInv
    <3> HIDE DEF q
    <3>4. /\ Len(q) \in Nat /\ DOMAIN q = 1..Len(q) /\ DOMAIN Tail(q) = 1..Len(q)-1
          /\ \A i \in 1..Len(q)-1 : Tail(q)[i] = q[i+1]
      BY <3>2, LenProperties, HeadTailProperties
    <3>5. ASSUME NEW i \in DOMAIN Tail(q), NEW j \in DOMAIN Tail(q),
                 Tail(q)[i].table = Tail(q)[j].table
          PROVE  i = j
      <4>1. i + 1 \in DOMAIN q /\ j + 1 \in DOMAIN q
        BY <3>4
      <4>2. i + 1 = j + 1
        BY <3>3, <3>4, <3>5, <4>1
      <4> QED BY <3>4, <4>2
    <3>6. senderQueue'[w] = Tail(q)
      BY <2>1 DEF q
    <3> QED BY <3>1, <3>5, <3>6
  <2>7. \A v \in Workers : \A p, q \in unacked'[v] : p.table = q.table => p = q
    BY <2>1, <2>3 DEF WayInv, SentTo
  <2> QED BY <2>2, <2>4, <2>5, <2>6, <2>7 DEF WayInv, HandedOut
<1>6. ASSUME NEW w \in Workers, NEW packet \in Packet, Acknowledge(w, packet)
      PROVE  WayInv'
  <2>1. /\ \A v \in Workers \ {w} : unacked'[v] = unacked[v]
        /\ unacked'[w] = unacked[w] \ {packet}
        /\ SentTo(w, packet.table)
        /\ \A v \in Workers, t \in Tables :
             SentTo(v, t)' <=> SentTo(v, t) /\ ~(v = w /\ t = packet.table)
    BY <1>6, AcknowledgeShape
  <2>2. /\ acked' = acked \cup {packet.table} /\ handed' = handed /\ popped' = popped
        /\ core' = core /\ senderQueue' = senderQueue /\ packet.table \in Tables
    BY <1>6 DEF Acknowledge, sink, Packet
  <2>3. \A v, t : QueuedAt(v, t)' <=> QueuedAt(v, t)
    BY <2>2 DEF QueuedAt
  <2>4. \A t : HandedOut(t)' <=> HandedOut(t)
    BY <2>2 DEF HandedOut
  <2>5. \A v \in Workers : ~QueuedAt(v, packet.table) /\ (v # w => ~SentTo(v, packet.table))
    BY <2>1, <2>2 DEF WayInv
  <2>6. \A t \in acked' : /\ handed'[t] # NoWorker
                          /\ \A v \in Workers : ~QueuedAt(v, t)' /\ ~SentTo(v, t)'
    BY <1>0, <2>1, <2>2, <2>3, <2>5 DEF WayInv
  <2>7. \A v \in Workers : \A p, q \in unacked'[v] : p.table = q.table => p = q
    BY <2>1 DEF WayInv
  <2>8. /\ \A v \in Workers, t \in Tables : QueuedAt(v, t)' \/ SentTo(v, t)' => handed'[t] = v
        /\ \A v \in Workers, t \in Tables : ~(QueuedAt(v, t)' /\ SentTo(v, t)')
    BY <2>1, <2>2, <2>3 DEF WayInv
  <2> QED BY <2>2, <2>4, <2>6, <2>7, <2>8 DEF WayInv, HandedOut
<1>7. ASSUME BuildPacket
      PROVE  WayInv'
  <2>1. /\ core.pc = "build" /\ UNCHANGED <<worker, popped>>
        /\ core'.packet.table = core.packet.table
    BY <1>0, <1>7 DEF BuildPacket, CoreAt, sink, CoreType
  <2> QED BY <2>1, WayAway
<1>8. ASSUME LookAtSink \/ FindIdealWorker \/ NobodyFound \/ PopTest \/ AssignWorker
               \/ UpdateTaskStatus
      PROVE  WayInv'
  <2>1. UNCHANGED <<worker, popped>>
    BY <1>8 DEF LookAtSink, FindIdealWorker, ConsiderWorker,
       CompareSizes, KeepWorker, NobodyFound, PopTest, S!PopTest,
       AssignWorker, UpdateTaskStatus, sink
  <2>2. core'.pc \in {"idle", "scan", "compare", "keep", "take", "status"}
    <3>1. CASE LookAtSink
      <4>1. core' = [Idle EXCEPT !.pc = "scan", !.priority = GetTopTaskPriority, !.i = 1]
        BY <3>1 DEF LookAtSink
      <4> QED BY <4>1 DEF Idle
    <3>2. CASE FindIdealWorker
      BY <1>0, <3>2, SearchShape
    <3>3. CASE NobodyFound \/ UpdateTaskStatus
      BY <3>3 DEF NobodyFound, UpdateTaskStatus, Idle
    <3>4. CASE PopTest \/ AssignWorker
      BY <1>0, <3>4 DEF PopTest, AssignWorker, CoreType
    <3> QED BY <1>8, <3>1, <3>2, <3>3, <3>4
  <2> QED BY <2>1, <2>2, WayAway
<1>9. ASSUME core' = core, UNCHANGED <<worker, popped>>
      PROVE  WayInv'
  BY <1>9, WayAway
<1>10. CASE ExtractorStep \/ UNCHANGED vars
  BY <1>9, <1>10 DEF ExtractorStep, vars, sink, ExtractTable, S!PushTest, PushTable,
     S!PushInsert, AddEntry
<1>11. ASSUME NEW w \in Workers, WorkerStep(w)
       PROVE  WayInv'
  BY <1>5, <1>6, <1>9, <1>11 DEF WorkerStep, ReadNullEntry, BeginReport, SetWorkerStats,
     SetReady, ResetReady, sink
<1>12. CASE CoreStep
  BY <1>1, <1>2, <1>3, <1>4, <1>7, <1>8, <1>12 DEF CoreStep
<1> QED BY <1>10, <1>11, <1>12 DEF Next

\* At the start no table has been handed out.
LEMMA WayInvariant == Spec => []WayInv
<1>1. Init => WayInv
  <2> SUFFICES ASSUME Init PROVE WayInv
    OBVIOUS
  <2>1. /\ \A w \in Workers, t \in Tables : ~QueuedAt(w, t) /\ ~SentTo(w, t)
        /\ \A w \in Workers : DOMAIN senderQueue[w] = {} /\ unacked[w] = {}
        /\ acked = {} /\ \A t \in Tables : handed[t] = NoWorker
        /\ core.pc = "idle"
    BY DEF Init, Idle, QueuedAt, SentTo
  <2> QED BY <2>1 DEF WayInv
<1>2. SinkSafe /\ Typed /\ WayInv /\ [Next]_vars => WayInv'
  BY WayStep
<1> QED BY <1>1, <1>2, SinkFacts, TypedInvariant, PTL DEF Spec

-----------------------------------------------------------------------------
(***************************************************************************)
(* The entries of the registry.                                            *)
(***************************************************************************)
\* A packet built with its entry has it for good, and the worker assigned is the
\* one whose queue the packet went to.
EntryInv ==
  /\ core.pc \in {"test", "queue", "assign"} /\ core.packet.entry =>
       core.packet.table \in entries
  /\ core.pc = "assign" => handed[core.packet.table] = core.best.worker

\* Wherever it is, a packet is with the worker it was assigned to, but for the one
\* the sender core is about to assign.
PacketAt(w, packet) ==
  packet \in unacked[w] \/ \E i \in DOMAIN senderQueue[w] : senderQueue[w][i] = packet
Whole(t) == [table |-> t, entry |-> TRUE]

\* A step that brings no packet anywhere, and leaves the core before or after the
\* assignment, keeps EntryInv and EntryKnowsWorker.
LEMMA EntryAway ==
  ASSUME EntryInv, EntryKnowsWorker, dataWorker' = dataWorker,
         \A w \in Workers, t \in Tables : PacketAt(w, Whole(t))' => PacketAt(w, Whole(t)),
         core.pc # "assign" \/ (core'.pc = "assign" /\ core'.packet = core.packet)
  PROVE  EntryKnowsWorker'
BY DEF EntryKnowsWorker, PacketAt, Whole

\* EntryInv is inductive.
LEMMA EntryStep ==
  ASSUME SinkSafe, Typed, EntryInv, [Next]_vars
  PROVE  EntryInv'
<1>0. core \in CoreType /\ handed \in [Tables -> Workers \cup {NoWorker}]
      /\ entries \subseteq entries'
  <2>1. entries \subseteq entries'
    BY DEF Next, ExtractorStep, CoreStep, WorkerStep, vars, registry, ExtractTable,
       PushTable, AddEntry, LookAtSink, FindIdealWorker, ConsiderWorker,
       CompareSizes, KeepWorker, NobodyFound, PopTest, PopTable,
       BuildPacket, QueueTest, QueuePacket, AssignWorker, UpdateTaskStatus, Deliver,
       Acknowledge, ReadNullEntry, BeginReport, SetWorkerStats, SetReady, ResetReady
  <2> QED BY <2>1 DEF Typed, QueuesTyped, CoreTyped
<1>1. ASSUME BuildPacket
      PROVE  EntryInv'
  <2> DEFINE e == core.packet.table \in entries
  <2>1. core' = [core EXCEPT !.pc = "test", !.packet.entry = e]
    BY <1>1 DEF BuildPacket
  <2> HIDE DEF e
  <2>2. core'.pc = "test" /\ core'.packet.entry = e /\ core'.packet.table = core.packet.table
    BY <1>0, <2>1 DEF CoreType
  <2> QED BY <1>0, <2>2 DEF EntryInv, e
<1>2. ASSUME QueueTest \/ QueuePacket
      PROVE  EntryInv'
  <2>1. /\ core.pc \in {"test", "queue"} /\ core'.packet = core.packet
        /\ core'.best = core.best
    BY <1>0, <1>2 DEF QueueTest, QueuePacket, CoreAt, CoreType
  <2>2. core.packet.table \in Tables
    BY <1>0, <2>1 DEF Typed, CoreTyped, CoreType, Holding, Tables
  <2>3. core'.pc = "assign" => handed'[core.packet.table] = core.best.worker
    <3>1. CASE core'.pc = "assign"
      <4>1. handed' = [handed EXCEPT ![core.packet.table] = core.best.worker]
        BY <1>0, <1>2, <3>1 DEF QueueTest, QueuePacket, HandTo, CoreType
      <4> QED BY <1>0, <2>2, <4>1
    <3> QED BY <3>1
  <2>4. core'.packet.entry => core'.packet.table \in entries'
    BY <1>0, <2>1 DEF EntryInv
  <2> QED BY <2>1, <2>3, <2>4 DEF EntryInv
<1>3. ASSUME core'.pc \notin {"test", "queue", "assign"}
      PROVE  EntryInv'
  BY <1>3 DEF EntryInv
<1>4. ASSUME PopTable
      PROVE  core'.pc = "build"
  BY <1>4, PopShape
<1>5. ASSUME LookAtSink
      PROVE  core'.pc = "scan"
  <2>1. core' = [Idle EXCEPT !.pc = "scan", !.priority = GetTopTaskPriority, !.i = 1]
    BY <1>5 DEF LookAtSink
  <2> QED BY <2>1 DEF Idle
<1>6. ASSUME FindIdealWorker
      PROVE  core'.pc \in {"scan", "compare", "keep"}
  BY <1>0, <1>6, SearchShape
<1>7. ASSUME NobodyFound \/ UpdateTaskStatus
      PROVE  core'.pc = "idle"
  BY <1>7 DEF NobodyFound, UpdateTaskStatus, Idle
<1>8. ASSUME PopTest \/ AssignWorker
      PROVE  core'.pc \in {"take", "status"}
  BY <1>0, <1>8 DEF PopTest, AssignWorker, CoreType
<1>9. CASE CoreStep
  BY <1>1, <1>2, <1>3, <1>4, <1>5, <1>6, <1>7, <1>8, <1>9 DEF CoreStep
<1>10. ASSUME ~CoreStep
       PROVE  core' = core /\ handed' = handed
  BY <1>10 DEF Next, ExtractorStep, WorkerStep, vars, worker, ExtractTable, PushTable,
     AddEntry, Deliver, Acknowledge, ReadNullEntry, BeginReport, SetWorkerStats,
     SetReady, ResetReady
<1>11. CASE ~CoreStep
  BY <1>0, <1>10, <1>11 DEF EntryInv
<1> QED BY <1>9, <1>11

\* EntryKnowsWorker is kept by the only steps that bring a packet somewhere or
\* change the worker of an entry.
LEMMA EntryKnowsStep ==
  ASSUME SinkSafe, Typed, WayInv, EntryInv, EntryKnowsWorker, [Next]_vars
  PROVE  EntryKnowsWorker'
<1>0. /\ core \in CoreType /\ NoWorker \notin Workers
      /\ dataWorker \in [Tables -> Workers \cup {NoWorker}]
      /\ senderQueue \in [Workers -> Seq(Packet)]
  BY DispatchAssumption DEF Typed, QueuesTyped, CoreTyped, RegistryTyped
<1>1. ASSUME QueuePacket
      PROVE  EntryKnowsWorker'
  <2> DEFINE b == core.best.worker
             p == core.packet
  <2>1. /\ b \in Workers /\ p \in Packet
        /\ \A w \in Workers \ {b} : senderQueue'[w] = senderQueue[w]
        /\ senderQueue'[b] = Append(senderQueue[b], p)
    BY <1>1, QueueShape
  <2>2. /\ unacked' = unacked /\ dataWorker' = dataWorker
        /\ core.pc = "queue" /\ core'.pc = "assign" /\ core'.packet = p
    BY <1>0, <1>1 DEF QueuePacket, CoreAt, registry, CoreType
  <2> HIDE DEF b, p
  <2>3. ASSUME NEW w \in Workers, NEW t \in Tables, PacketAt(w, Whole(t))', Whole(t) # p
        PROVE  PacketAt(w, Whole(t))
    <3>1. CASE w # b
      BY <2>1, <2>2, <2>3, <3>1 DEF PacketAt, Whole
    <3>2. CASE w = b
      <4>1. /\ Len(senderQueue[b]) \in Nat
            /\ DOMAIN senderQueue[b] = 1..Len(senderQueue[b])
            /\ DOMAIN senderQueue'[b] = 1..Len(senderQueue[b])+1
            /\ \A k \in 1..Len(senderQueue[b]) : senderQueue'[b][k] = senderQueue[b][k]
            /\ senderQueue'[b][Len(senderQueue[b])+1] = p
        BY <1>0, <2>1, AppendProperties, LenProperties
      <4>2. \A k \in 1..Len(senderQueue[b])+1 :
              k \in 1..Len(senderQueue[b]) \/ k = Len(senderQueue[b]) + 1
        BY <4>1
      <4> QED BY <2>2, <2>3, <3>2, <4>1, <4>2 DEF PacketAt, Whole
    <3> QED BY <3>1, <3>2
  <2> QED BY <2>2, <2>3 DEF EntryKnowsWorker, PacketAt, Whole
<1>2. ASSUME AssignWorker
      PROVE  EntryKnowsWorker'
  <2> DEFINE b == core.best.worker
             o == core.packet.table
  <2>1. /\ core.pc = "assign" /\ core'.pc = "status"
        /\ senderQueue' = senderQueue /\ unacked' = unacked
        /\ dataWorker' = IF o \in entries THEN [dataWorker EXCEPT ![o] = b] ELSE dataWorker
    BY <1>0, <1>2 DEF AssignWorker, CoreAt, worker, CoreType
  <2>2. o \in Tables /\ handed[o] = b
    BY <1>0, <2>1 DEF Typed, CoreTyped, CoreType, Holding, Tables, EntryInv
  <2>3. core.packet = [table |-> o, entry |-> core.packet.entry]
        /\ core.packet.entry \in BOOLEAN
    BY <1>0 DEF CoreType
  <2>4. core.packet.entry => o \in entries
    BY <2>1 DEF EntryInv
  <2> HIDE DEF b, o
  <2>5. ASSUME NEW w \in Workers, NEW t \in Tables, PacketAt(w, Whole(t))
        PROVE  dataWorker'[t] = w
    <3>1. handed[t] = w
      <4>1. QueuedAt(w, t) \/ SentTo(w, t)
        BY <2>5 DEF PacketAt, Whole, QueuedAt, SentTo
      <4> QED BY <4>1 DEF WayInv
    <3>2. CASE t = o /\ o \in entries
      BY <1>0, <2>1, <2>2, <3>1, <3>2
    <3>3. CASE t = o /\ o \notin entries
      <4>1. Whole(t) # core.packet
        BY <2>3, <2>4, <3>3 DEF Whole
      <4> QED BY <2>1, <2>5, <3>3, <4>1 DEF EntryKnowsWorker, PacketAt, Whole
    <3>4. CASE t # o
      <4>1. Whole(t) # core.packet
        BY <2>3, <3>4 DEF Whole
      <4>2. dataWorker'[t] = dataWorker[t]
        BY <1>0, <2>1, <3>4
      <4> QED BY <2>5, <4>1, <4>2 DEF EntryKnowsWorker, PacketAt, Whole
    <3> QED BY <3>2, <3>3, <3>4
  <2>6. \A w \in Workers, t \in Tables : PacketAt(w, Whole(t))' => PacketAt(w, Whole(t))
    BY <2>1 DEF PacketAt, Whole
  <2> QED BY <2>5, <2>6 DEF EntryKnowsWorker, PacketAt, Whole
<1>3. ASSUME NEW w \in Workers, Deliver(w)
      PROVE  EntryKnowsWorker'
  <2> DEFINE q == senderQueue[w]
  <2>1. /\ q # << >> /\ q \in Seq(Packet)
        /\ \A v \in Workers \ {w} : senderQueue'[v] = senderQueue[v] /\ unacked'[v] = unacked[v]
        /\ senderQueue'[w] = Tail(q) /\ unacked'[w] = unacked[w] \cup {Head(q)}
    BY <1>0, <1>3, DeliverShape
  <2>2. dataWorker' = dataWorker /\ core' = core
    BY <1>3 DEF Deliver, registry
  <2> HIDE DEF q
  <2>3. /\ Len(q) \in Nat \ {0} /\ DOMAIN q = 1..Len(q) /\ DOMAIN Tail(q) = 1..Len(q)-1
        /\ Head(q) = q[1] /\ \A i \in 1..Len(q)-1 : Tail(q)[i] = q[i+1]
    BY <2>1, EmptySeq, LenProperties, HeadTailProperties
  <2>4. 1 \in DOMAIN q /\ \A i \in 1..Len(q)-1 : i + 1 \in DOMAIN q
    BY <2>3
  <2>5. \A x : (x \in unacked'[w] \/ \E i \in DOMAIN senderQueue'[w] : senderQueue'[w][i] = x)
          => (x \in unacked[w] \/ \E i \in DOMAIN q : q[i] = x)
    BY <2>1, <2>3, <2>4
  <2>6. \A v \in Workers, t \in Tables : PacketAt(v, Whole(t))' => PacketAt(v, Whole(t))
    <3> TAKE v \in Workers, t \in Tables
    <3>1. CASE v = w
      <4> DEFINE x == [table |-> t, entry |-> TRUE]
      <4>1. (x \in unacked'[w] \/ \E i \in DOMAIN senderQueue'[w] : senderQueue'[w][i] = x)
              => (x \in unacked[w] \/ \E i \in DOMAIN q : q[i] = x)
        BY <2>5
      <4> QED BY <3>1, <4>1 DEF PacketAt, Whole, q
    <3>2. CASE v # w
      BY <2>1, <3>2 DEF PacketAt, Whole
    <3> QED BY <3>1, <3>2
  <2> QED BY <2>2, <2>6, EntryAway
<1>4. ASSUME NEW w \in Workers, NEW packet \in Packet, Acknowledge(w, packet)
      PROVE  EntryKnowsWorker'
  <2>1. /\ dataWorker' = dataWorker /\ core' = core /\ senderQueue' = senderQueue
        /\ \A v \in Workers : unacked'[v] \subseteq unacked[v]
    <3>1. unacked \in [Workers -> SUBSET Packet]
      BY DEF Typed, QueuesTyped
    <3> QED BY <1>4, <3>1 DEF Acknowledge, registry
  <2>2. \A v \in Workers, t \in Tables : PacketAt(v, Whole(t))' => PacketAt(v, Whole(t))
    BY <2>1 DEF PacketAt, Whole
  <2> QED BY <2>1, <2>2, EntryAway
<1>5. ASSUME dataWorker' = dataWorker, senderQueue' = senderQueue, unacked' = unacked,
             core.pc # "assign" \/ core' = core
      PROVE  EntryKnowsWorker'
  <2>1. \A v \in Workers, t \in Tables : PacketAt(v, Whole(t))' => PacketAt(v, Whole(t))
    BY <1>5 DEF PacketAt, Whole
  <2> QED BY <1>5, <2>1, EntryAway
<1>6. ASSUME LookAtSink \/ FindIdealWorker \/ NobodyFound \/ PopTest \/ PopTable
               \/ BuildPacket \/ QueueTest \/ UpdateTaskStatus
      PROVE  EntryKnowsWorker'
  <2>1. /\ dataWorker' = dataWorker /\ senderQueue' = senderQueue /\ unacked' = unacked
        /\ core.pc # "assign"
    BY <1>6 DEF LookAtSink, FindIdealWorker, ConsiderWorker,
       CompareSizes, KeepWorker, NobodyFound, PopTest, PopTable, BuildPacket,
       QueueTest, UpdateTaskStatus, CoreAt, registry, worker
  <2> QED BY <1>5, <2>1
<1>7. CASE ExtractorStep \/ UNCHANGED vars
  BY <1>5, <1>7 DEF ExtractorStep, vars, registry, worker, ExtractTable, PushTable, AddEntry
<1>8. ASSUME NEW w \in Workers, WorkerStep(w)
      PROVE  EntryKnowsWorker'
  BY <1>3, <1>4, <1>5, <1>8 DEF WorkerStep, ReadNullEntry, BeginReport, SetWorkerStats,
     SetReady, ResetReady, registry, worker
<1>9. CASE CoreStep
  BY <1>1, <1>2, <1>6, <1>9 DEF CoreStep
<1> QED BY <1>7, <1>8, <1>9 DEF Next

\* The timer resends a packet to the worker that has it (outgoing_data_registry.cpp,
\* sender_core.cpp): for any number of workers and tables, and although entries
\* appear while the sender core is at work.
THEOREM EntryWorker == Spec => []EntryKnowsWorker
<1>1. Init => EntryInv /\ EntryKnowsWorker
  <2> SUFFICES ASSUME Init PROVE EntryInv /\ EntryKnowsWorker
    OBVIOUS
  <2>1. core.pc = "idle"
    BY DEF Init, Idle
  <2>2. \A w \in Workers : unacked[w] = {} /\ DOMAIN senderQueue[w] = {}
    BY DEF Init
  <2> QED BY <2>1, <2>2 DEF EntryInv, EntryKnowsWorker
<1>2. SinkSafe /\ Typed /\ WayInv /\ EntryInv /\ EntryKnowsWorker /\ [Next]_vars
        => EntryInv' /\ EntryKnowsWorker'
  BY EntryStep, EntryKnowsStep
<1> QED BY <1>1, <1>2, SinkFacts, TypedInvariant, WayInvariant, PTL DEF Spec

-----------------------------------------------------------------------------
(***************************************************************************)
(* The way of a table is the one TableLife promises.                       *)
(***************************************************************************)
\* StateOf in the terms of this module.
LEMMA StateCases ==
  ASSUME NEW t \in Tables
  PROVE  StateOf(t) =
           IF t \in acked THEN "acked"
           ELSE IF \E w \in Workers : SentTo(w, t) THEN "sent"
           ELSE IF \E w \in Workers : QueuedAt(w, t) THEN "queued"
           ELSE IF handed[t] # NoWorker THEN "dropped"
           ELSE IF HandedOut(t) THEN "taken"
           ELSE IF Waiting(t) THEN "waiting"
           ELSE IF t <= calls THEN "refused"
           ELSE "new"
BY DEF StateOf, SentTo, QueuedAt, HandedOut, Waiting

\* A step that changes nothing StateOf looks at leaves a table where it is.
LEMMA StateSame ==
  ASSUME NEW t \in Tables,
         t \in acked' <=> t \in acked,
         \A w \in Workers : SentTo(w, t)' <=> SentTo(w, t),
         \A w \in Workers : QueuedAt(w, t)' <=> QueuedAt(w, t),
         handed'[t] = handed[t],
         HandedOut(t)' <=> HandedOut(t),
         Waiting(t)' <=> Waiting(t),
         (t <= calls)' <=> t <= calls
  PROVE  StateOf(t)' = StateOf(t)
BY DEF StateOf, SentTo, QueuedAt, HandedOut, Waiting

\* A step of the way of one table.
LEMMA LifeMove ==
  ASSUME NEW t \in Tables, NEW from, NEW to, StateOf(t) = from, StateOf(t)' = to,
         \A u \in Tables \ {t} : StateOf(u)' = StateOf(u)
  PROVE  Life!Move(t, from, to)
<1>1. [u \in Tables |-> StateOf(u)]' =
        [[u \in Tables |-> StateOf(u)] EXCEPT ![t] = StateOf(t)']
  OBVIOUS
<1> QED BY <1>1 DEF Life!Move

\* A step that moves no table, gives none to a worker and leaves readiness alone is
\* none of TableLife.
LEMMA LifeStutter ==
  ASSUME \A u \in Tables : StateOf(u)' = StateOf(u), UNCHANGED <<handed, workerReady>>
  PROVE  UNCHANGED <<[t \in Tables |-> StateOf(t)], handed, workerReady>>
OBVIOUS

\* The monitor's pushObject puts its object into the sink and out of its hands.
LEMMA PushShape ==
  ASSUME SinkSafe, S!PushInsert("monitor")
  PROVE  /\ pushing'["monitor"].object = 0
         /\ \A t \in Tables : InSink(t)' <=> InSink(t) \/ t = pushing["monitor"].object
<1>1. SP!TypeOK
  BY DEF SinkSafe, S!TypeOK, SP!TypeOK, S!Item, SP!Item, S!Call, SP!Call, S!Idle,
     SP!Idle, S!Object, SP!Object
<1>2. SP!PushInsert("monitor")
  BY DEF S!PushInsert, SP!PushInsert, S!Idle, SP!Idle, S!InsertAt, SP!InsertAt,
     S!InsertPosition, SP!InsertPosition, S!Beaten, SP!Beaten, S!NewItem, SP!NewItem,
     S!CalculateStarveCounter, SP!CalculateStarveCounter, S!HIGH_PRIORITY,
     SP!HIGH_PRIORITY, S!MEDIUM_PRIORITY, SP!MEDIUM_PRIORITY
<1>3. "monitor" \in {"monitor"}
  OBVIOUS
<1>4. PICK q \in 1..Len(sinkItemList)+1 : SP!Inserted("monitor", q)
  BY <1>1, <1>2, <1>3, SinkConstants, SP!InsertShape
<1>5. pushing'["monitor"].object = 0
  BY DEF SinkSafe, S!TypeOK, S!PushInsert, S!Idle
<1> DEFINE n == Len(sinkItemList)
           o == pushing["monitor"].object
<1>6. /\ n \in Nat /\ DOMAIN sinkItemList = 1..n /\ Len(sinkItemList') = n + 1
      /\ \A i \in 1..q-1 : sinkItemList'[i] = sinkItemList[i]
      /\ sinkItemList'[q].object = o
      /\ \A i \in q+1..n+1 : sinkItemList'[i] = sinkItemList[i-1]
  BY <1>4, LenProperties DEF SinkSafe, S!TypeOK, SP!Inserted
<1>7. DOMAIN sinkItemList' = 1..n+1
  <2>1. sinkItemList' \in Seq(S!Item)
    <3>1. \A b \in StarveBytes : S!NewItem(pushing["monitor"], b) \in S!Item
      BY DEF S!NewItem, S!Item, S!PushInsert, SinkSafe, S!TypeOK, S!Call
    <3>2. sinkItemList \in Seq(SP!Item) /\ pushing["monitor"] # SP!Idle
      BY <1>1, <1>2 DEF SP!TypeOK, SP!PushInsert
    <3>3. PICK byte \in StarveBytes :
            sinkItemList' = SP!InsertAt(sinkItemList,
                              SP!InsertPosition(sinkItemList, pushing["monitor"].priority),
                              SP!NewItem(pushing["monitor"], byte))
      BY <1>2 DEF SP!PushInsert
    <3>4. sinkItemList' \in Seq(SP!Item)
      BY <1>1, <1>3, <3>2, <3>3, SinkConstants, SP!InsertStep
    <3> QED BY <3>4 DEF S!Item, SP!Item, S!Object, SP!Object
  <2> QED BY <1>6, <2>1, LenProperties
<1> HIDE DEF n, o
<1>8. ASSUME NEW t \in Tables
      PROVE  (\E i \in 1..n+1 : sinkItemList'[i].object = t) <=>
             (\E i \in 1..n : sinkItemList[i].object = t) \/ t = o
  <2>1. \A i \in 1..n+1 : i \in 1..q-1 \/ i = q \/ (i \in q+1..n+1 /\ i - 1 \in 1..n)
    BY <1>6
  <2>2. \A i \in 1..q-1 : i \in 1..n
    BY <1>4, <1>6 DEF n
  <2>3. ASSUME NEW i \in 1..n, sinkItemList[i].object = t
        PROVE  \E j \in 1..n+1 : sinkItemList'[j].object = t
    <3>1. CASE i \in 1..q-1
      <4>1. i \in 1..n+1
        BY <1>6
      <4> QED BY <1>6, <2>3, <3>1, <4>1
    <3>2. CASE i \notin 1..q-1
      <4>1. i + 1 \in q+1..n+1 /\ (i + 1) - 1 = i /\ i + 1 \in 1..n+1
        BY <1>4, <1>6, <3>2
      <4>2. sinkItemList'[i + 1] = sinkItemList[i]
        BY <1>6, <4>1
      <4> QED BY <2>3, <4>1, <4>2
    <3> QED BY <3>1, <3>2
  <2>4. q \in 1..n+1
    BY <1>4 DEF n
  <2> QED BY <1>6, <2>1, <2>2, <2>3, <2>4
<1> QED BY <1>5, <1>6, <1>7, <1>8 DEF InSink, o, n

\* Extracting a table makes the next one waiting or, if the sink is full, refused.
LEMMA ExtractMoves ==
  ASSUME SinkSafe, Typed, WayInv, ExtractTable
  PROVE  \E t \in Tables : Life!Extract(t)
<1>1. PICK p \in Priorities : S!PushTest("monitor", p)
  BY DEF ExtractTable
<1>2. calls \in Nat /\ calls < MaxObjects /\ calls' = calls + 1 /\ pushing["monitor"] = S!Idle
  BY <1>1 DEF S!PushTest, SinkSafe, S!TypeOK
<1>3. PICK t \in Tables : t = calls + 1
  BY <1>2, DispatchAssumption DEF Tables
<1>4. /\ UNCHANGED <<worker, sinkItemList, popped, workerReady>>
  BY <1>1 DEF ExtractTable, S!PushTest
<1>5. pushing["monitor"].object = 0
  BY <1>2 DEF S!Idle
<1>6. CASE S!HasRoom
  <2>1. pushing'["monitor"].object = t
    BY <1>1, <1>3, <1>6 DEF S!PushTest, SinkSafe, S!TypeOK
  <2> QED
    <3>1. StateOf(t) = "new"
      <4>1. ~HandedOut(t) /\ ~InSink(t)
        <5>1. DOMAIN popped = 1..Len(popped) /\ DOMAIN sinkItemList = 1..Len(sinkItemList)
          BY LenProperties DEF SinkSafe, S!TypeOK
        <5> QED BY <1>2, <1>3, <5>1 DEF SinkSafe, HandedOut, InSink
      <4>2. handed[t] = NoWorker
        BY <4>1 DEF WayInv
      <4>3. t \notin acked /\ \A w \in Workers : ~SentTo(w, t) /\ ~QueuedAt(w, t)
        BY <4>2, DispatchAssumption DEF WayInv
      <4>4. ~Waiting(t) /\ ~(t <= calls)
        BY <1>2, <1>3, <1>5, <4>1 DEF Waiting
      <4> QED BY <4>1, <4>2, <4>3, <4>4, StateCases
    <3>2. StateOf(t)' = "waiting"
      <4>1. /\ t \notin acked' /\ handed'[t] = NoWorker
            /\ \A w \in Workers : ~SentTo(w, t)' /\ ~QueuedAt(w, t)'
            /\ ~HandedOut(t)' /\ Waiting(t)'
        <5>1. ~HandedOut(t)
          <6>1. DOMAIN popped = 1..Len(popped)
            BY LenProperties DEF SinkSafe, S!TypeOK
          <6> QED BY <1>2, <1>3, <6>1 DEF SinkSafe, HandedOut
        <5>2. handed[t] = NoWorker
          BY <5>1 DEF WayInv
        <5>3. t \notin acked /\ \A w \in Workers : ~SentTo(w, t) /\ ~QueuedAt(w, t)
          BY <5>2, DispatchAssumption DEF WayInv
        <5> QED BY <1>4, <2>1, <5>1, <5>2, <5>3
                DEF worker, SentTo, QueuedAt, HandedOut, Waiting
      <4> QED BY <4>1 DEF StateOf, SentTo, QueuedAt, HandedOut, Waiting
    <3>3. ASSUME NEW u \in Tables \ {t}
          PROVE  StateOf(u)' = StateOf(u)
      <4>1. Waiting(u)' <=> Waiting(u)
        <5>1. u # 0
          BY DEF Tables
        <5> QED BY <1>4, <1>5, <2>1, <5>1 DEF Waiting, InSink
      <4>2. (u <= calls)' <=> u <= calls
        BY <1>2, <1>3 DEF Tables
      <4> QED BY <1>4, <4>1, <4>2, StateSame DEF worker, SentTo, QueuedAt, HandedOut
    <3>4. Life!Move(t, "new", "waiting")
      BY <3>1, <3>2, <3>3, LifeMove
    <3> QED BY <1>4, <3>4 DEF Life!Extract, worker
<1>7. CASE ~S!HasRoom
  <2>1. pushing' = pushing
    BY <1>1, <1>7 DEF S!PushTest
  <2>2. ~HandedOut(t) /\ ~InSink(t)
    <3>1. DOMAIN popped = 1..Len(popped) /\ DOMAIN sinkItemList = 1..Len(sinkItemList)
      BY LenProperties DEF SinkSafe, S!TypeOK
    <3> QED BY <1>2, <1>3, <3>1 DEF SinkSafe, HandedOut, InSink
  <2>3. handed[t] = NoWorker
    BY <2>2 DEF WayInv
  <2>4. t \notin acked /\ \A w \in Workers : ~SentTo(w, t) /\ ~QueuedAt(w, t)
    BY <2>3, DispatchAssumption DEF WayInv
  <2>5. ~Waiting(t) /\ ~(t <= calls) /\ (t <= calls)'
    BY <1>2, <1>3, <1>5, <2>2 DEF Waiting
  <2>6. StateOf(t) = "new"
    BY <2>2, <2>3, <2>4, <2>5, StateCases
  <2>7. StateOf(t)' = "refused"
    <3>1. /\ t \notin acked' /\ handed'[t] = NoWorker
          /\ \A w \in Workers : ~SentTo(w, t)' /\ ~QueuedAt(w, t)'
          /\ ~HandedOut(t)' /\ ~Waiting(t)'
      BY <1>4, <2>1, <2>2, <2>3, <2>4, <2>5
         DEF worker, SentTo, QueuedAt, HandedOut, Waiting, InSink
    <3> QED BY <2>5, <3>1 DEF StateOf, SentTo, QueuedAt, HandedOut, Waiting
  <2>8. ASSUME NEW u \in Tables \ {t}
        PROVE  StateOf(u)' = StateOf(u)
    <3>1. Waiting(u)' <=> Waiting(u)
      BY <1>4, <2>1 DEF Waiting, InSink
    <3>2. (u <= calls)' <=> u <= calls
      BY <1>2, <1>3 DEF Tables
    <3> QED BY <1>4, <3>1, <3>2, StateSame DEF worker, SentTo, QueuedAt, HandedOut
  <2>9. Life!Move(t, "new", "refused")
    BY <2>6, <2>7, <2>8, LifeMove
  <2> QED BY <1>4, <2>9 DEF Life!Extract, worker
<1> QED BY <1>6, <1>7

\* Between its two steps the monitor's push moves no table.
LEMMA PushMoves ==
  ASSUME SinkSafe, PushTable
  PROVE  UNCHANGED <<[t \in Tables |-> StateOf(t)], handed, workerReady>>
<1>1. UNCHANGED <<worker, workerReady>>
  BY DEF PushTable
<1>2. UNCHANGED <<popped, calls>>
  BY DEF PushTable, sink, S!PushInsert
<1>3. ASSUME NEW u \in Tables
      PROVE  Waiting(u)' <=> Waiting(u)
  <2>1. u # 0
    BY DEF Tables
  <2>2. CASE UNCHANGED sink
    BY <2>2 DEF sink, Waiting, InSink
  <2>3. CASE S!PushInsert("monitor")
    BY <2>1, <2>3, PushShape DEF Waiting
  <2> QED BY <2>2, <2>3 DEF PushTable
<1>4. \A u \in Tables : StateOf(u)' = StateOf(u)
  <2> TAKE u \in Tables
  <2> QED BY <1>1, <1>2, <1>3, StateSame DEF worker, SentTo, QueuedAt, HandedOut
<1> QED BY <1>1, <1>4, LifeStutter DEF worker

\* The sender core takes a waiting table.
LEMMA PopMoves ==
  ASSUME SinkSafe, Typed, WayInv, PopTable
  PROVE  \E t \in Tables : Life!Take(t)
<1>1. PICK t \in Tables : t = core'.packet.table
  BY PopShape
<1>2. /\ InSink(t) /\ ~HandedOut(t)
      /\ \A u \in Tables : HandedOut(u)' <=> HandedOut(u) \/ u = t
      /\ \A u \in Tables \ {t} : InSink(u)' <=> InSink(u)
  BY <1>1, PopShape
<1>3. UNCHANGED <<worker, workerReady, pushing, calls>>
  BY DEF PopTable, S!PopTake
<1>4. handed[t] = NoWorker
  BY <1>2 DEF WayInv
<1>5. t \notin acked /\ \A w \in Workers : ~SentTo(w, t) /\ ~QueuedAt(w, t)
  BY <1>4, DispatchAssumption DEF WayInv
<1>6. StateOf(t) = "waiting"
  BY <1>2, <1>4, <1>5, StateCases DEF Waiting
<1>7. StateOf(t)' = "taken"
  <2>1. /\ t \notin acked' /\ handed'[t] = NoWorker
        /\ \A w \in Workers : ~SentTo(w, t)' /\ ~QueuedAt(w, t)'
        /\ HandedOut(t)'
    BY <1>2, <1>3, <1>4, <1>5 DEF worker, SentTo, QueuedAt
  <2> QED BY <2>1 DEF StateOf, SentTo, QueuedAt, HandedOut
<1>8. ASSUME NEW u \in Tables \ {t}
      PROVE  StateOf(u)' = StateOf(u)
  <2>1. (Waiting(u)' <=> Waiting(u)) /\ (HandedOut(u)' <=> HandedOut(u))
    BY <1>2, <1>3 DEF Waiting
  <2> QED BY <1>3, <2>1, StateSame DEF worker, SentTo, QueuedAt
<1>9. Life!Move(t, "waiting", "taken")
  BY <1>6, <1>7, <1>8, LifeMove
<1> QED BY <1>3, <1>9 DEF Life!Take, worker

\* The worker chosen is ready still: only the idle sender core takes readiness away.
LEMMA BestReady ==
  ASSUME Typed, ChoiceInv, core.pc \notin Searching
  PROVE  core.best.worker \in workerReady
BY DEF Typed, CoreTyped, ChoiceInv, Searching

\* queuePacket queues the table, or drops it.
LEMMA HandMoves ==
  ASSUME Typed, WayInv, ChoiceInv,
         QueuePacket \/ (QueueTest /\ ~CanQueue(core.best.worker))
  PROVE  \E t \in Tables, w \in Workers : Life!Hand(t, w)
<1>0. core.pc \in {"test", "queue"} /\ core \in CoreType
  BY DEF QueuePacket, QueueTest, CoreAt, Typed, CoreTyped
<1>1. PICK t \in Tables : t = core.packet.table
  BY <1>0 DEF Typed, CoreTyped, CoreType, Holding, Tables
<1>2. PICK b \in Workers : b = core.best.worker
  BY <1>0, BestWorker DEF Searching
<1>3. b \in workerReady
  BY <1>0, <1>2, BestReady DEF Searching
<1>4. handed[t] = NoWorker /\ HandedOut(t)
  BY <1>0, <1>1 DEF WayInv
<1>5. t \notin acked /\ \A w \in Workers : ~SentTo(w, t) /\ ~QueuedAt(w, t)
  BY <1>4, DispatchAssumption DEF WayInv
<1>6. StateOf(t) = "taken"
  BY <1>4, <1>5, StateCases
<1>7. /\ handed' = [handed EXCEPT ![t] = b]
      /\ UNCHANGED <<sink, unacked, acked, workerReady>>
  BY <1>1, <1>2 DEF QueuePacket, QueueTest, HandTo
<1>8. handed'[t] = b /\ \A u \in Tables \ {t} : handed'[u] = handed[u]
  BY <1>7 DEF Typed, QueuesTyped
<1>9. b # NoWorker
  BY DispatchAssumption
<1>10. /\ \A w \in Workers, u \in Tables : SentTo(w, u)' <=> SentTo(w, u)
       /\ \A u \in Tables : (HandedOut(u)' <=> HandedOut(u)) /\ (Waiting(u)' <=> Waiting(u))
                            /\ ((u <= calls)' <=> u <= calls)
  BY <1>7 DEF sink, SentTo, HandedOut, Waiting, InSink
<1>11. CASE QueuePacket
  <2>1. \A w \in Workers, u \in Tables : QueuedAt(w, u)' <=> QueuedAt(w, u) \/ (w = b /\ u = t)
    BY <1>1, <1>2, <1>11, QueueShape
  <2>2. StateOf(t)' = "queued"
    <3>1. t \notin acked' /\ \A w \in Workers : ~SentTo(w, t)'
      BY <1>5, <1>7, <1>10
    <3>2. \E w \in Workers : QueuedAt(w, t)'
      BY <2>1
    <3> QED BY <3>1, <3>2 DEF StateOf, SentTo, QueuedAt
  <2>3. ASSUME NEW u \in Tables \ {t}
        PROVE  StateOf(u)' = StateOf(u)
    BY <1>7, <1>8, <1>10, <2>1, StateSame
  <2>4. Life!Move(t, "taken", "queued")
    BY <1>6, <2>2, <2>3, LifeMove
  <2> QED BY <1>3, <1>7, <2>4 DEF Life!Hand
<1>12. CASE QueueTest /\ ~CanQueue(core.best.worker)
  <2>1. \A w \in Workers, u \in Tables : QueuedAt(w, u)' <=> QueuedAt(w, u)
    BY <1>12 DEF QueueTest, QueuedAt
  <2>2. StateOf(t)' = "dropped"
    <3>1. /\ t \notin acked'
          /\ \A w \in Workers : ~SentTo(w, t)' /\ ~QueuedAt(w, t)'
          /\ handed'[t] # NoWorker
      BY <1>5, <1>7, <1>8, <1>9, <1>10, <2>1
    <3> QED BY <3>1 DEF StateOf, SentTo, QueuedAt
  <2>3. ASSUME NEW u \in Tables \ {t}
        PROVE  StateOf(u)' = StateOf(u)
    BY <1>7, <1>8, <1>10, <2>1, StateSame
  <2>4. Life!Move(t, "taken", "dropped")
    BY <1>6, <2>2, <2>3, LifeMove
  <2> QED BY <1>3, <1>7, <2>4 DEF Life!Hand
<1> QED BY <1>11, <1>12

\* The session sends a queued table.
LEMMA DeliverMoves ==
  ASSUME Typed, WayInv, NEW w \in Workers, Deliver(w)
  PROVE  \E t \in Tables : Life!Send(t)
<1>1. PICK t \in Tables : t = Head(senderQueue[w]).table
  BY DeliverShape DEF Packet
<1>2. /\ QueuedAt(w, t)
      /\ \A v \in Workers, u \in Tables :
           QueuedAt(v, u)' <=> QueuedAt(v, u) /\ ~(v = w /\ u = t)
      /\ \A v \in Workers, u \in Tables :
           SentTo(v, u)' <=> SentTo(v, u) \/ (v = w /\ u = t)
  BY <1>1, DeliverShape
<1>3. UNCHANGED <<sink, workerReady, acked, handed>>
  BY DEF Deliver
<1>4. t \notin acked /\ \A v \in Workers : ~SentTo(v, t)
  <2>1. handed[t] = w /\ ~SentTo(w, t) /\ t \notin acked
    BY <1>2 DEF WayInv
  <2> QED BY <2>1 DEF WayInv
<1>5. StateOf(t) = "queued"
  BY <1>2, <1>4, StateCases
<1>6. StateOf(t)' = "sent"
  <2>1. t \notin acked' /\ \E v \in Workers : SentTo(v, t)'
    BY <1>2, <1>3, <1>4
  <2> QED BY <2>1 DEF StateOf, SentTo
<1>7. ASSUME NEW u \in Tables \ {t}
      PROVE  StateOf(u)' = StateOf(u)
  <2>1. (HandedOut(u)' <=> HandedOut(u)) /\ (Waiting(u)' <=> Waiting(u))
        /\ ((u <= calls)' <=> u <= calls)
    BY <1>3 DEF sink, HandedOut, Waiting, InSink
  <2> QED BY <1>2, <1>3, <2>1, StateSame
<1>8. Life!Move(t, "queued", "sent")
  BY <1>5, <1>6, <1>7, LifeMove
<1> QED BY <1>3, <1>8 DEF Life!Send

\* The worker acknowledges a table that was sent.
LEMMA AcknowledgeMoves ==
  ASSUME Typed, WayInv, NEW w \in Workers, NEW packet \in Packet, Acknowledge(w, packet)
  PROVE  \E t \in Tables : Life!Ack(t)
<1>1. PICK t \in Tables : t = packet.table
  BY DEF Packet
<1>2. /\ SentTo(w, t)
      /\ \A v \in Workers, u \in Tables :
           SentTo(v, u)' <=> SentTo(v, u) /\ ~(v = w /\ u = t)
  BY <1>1, AcknowledgeShape
<1>3. UNCHANGED <<sink, workerReady, senderQueue, handed>> /\ acked' = acked \cup {t}
  BY <1>1 DEF Acknowledge
<1>4. t \notin acked
  BY <1>2 DEF WayInv
<1>5. StateOf(t) = "sent"
  BY <1>2, <1>4, StateCases
<1>6. StateOf(t)' = "acked"
  BY <1>3 DEF StateOf
<1>7. ASSUME NEW u \in Tables \ {t}
      PROVE  StateOf(u)' = StateOf(u)
  <2>1. (HandedOut(u)' <=> HandedOut(u)) /\ (Waiting(u)' <=> Waiting(u))
        /\ ((u <= calls)' <=> u <= calls)
    BY <1>3 DEF sink, HandedOut, Waiting, InSink
  <2>2. \A v \in Workers : QueuedAt(v, u)' <=> QueuedAt(v, u)
    BY <1>3 DEF QueuedAt
  <2> QED BY <1>2, <1>3, <2>1, <2>2, StateSame
<1>8. Life!Move(t, "sent", "acked")
  BY <1>5, <1>6, <1>7, LifeMove
<1> QED BY <1>3, <1>8 DEF Life!Ack

\* Every other step moves no table.
LEMMA StillMoves ==
  ASSUME UNCHANGED <<worker, sinkItemList, pushing, popped, calls>>
  PROVE  /\ [t \in Tables |-> StateOf(t)]' = [t \in Tables |-> StateOf(t)]
         /\ handed' = handed
<1>1. \A u \in Tables : StateOf(u)' = StateOf(u)
  <2> TAKE u \in Tables
  <2> QED BY StateSame DEF worker, SentTo, QueuedAt, HandedOut, Waiting, InSink
<1> QED BY <1>1 DEF worker

\* However the threads interleave, every table goes its way in order and once, and
\* to a worker that is ready when it is handed over: Dispatch implements TableLife
\* for any number of tables and workers (data_extractor.cpp, sender_core.cpp).
THEOREM WayOfTables == Spec => TablesLive
<1>1. Init => Life!Init
  <2> SUFFICES ASSUME Init PROVE Life!Init
    OBVIOUS
  <2>1. ASSUME NEW t \in Tables
        PROVE  StateOf(t) = "new"
    <3>1. /\ acked = {} /\ handed[t] = NoWorker
          /\ \A w \in Workers : ~SentTo(w, t) /\ ~QueuedAt(w, t)
      BY DEF Init, SentTo, QueuedAt
    <3>2. ~HandedOut(t) /\ ~InSink(t) /\ pushing["monitor"].object = 0 /\ calls = 0
      BY DEF Init, S!Init, S!Idle, HandedOut, InSink
    <3>3. t # 0 /\ ~(t <= calls)
      BY <3>2, DispatchAssumption DEF Tables
    <3> QED BY <3>1, <3>2, <3>3, StateCases DEF Waiting
  <2> QED BY <2>1 DEF Init, Life!Init
<1>2. SinkSafe /\ Typed /\ Typed' /\ ChoiceInv /\ WayInv /\ [Next]_vars =>
        [Life!Next]_<<[t \in Tables |-> StateOf(t)], handed, workerReady>>
  <2> SUFFICES ASSUME SinkSafe, Typed, Typed', ChoiceInv, WayInv, [Next]_vars
               PROVE  [Life!Next]_<<[t \in Tables |-> StateOf(t)], handed, workerReady>>
    OBVIOUS
  <2> DEFINE Goal == Life!Next \/
                     UNCHANGED <<[t \in Tables |-> StateOf(t)], handed, workerReady>>
  <2>1. CASE ExtractTable
    BY <2>1, ExtractMoves DEF Life!Next
  <2>2. CASE PushTable
    BY <2>2, PushMoves
  <2>3. CASE PopTable
    BY <2>3, PopMoves DEF Life!Next
  <2>4. CASE QueuePacket \/ (QueueTest /\ ~CanQueue(core.best.worker))
    BY <2>4, HandMoves DEF Life!Next
  <2>5. ASSUME NEW w \in Workers, Deliver(w)
        PROVE  Goal
    BY <2>5, DeliverMoves DEF Life!Next
  <2>6. ASSUME NEW w \in Workers, NEW packet \in Packet, Acknowledge(w, packet)
        PROVE  Goal
    BY <2>6, AcknowledgeMoves DEF Life!Next
  <2>7. ASSUME NEW w \in Workers, SetReady(w) \/ ResetReady(w)
        PROVE  Goal
    <3>1. UNCHANGED <<worker, sinkItemList, pushing, popped, calls>>
      BY <2>7 DEF SetReady, ResetReady, sink
    <3>2. workerReady' \in SUBSET Workers
      BY DEF Typed, StatsTyped
    <3> QED BY <3>1, <3>2, StillMoves DEF Life!Next, Life!Ready
  <2>8. ASSUME UNCHANGED <<worker, sinkItemList, pushing, popped, calls, workerReady>>
        PROVE  Goal
    BY <2>8, StillMoves
  <2>9. CASE AddEntry \/ UNCHANGED vars
    BY <2>8, <2>9 DEF AddEntry, vars, sink
  <2>10. CASE LookAtSink \/ FindIdealWorker \/ NobodyFound \/ PopTest \/ BuildPacket
                \/ (QueueTest /\ CanQueue(core.best.worker)) \/ AssignWorker
                \/ UpdateTaskStatus
    <3>1. UNCHANGED <<worker, sinkItemList, pushing, popped, calls, workerReady>>
      BY <2>10 DEF LookAtSink, FindIdealWorker, ConsiderWorker,
       CompareSizes, KeepWorker, NobodyFound, PopTest, S!PopTest,
         BuildPacket, QueueTest, AssignWorker, UpdateTaskStatus, sink, worker
    <3> QED BY <2>8, <3>1
  <2>11. ASSUME NEW w \in Workers, WorkerStep(w)
         PROVE  Goal
    BY <2>5, <2>6, <2>7, <2>8, <2>11 DEF WorkerStep, ReadNullEntry, BeginReport,
       SetWorkerStats, sink
  <2>12. CASE CoreStep
    BY <2>3, <2>4, <2>10, <2>12 DEF CoreStep
  <2>13. CASE ExtractorStep
    BY <2>1, <2>2, <2>9, <2>13 DEF ExtractorStep
  <2> QED BY <2>9, <2>11, <2>12, <2>13 DEF Next
<1> QED BY <1>1, <1>2, SinkFacts, TypedInvariant, ChoiceInvariant, WayInvariant, PTL
        DEF Spec, TablesLive, Life!Spec
=============================================================================
