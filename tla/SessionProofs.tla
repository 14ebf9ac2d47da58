--------------------------- MODULE SessionProofs ---------------------------
(***************************************************************************)
(* Registration and polling, for any number of sessions, threads and       *)
(* workers: what a uid is good for although the list is not locked.        *)
(***************************************************************************)
EXTENDS Session, StdListProofs

(***************************************************************************)
(* Types, and the uids of workers: one that is about to draw has none yet  *)
(* and is alone with its object, one that is listed, or about to be, has   *)
(* one.  Handlers share the threads.                                       *)
(***************************************************************************)
Numbered ==
  /\ \A s \in Sessions : worker[s] <= made
  /\ \A n \in Worker : n > made => workerUid[n] = NoUid

Drawing ==
  \A s \in Sessions : pc[s] = "draw" =>
    /\ workerUid[worker[s]] = NoUid
    /\ \A r \in Sessions : pc[r] = "draw" /\ worker[r] = worker[s] => r = s

Linking == \A s \in Sessions : pc[s] \in {"link", "push"} => workerUid[worker[s]] \in Uids

Named(list) == \A n \in Listed(list) : n \in Worker /\ workerUid[n] \in Uids

Typed ==
  /\ TypeOK
  /\ Numbered /\ Drawing /\ Linking
  /\ Named(currentWorkerList)
  /\ \A s \in Sessions : Named(seen[s])

\* The list with one more in front.
LEMMA ListedPush ==
  ASSUME NEW S, NEW list \in Seq(S), NEW n \in S
  PROVE  /\ <<n>> \o list \in Seq(S)
         /\ Listed(<<n>> \o list) = {n} \cup Listed(list)
<1>1. /\ <<n>> \in Seq(S) /\ Len(<<n>>) = 1 /\ <<n>>[1] = n
      /\ Len(list) \in Nat /\ DOMAIN list = 1..Len(list)
  BY LenProperties
<1>2. /\ <<n>> \o list \in Seq(S)
      /\ Len(<<n>> \o list) = Len(list) + 1
      /\ \A i \in 1..Len(list) + 1 :
           (<<n>> \o list)[i] = IF i <= 1 THEN <<n>>[i] ELSE list[i - 1]
  BY <1>1, ConcatProperties
<1>3. DOMAIN (<<n>> \o list) = 1..Len(list) + 1
  BY <1>2, LenProperties
<1>4. ASSUME NEW i \in DOMAIN list
      PROVE  i + 1 \in 1..Len(list) + 1 /\ (<<n>> \o list)[i + 1] = list[i]
  BY <1>1, <1>2
<1>5. 1 \in 1..Len(list) + 1 /\ (<<n>> \o list)[1] = n
  BY <1>1, <1>2
<1>6. ASSUME NEW i \in 1..Len(list) + 1
      PROVE  (<<n>> \o list)[i] \in {n} \cup Listed(list)
  <2>1. CASE i = 1
    BY <1>5, <2>1
  <2>2. CASE i # 1
    <3>1. i - 1 \in DOMAIN list /\ ~(i <= 1)
      BY <1>1, <2>2
    <3> QED BY <1>2, <3>1 DEF Listed
  <2> QED BY <2>1, <2>2
<1>7. Listed(<<n>> \o list) \subseteq {n} \cup Listed(list)
  BY <1>3, <1>6 DEF Listed
<1>8. n \in Listed(<<n>> \o list)
  BY <1>3, <1>5 DEF Listed
<1>9. Listed(list) \subseteq Listed(<<n>> \o list)
  BY <1>3, <1>4 DEF Listed
<1> QED BY <1>2, <1>7, <1>8, <1>9

\* A uid that is found belongs to a listed worker.
LEMMA Found ==
  ASSUME TypeOK, NEW u, FoundAt(u) # {}
  PROVE  WorkerFromUid(u) \in Listed(currentWorkerList) /\ workerUid[WorkerFromUid(u)] = u
<1>1. FoundAt(u) \subseteq Nat
  BY LenProperties DEF FoundAt, TypeOK
<1>2. PICK i \in FoundAt(u) : \A j \in FoundAt(u) : i <= j
  BY <1>1, LeastExists
<1>3. PICK k \in FoundAt(u) : WorkerFromUid(u) = currentWorkerList[k]
  BY <1>2 DEF WorkerFromUid
<1> QED BY <1>3 DEF FoundAt, Listed

\* A uid that is not found is nobody's in the list.
LEMMA NotFound ==
  ASSUME NEW u, FoundAt(u) = {}, NEW n \in Listed(currentWorkerList)
  PROVE  workerUid[n] # u
BY DEF FoundAt, Listed

\* Who is running is finite in number.
LEMMA RunningFinite == IsFiniteSet(Running) /\ Cardinality(Running) \in Nat
BY FS_Subset, FS_CardinalityType, SessionAssumption DEF Running

\* A session starts to run on a free thread, or one that runs goes on or ends.
LEMMA Threaded ==
  ASSUME TypeOK, NEW s \in Sessions, NEW place, Goto(s, place),
         FreeThread \/ s \in Running
  PROVE  Cardinality(Running') <= Threads
<1>1. Running' \subseteq Running \cup {s}
  <2>1. \A r \in Sessions \ {s} : pc'[r] = pc[r]
    BY DEF Goto, TypeOK
  <2> QED BY <2>1 DEF Running
<1>2. IsFiniteSet(Running \cup {s}) /\ Cardinality(Running \cup {s}) <= Threads
  <2>1. CASE s \in Running
    <3>1. Running \cup {s} = Running
      BY <2>1
    <3> QED BY <3>1, RunningFinite DEF TypeOK
  <2>2. CASE s \notin Running /\ FreeThread
    <3>1. /\ IsFiniteSet(Running \cup {s})
          /\ Cardinality(Running \cup {s}) = Cardinality(Running) + 1
      BY <2>2, RunningFinite, FS_AddElement
    <3> QED BY <3>1, <2>2, RunningFinite, SessionAssumption DEF FreeThread
  <2> QED BY <2>1, <2>2
<1>3. Cardinality(Running') <= Cardinality(Running \cup {s}) /\ Cardinality(Running') \in Nat
      /\ Cardinality(Running \cup {s}) \in Nat
  BY <1>1, <1>2, FS_Subset, FS_CardinalityType
<1> QED BY <1>2, <1>3, SessionAssumption

\* The lists and uids are as they were.
LEMMA SameNames ==
  ASSUME NEW list, Named(list), UNCHANGED workerUid
  PROVE  Named(list)'
BY DEF Named

\* A session that neither draws nor links before or after the step, while nobody's
\* uid changes.
LEMMA Elsewhere ==
  ASSUME Typed, NEW s \in Sessions, NEW place, Goto(s, place), UNCHANGED <<registry, seen>>,
         place \notin {"draw", "link", "push"},
         worker' \in [Sessions -> Worker \cup {0}],
         \A r \in Sessions \ {s} : worker'[r] = worker[r],
         worker'[s] <= made
  PROVE  /\ Numbered' /\ Drawing' /\ Linking'
         /\ Named(currentWorkerList)'
         /\ \A r \in Sessions : Named(seen[r])'
<1>1. \A r \in Sessions \ {s} : pc'[r] = pc[r]
  BY DEF Goto, Typed, TypeOK
<1>2. pc'[s] = place
  BY DEF Goto, Typed, TypeOK
<1>3. Numbered'
  BY DEF Typed, Numbered, registry
<1>4. Drawing' /\ Linking'
  BY <1>1, <1>2 DEF Typed, Drawing, Linking, registry
<1>5. Named(currentWorkerList)' /\ \A r \in Sessions : Named(seen[r])'
  BY DEF Typed, Named, Listed, registry
<1> QED BY <1>3, <1>4, <1>5

\* Types and names hold at the start.
LEMMA TypedInit == Init => Typed
<1> SUFFICES ASSUME Init
             PROVE  Typed
  OBVIOUS
<1>1. << >> \in Seq(Worker) /\ Listed(<< >>) = {}
  BY EmptySeq DEF Listed
<1>2. Cardinality(Running) <= Threads
  <2>1. Running = {}
    BY DEF Init, Running
  <2> QED BY <2>1, FS_EmptySet, SessionAssumption
<1>3. TypeOK
  <2>1. seen \in [Sessions -> Seq(Worker)] /\ currentWorkerList \in Seq(Worker)
    BY <1>1 DEF Init
  <2>2. made \in 0..MaxWorkers /\ leaves \in Nat
    BY SessionAssumption DEF Init
  <2>3. /\ senderQueue \in [Worker -> Seq(Kind)]
        /\ pending \in [Worker -> Nat] /\ acks \in [Worker -> Nat]
        /\ \A n \in Worker : acks[n] <= pending[n]
    <3>1. << >> \in Seq(Kind)
      BY EmptySeq
    <3> QED BY <3>1 DEF Init
  <2> QED BY <1>2, <2>1, <2>2, <2>3 DEF Init, TypeOK, SessionPc
<1>4. Numbered /\ Drawing /\ Linking
  BY DEF Init, Numbered, Drawing, Linking, Worker
<1> QED BY <1>1, <1>3, <1>4 DEF Typed, Named, Init

\* Clients connect and leave.
LEMMA TypedClient ==
  ASSUME Typed, NEW s \in Sessions, Connect(s) \/ Leave(s) \/ EndSession(s)
  PROVE  Typed'
<1>1. CASE Connect(s)
  <2>1. Cardinality(Running') <= Threads
    BY <1>1, Threaded DEF Connect, Typed
  <2>2. TypeOK'
    BY <1>1, <2>1 DEF Typed, TypeOK, Connect, Goto, SessionPc, registry, nodes, queue, At
  <2> QED BY <1>1, <2>2, Elsewhere DEF Typed, TypeOK, Numbered, Connect
<1>2. CASE Leave(s)
  <2>1. Running' = Running
    BY <1>2 DEF Running, Leave
  <2>2. TypeOK'
    BY <1>2, <2>1 DEF Typed, TypeOK, Leave, registry, nodes, queue
  <2> QED BY <1>2, <2>2 DEF Typed, Numbered, Drawing, Linking, Named, Listed, Leave, registry
<1>3. CASE EndSession(s)
  <2>1. Cardinality(Running') <= Threads
    BY <1>3, Threaded DEF EndSession, Typed
  <2>2. TypeOK'
    BY <1>3, <2>1 DEF Typed, TypeOK, EndSession, Goto, SessionPc, registry, clients, nodes, queue
  <2> QED BY <1>3, <2>2, Elsewhere DEF Typed, TypeOK, Numbered, EndSession
<1> QED BY <1>1, <1>2, <1>3

\* A packet of no worker, or of a known one.
LEMMA TypedRead ==
  ASSUME Typed, NEW s \in Sessions, ReadCorrupt(s) \/ \E quick \in BOOLEAN : ReadKnown(s, quick)
  PROVE  Typed'
<1>1. CASE ReadCorrupt(s)
  <2>1. Cardinality(Running') <= Threads
    BY <1>1, Threaded DEF ReadCorrupt, ReadBegins, Typed
  <2>2. TypeOK'
    BY <1>1, <2>1 DEF Typed, TypeOK, ReadCorrupt, Goto, SessionPc, registry, clients, nodes, queue
  <2> QED BY <1>1, <2>2, Elsewhere DEF Typed, TypeOK, Numbered, ReadCorrupt
<1>2. ASSUME NEW quick \in BOOLEAN, ReadKnown(s, quick)
      PROVE  Typed'
  <2>1. Cardinality(Running') <= Threads
    BY <1>2, Threaded DEF ReadKnown, ReadBegins, Typed
  <2> DEFINE n == WorkerFromUid(clientUid[s])
  <2>2. n \in Worker /\ workerUid[n] \in Uids
    BY <1>2, Found DEF ReadKnown, Typed, Named
  <2>3. n <= made
    BY <2>2, SessionAssumption DEF Typed, TypeOK, Numbered, Worker
  <2>4. worker' = [worker EXCEPT ![s] = n]
    BY <1>2 DEF ReadKnown
  <2>5. TypeOK'
    <3>1. PICK k \in 0..1 : /\ acks[n] + k <= pending[n]
                            /\ acks' = [acks EXCEPT ![n] = @ + k]
      BY <1>2 DEF ReadKnown
    <3>2. acks' \in [Worker -> Nat] /\ \A m \in Worker : acks'[m] <= pending[m]
      BY <2>2, <3>1 DEF Typed, TypeOK
    <3> QED BY <1>2, <2>1, <2>2, <2>4, <3>2
            DEF Typed, TypeOK, ReadKnown, Goto, SessionPc, registry, clients
  <2>6. /\ \A r \in Sessions \ {s} : worker'[r] = worker[r]
        /\ worker'[s] = n
    BY <2>4 DEF Typed, TypeOK
  <2> QED BY <1>2, <2>3, <2>5, <2>6, Elsewhere DEF TypeOK, Typed, ReadKnown
<1> QED BY <1>1, <1>2

\* A packet of an unknown worker: its object is made.
LEMMA TypedUnknown ==
  ASSUME Typed, NEW s \in Sessions, ReadUnknown(s)
  PROVE  Typed'
<1>1. Cardinality(Running') <= Threads
  BY Threaded DEF ReadUnknown, ReadBegins, Typed
<1>2. /\ made \in Nat /\ made + 1 \in Worker /\ made + 1 \in 0..MaxWorkers
      /\ workerUid[made + 1] = NoUid
  BY SessionAssumption DEF ReadUnknown, Typed, TypeOK, Numbered, Worker
<1>3. TypeOK'
  BY <1>1, <1>2 DEF Typed, TypeOK, ReadUnknown, Goto, SessionPc, clients, nodes, queue
<1>4. /\ \A r \in Sessions \ {s} : worker'[r] = worker[r] /\ pc'[r] = pc[r]
      /\ worker'[s] = made + 1 /\ pc'[s] = "draw" /\ made' = made + 1
      /\ UNCHANGED workerUid
  BY DEF ReadUnknown, Goto, Typed, TypeOK
<1>5. Numbered'
  <2>1. \A r \in Sessions : worker[r] \in Int /\ worker[r] <= made
    BY DEF Typed, TypeOK, Numbered, Worker
  <2>2. \A r \in Sessions : worker'[r] <= made + 1
    BY <1>2, <1>4, <2>1
  <2>3. \A n \in Worker : n > made + 1 => n > made
    BY <1>2 DEF Worker
  <2> QED BY <1>4, <2>2, <2>3 DEF Typed, Numbered
<1>6. Drawing'
  <2>1. \A r \in Sessions : worker[r] # made + 1
    BY <1>2 DEF Typed, TypeOK, Numbered, Worker
  <2> QED BY <1>2, <1>4, <2>1 DEF Typed, Drawing
<1>7. Linking'
  BY <1>4 DEF Typed, Linking
<1>8. Named(currentWorkerList)' /\ \A r \in Sessions : Named(seen[r])'
  BY DEF Typed, Named, Listed, ReadUnknown
<1> QED BY <1>3, <1>5, <1>6, <1>7, <1>8 DEF Typed

\* A uid is drawn.
LEMMA TypedDraw ==
  ASSUME Typed, NEW s \in Sessions, Draw(s)
  PROVE  Typed'
<1>1. s \in Running /\ worker[s] \in Worker /\ pc[s] = "draw"
  BY DEF Draw, At, Running, Typed, TypeOK
<1>2. CASE Goto(s, "spin") /\ UNCHANGED workerUid
  <2>1. Cardinality(Running') <= Threads
    BY <1>1, <1>2, Threaded DEF Typed
  <2>2. TypeOK'
    BY <1>1, <1>2, <2>1 DEF Typed, TypeOK, Draw, Goto, SessionPc, clients, nodes, queue
  <2> QED BY <1>2, <2>2, Elsewhere DEF Typed, TypeOK, Numbered, Draw, registry
<1>3. ASSUME NEW u \in Uids, workerUid' = [workerUid EXCEPT ![worker[s]] = u],
             Goto(s, "link")
      PROVE  Typed'
  <2>1. Cardinality(Running') <= Threads
    BY <1>1, <1>3, Threaded DEF Typed
  <2>2. TypeOK'
    BY <1>1, <1>3, <2>1 DEF Typed, TypeOK, Draw, Goto, SessionPc, clients, nodes, queue
  <2>3. /\ \A r \in Sessions \ {s} : pc'[r] = pc[r]
        /\ pc'[s] = "link" /\ workerUid'[worker[s]] = u
        /\ \A n \in Worker \ {worker[s]} : workerUid'[n] = workerUid[n]
        /\ UNCHANGED <<worker, seen, currentWorkerList, made>>
    BY <1>1, <1>3 DEF Typed, TypeOK, Goto, Draw
  <2>4. workerUid[worker[s]] = NoUid /\ worker[s] <= made
    BY <1>1 DEF Typed, Drawing, Numbered
  <2>5. Numbered'
    BY <1>1, <2>3, <2>4 DEF Typed, TypeOK, Numbered, Worker
  <2>6. Drawing'
    <3> SUFFICES ASSUME NEW r \in Sessions, pc'[r] = "draw"
                 PROVE  /\ workerUid'[worker[r]] = NoUid
                        /\ \A q \in Sessions :
                             pc'[q] = "draw" /\ worker[q] = worker[r] => q = r
      BY <2>3 DEF Drawing
    <3>1. r # s /\ pc[r] = "draw" /\ worker[r] \in Worker
      BY <2>3 DEF Typed, TypeOK
    <3>2. worker[r] # worker[s]
      BY <1>1, <3>1 DEF Typed, Drawing
    <3> QED BY <2>3, <3>1, <3>2 DEF Typed, Drawing
  <2>7. Linking'
    <3> SUFFICES ASSUME NEW r \in Sessions, pc'[r] \in {"link", "push"}
                 PROVE  workerUid'[worker[r]] \in Uids
      BY <2>3 DEF Linking
    <3>1. CASE r = s
      BY <2>3, <3>1
    <3>2. CASE r # s
      <4>1. workerUid[worker[r]] \in Uids /\ worker[r] \in Worker
        BY <2>3, <3>2 DEF Typed, TypeOK, Linking
      <4> QED BY <2>3, <4>1
    <3> QED BY <3>1, <3>2
  <2>8. ASSUME NEW list, Named(list)
        PROVE  \A n \in Listed(list) : n \in Worker /\ workerUid'[n] \in Uids
    BY <2>3, <2>8 DEF Named
  <2>9. Named(currentWorkerList)' /\ \A r \in Sessions : Named(seen[r])'
    BY <2>3, <2>8 DEF Typed, Named, Listed
  <2> QED BY <2>2, <2>5, <2>6, <2>7, <2>9 DEF Typed
<1> QED BY <1>2, <1>3 DEF Draw

\* The head of the list is read, and then written.
LEMMA TypedLink ==
  ASSUME Typed, NEW s \in Sessions, LinkWorker(s)
  PROVE  Typed'
<1>1. s \in Running /\ worker[s] \in Worker /\ pc[s] = "link"
  BY DEF LinkWorker, At, Running, Typed, TypeOK
<1>2. Cardinality(Running') <= Threads
  BY <1>1, Threaded DEF Typed, LinkWorker
<1>3. TypeOK'
  BY <1>1, <1>2 DEF Typed, TypeOK, LinkWorker, Goto, SessionPc, clients, nodes, queue, registry
<1>4. /\ \A r \in Sessions \ {s} : pc'[r] = pc[r] /\ seen'[r] = seen[r]
      /\ pc'[s] = "push" /\ seen'[s] = currentWorkerList
      /\ UNCHANGED <<worker, workerUid, currentWorkerList, made>>
  BY DEF Typed, TypeOK, Goto, LinkWorker, registry
<1>5. Numbered' /\ Drawing' /\ Linking'
  BY <1>1, <1>4 DEF Typed, Numbered, Drawing, Linking
<1>6. Named(currentWorkerList)' /\ \A r \in Sessions : Named(seen[r])'
  BY <1>4 DEF Typed, Named
<1> QED BY <1>3, <1>5, <1>6 DEF Typed

\* A worker is put before the list that was seen.
LEMMA TypedPush ==
  ASSUME Typed, NEW s \in Sessions, PushWorker(s)
  PROVE  Typed'
<1>1. s \in Running /\ worker[s] \in Worker /\ pc[s] = "push" /\ workerUid[worker[s]] \in Uids
  BY DEF PushWorker, At, Running, Typed, TypeOK, Linking
<1>2. Cardinality(Running') <= Threads
  BY <1>1, Threaded DEF Typed, PushWorker
<1>3. /\ currentWorkerList' \in Seq(Worker)
      /\ Listed(currentWorkerList') = {worker[s]} \cup Listed(seen[s])
  BY <1>1, ListedPush DEF Typed, TypeOK, PushWorker
<1>4. << >> \in Seq(Worker) /\ Listed(<< >>) = {}
  BY EmptySeq DEF Listed
<1>5. lost' \subseteq Worker
  BY DEF PushWorker, Typed, TypeOK, Named
<1>6. TypeOK'
  BY <1>1, <1>2, <1>3, <1>4, <1>5
        DEF Typed, TypeOK, PushWorker, Goto, SessionPc, clients, nodes, queue
<1>7. /\ \A r \in Sessions \ {s} : pc'[r] = pc[r] /\ seen'[r] = seen[r]
      /\ pc'[s] = "handshake" /\ seen'[s] = << >>
      /\ UNCHANGED <<worker, workerUid, made>>
  BY DEF Typed, TypeOK, Goto, PushWorker
<1>8. Numbered' /\ Drawing' /\ Linking'
  BY <1>1, <1>7 DEF Typed, Numbered, Drawing, Linking
<1>9. Named(currentWorkerList)' /\ \A r \in Sessions : Named(seen[r])'
  BY <1>1, <1>3, <1>4, <1>7 DEF Typed, Named, Listed
<1> QED BY <1>6, <1>8, <1>9 DEF Typed

\* Where a poll goes on, and what it leaves alone.
LEMMA PollShape ==
  ASSUME NEW s \in Sessions, PollStep(s)
  PROVE  /\ pc[s] \in {"poll", "mode"}
         /\ \E place \in {"reply", "mode", "handshake", "poll"} : Goto(s, place)
         /\ UNCHANGED <<worker, seen, clients, registry, quickSendMode, acks, crashed>>
<1>1. CASE TakeResent(s)
  BY <1>1 DEF TakeResent, At, nodes, queue
<1>2. CASE TakeHead(s)
  BY <1>2 DEF TakeHead, At
<1>3. CASE TakeAnswer(s)
  BY <1>3 DEF TakeAnswer, At
<1>4. CASE FindNothing(s)
  BY <1>4 DEF FindNothing, At, nodes, queue
<1>5. CASE AskMode(s)
  <2>1. (IF quickSendMode[worker[s]] THEN "handshake" ELSE "poll") \in {"handshake", "poll"}
    OBVIOUS
  <2> QED BY <1>5, <2>1 DEF AskMode, At, nodes, queue
<1> QED BY <1>1, <1>2, <1>3, <1>4, <1>5 DEF PollStep

\* What a poll makes of the queues: a packet leaves, and may be pending.
LEMMA PollQueues ==
  ASSUME Typed, NEW s \in Sessions, worker[s] \in Worker, PollStep(s)
  PROVE  /\ senderQueue' \in [Worker -> Seq(Kind)]
         /\ pending' \in [Worker -> Nat]
         /\ \A n \in Worker : acks[n] <= pending'[n]
<1> DEFINE n == worker[s]
<1>1. /\ senderQueue \in [Worker -> Seq(Kind)] /\ senderQueue[n] \in Seq(Kind)
      /\ pending \in [Worker -> Nat] /\ acks \in [Worker -> Nat]
      /\ \A m \in Worker : acks[m] <= pending[m]
  BY DEF Typed, TypeOK
<1>2. CASE UNCHANGED <<senderQueue, pending>>
  BY <1>1, <1>2
<1>3. CASE TakeHead(s)
  <2>1. Tail(senderQueue[n]) \in Seq(Kind)
    BY <1>1, <1>3, HeadTailProperties DEF TakeHead, HeadGoes
  <2>2. senderQueue' \in [Worker -> Seq(Kind)]
    BY <1>1, <1>3, <2>1 DEF TakeHead
  <2>3. PICK sent \in {pending[n], pending[n] + 1} : pending' = [pending EXCEPT ![n] = sent]
    BY <1>3 DEF TakeHead
  <2>4. sent \in Nat /\ pending[n] <= sent
    BY <1>1, <2>3
  <2> QED BY <1>1, <2>2, <2>3, <2>4
<1>4. CASE TakeAnswer(s)
  <2>1. EraseFirst(senderQueue[n], "answer") \in Seq(Kind)
    BY <1>1, EraseFirstType
  <2> QED BY <1>1, <1>4, <2>1 DEF TakeAnswer
<1> QED BY <1>2, <1>3, <1>4
        DEF PollStep, TakeResent, FindNothing, AskMode, nodes, queue

\* A handler goes round its loop, or leaves it.
LEMMA TypedPoll ==
  ASSUME Typed, NEW s \in Sessions, PollStep(s)
  PROVE  Typed'
<1>1. s \in Running /\ worker[s] \in Worker
  BY PollShape DEF Running, Typed, TypeOK
<1>2. PICK place \in {"reply", "mode", "handshake", "poll"} : Goto(s, place)
  BY PollShape
<1>3. UNCHANGED <<worker, seen, clients, registry, quickSendMode, acks, crashed>>
  BY PollShape
<1>4. Cardinality(Running') <= Threads
  BY <1>1, <1>2, Threaded DEF Typed
<1>5. TypeOK'
  BY <1>1, <1>2, <1>3, <1>4, PollQueues DEF Typed, TypeOK, Goto, SessionPc, clients, registry
<1> QED BY <1>2, <1>3, <1>5, Elsewhere DEF Typed, TypeOK, Numbered

\* A reply is written.
LEMMA TypedWritten ==
  ASSUME Typed, NEW s \in Sessions, Handshake(s) \/ Reply(s)
  PROVE  Typed'
<1>1. s \in Running /\ Written(s)
  BY DEF Handshake, Reply, At, Running, Typed, TypeOK
<1>2. Cardinality(Running') <= Threads
  BY <1>1, Threaded DEF Typed, Written
<1>3. clientUid' \in [Sessions -> Uids \cup {NoUid}] /\ granted' \subseteq Uids
  <2>1. CASE Reply(s)
    BY <2>1 DEF Typed, TypeOK, Reply
  <2>2. CASE Handshake(s)
    <3> DEFINE u == IF worker[s] = 0 THEN NoUid ELSE workerUid[worker[s]]
    <3>1. u \in Uids \cup {NoUid}
      BY DEF Typed, TypeOK
    <3>2. \/ UNCHANGED <<clientUid, granted>>
          \/ /\ clientUid' = [clientUid EXCEPT ![s] = u]
             /\ granted' = granted \cup ({u} \ {NoUid})
      BY <2>2 DEF Handshake
    <3> QED BY <3>1, <3>2 DEF Typed, TypeOK
  <2> QED BY <2>1, <2>2
<1>4. /\ worker' = [worker EXCEPT ![s] = 0] /\ Goto(s, "reading") /\ crashed' \in BOOLEAN
      /\ UNCHANGED <<seen, client, leaves, registry, nodes>>
  BY <1>1 DEF Written
<1>5. TypeOK'
  BY <1>2, <1>3, <1>4 DEF Typed, TypeOK, Goto, SessionPc, nodes, queue, registry
<1>6. 0 <= made
  BY SessionAssumption DEF Typed, TypeOK
<1>7. /\ worker' \in [Sessions -> Worker \cup {0}] /\ worker'[s] <= made
      /\ \A r \in Sessions \ {s} : worker'[r] = worker[r]
  BY <1>4, <1>6 DEF Typed, TypeOK
<1> QED BY <1>4, <1>5, <1>7, Elsewhere DEF Typed

\* Sender core and processors leave the sessions alone.
LEMMA NodeShape ==
  ASSUME NEW n \in Worker, NodeStep(n)
  PROVE  UNCHANGED <<pc, worker, seen, clients, registry, quickSendMode, crashed>>
BY DEF NodeStep, QueuePacket, Acknowledge

\* A packet is queued for a worker, or acknowledged.
LEMMA TypedQueue ==
  ASSUME Typed, NEW n \in Worker, NodeStep(n)
  PROVE  Typed'
<1>1. UNCHANGED <<pc, worker, seen, clients, registry, quickSendMode, crashed>>
  BY NodeShape
<1>2. Running' = Running
  BY <1>1 DEF Running
<1>3. /\ senderQueue \in [Worker -> Seq(Kind)] /\ senderQueue[n] \in Seq(Kind)
      /\ pending \in [Worker -> Nat] /\ acks \in [Worker -> Nat]
      /\ \A m \in Worker : acks[m] <= pending[m]
  BY DEF Typed, TypeOK
<1>4. /\ senderQueue' \in [Worker -> Seq(Kind)]
      /\ pending' \in [Worker -> Nat] /\ acks' \in [Worker -> Nat]
      /\ \A m \in Worker : acks'[m] <= pending'[m]
  <2>1. ASSUME NEW kind \in Kind, QueuePacket(n, kind)
        PROVE  /\ senderQueue' \in [Worker -> Seq(Kind)]
               /\ UNCHANGED <<pending, acks>>
    <3>1. Append(senderQueue[n], kind) \in Seq(Kind)
      BY <1>3, <2>1, AppendProperties
    <3> QED BY <1>3, <2>1, <3>1 DEF QueuePacket
  <2>2. CASE Acknowledge(n)
    BY <1>3, <2>2 DEF Acknowledge
  <2> QED BY <1>3, <2>1, <2>2 DEF NodeStep
<1>5. TypeOK'
  BY <1>1, <1>2, <1>4 DEF Typed, TypeOK, clients, registry
<1> QED BY <1>1, <1>5 DEF Typed, Numbered, Drawing, Linking, Named, Listed, registry

\* Every step keeps the types.
LEMMA TypedStep == Typed /\ [Next]_vars => Typed'
<1> SUFFICES ASSUME Typed, [Next]_vars
             PROVE  Typed'
  OBVIOUS
<1>1. CASE UNCHANGED vars
  <2>1. Running' = Running
    BY <1>1 DEF Running, vars
  <2> QED BY <1>1, <2>1 DEF vars, clients, registry, nodes, queue, Typed, TypeOK, Numbered, Drawing,
                Linking, Named, Listed
<1>2. ASSUME NEW s \in Sessions, ClientStep(s)
      PROVE  Typed'
  BY <1>2, TypedClient, TypedRead, TypedUnknown DEF ClientStep
<1>3. ASSUME NEW s \in Sessions, ReadStep(s)
      PROVE  Typed'
  BY <1>3, TypedDraw, TypedLink, TypedPush, TypedPoll, TypedWritten DEF ReadStep
<1> QED BY <1>1, <1>2, <1>3, TypedQueue DEF Next

\* socket.cpp and worker_registry.cpp: whatever the races of registration, no more
\* handlers run than there are threads, and each has the worker it needs.
THEOREM SessionTyping == Spec => []TypeOK
<1>1. Typed => TypeOK
  BY DEF Typed
<1> QED BY <1>1, TypedInit, TypedStep, PTL DEF Spec

-----------------------------------------------------------------------------
(***************************************************************************)
(* While the list has dropped none, a worker that has a uid is in it or on *)
(* its way.  A uid drawn is not in the list, so all that have it are on    *)
(* their way, each with a thread of its own.                               *)
(***************************************************************************)
OnItsWay(n) == \E s \in Sessions : pc[s] \in {"link", "push"} /\ worker[s] = n

Accounted ==
  \A n \in Worker : workerUid[n] # NoUid => n \in Listed(currentWorkerList) \/ OnItsWay(n)

FewShare == \A u \in Uids : Cardinality(Sharing(u)) <= Threads

Shares == lost = {} => Accounted /\ FewShare

\* Workers that running sessions have in hand are no more than the threads.
LEMMA InHand ==
  ASSUME Typed, NEW T, T \subseteq {worker[s] : s \in Running}
  PROVE  Cardinality(T) <= Threads
<1> DEFINE held == {worker[s] : s \in Running}
           f == [s \in Running |-> worker[s]]
<1>1. f \in Surjection(Running, held)
  BY DEF Surjection
<1>2. IsFiniteSet(held) /\ Cardinality(held) <= Cardinality(Running)
  BY <1>1, RunningFinite, FS_Surjection
<1>3. Cardinality(T) <= Cardinality(held) /\ Cardinality(T) \in Nat /\ Cardinality(held) \in Nat
  BY <1>2, FS_Subset, FS_CardinalityType
<1> QED BY <1>2, <1>3, RunningFinite, SessionAssumption DEF Typed, TypeOK

\* A step that leaves list and uids alone and takes no worker off its way.
LEMMA SharesAway ==
  ASSUME Shares, UNCHANGED <<lost, workerUid, currentWorkerList>>,
         \A n \in Worker : OnItsWay(n) => OnItsWay(n)'
  PROVE  Shares'
BY DEF Shares, Accounted, FewShare, Sharing

\* A uid is drawn that is not in the list.
LEMMA SharesDraw ==
  ASSUME Typed, Shares, NEW s \in Sessions, Draw(s)
  PROVE  Shares'
<1>1. pc[s] = "draw" /\ worker[s] \in Worker /\ s \in Running
  BY DEF Draw, At, Typed, TypeOK, Running
<1>2. CASE Goto(s, "spin") /\ UNCHANGED workerUid
  <2>1. \A n \in Worker : OnItsWay(n) => OnItsWay(n)'
    BY <1>1, <1>2 DEF OnItsWay, Goto, Draw, Typed, TypeOK
  <2> QED BY <1>2, <2>1, SharesAway DEF Draw
<1>3. ASSUME NEW u \in Uids, FoundAt(u) = {}, Goto(s, "link"), lost' = {},
             workerUid' = [workerUid EXCEPT ![worker[s]] = u]
      PROVE  Accounted' /\ FewShare'
  <2>1. /\ \A r \in Sessions \ {s} : pc'[r] = pc[r]
        /\ pc'[s] = "link" /\ workerUid'[worker[s]] = u
        /\ \A n \in Worker \ {worker[s]} : workerUid'[n] = workerUid[n]
        /\ UNCHANGED <<worker, currentWorkerList>>
    BY <1>1, <1>3 DEF Goto, Typed, TypeOK, Draw
  <2>2. Accounted /\ FewShare
    BY <1>3 DEF Shares, Draw
  <2>3. \A n \in Worker : OnItsWay(n) \/ n = worker[s] => OnItsWay(n)'
    BY <1>1, <2>1 DEF OnItsWay
  <2>4. Accounted'
    BY <2>1, <2>2, <2>3 DEF Accounted
  <2>5. ASSUME NEW v \in Uids, v # u
        PROVE  Sharing(v)' \subseteq Sharing(v)
    BY <1>1, <2>1, <2>5 DEF Sharing
  <2>6. ASSUME NEW v \in Uids, v # u
        PROVE  Cardinality(Sharing(v)') <= Threads
    <3>1. IsFiniteSet(Sharing(v)) /\ Cardinality(Sharing(v)) <= Threads
      BY <2>2, FS_Interval, FS_Subset, SessionAssumption DEF FewShare, Sharing, Worker
    <3>2. Cardinality(Sharing(v)') <= Cardinality(Sharing(v))
          /\ Cardinality(Sharing(v)') \in Nat /\ Cardinality(Sharing(v)) \in Nat
      BY <2>5, <2>6, <3>1, FS_Subset, FS_CardinalityType
    <3> QED BY <3>1, <3>2, SessionAssumption
  <2>7. Sharing(u)' \subseteq {worker[r] : r \in Running}
    <3> SUFFICES ASSUME NEW n \in Worker, workerUid'[n] = u
                 PROVE  \E r \in Running : worker[r] = n
      BY DEF Sharing
    <3>1. CASE n = worker[s]
      BY <1>1, <3>1
    <3>2. CASE n # worker[s]
      <4>1. workerUid[n] = u /\ n \notin Listed(currentWorkerList)
        BY <1>3, <2>1, <3>2, NotFound
      <4>2. OnItsWay(n)
        BY <2>2, <4>1, SessionAssumption DEF Accounted
      <4> QED BY <4>2 DEF OnItsWay, Running
    <3> QED BY <3>1, <3>2
  <2>8. Cardinality(Sharing(u)') <= Threads
    BY <2>7, InHand
  <2> QED BY <2>4, <2>6, <2>8 DEF FewShare
<1> QED BY <1>2, <1>3 DEF Draw, Collides, Shares

\* A worker is pushed: either it drops some, or all are still in the list.
LEMMA SharesPush ==
  ASSUME Typed, Shares, NEW s \in Sessions, PushWorker(s)
  PROVE  Shares'
<1> SUFFICES ASSUME lost' = {}
             PROVE  Accounted' /\ FewShare'
  BY DEF Shares
<1>1. lost = {} /\ Listed(currentWorkerList) \subseteq Listed(seen[s])
  BY DEF PushWorker
<1>2. Accounted /\ FewShare
  BY <1>1 DEF Shares
<1>3. worker[s] \in Worker /\ pc[s] = "push"
  BY DEF PushWorker, At, Typed, TypeOK
<1>4. Listed(currentWorkerList') = {worker[s]} \cup Listed(seen[s])
  BY <1>3, ListedPush DEF PushWorker, Typed, TypeOK
<1>5. \A n \in Worker : OnItsWay(n) => OnItsWay(n)' \/ n = worker[s]
  BY <1>3 DEF OnItsWay, PushWorker, Goto, Typed, TypeOK
<1>6. Listed(currentWorkerList)' = Listed(currentWorkerList')
  BY DEF Listed
<1> QED BY <1>1, <1>2, <1>4, <1>5, <1>6 DEF Accounted, FewShare, Sharing, PushWorker

\* Every step keeps the shares of a uid.
LEMMA SharesStep == Typed /\ Shares /\ [Next]_vars => Shares'
<1> SUFFICES ASSUME Typed, Shares, [Next]_vars
             PROVE  Shares'
  OBVIOUS
<1>1. CASE UNCHANGED vars
  <2>1. \A n \in Worker : OnItsWay(n) => OnItsWay(n)'
    BY <1>1 DEF OnItsWay, vars
  <2> QED BY <1>1, <2>1, SharesAway DEF vars, registry
<1>2. ASSUME NEW s \in Sessions, ClientStep(s)
      PROVE  Shares'
  <2>1. UNCHANGED <<lost, workerUid, currentWorkerList>>
    BY <1>2 DEF ClientStep, Connect, Leave, EndSession, ReadCorrupt, ReadUnknown, ReadKnown,
       registry
  <2>2. /\ \A r \in Sessions \ {s} : pc'[r] = pc[r] /\ worker'[r] = worker[r]
        /\ pc' = pc \/ pc[s] \in {"off", "reading"}
        /\ pc' = pc => worker' = worker
    BY <1>2 DEF ClientStep, Connect, Leave, EndSession, ReadCorrupt, ReadUnknown, ReadKnown,
       ReadBegins, At, Goto, Typed, TypeOK
  <2>3. \A n \in Worker : OnItsWay(n) => OnItsWay(n)'
    BY <2>2 DEF OnItsWay
  <2> QED BY <2>1, <2>3, SharesAway
<1>3. ASSUME NEW s \in Sessions, LinkWorker(s)
      PROVE  Shares'
  <2>1. /\ \A r \in Sessions : pc'[r] = pc[r] \/ pc'[r] = "push"
        /\ worker' = worker
    BY <1>3 DEF LinkWorker, Goto, Typed, TypeOK
  <2>2. \A n \in Worker : OnItsWay(n) => OnItsWay(n)'
    BY <2>1 DEF OnItsWay
  <2> QED BY <1>3, <2>2, SharesAway DEF LinkWorker, registry
<1>4. ASSUME NEW s \in Sessions, Handshake(s) \/ Reply(s)
      PROVE  Shares'
  <2>1. UNCHANGED <<lost, workerUid, currentWorkerList>>
    BY <1>4 DEF Handshake, Reply, Written, registry
  <2>2. /\ \A r \in Sessions \ {s} : pc'[r] = pc[r] /\ worker'[r] = worker[r]
        /\ pc[s] \in {"handshake", "reply"}
    BY <1>4 DEF Handshake, Reply, Written, At, Goto, Typed, TypeOK
  <2>3. \A n \in Worker : OnItsWay(n) => OnItsWay(n)'
    BY <2>2 DEF OnItsWay
  <2> QED BY <2>1, <2>3, SharesAway
<1>5. ASSUME NEW s \in Sessions, PollStep(s)
      PROVE  Shares'
  <2>1. UNCHANGED <<lost, workerUid, currentWorkerList, worker>> /\ pc[s] \in {"poll", "mode"}
    BY <1>5, PollShape DEF registry
  <2>2. \A r \in Sessions \ {s} : pc'[r] = pc[r]
    BY <1>5, PollShape DEF Goto, Typed, TypeOK
  <2>3. \A n \in Worker : OnItsWay(n) => OnItsWay(n)'
    BY <2>1, <2>2 DEF OnItsWay
  <2> QED BY <2>1, <2>3, SharesAway
<1>6. ASSUME NEW n \in Worker, NodeStep(n)
      PROVE  Shares'
  <2>1. UNCHANGED <<pc, worker, registry>>
    BY <1>6, NodeShape
  <2>2. \A m \in Worker : OnItsWay(m) => OnItsWay(m)'
    BY <2>1 DEF OnItsWay
  <2> QED BY <2>1, <2>2, SharesAway DEF registry
<1> QED BY <1>1, <1>2, <1>3, <1>4, <1>5, <1>6, SharesDraw, SharesPush DEF Next, ReadStep

\* worker_registry.cpp, generateWorkerUid: as long as no push has dropped a worker,
\* no more workers share a uid than there are socket threads, for any number of
\* workers and of uids.
THEOREM FewShareUids == Spec => []UidShare
<1>1. Init => Shares
  <2> SUFFICES ASSUME Init
               PROVE  Accounted /\ FewShare
    BY DEF Shares
  <2>1. \A u \in Uids : Sharing(u) = {}
    BY SessionAssumption DEF Init, Sharing
  <2>2. FewShare
    BY <2>1, FS_EmptySet, SessionAssumption DEF FewShare
  <2>3. Accounted
    BY DEF Init, Accounted
  <2> QED BY <2>2, <2>3
<1>2. Shares => UidShare
  BY DEF Shares, UidShare, FewShare
<1> QED BY <1>1, <1>2, TypedInit, TypedStep, SharesStep, PTL DEF Spec

-----------------------------------------------------------------------------
(***************************************************************************)
(* Clients use uids they were told, or none.                               *)
(***************************************************************************)
Told == \A s \in Sessions : clientUid[s] \in granted \cup {NoUid}

Polled == Told /\ PollsRegistered

\* A step of one session that registers none, tells no other client anything and
\* changes nobody's uid.
LEMMA PolledAway ==
  ASSUME Typed, Polled, NEW s \in Sessions, UNCHANGED workerUid,
         granted \subseteq granted',
         \A r \in Sessions \ {s} :
           /\ pc'[r] = pc[r] /\ worker'[r] = worker[r] /\ clientUid'[r] = clientUid[r]
           /\ client'[r] = client[r],
         clientUid'[s] \in granted' \cup {NoUid},
         pc'[s] \in {"poll", "mode", "reply"} =>
           /\ workerUid[worker'[s]] \in granted
           /\ client'[s] => clientUid'[s] = workerUid[worker'[s]]
  PROVE  Polled'
BY DEF Polled, Told, PollsRegistered

\* Every step keeps the clients with their own workers.
LEMMA PolledStep == Typed /\ Polled /\ [Next]_vars => Polled'
<1> SUFFICES ASSUME Typed, Polled, [Next]_vars
             PROVE  Polled'
  OBVIOUS
<1>1. CASE UNCHANGED vars
  BY <1>1 DEF vars, clients, registry, Polled, Told, PollsRegistered
<1>2. ASSUME NEW n \in Worker, NodeStep(n)
      PROVE  Polled'
  BY <1>2, NodeShape DEF clients, registry, Polled, Told, PollsRegistered
<1>3. ASSUME NEW s \in Sessions, Connect(s)
      PROVE  Polled'
  <2>1. /\ clientUid'[s] \in granted \cup {NoUid} /\ pc'[s] = "reading"
        /\ \A r \in Sessions \ {s} :
             /\ pc'[r] = pc[r] /\ worker'[r] = worker[r] /\ clientUid'[r] = clientUid[r]
             /\ client'[r] = client[r]
        /\ UNCHANGED <<granted, workerUid>>
    BY <1>3 DEF Connect, Goto, Typed, TypeOK, registry
  <2> QED BY <2>1, PolledAway
<1>4. ASSUME NEW s \in Sessions, Leave(s)
      PROVE  Polled'
  <2>1. /\ clientUid'[s] = NoUid /\ ~client'[s]
        /\ \A r \in Sessions \ {s} :
             /\ pc'[r] = pc[r] /\ worker'[r] = worker[r] /\ clientUid'[r] = clientUid[r]
             /\ client'[r] = client[r]
        /\ UNCHANGED <<pc, worker, granted, workerUid>>
    BY <1>4 DEF Leave, Typed, TypeOK, registry
  <2>2. pc'[s] \in {"poll", "mode", "reply"} => workerUid[worker'[s]] \in granted
    BY <2>1 DEF Polled, PollsRegistered
  <2> QED BY <2>1, <2>2, PolledAway
<1>5. ASSUME NEW s \in Sessions,
             EndSession(s) \/ ReadCorrupt(s) \/ ReadUnknown(s) \/ LinkWorker(s) \/ PushWorker(s)
      PROVE  Polled'
  <2>1. /\ pc'[s] \notin {"poll", "mode", "reply"}
        /\ \A r \in Sessions \ {s} : pc'[r] = pc[r] /\ worker'[r] = worker[r]
        /\ UNCHANGED <<granted, workerUid, clientUid, client>>
    BY <1>5 DEF EndSession, ReadCorrupt, ReadUnknown, LinkWorker, PushWorker, Goto, Typed,
       TypeOK, registry, clients
  <2>2. clientUid'[s] \in granted' \cup {NoUid}
    BY <2>1 DEF Polled, Told
  <2> QED BY <2>1, <2>2, PolledAway
<1>6. ASSUME NEW s \in Sessions, NEW quick \in BOOLEAN, ReadKnown(s, quick)
      PROVE  Polled'
  <2> DEFINE n == WorkerFromUid(clientUid[s])
  <2>1. /\ \A r \in Sessions \ {s} : pc'[r] = pc[r] /\ worker'[r] = worker[r]
        /\ worker'[s] = n
        /\ UNCHANGED <<granted, workerUid, clientUid, client>>
    BY <1>6 DEF ReadKnown, Goto, Typed, TypeOK, registry, clients
  <2>2. workerUid[n] = clientUid[s] /\ workerUid[n] \in Uids
    BY <1>6, Found DEF ReadKnown, Typed, Named
  <2>3. clientUid[s] \in granted
    BY <2>2, SessionAssumption DEF Polled, Told
  <2> QED BY <2>1, <2>2, <2>3, PolledAway
<1>7. ASSUME NEW s \in Sessions, PollStep(s)
      PROVE  Polled'
  <2>1. /\ pc[s] \in {"poll", "mode"}
        /\ \A r \in Sessions \ {s} : pc'[r] = pc[r]
        /\ UNCHANGED <<granted, worker, workerUid, clientUid, client>>
    BY <1>7, PollShape DEF Goto, Typed, TypeOK, registry, clients
  <2>2. clientUid'[s] \in granted' \cup {NoUid}
    BY <2>1 DEF Polled, Told
  <2>3. /\ workerUid[worker[s]] \in granted
        /\ client[s] => clientUid[s] = workerUid[worker[s]]
    BY <2>1 DEF Polled, PollsRegistered
  <2> QED BY <2>1, <2>2, <2>3, PolledAway
<1>8. ASSUME NEW s \in Sessions, Handshake(s) \/ Reply(s)
      PROVE  Polled'
  <2>1. /\ pc'[s] = "reading"
        /\ \A r \in Sessions \ {s} : pc'[r] = pc[r] /\ worker'[r] = worker[r]
        /\ UNCHANGED <<workerUid, client>>
    BY <1>8 DEF Handshake, Reply, Written, Goto, Typed, TypeOK, registry
  <2>2. /\ clientUid'[s] \in granted' \cup {NoUid} /\ granted \subseteq granted'
        /\ \A r \in Sessions \ {s} : clientUid'[r] = clientUid[r]
    <3>1. CASE UNCHANGED <<clientUid, granted>>
      BY <3>1 DEF Polled, Told
    <3>2. ASSUME NEW u, clientUid' = [clientUid EXCEPT ![s] = u],
                 granted' = granted \cup ({u} \ {NoUid})
          PROVE  /\ clientUid'[s] \in granted' \cup {NoUid} /\ granted \subseteq granted'
                 /\ \A r \in Sessions \ {s} : clientUid'[r] = clientUid[r]
      BY <3>2 DEF Typed, TypeOK
    <3> QED BY <1>8, <3>1, <3>2 DEF Handshake, Reply
  <2> QED BY <2>1, <2>2, PolledAway
<1>9. ASSUME NEW s \in Sessions, Draw(s)
      PROVE  Polled'
  <2>1. /\ pc[s] = "draw" /\ pc'[s] \in {"spin", "link"}
        /\ \A r \in Sessions \ {s} : pc'[r] = pc[r]
        /\ UNCHANGED <<granted, worker, clientUid, client>>
        /\ \A n \in Worker \ {worker[s]} : workerUid'[n] = workerUid[n]
    BY <1>9 DEF Draw, At, Goto, Typed, TypeOK, clients
  <2>2. workerUid[worker[s]] = NoUid /\ NoUid \notin granted
    BY <2>1, SessionAssumption DEF Typed, TypeOK, Drawing
  <2>3. ASSUME NEW r \in Sessions, pc'[r] \in {"poll", "mode", "reply"}
        PROVE  workerUid'[worker[r]] = workerUid[worker[r]] /\ pc[r] = pc'[r]
    <3>1. pc[r] = pc'[r] /\ worker[r] \in Worker
      BY <2>1, <2>3 DEF Typed, TypeOK
    <3>2. worker[r] # worker[s]
      BY <2>2, <2>3, <3>1 DEF Polled, PollsRegistered
    <3> QED BY <2>1, <3>1, <3>2
  <2> QED BY <2>1, <2>3 DEF Polled, Told, PollsRegistered
<1> QED BY <1>1, <1>2, <1>3, <1>4, <1>5, <1>6, <1>7, <1>8, <1>9
        DEF Next, ClientStep, ReadStep

\* socket.cpp, on_read: however clients leave and come back, and even when workers
\* share a uid, a worker that is polled has been registered, and its packet goes to a
\* client that was told its uid.
THEOREM PolledByOwn == Spec => []PollsRegistered
<1>1. Init => Polled
  BY DEF Init, Polled, Told, PollsRegistered
<1>2. Polled => PollsRegistered
  BY DEF Polled
<1> QED BY <1>1, <1>2, TypedInit, TypedStep, PolledStep, PTL DEF Spec
=============================================================================
