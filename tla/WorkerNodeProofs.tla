-------------------------- MODULE WorkerNodeProofs --------------------------
(***************************************************************************)
(* Theorems about WorkerNode, for any number of workers, tables, templates *)
(* and packet processors and any queue size.                               *)
(***************************************************************************)
EXTENDS WorkerNode, StdListProofs

\* A packet appended to a queue leaves the head of a non-empty queue.
LEMMA AppendKeepsHead ==
  ASSUME NEW S, NEW s \in Seq(S), NEW e \in S
  PROVE  /\ Append(s, e) \in Seq(S)
         /\ Append(s, e) # << >>
         /\ s # << >> => Head(Append(s, e)) = Head(s)
BY AppendProperties, HeadTailAppend

\* The two loops over a list of packets stop at a packet of the kind they look
\* for, when there is one.
LEMMA FirstOtherFound ==
  ASSUME NEW queue \in Seq(Packet), \E k \in DOMAIN queue : ~IsAckable(queue[k])
  PROVE  FirstOther(queue) \in DOMAIN queue /\ ~IsAckable(queue[FirstOther(queue)])
<1> DEFINE T == {k \in DOMAIN queue : ~IsAckable(queue[k])}
<1>1. \E k \in T : \A j \in 1..k-1 : j \in DOMAIN queue /\ j \notin T
  <2>1. T \in SUBSET DOMAIN queue /\ T # {}
    OBVIOUS
  <2> HIDE DEF T
  <2> QED BY <2>1, FirstExists
<1>2. \E k \in DOMAIN queue :
        ~IsAckable(queue[k]) /\ \A j \in 1..k-1 : ~ ~IsAckable(queue[j])
  BY <1>1
<1> QED BY <1>2 DEF FirstOther, FirstIndex

LEMMA FirstWithIdFound ==
  ASSUME NEW pending \in Seq(Packet), NEW d, \E k \in DOMAIN pending : pending[k].data = d
  PROVE  FirstWithId(pending, d) \in DOMAIN pending
<1> DEFINE T == {k \in DOMAIN pending : pending[k].data = d}
<1>1. \E k \in T : \A j \in 1..k-1 : j \in DOMAIN pending /\ j \notin T
  <2>1. T \in SUBSET DOMAIN pending /\ T # {}
    OBVIOUS
  <2> HIDE DEF T
  <2> QED BY <2>1, FirstExists
<1>2. \E k \in DOMAIN pending :
        pending[k].data = d /\ \A j \in 1..k-1 : ~(pending[j].data = d)
  BY <1>1
<1> QED BY <1>2 DEF FirstWithId, FirstIndex

(***************************************************************************)
(* Types.                                                                  *)
(***************************************************************************)
\* A session that is timing or moving a packet holds the head of its queue:
\* nobody else takes from the queue, whatever became of the lock.
HeadInHand ==
  \A w \in Workers : session[w].pc \in {"time", "append"} =>
    senderQueue[w] # << >> /\ Head(senderQueue[w]) = session[w].packet

Typed == TypeOK /\ HeadInHand

LEMMA TypedInit == Init => Typed
<1> SUFFICES ASSUME Init PROVE Typed
  OBVIOUS
<1>1. << >> \in Seq(Packet)
  BY EmptySeq
<1>2. DATA_QUEUED \in Status
  BY DEF DATA_QUEUED, Status
<1>3. TypeOK
  BY <1>1, <1>2 DEF Init, TypeOK, Resting, At, Idle, Busy, SessionPc, SenderPc, ProcessorPc
<1>4. HeadInHand
  BY DEF Init, HeadInHand, Resting, At
<1> QED BY <1>3, <1>4 DEF Typed

\* Queueing a packet of any kind for a worker.
LEMMA QueueGrows ==
  ASSUME TypeOK, HeadInHand, NEW w \in Workers, NEW packet \in Packet,
         senderQueue' = [senderQueue EXCEPT ![w] = Append(@, packet)],
         UNCHANGED session
  PROVE  senderQueue' \in [Workers -> Seq(Packet)] /\ HeadInHand'
<1> DEFINE longer == Append(senderQueue[w], packet)
<1>1. senderQueue \in [Workers -> Seq(Packet)]
  BY DEF TypeOK
<1>2. senderQueue[w] \in Seq(Packet)
  BY <1>1
<1>3. /\ longer \in Seq(Packet) /\ longer # << >>
      /\ senderQueue[w] # << >> => Head(longer) = Head(senderQueue[w])
  BY <1>2, AppendKeepsHead
<1>4. senderQueue' = [senderQueue EXCEPT ![w] = longer]
  OBVIOUS
<1> HIDE DEF longer
<1>5. senderQueue' \in [Workers -> Seq(Packet)]
  BY <1>1, <1>3, <1>4
<1>6. HeadInHand'
  BY <1>1, <1>3, <1>4 DEF HeadInHand
<1> QED BY <1>5, <1>6

\* The sender core.
LEMMA SenderTyped ==
  ASSUME Typed, SenderStep
  PROVE  Typed'
<1> USE DEF Typed, TypeOK, HeadInHand, queues, locks, timing, registry, history, threads,
            Resting, At, SenderAt, SenderPc
<1>1. ASSUME NEW d \in Data, NEW w \in Workers, SenderCreate(d, w)
      PROVE  Typed'
  <2>1. [worker |-> w, data |-> d, kind |-> "data"] \in Packet
    BY DEF Packet, Kind
  <2> QED BY <1>1, <2>1 DEF SenderCreate
<1>2. ASSUME SenderPush PROVE Typed'
  <2>1. sender.packet \in Packet
    BY <1>2 DEF SenderPush
  <2>2. sender.packet.worker \in Workers
    BY <2>1 DEF Packet
  <2>3. /\ senderQueue' \in [Workers -> Seq(Packet)]
        /\ HeadInHand'
    BY <1>2, <2>1, <2>2, QueueGrows DEF SenderPush
  <2> QED BY <1>2, <2>1, <2>3 DEF SenderPush
<1>3. ASSUME SenderAssign PROVE Typed'
  <2>1. sender.packet \in Packet
    BY <1>3 DEF SenderAssign
  <2>2. sender.packet.worker \in Workers /\ sender.packet.data \in Data
    BY <2>1 DEF Packet
  <2> QED BY <1>3, <2>1, <2>2 DEF SenderAssign
<1>4. ASSUME SenderWrite PROVE Typed'
  <2>1. DATA_READY \in Status
    BY DEF DATA_READY, Status
  <2> QED BY <1>4, <2>1 DEF SenderWrite
<1> QED BY <1>1, <1>2, <1>3, <1>4 DEF SenderStep

\* What a session step leaves to show: its own state and the lists it changed.
SessionState == [pc : SessionPc, packet : Packet \cup {NoPacket}]
Carries(s) == s.pc \in {"time", "append", "copy"} => s.packet \in Packet

LEMMA SessionFrame ==
  ASSUME TypeOK, NEW w \in Workers, NEW s \in SessionState, Carries(s),
         session' = [session EXCEPT ![w] = s],
         senderQueue' \in [Workers -> Seq(Packet)],
         ackPendingQueue' \in [Workers -> Seq(Packet)],
         ackPacketPop' \in [Workers -> BOOLEAN],
         workerLock' \in [Workers -> Nat],
         crashed' \in BOOLEAN,
         UNCHANGED <<timeoutListLock, timing, registry, history, sender, processor, timer>>
  PROVE  TypeOK'
<1>1. /\ session' \in [Workers -> SessionState]
      /\ \A v \in Workers : Carries(session'[v])
  BY DEF TypeOK, Carries, SessionState
<1>2. /\ session' \in [Workers -> [pc : SessionPc, packet : Packet \cup {NoPacket}]]
      /\ \A v \in Workers : session'[v].pc \in {"time", "append", "copy"} => session'[v].packet \in Packet
  BY <1>1 DEF Carries, SessionState
<1> HIDE DEF SessionState, Carries
<1> QED BY <1>2 DEF TypeOK, timing, registry, history

\* The head of a queue is in hand when only its own session changes the queue.
LEMMA HeadFrame ==
  ASSUME TypeOK, HeadInHand, NEW w \in Workers, NEW s,
         session' = [session EXCEPT ![w] = s],
         \A v \in Workers \ {w} : senderQueue'[v] = senderQueue[v],
         s.pc \in {"time", "append"} =>
           senderQueue'[w] # << >> /\ Head(senderQueue'[w]) = s.packet
  PROVE  HeadInHand'
<1>1. session \in [Workers -> SessionState]
  BY DEF TypeOK, SessionState
<1> QED BY <1>1 DEF HeadInHand

\* Putting a packet in a session's hand.
LEMMA AtState ==
  ASSUME NEW pc \in SessionPc, NEW packet \in Packet \cup {NoPacket},
         pc \in {"time", "append", "copy"} => packet \in Packet
  PROVE  At(pc, packet) \in SessionState /\ Carries(At(pc, packet))
BY DEF At, SessionState, Carries

\* Moving a session on with the packet it holds.
LEMMA MoveOn ==
  ASSUME NEW s \in SessionState, NEW pc \in SessionPc
  PROVE  [s EXCEPT !.pc = pc] = At(pc, s.packet)
<1> DEFINE r == [s EXCEPT !.pc = pc]
<1>1. r \in [pc : SessionPc, packet : Packet \cup {NoPacket}]
  BY DEF SessionState
<1>2. r.pc = pc /\ r.packet = s.packet
  BY DEF SessionState
<1> HIDE DEF r
<1>3. r = [pc |-> r.pc, packet |-> r.packet]
  BY <1>1
<1>4. r = At(pc, s.packet)
  BY <1>2, <1>3 DEF At
<1> QED BY <1>4 DEF r

\* The session of a worker.
LEMMA SendNextTyped ==
  ASSUME TypeOK, HeadInHand, NEW w \in Workers, NEW held \in BOOLEAN,
         held => workerLock[w] > 0, SendNext(w, held)
  PROVE  Typed'
<1> DEFINE queue == senderQueue[w]
<1>1. /\ senderQueue \in [Workers -> Seq(Packet)]
      /\ ackPendingQueue' \in [Workers -> Seq(Packet)]
      /\ ackPacketPop' \in [Workers -> BOOLEAN]
      /\ workerLock \in [Workers -> Nat]
      /\ crashed' \in BOOLEAN
      /\ UNCHANGED <<timeoutListLock, timing, registry, history, sender, processor, timer>>
  BY DEF TypeOK, SendNext
<1>2. queue \in Seq(Packet)
  BY <1>1
<1>3. queue # << >> => Head(queue) \in Packet /\ Tail(queue) \in Seq(Packet)
  <2> HIDE DEF queue
  <2> QED BY <1>2, HeadTailProperties
<1>4. Posted(w, held) \in [Workers -> Nat]
  BY <1>1 DEF Posted
<1>5. /\ Resting \in SessionState /\ Carries(Resting)
      /\ Resting.pc \notin {"time", "append"}
  BY DEF Resting, At, SessionState, Carries, SessionPc
<1>6. ASSUME session' = [session EXCEPT ![w] = Resting], UNCHANGED senderQueue,
             workerLock' = Posted(w, held)
      PROVE  Typed'
  <2>1. TypeOK'
    BY <1>1, <1>4, <1>5, <1>6, SessionFrame
  <2>2. HeadInHand'
    BY <1>5, <1>6, HeadFrame
  <2> QED BY <2>1, <2>2 DEF Typed
<1>7. ASSUME NEW packet \in Packet, NEW rest \in Seq(Packet),
             session' = [session EXCEPT ![w] = At("copy", packet)],
             senderQueue' = [senderQueue EXCEPT ![w] = rest],
             workerLock' = Posted(w, held)
      PROVE  Typed'
  <2>1. senderQueue' \in [Workers -> Seq(Packet)]
    BY <1>1, <1>7
  <2>2. At("copy", packet) \in SessionState /\ Carries(At("copy", packet))
    BY AtState DEF SessionPc
  <2>3. TypeOK'
    BY <1>1, <1>4, <1>7, <2>1, <2>2, SessionFrame
  <2>4. At("copy", packet).pc \notin {"time", "append"}
    BY DEF At
  <2>5. \A v \in Workers \ {w} : senderQueue'[v] = senderQueue[v]
    BY <1>1, <1>7
  <2>6. HeadInHand'
    BY <1>7, <2>4, <2>5, HeadFrame
  <2> QED BY <2>3, <2>6 DEF Typed
<1>8. CASE queue = << >>
  BY <1>6, <1>8 DEF SendNext
<1>9. CASE queue # << >> /\ ~IsAckable(Head(queue))
  <2>1. /\ session' = [session EXCEPT ![w] = At("copy", Head(queue))]
        /\ senderQueue' = [senderQueue EXCEPT ![w] = Tail(queue)]
        /\ workerLock' = Posted(w, held)
    BY <1>9 DEF SendNext
  <2> HIDE DEF queue
  <2> QED BY <1>3, <1>7, <1>9, <2>1
<1>10. CASE queue # << >> /\ IsAckable(Head(queue)) /\ ~WindowFull(w)
  <2>1. /\ session' = [session EXCEPT ![w] = At("time", Head(queue))]
        /\ workerLock' = IF held THEN [workerLock EXCEPT ![w] = @ - 1] ELSE workerLock
        /\ UNCHANGED senderQueue
    BY <1>10 DEF SendNext
  <2>2. workerLock' \in [Workers -> Nat]
    BY <1>1, <2>1
  <2>3. /\ At("time", Head(queue)) \in SessionState
        /\ Carries(At("time", Head(queue)))
    <3> HIDE DEF queue
    <3> QED BY <1>3, <1>10, AtState DEF SessionPc
  <2>4. TypeOK'
    BY <1>1, <2>1, <2>2, <2>3, SessionFrame
  <2>5. senderQueue'[w] # << >> /\ Head(senderQueue'[w]) = At("time", Head(queue)).packet
    BY <1>10, <2>1 DEF At
  <2>6. HeadInHand'
    BY <2>1, <2>5, HeadFrame
  <2> QED BY <2>4, <2>6 DEF Typed
<1>11. CASE /\ queue # << >> /\ IsAckable(Head(queue)) /\ WindowFull(w)
            /\ \E i \in DOMAIN queue : ~IsAckable(queue[i])
  <2> DEFINE i == FirstOther(queue)
  <2>3. i \in DOMAIN queue /\ ~IsAckable(queue[i])
    <3> HIDE DEF queue
    <3> QED BY <1>2, <1>11, FirstOtherFound
  <2>4. DOMAIN queue = 1..Len(queue) /\ Len(queue) \in Nat
    <3> HIDE DEF queue
    <3> QED BY <1>2, LenProperties
  <2>5. Head(queue) = queue[1]
    <3> HIDE DEF queue
    <3> QED BY <1>2, <1>11
  <2>6. /\ senderQueue' = [senderQueue EXCEPT ![w] = RemoveAt(queue, i)]
        /\ session' = [session EXCEPT ![w] = At("copy", queue[i-1])]
        /\ workerLock' = Posted(w, held)
    BY <1>11 DEF SendNext
  <2> HIDE DEF i, queue
  <2>7. i - 1 \in 1..Len(queue)
    BY <1>11, <2>3, <2>4, <2>5
  <2>8. queue[i-1] \in Packet
    BY <1>2, <2>7, ElementOfSeq
  <2>9. RemoveAt(queue, i) \in Seq(Packet)
    BY <1>2, <2>3, RemoveAtType
  <2> QED BY <1>7, <2>6, <2>8, <2>9
<1>12. CASE /\ queue # << >> /\ IsAckable(Head(queue)) /\ WindowFull(w)
            /\ ~ \E i \in DOMAIN queue : ~IsAckable(queue[i])
  BY <1>6, <1>12 DEF SendNext
<1> QED BY <1>8, <1>9, <1>10, <1>11, <1>12

LEMMA SessionTyped ==
  ASSUME TypeOK, HeadInHand, NEW w \in Workers, SessionStep(w)
  PROVE  Typed'
<1>1. /\ senderQueue \in [Workers -> Seq(Packet)]
      /\ ackPendingQueue \in [Workers -> Seq(Packet)]
      /\ ackPacketPop \in [Workers -> BOOLEAN]
      /\ workerLock \in [Workers -> Nat]
      /\ crashed \in BOOLEAN
      /\ session[w] \in SessionState /\ Carries(session[w])
      /\ session \in [Workers -> SessionState]
  BY DEF TypeOK, SessionState, Carries
<1>2. ASSUME NEW s \in SessionState, Carries(s), s.pc \notin {"time", "append"},
             session' = [session EXCEPT ![w] = s],
             ackPacketPop' \in [Workers -> BOOLEAN], crashed' \in BOOLEAN,
             UNCHANGED <<senderQueue, ackPendingQueue, workerLock>>,
             UNCHANGED <<timeoutListLock, timing, registry, history, sender, processor, timer>>
      PROVE  Typed'
  <2>1. TypeOK'
    BY <1>1, <1>2, SessionFrame
  <2>2. HeadInHand'
    BY <1>2, HeadFrame
  <2> QED BY <2>1, <2>2 DEF Typed
<1>3. ASSUME Poll(w) PROVE Typed'
  <2>1. CASE ackPacketPop[w]
    <3>1. At("resend", NoPacket) \in SessionState /\ Carries(At("resend", NoPacket))
      BY AtState DEF SessionPc
    <3>2. At("resend", NoPacket).pc \notin {"time", "append"}
      BY DEF At
    <3>3. /\ ackPacketPop' = [ackPacketPop EXCEPT ![w] = FALSE]
          /\ session' = [session EXCEPT ![w] = At("resend", NoPacket)]
          /\ UNCHANGED <<senderQueue, ackPendingQueue, locks, timing, registry,
                         history, sender, processor, timer, crashed>>
      BY <1>3, <2>1 DEF Poll
    <3>4. ackPacketPop' \in [Workers -> BOOLEAN]
      BY <1>1, <3>3
    <3> QED BY <1>1, <1>2, <3>1, <3>2, <3>3, <3>4 DEF locks
  <2>2. CASE ~ackPacketPop[w]
    <3>1. SendNext(w, TRUE) /\ workerLock[w] > 0
      BY <1>3, <2>2 DEF Poll
    <3> QED BY <3>1, SendNextTyped
  <2> QED BY <2>1, <2>2
<1>4. ASSUME Resend(w) PROVE Typed'
  <2> DEFINE s == At(IF ackPendingQueue[w] = << >> THEN "fallThrough" ELSE "front", NoPacket)
  <2>1. s \in SessionState /\ Carries(s) /\ s.pc \notin {"time", "append"}
    BY DEF At, SessionState, Carries, SessionPc
  <2> QED BY <1>1, <1>2, <1>4, <2>1 DEF Resend, queues, locks
<1>5. ASSUME ResendFront(w) PROVE Typed'
  <2>1. CASE ackPendingQueue[w] = << >>
    <3>1. session' = [session EXCEPT ![w] = session[w]]
      BY <1>1, <1>5, <2>1 DEF ResendFront
    <3>2. session[w].pc \notin {"time", "append"}
      BY <1>5 DEF ResendFront, SessionAt
    <3> QED BY <1>1, <1>2, <1>5, <2>1, <3>1, <3>2 DEF ResendFront, queues, locks
  <2>2. CASE ackPendingQueue[w] # << >>
    <3> DEFINE s == At("copy", Head(ackPendingQueue[w]))
    <3>1. Head(ackPendingQueue[w]) \in Packet
      BY <1>1, <2>2, HeadTailProperties
    <3>2. s \in SessionState /\ Carries(s) /\ s.pc \notin {"time", "append"}
      BY <3>1 DEF At, SessionState, Carries, SessionPc
    <3> QED BY <1>1, <1>2, <1>5, <2>2, <3>2 DEF ResendFront, queues, locks
  <2> QED BY <2>1, <2>2
<1>6. ASSUME FallThrough(w) PROVE Typed'
  BY <1>6, SendNextTyped DEF FallThrough
<1>7. ASSUME AddTimed(w) PROVE Typed'
  <2> DEFINE s == At("append", session[w].packet)
  <2>1. session[w].pc = "time" /\ session[w].packet \in Packet
    BY <1>1, <1>7 DEF AddTimed, SessionAt, Carries
  <2>2. Append(timedPackets, session[w].packet) \in Seq(Packet)
    BY <2>1, AppendProperties DEF TypeOK
  <2>3. timer.pc = "sleep"
    BY <1>7 DEF AddTimed, TypeOK
  <2>4. timedPackets' \in Seq(Packet)
    BY <1>7, <2>2 DEF AddTimed
  <2>5. session' = [session EXCEPT ![w] = s]
    <3>1. [session[w] EXCEPT !.pc = "append"] = s
      BY <1>1, MoveOn DEF SessionPc
    <3>2. session' = [session EXCEPT ![w] = [session[w] EXCEPT !.pc = "append"]]
      BY <1>1, <1>7 DEF AddTimed
    <3> QED BY <3>1, <3>2
  <2>6. s \in SessionState /\ Carries(s)
    BY <2>1, AtState DEF SessionPc
  <2> HIDE DEF s
  <2>7. session' \in [Workers -> SessionState] /\ \A v \in Workers : Carries(session'[v])
    BY <2>5, <2>6 DEF TypeOK, SessionState, Carries
  <2>8. TypeOK'
    BY <1>7, <2>3, <2>4, <2>7 DEF AddTimed, TypeOK, SessionState, Carries,
       queues, locks, registry, history
  <2>9. senderQueue[w] # << >> /\ Head(senderQueue[w]) = session[w].packet
    BY <2>1 DEF HeadInHand
  <2>10. HeadInHand'
    BY <1>7, <2>5, <2>9, HeadFrame DEF AddTimed, queues, s, At
  <2> QED BY <2>8, <2>10 DEF Typed
<1>8. ASSUME MovePending(w) PROVE Typed'
  <2> DEFINE s == At("copy", session[w].packet)
  <2>1. session[w].pc = "append" /\ session[w].packet \in Packet
    BY <1>1, <1>8 DEF MovePending, SessionAt, Carries
  <2>2. senderQueue[w] # << >>
    BY <2>1 DEF HeadInHand
  <2>3. Append(ackPendingQueue[w], session[w].packet) \in Seq(Packet)
    BY <1>1, <2>1, AppendProperties
  <2>4. Tail(senderQueue[w]) \in Seq(Packet)
    BY <1>1, <2>2, HeadTailProperties
  <2>5. /\ ackPendingQueue' \in [Workers -> Seq(Packet)]
        /\ senderQueue' \in [Workers -> Seq(Packet)]
        /\ workerLock' \in [Workers -> Nat]
        /\ \A v \in Workers \ {w} : senderQueue'[v] = senderQueue[v]
    BY <1>1, <1>8, <2>3, <2>4 DEF MovePending
  <2>6. session' = [session EXCEPT ![w] = s]
    <3>1. [session[w] EXCEPT !.pc = "copy"] = s
      BY <1>1, MoveOn DEF SessionPc
    <3>2. session' = [session EXCEPT ![w] = [session[w] EXCEPT !.pc = "copy"]]
      BY <1>1, <1>8 DEF MovePending
    <3> QED BY <3>1, <3>2
  <2>7. s \in SessionState /\ Carries(s) /\ s.pc \notin {"time", "append"}
    BY <2>1 DEF At, SessionState, Carries, SessionPc
  <2> HIDE DEF s
  <2>8. TypeOK'
    BY <1>1, <1>8, <2>5, <2>6, <2>7, SessionFrame DEF MovePending
  <2>9. HeadInHand'
    BY <2>5, <2>6, <2>7, HeadFrame
  <2> QED BY <2>8, <2>9 DEF Typed
<1>9. ASSUME Copy(w) PROVE Typed'
  <2>1. session[w].packet \in Packet
    BY <1>1, <1>9 DEF Copy, SessionAt, Carries
  <2>3. received' \in [Workers -> SUBSET Packet] /\ crashed' \in BOOLEAN
    BY <1>1, <1>9, <2>1 DEF Copy, TypeOK, Touch
  <2>4. Resting \in SessionState /\ Carries(Resting) /\ Resting.pc \notin {"time", "append"}
    BY DEF Resting, At, SessionState, Carries, SessionPc
  <2>5. session' = [session EXCEPT ![w] = Resting]
    BY <1>9 DEF Copy
  <2>6. session' \in [Workers -> SessionState] /\ \A v \in Workers : Carries(session'[v])
    BY <2>4, <2>5 DEF TypeOK, SessionState, Carries
  <2>7. TypeOK'
    BY <1>9, <2>3, <2>6 DEF Copy, TypeOK, SessionState, Carries,
       queues, locks, timing, registry
  <2>8. HeadInHand'
    BY <1>9, <2>4, <2>5, HeadFrame DEF Copy, queues
  <2> QED BY <2>7, <2>8 DEF Typed
<1> QED BY <1>3, <1>4, <1>5, <1>6, <1>7, <1>8, <1>9 DEF SessionStep

\* What a processor step that touches no list leaves to show: its own state,
\* the statuses and the reports.
ProcessorState == [pc : ProcessorPc, worker : Workers \cup {NoWorker},
                   packet : Packet \cup {NoPacket}, status : Status]
Works(job) == job.pc # "idle" => job.packet \in Packet /\ job.worker \in Workers

LEMMA ProcessorFrame ==
  ASSUME Typed, NEW p \in Processors, NEW job \in ProcessorState, Works(job),
         processor' = [processor EXCEPT ![p] = job],
         taskStatus' \in [Data -> Status],
         UNCHANGED <<queues, locks, timing, dataWorker, history, session, sender,
                     timer, crashed>>
  PROVE  Typed'
<1>1. /\ processor' \in [Processors -> ProcessorState]
      /\ \A q \in Processors : Works(processor'[q])
  BY DEF Typed, TypeOK, ProcessorState, Works
<1>2. TypeOK'
  BY <1>1 DEF Typed, TypeOK, ProcessorState, Works, queues, locks, timing, history
<1>3. HeadInHand'
  BY DEF Typed, HeadInHand, queues
<1> QED BY <1>2, <1>3 DEF Typed

LEMMA StatusWriteTyped ==
  ASSUME Typed, NEW p \in Processors, StatusWrite(p)
  PROVE  Typed'
<1> DEFINE job == [processor[p] EXCEPT !.pc = "test"]
<1>1. /\ processor \in [Processors -> ProcessorState] /\ Works(processor[p])
      /\ taskStatus \in [Data -> Status]
  BY DEF Typed, TypeOK, ProcessorState, Works
<1>2. processor[p].packet \in Packet /\ processor[p].worker \in Workers
  BY <1>1 DEF StatusWrite, ProcessorAt, Works
<1>3. job \in ProcessorState /\ Works(job)
  BY <1>1, <1>2 DEF ProcessorState, Works, ProcessorPc
<1>4. taskStatus' \in [Data -> Status]
  <2>1. processor[p].packet.data \in Data /\ processor[p].status \in Status
    BY <1>1, <1>2 DEF Packet, ProcessorState
  <2> QED BY <1>1, <2>1 DEF StatusWrite
<1>5. processor' = [processor EXCEPT ![p] = job]
  BY <1>1 DEF StatusWrite
<1> HIDE DEF job
<1> QED BY <1>3, <1>4, <1>5, ProcessorFrame DEF StatusWrite

LEMMA AnswerTestTyped ==
  ASSUME Typed, NEW p \in Processors, AnswerTest(p)
  PROVE  Typed'
<1> DEFINE job == IF processor[p].status # DATA_ERROR /\ CanQueue(processor[p].worker)
                    THEN [processor[p] EXCEPT !.pc = "push"] ELSE Idle
<1>1. /\ processor \in [Processors -> ProcessorState] /\ Works(processor[p])
      /\ taskStatus \in [Data -> Status]
  BY DEF Typed, TypeOK, ProcessorState, Works
<1>2. processor[p].packet \in Packet /\ processor[p].worker \in Workers
  BY <1>1 DEF AnswerTest, ProcessorAt, Works
<1>3. Idle \in ProcessorState /\ Works(Idle)
  BY DEF Idle, Busy, ProcessorState, ProcessorPc, Works, Status, DATA_QUEUED
<1>4. job \in ProcessorState /\ Works(job)
  BY <1>1, <1>2, <1>3 DEF ProcessorState, Works, ProcessorPc
<1>5. processor' = [processor EXCEPT ![p] = job]
  BY DEF AnswerTest
<1> HIDE DEF job
<1> QED BY <1>1, <1>4, <1>5, ProcessorFrame DEF AnswerTest, registry

\* The packet processors.
LEMMA ProcessorTyped ==
  ASSUME Typed, NEW p \in Processors, ProcessorStep(p)
  PROVE  Typed'
<1> USE DEF Typed, TypeOK, HeadInHand, queues, locks, timing, registry, history,
            Busy, Idle, ProcessorAt, ProcessorPc
<1>1. DATA_QUEUED \in Status
  BY DEF DATA_QUEUED, Status
<1>2. ASSUME NEW w \in Workers, NEW d \in Data, HandleAck(p, w, d)
      PROVE  Typed'
  <2> DEFINE pending   == ackPendingQueue[w]
             i         == FirstWithId(pending, d)
  <2>1. CASE \E k \in DOMAIN pending : pending[k].data = d
    <3>1. pending \in Seq(Packet)
      OBVIOUS
    <3>4. i \in DOMAIN pending
      <4> HIDE DEF pending
      <4> QED BY <2>1, <3>1, FirstWithIdFound
    <3>5. DOMAIN pending = 1..Len(pending)
      <4> HIDE DEF pending
      <4> QED BY <3>1, LenProperties
    <3>6. /\ processor' = [processor EXCEPT ![p] = Busy("match", w, pending[i], DATA_QUEUED)]
          /\ workerLock' = [workerLock EXCEPT ![w] = @ - 1]
      BY <1>2, <2>1 DEF HandleAck
    <3> HIDE DEF i
    <3>7. pending[i] \in Packet
      <4> HIDE DEF pending
      <4> QED BY <3>1, <3>4, <3>5, ElementOfSeq
    <3>8. crashed' \in BOOLEAN
      BY <1>2, <2>1 DEF HandleAck, Touch
    <3>9. workerLock[w] > 0
      BY <1>2 DEF HandleAck
    <3> HIDE DEF pending
    <3> QED BY <1>1, <1>2, <3>6, <3>7, <3>8, <3>9 DEF HandleAck
  <2>2. CASE ~ \E k \in DOMAIN pending : pending[k].data = d
    BY <1>2, <2>2 DEF HandleAck, Touch
  <2> QED BY <2>1, <2>2
<1>3. ASSUME MatchEnd(p) PROVE Typed'
  <2> DEFINE w == processor[p].worker
             packet == processor[p].packet
  <2>1. w \in Workers /\ packet \in Packet
    BY <1>3 DEF MatchEnd
  <2>2. timer.pc = "sleep"
    BY <1>3 DEF MatchEnd
  <2>3. Without(timedPackets, packet) \in Seq(Packet)
    <3> HIDE DEF packet
    <3> QED BY WithoutType
  <2>4. EraseFirst(ackPendingQueue[w], packet) \in Seq(Packet)
    <3>1. ackPendingQueue[w] \in Seq(Packet)
      BY <2>1
    <3> HIDE DEF packet, w
    <3> QED BY <3>1, EraseFirstType
  <2>5. timedPackets' = Without(timedPackets, packet)
    BY <1>3 DEF MatchEnd
  <2>6. ackPendingQueue' = [ackPendingQueue EXCEPT ![w] = EraseFirst(@, packet)]
    BY <1>3 DEF MatchEnd, Acknowledge
  <2>7. /\ freed' = freed \cup {packet}
        /\ workerLock' = [workerLock EXCEPT ![w] = @ + 1]
        /\ processor' = [processor EXCEPT ![p] = Idle]
        /\ crashed' \in BOOLEAN
        /\ UNCHANGED <<senderQueue, ackPacketPop, timeoutListLock, checkedOut, registry,
                 created, received, reported, session, sender, timer>>
    BY <1>3 DEF MatchEnd, Acknowledge, Touch
  <2> HIDE DEF w, packet
  <2>8. timedPackets' \in Seq(Packet)
    BY <2>3, <2>5
  <2>9. ackPendingQueue' \in [Workers -> Seq(Packet)]
    BY <2>1, <2>4, <2>6
  <2>10. Idle \in [pc : ProcessorPc, worker : Workers \cup {NoWorker},
                   packet : Packet \cup {NoPacket}, status : Status]
    BY <1>1
  <2>11. /\ processor' \in [Processors -> [pc : ProcessorPc, worker : Workers \cup {NoWorker},
                                   packet : Packet \cup {NoPacket}, status : Status]]
         /\ \A q \in Processors : processor'[q].pc # "idle" =>
              processor'[q].packet \in Packet /\ processor'[q].worker \in Workers
    BY <2>7, <2>10
  <2>12. freed' \subseteq Packet /\ workerLock' \in [Workers -> Nat]
    BY <2>1, <2>7
  <2> QED BY <2>2, <2>7, <2>8, <2>9, <2>11, <2>12
<1>4. ASSUME NEW w \in Workers, NEW d \in UserData, NEW r \in Results, HandleResult(p, w, d, r)
      PROVE  Typed'
  <2>1. AckPacket(w, d, r) \in Packet
    BY DEF AckPacket, Packet, Data, Kind
  <2>2. r \in Status
    BY WorkerNodeAssumption DEF Result, Status, DATA_INTER, DATA_FINAL, DATA_ERROR
  <2> QED BY <1>4, <2>1, <2>2 DEF HandleResult
<1>5. ASSUME StatusWrite(p) PROVE Typed'
  BY <1>5, StatusWriteTyped
<1>6. ASSUME AnswerTest(p) PROVE Typed'
  BY <1>6, AnswerTestTyped
<1>7. ASSUME AnswerPush(p) PROVE Typed'
  <2> DEFINE w == processor[p].worker
             packet == processor[p].packet
  <2>1. w \in Workers /\ packet \in Packet
    BY <1>7 DEF AnswerPush
  <2>2. senderQueue' = [senderQueue EXCEPT ![w] = Append(@, packet)]
    BY <1>7 DEF AnswerPush
  <2>3. UNCHANGED session
    BY <1>7 DEF AnswerPush
  <2>4. /\ senderQueue' \in [Workers -> Seq(Packet)]
        /\ HeadInHand'
    <3> HIDE DEF w, packet, Typed
    <3> QED BY <2>1, <2>2, <2>3, QueueGrows DEF Typed
  <2> QED BY <1>1, <1>7, <2>4 DEF AnswerPush
<1> QED BY <1>2, <1>3, <1>4, <1>5, <1>6, <1>7 DEF ProcessorStep

\* The timer.
LEMMA TimerTyped ==
  ASSUME Typed, TimerStep
  PROVE  Typed'
<1> USE DEF Typed, TypeOK, HeadInHand, queues, locks, timing, registry, history, threads,
            TimerAt
<1>1. Len(timedPackets) \in Nat /\ DOMAIN timedPackets = 1..Len(timedPackets)
  BY LenProperties
<1>2. ASSUME TimerWake PROVE Typed'
  BY <1>1, <1>2 DEF TimerWake
<1>3. ASSUME TimerSleep PROVE Typed'
  BY <1>3 DEF TimerSleep
<1>4. ASSUME NEW packet \in Packet, TimerCheckOut(packet) PROVE Typed'
  <2>1. timer.i + 1 \in 1..Len(timedPackets) + 1 /\ timer.pc = "visit"
    BY <1>1, <1>4 DEF TimerCheckOut, Visiting
  <2>2. \/ timer' = [timer EXCEPT !.pc = "selfWait"] /\ UNCHANGED checkedOut
        \/ timer' = [timer EXCEPT !.i = @ + 1] /\ checkedOut' = checkedOut \cup {packet}
    BY <1>4 DEF TimerCheckOut
  <2>3. /\ timer' \in [pc : {"sleep", "visit", "selfWait"}, i : Nat]
        /\ \/ timer'.pc = "selfWait"
           \/ timer'.pc = "visit" /\ timer'.i = timer.i + 1
    <3>1. timer \in [pc : {"sleep", "visit", "selfWait"}, i : Nat]
      OBVIOUS
    <3>2. CASE timer' = [timer EXCEPT !.pc = "selfWait"]
      <4> HIDE DEF Typed, TypeOK, HeadInHand
      <4> QED BY <3>1, <3>2
    <3>3. CASE timer' = [timer EXCEPT !.i = @ + 1]
      <4> HIDE DEF Typed, TypeOK, HeadInHand
      <4> QED BY <2>1, <3>1, <3>3
    <3> QED BY <2>2, <3>2, <3>3
  <2>4. checkedOut' \subseteq Packet
    BY <2>2
  <2>5. crashed' \in BOOLEAN
    BY <1>4 DEF TimerCheckOut, Touch
  <2>6. UNCHANGED <<queues, locks, timedPackets, registry, history, session, sender, processor>>
    BY <1>4 DEF TimerCheckOut
  <2>7. TypeOK'
    BY <2>1, <2>3, <2>4, <2>5, <2>6
  <2>8. HeadInHand'
    BY <2>6
  <2> QED BY <2>7, <2>8
<1>5. ASSUME NEW packet \in Packet, TimerResend(packet) PROVE Typed'
  <2> DEFINE w == dataWorker[packet.data]
             rest == Without(ackPendingQueue[w], packet)
  <2>1. w \in Workers
    BY <1>5 DEF TimerResend, Packet
  <2>2. ackPendingQueue' = [ackPendingQueue EXCEPT ![w] = <<packet>> \o rest]
    BY <1>5 DEF TimerResend
  <2> HIDE DEF w
  <2>3. rest \in Seq(Packet)
    BY <2>1, WithoutType
  <2> HIDE DEF rest
  <2>4. <<packet>> \o rest \in Seq(Packet)
    BY <2>3, ConcatProperties
  <2>5. ackPendingQueue' \in [Workers -> Seq(Packet)]
    BY <2>1, <2>2, <2>4
  <2>6. ackPacketPop' \in [Workers -> BOOLEAN] /\ crashed' \in BOOLEAN
    BY <1>5, <2>1 DEF TimerResend, Touch
  <2>7. timer.i + 1 \in 1..Len(timedPackets) + 1 /\ timer.pc = "visit"
    BY SMTT(30), <1>1, <1>5 DEF TimerResend, Visiting
  <2>8. timer' = [timer EXCEPT !.i = @ + 1]
    BY <1>5 DEF TimerResend
  <2>9. /\ timer' \in [pc : {"sleep", "visit", "selfWait"}, i : Nat]
        /\ timer'.pc = "visit" /\ timer'.i = timer.i + 1
    BY <2>7, <2>8
  <2>10. UNCHANGED <<senderQueue, locks, timing, registry, history, session, sender, processor>>
    BY <1>5 DEF TimerResend
  <2>11. TypeOK'
    BY <2>5, <2>6, <2>7, <2>9, <2>10
  <2>12. HeadInHand'
    BY <2>10
  <2> QED BY <2>11, <2>12
<1>6. ASSUME NEW packet \in Packet, TimerStray(packet) PROVE Typed'
  BY <1>6 DEF TimerStray
<1> QED BY <1>2, <1>3, <1>4, <1>5, <1>6 DEF TimerStep

\* Every step of every thread keeps the types.
LEMMA TypedNext == Typed /\ [Next]_vars => Typed'
<1> SUFFICES ASSUME Typed, [Next]_vars PROVE Typed'
  OBVIOUS
<1>1. ASSUME ListRace PROVE Typed'
  BY <1>1 DEF ListRace, Typed, TypeOK, HeadInHand, queues, locks, timing, registry,
              history, threads
<1>2. ASSUME UNCHANGED vars PROVE Typed'
  BY <1>2 DEF vars, Typed, TypeOK, HeadInHand, queues, locks, timing, registry,
              history, threads
<1> QED BY <1>1, <1>2, SenderTyped, SessionTyped, ProcessorTyped, TimerTyped DEF Next, Typed

\* Whatever the interleaving of sessions, processors, timer and sender core,
\* broken locks included, the two lists of a worker and the list of the timer
\* hold packets, the timer is never past the end of its list by more than one
\* and its lock is free exactly when it sleeps (timeout.cpp, worker.cpp).
THEOREM NodeTyping == Spec => []TypeOK
<1>1. Spec => []Typed
  BY TypedInit, TypedNext, PTL DEF Spec
<1> QED BY <1>1, PTL DEF Typed

(***************************************************************************)
(* The sender queues.                                                      *)
(***************************************************************************)
\* What SendNext takes from the queue of its worker.
LEMMA SendNextTakes ==
  ASSUME TypeOK, NEW w \in Workers, NEW held \in BOOLEAN, SendNext(w, held)
  PROVE  \/ session' = [session EXCEPT ![w] = Resting] /\ UNCHANGED senderQueue
         \/ /\ senderQueue[w] # << >> /\ ~IsAckable(Head(senderQueue[w]))
            /\ session' = [session EXCEPT ![w] = At("copy", Head(senderQueue[w]))]
            /\ senderQueue' = [senderQueue EXCEPT ![w] = Tail(senderQueue[w])]
         \/ /\ senderQueue[w] # << >> /\ IsAckable(Head(senderQueue[w]))
            /\ ~WindowFull(w)
            /\ session' = [session EXCEPT ![w] = At("time", Head(senderQueue[w]))]
            /\ UNCHANGED senderQueue
         \/ \E k \in DOMAIN senderQueue[w] :
              /\ IsAckable(Head(senderQueue[w])) /\ ~IsAckable(senderQueue[w][k])
              /\ session' = [session EXCEPT ![w] = At("copy", senderQueue[w][k-1])]
              /\ senderQueue' = [senderQueue EXCEPT ![w] = RemoveAt(senderQueue[w], k)]
<1> DEFINE queue == senderQueue[w]
<1>1. queue \in Seq(Packet)
  BY DEF TypeOK
<1>2. CASE /\ queue # << >> /\ IsAckable(Head(queue)) /\ WindowFull(w)
           /\ \E k \in DOMAIN queue : ~IsAckable(queue[k])
  <2>1. FirstOther(queue) \in DOMAIN queue /\ ~IsAckable(queue[FirstOther(queue)])
    <3> HIDE DEF queue
    <3> QED BY <1>1, <1>2, FirstOtherFound
  <2>2. /\ senderQueue' = [senderQueue EXCEPT ![w] = RemoveAt(queue, FirstOther(queue))]
        /\ session' = [session EXCEPT ![w] = At("copy", queue[FirstOther(queue)-1])]
    BY <1>2 DEF SendNext
  <2> QED BY <1>2, <2>1, <2>2
<1>3. CASE ~ /\ queue # << >> /\ IsAckable(Head(queue)) /\ WindowFull(w)
             /\ \E k \in DOMAIN queue : ~IsAckable(queue[k])
  BY <1>3 DEF SendNext
<1> QED BY <1>2, <1>3

\* A session makes the queue of its worker shorter, if anything.
LEMMA SessionShortens ==
  ASSUME Typed, NEW w \in Workers, SessionStep(w)
  PROVE  /\ \A v \in Workers : Len(senderQueue'[v]) <= Len(senderQueue[v])
         /\ UNCHANGED <<sender, processor>>
<1> DEFINE q == senderQueue[w]
<1>1. /\ senderQueue \in [Workers -> Seq(Packet)] /\ q \in Seq(Packet)
      /\ \A v \in Workers : Len(senderQueue[v]) \in Nat
  BY LenProperties DEF Typed, TypeOK
<1>2. ASSUME UNCHANGED senderQueue
      PROVE  \A v \in Workers : Len(senderQueue'[v]) <= Len(senderQueue[v])
  BY <1>1, <1>2
<1>3. ASSUME NEW r, Len(r) <= Len(q), senderQueue' = [senderQueue EXCEPT ![w] = r]
      PROVE  \A v \in Workers : Len(senderQueue'[v]) <= Len(senderQueue[v])
  BY <1>1, <1>3
<1>4. q # << >> => Len(Tail(q)) <= Len(q)
  <2> HIDE DEF q
  <2> QED BY <1>1, HeadTailProperties, LenProperties
<1>5. \A k \in DOMAIN q : Len(RemoveAt(q, k)) <= Len(q)
  <2> HIDE DEF q
  <2> QED BY <1>1, RemoveAtType, LenProperties
<1>6. ASSUME NEW held \in BOOLEAN, SendNext(w, held)
      PROVE  \A v \in Workers : Len(senderQueue'[v]) <= Len(senderQueue[v])
  BY <1>2, <1>3, <1>4, <1>5, <1>6, SendNextTakes DEF Typed
<1>7. ASSUME MovePending(w)
      PROVE  \A v \in Workers : Len(senderQueue'[v]) <= Len(senderQueue[v])
  <2>1. q # << >>
    BY <1>7 DEF MovePending, SessionAt, Typed, HeadInHand
  <2>2. senderQueue' = [senderQueue EXCEPT ![w] = Tail(q)]
    BY <1>1, <1>7 DEF MovePending
  <2> QED BY <1>3, <1>4, <2>1, <2>2
<1>8. ASSUME Poll(w)
      PROVE  /\ \A v \in Workers : Len(senderQueue'[v]) <= Len(senderQueue[v])
             /\ UNCHANGED <<sender, processor>>
  BY <1>2, <1>6, <1>8 DEF Poll, SendNext
<1>9. ASSUME FallThrough(w)
      PROVE  /\ \A v \in Workers : Len(senderQueue'[v]) <= Len(senderQueue[v])
             /\ UNCHANGED <<sender, processor>>
  BY <1>6, <1>9 DEF FallThrough, SendNext
<1> QED BY <1>2, <1>7, <1>8, <1>9
        DEF SessionStep, Resend, ResendFront, AddTimed, MovePending, Copy, queues

\* The threads between the size test of queuePacket and its lock: at most all
\* processors and the sender core.
Queuing(w)    == {p \in Processors : processor[p].pc = "push" /\ processor[p].worker = w}
SenderQueues(w) == sender.pc = "push" /\ sender.packet.worker = w
OnTheWay(w)   == Cardinality(Queuing(w)) + (IF SenderQueues(w) THEN 1 ELSE 0)

\* A queue and the packets on their way to it are together within the bound.
Room(w) == Len(senderQueue[w]) + OnTheWay(w) <= WORKER_QUEUE_SIZE + 1 + Cardinality(Processors)
RoomInv == \A w \in Workers : Room(w)

LEMMA QueuingSize ==
  ASSUME NEW T \in SUBSET Processors
  PROVE  IsFiniteSet(T) /\ Cardinality(T) \in Nat /\ Cardinality(Processors) \in Nat
         /\ Cardinality(T) <= Cardinality(Processors)
BY WorkerNodeAssumption, FS_Subset, FS_CardinalityType

\* Fewer packets on the way to a queue that is no longer.
LEMMA RoomLess ==
  ASSUME NEW w \in Workers, Room(w),
         Len(senderQueue'[w]) <= Len(senderQueue[w]),
         Len(senderQueue'[w]) \in Nat, Len(senderQueue[w]) \in Nat,
         Queuing(w)' \subseteq Queuing(w),
         SenderQueues(w)' => SenderQueues(w)
  PROVE  Room(w)'
<1> DEFINE old == Queuing(w)
           new == Queuing(w)'
<1>1. old \subseteq Processors /\ new \subseteq old
  BY DEF Queuing
<1> HIDE DEF old, new
<1>2. /\ Cardinality(old) \in Nat /\ Cardinality(new) \in Nat
      /\ Cardinality(Processors) \in Nat /\ Cardinality(new) <= Cardinality(old)
  BY <1>1, QueuingSize, FS_Subset
<1>3. Len(senderQueue[w]) + (Cardinality(old) + (IF SenderQueues(w) THEN 1 ELSE 0))
        <= WORKER_QUEUE_SIZE + 1 + Cardinality(Processors)
  BY DEF Room, OnTheWay, old
<1>4. Len(senderQueue'[w]) + (Cardinality(new) + (IF SenderQueues(w)' THEN 1 ELSE 0))
        <= WORKER_QUEUE_SIZE + 1 + Cardinality(Processors)
  BY <1>2, <1>3, WorkerNodeAssumption
<1> QED BY <1>4 DEF Room, OnTheWay, new

\* While a queue has passed the test the threads at it all fit.
LEMMA RoomTested ==
  ASSUME NEW w \in Workers, CanQueue(w),
         UNCHANGED senderQueue, Len(senderQueue[w]) \in Nat
  PROVE  Room(w)'
<1> DEFINE new == Queuing(w)'
<1>1. new \subseteq Processors
  BY DEF Queuing
<1> HIDE DEF new
<1>2. /\ Cardinality(new) \in Nat /\ Cardinality(Processors) \in Nat
      /\ Cardinality(new) <= Cardinality(Processors)
  BY <1>1, QueuingSize
<1>3. Len(senderQueue'[w]) + (Cardinality(new) + (IF SenderQueues(w)' THEN 1 ELSE 0))
        <= WORKER_QUEUE_SIZE + 1 + Cardinality(Processors)
  BY <1>2, WorkerNodeAssumption DEF CanQueue
<1> QED BY <1>3 DEF Room, OnTheWay, new

LEMMA RoomStep ==
  ASSUME Typed, Typed', RoomInv, [Next]_vars
  PROVE  RoomInv'
<1> USE DEF RoomInv
<1>1. /\ senderQueue \in [Workers -> Seq(Packet)]
      /\ \A v \in Workers : Len(senderQueue[v]) \in Nat /\ Len(senderQueue'[v]) \in Nat
      /\ processor \in [Processors -> ProcessorState]
  BY LenProperties DEF Typed, TypeOK, ProcessorState
<1>2. ASSUME \A v \in Workers : Len(senderQueue'[v]) <= Len(senderQueue[v]),
             sender'.pc = "push" => sender' = sender,
             \A p \in Processors : processor'[p].pc = "push" => processor'[p] = processor[p]
      PROVE  RoomInv'
  <2> SUFFICES ASSUME NEW v \in Workers PROVE Room(v)'
    OBVIOUS
  <2>1. Queuing(v)' \subseteq Queuing(v) /\ (SenderQueues(v)' => SenderQueues(v))
    BY <1>2 DEF Queuing, SenderQueues
  <2> QED BY <1>1, <1>2, <2>1, RoomLess
<1>3. ASSUME UNCHANGED senderQueue,
             sender'.pc = "push" => sender' = sender,
             \A p \in Processors : processor'[p].pc = "push" => processor'[p] = processor[p]
      PROVE  RoomInv'
  BY <1>1, <1>2, <1>3
<1>4. ASSUME NEW d \in Data, NEW w \in Workers, SenderCreate(d, w) PROVE RoomInv'
  <2>1. /\ UNCHANGED <<senderQueue, processor>>
        /\ sender'.pc = "push" => CanQueue(w) /\ sender'.packet.worker = w
    BY <1>4 DEF SenderCreate, queues, At
  <2> SUFFICES ASSUME NEW v \in Workers PROVE Room(v)'
    OBVIOUS
  <2>2. CASE v = w /\ CanQueue(w)
    BY <1>1, <2>1, <2>2, RoomTested
  <2>3. CASE ~(v = w /\ CanQueue(w))
    <3>1. Queuing(v)' = Queuing(v) /\ ~SenderQueues(v)'
      BY <2>1, <2>3 DEF Queuing, SenderQueues
    <3> QED BY <1>1, <2>1, <3>1, RoomLess
  <2> QED BY <2>2, <2>3
<1>5. ASSUME SenderPush PROVE RoomInv'
  <2> DEFINE w == sender.packet.worker
  <2>1. /\ sender.pc = "push" /\ sender.packet \in Packet /\ w \in Workers
        /\ sender'.pc # "push" /\ UNCHANGED processor
        /\ senderQueue' = [senderQueue EXCEPT ![w] = Append(@, sender.packet)]
    BY <1>5 DEF SenderPush, SenderAt, At, Typed, TypeOK, Packet
  <2>2. Len(senderQueue'[w]) = Len(senderQueue[w]) + 1
    <3>1. senderQueue[w] \in Seq(Packet)
      BY <1>1, <2>1
    <3>2. Len(Append(senderQueue[w], sender.packet)) = Len(senderQueue[w]) + 1
      BY <2>1, <3>1, AppendProperties
    <3> QED BY <1>1, <2>1, <3>2
  <2> SUFFICES ASSUME NEW v \in Workers PROVE Room(v)'
    OBVIOUS
  <2>3. CASE v = w
    <3> DEFINE old == Queuing(v)
    <3>1. old \subseteq Processors /\ old = Queuing(v)'
      BY <2>1 DEF Queuing
    <3>2. SenderQueues(v) /\ ~SenderQueues(v)'
      BY <2>1, <2>3 DEF SenderQueues
    <3>3. Len(senderQueue[v]) + (Cardinality(old) + 1)
            <= WORKER_QUEUE_SIZE + 1 + Cardinality(Processors)
      BY <3>2 DEF Room, OnTheWay
    <3> HIDE DEF old
    <3>4. Cardinality(old) \in Nat /\ Cardinality(Processors) \in Nat
      BY <3>1, QueuingSize
    <3>5. Len(senderQueue'[v]) + (Cardinality(old) + 0)
            <= WORKER_QUEUE_SIZE + 1 + Cardinality(Processors)
      BY <1>1, <2>2, <2>3, <3>3, <3>4, WorkerNodeAssumption
    <3> QED BY <3>1, <3>2, <3>5 DEF Room, OnTheWay
  <2>4. CASE v # w
    <3>1. senderQueue'[v] = senderQueue[v]
      BY <1>1, <2>1, <2>4
    <3>2. Queuing(v)' = Queuing(v) /\ ~SenderQueues(v)'
      BY <2>1 DEF Queuing, SenderQueues
    <3> QED BY <1>1, <3>1, <3>2, RoomLess
  <2> QED BY <2>3, <2>4
<1>6. ASSUME NEW p \in Processors, AnswerTest(p) PROVE RoomInv'
  <2> DEFINE w == processor[p].worker
  <2>1. /\ UNCHANGED <<senderQueue, sender>> /\ w \in Workers
        /\ \A r \in Processors \ {p} : processor'[r] = processor[r]
        /\ processor'[p].pc = "push" => CanQueue(w) /\ processor'[p].worker = w
    BY <1>1, <1>6 DEF AnswerTest, ProcessorAt, queues, Typed, TypeOK, ProcessorState,
       Idle, Busy
  <2> SUFFICES ASSUME NEW v \in Workers PROVE Room(v)'
    OBVIOUS
  <2>2. CASE v = w /\ CanQueue(w)
    BY <1>1, <2>1, <2>2, RoomTested
  <2>3. CASE ~(v = w /\ CanQueue(w))
    <3>1. Queuing(v)' \subseteq Queuing(v) /\ (SenderQueues(v)' <=> SenderQueues(v))
      BY <2>1, <2>3 DEF Queuing, SenderQueues
    <3> QED BY <1>1, <2>1, <3>1, RoomLess
  <2> QED BY <2>2, <2>3
<1>7. ASSUME NEW p \in Processors, AnswerPush(p) PROVE RoomInv'
  <2> DEFINE w == processor[p].worker
  <2>1. /\ processor[p].pc = "push" /\ processor[p].packet \in Packet /\ w \in Workers
        /\ processor' = [processor EXCEPT ![p] = Idle] /\ UNCHANGED sender
        /\ senderQueue' = [senderQueue EXCEPT ![w] = Append(@, processor[p].packet)]
    BY <1>7 DEF AnswerPush, ProcessorAt, Typed, TypeOK
  <2>2. Len(senderQueue'[w]) = Len(senderQueue[w]) + 1
    <3>1. senderQueue[w] \in Seq(Packet)
      BY <1>1, <2>1
    <3>2. Len(Append(senderQueue[w], processor[p].packet)) = Len(senderQueue[w]) + 1
      BY <2>1, <3>1, AppendProperties
    <3> QED BY <1>1, <2>1, <3>2
  <2>3. Idle.pc # "push"
    BY DEF Idle, Busy
  <2> SUFFICES ASSUME NEW v \in Workers PROVE Room(v)'
    OBVIOUS
  <2>4. (SenderQueues(v)' <=> SenderQueues(v)) /\ Queuing(v)' = Queuing(v) \ {p}
    BY <1>1, <2>1, <2>3 DEF SenderQueues, Queuing
  <2>5. CASE v = w
    <3> DEFINE old == Queuing(v)
               n   == IF SenderQueues(v) THEN 1 ELSE 0
    <3>1. old \subseteq Processors /\ p \in old
      BY <2>1, <2>5 DEF Queuing
    <3>2. Len(senderQueue[v]) + (Cardinality(old) + n)
            <= WORKER_QUEUE_SIZE + 1 + Cardinality(Processors)
      BY DEF Room, OnTheWay
    <3>3. n \in Nat
      OBVIOUS
    <3> HIDE DEF old, n
    <3>4. /\ Cardinality(old) \in Nat /\ Cardinality(Processors) \in Nat
          /\ Cardinality(old \ {p}) = Cardinality(old) - 1
      BY <3>1, QueuingSize, FS_RemoveElement
    <3>5. Len(senderQueue'[v]) + (Cardinality(old \ {p}) + n)
            <= WORKER_QUEUE_SIZE + 1 + Cardinality(Processors)
      BY <1>1, <2>2, <2>5, <3>2, <3>3, <3>4, WorkerNodeAssumption
    <3> QED BY <2>4, <3>5 DEF Room, OnTheWay, old, n
  <2>6. CASE v # w
    <3>1. senderQueue'[v] = senderQueue[v]
      BY <1>1, <2>1, <2>6
    <3>2. Queuing(v)' \subseteq Queuing(v)
      BY <2>4
    <3> QED BY <1>1, <2>4, <3>1, <3>2, RoomLess
  <2> QED BY <2>5, <2>6
<1>8. ASSUME SenderAssign \/ SenderWrite PROVE RoomInv'
  BY <1>3, <1>8 DEF SenderAssign, SenderWrite, Resting, At, queues
<1>9. ASSUME NEW p \in Processors, NEW w \in Workers, NEW d \in Data, HandleAck(p, w, d)
      PROVE  RoomInv'
  BY <1>1, <1>3, <1>9 DEF HandleAck, Busy, queues
<1>10. ASSUME NEW p \in Processors, NEW w \in Workers, NEW d \in UserData,
              NEW r \in Results, HandleResult(p, w, d, r)
       PROVE  RoomInv'
  BY <1>1, <1>3, <1>10 DEF HandleResult, Busy, queues
<1>11. ASSUME NEW p \in Processors, MatchEnd(p) \/ StatusWrite(p) PROVE RoomInv'
  BY <1>1, <1>3, <1>11 DEF MatchEnd, Acknowledge, StatusWrite, Idle, Busy, queues, ProcessorState
<1>12. ASSUME NEW w \in Workers, SessionStep(w) PROVE RoomInv'
  BY <1>1, <1>2, <1>12, SessionShortens
<1>13. ASSUME TimerStep \/ ListRace \/ UNCHANGED vars PROVE RoomInv'
  BY <1>3, <1>13 DEF TimerStep, TimerWake, TimerSleep, TimerCheckOut, TimerResend, TimerStray,
     ListRace, vars, queues, threads
<1> QED BY <1>4, <1>5, <1>6, <1>7, <1>8, <1>9, <1>10, <1>11, <1>12, <1>13
        DEF Next, SenderStep, ProcessorStep

\* queuePacket tests the size before it waits for the lock, and its limit lets
\* one more in: still a queue exceeds its size by one and one more per packet
\* processor at most (Worker::queuePacket), for any number of them.
THEOREM SenderQueueBound == Spec => []QueueBound
<1>1. Init => RoomInv
  <2> SUFFICES ASSUME Init, NEW w \in Workers PROVE Room(w)
    BY DEF RoomInv
  <2>1. Queuing(w) = {} /\ ~SenderQueues(w) /\ Len(senderQueue[w]) = 0
    BY DEF Init, Queuing, SenderQueues, Resting, At, Idle, Busy
  <2>2. Cardinality({}) = 0 /\ Cardinality(Processors) \in Nat
    BY WorkerNodeAssumption, FS_EmptySet, FS_CardinalityType
  <2> QED BY <2>1, <2>2, WorkerNodeAssumption DEF Room, OnTheWay
<1>2. Typed /\ RoomInv => QueueBound
  <2> SUFFICES ASSUME Typed, RoomInv, NEW w \in Workers
               PROVE  Len(senderQueue[w]) <= WORKER_QUEUE_SIZE + 1 + Cardinality(Processors)
    BY DEF QueueBound
  <2>1. Queuing(w) \subseteq Processors
    BY DEF Queuing
  <2>2. Cardinality(Queuing(w)) \in Nat /\ Cardinality(Processors) \in Nat
    BY <2>1, QueuingSize
  <2>3. Len(senderQueue[w]) \in Nat
    BY LenProperties DEF Typed, TypeOK
  <2> QED BY <2>2, <2>3, WorkerNodeAssumption DEF RoomInv, Room, OnTheWay
<1> QED BY <1>1, <1>2, TypedInit, TypedNext, RoomStep, PTL DEF Spec

(***************************************************************************)
(* The life of a packet: the timer never meets a deleted one.  The         *)
(* invariant is TimerListAlive with Lifecycle: to know that what is timed  *)
(* is not deleted one must know that what is about to be timed was never   *)
(* timed before, hence where it waits and how often.                       *)
(*                                                                         *)
(* A queue of a worker keeps its ackable packets apart.                    *)
(***************************************************************************)
\* Queueing a packet that is new, or needs no acknowledgement.
LEMMA WaitsAppend ==
  ASSUME NEW q \in Seq(Packet), NEW w, NEW past, NEW made, NEW late \in BOOLEAN,
         Waits(q, w, past, made, late), NEW packet \in Packet,
         IsAckable(packet) => /\ packet.worker = w /\ packet \in made
                              /\ packet \notin past /\ packet \notin ToSet(q)
  PROVE  /\ Waits(Append(q, packet), w, past, made, late)
         /\ ToSet(Append(q, packet)) = ToSet(q) \cup {packet}
<1> DEFINE longer == Append(q, packet)
<1>1. Len(q) \in Nat /\ DOMAIN q = 1..Len(q)
  BY LenProperties
<1>2. /\ Len(longer) = Len(q) + 1 /\ DOMAIN longer = 1..Len(q)+1
      /\ \A i \in 1..Len(q) : longer[i] = q[i]
      /\ longer[Len(q)+1] = packet
  BY AppendProperties, LenProperties
<1> HIDE DEF longer
<1>3. ToSet(longer) = ToSet(q) \cup {packet}
  <2>1. \A x : x \in ToSet(longer) => x \in ToSet(q) \cup {packet}
    BY <1>1, <1>2 DEF ToSet
  <2>2. \A x : x \in ToSet(q) => x \in ToSet(longer)
    BY <1>1, <1>2 DEF ToSet
  <2>3. packet \in ToSet(longer)
    <3>1. Len(q) + 1 \in DOMAIN longer
      BY <1>1, <1>2
    <3> QED BY <1>2, <3>1 DEF ToSet
  <2> QED BY <2>1, <2>2, <2>3
<1>4. ASSUME NEW i \in DOMAIN longer, IsAckable(longer[i])
      PROVE  /\ longer[i].worker = w
             /\ longer[i] \in made
             /\ longer[i] \in past => late /\ i = 1
             /\ \A j \in DOMAIN longer : longer[j] = longer[i] => j = i
  <2>1. CASE i \in DOMAIN q
    <3>1. longer[i] = q[i]
      BY <1>1, <1>2, <2>1
    <3>2. /\ q[i].worker = w /\ q[i] \in made
          /\ q[i] \in past => late /\ i = 1
          /\ \A j \in DOMAIN q : q[j] = q[i] => j = i
      BY <1>4, <2>1, <3>1 DEF Waits
    <3>3. packet # q[i]
      BY <1>4, <2>1, <3>1 DEF ToSet
    <3> QED BY <1>1, <1>2, <3>1, <3>2, <3>3
  <2>2. CASE i = Len(q) + 1
    <3>1. longer[i] = packet
      BY <1>2, <2>2
    <3>2. \A j \in DOMAIN q : q[j] # packet
      BY <1>4, <3>1 DEF ToSet
    <3> QED BY <1>1, <1>2, <1>4, <2>2, <3>1, <3>2
  <2> QED BY <1>1, <1>2, <2>1, <2>2
<1>5. Waits(longer, w, past, made, late)
  BY <1>4 DEF Waits
<1> QED BY <1>3, <1>5 DEF longer

\* Taking the head, timed or not, or another position while nothing is late.
LEMMA WaitsTail ==
  ASSUME NEW q \in Seq(Packet), q # << >>, NEW w, NEW past, NEW made,
         NEW late \in BOOLEAN, Waits(q, w, past, made, late)
  PROVE  /\ Waits(Tail(q), w, past, made, FALSE)
         /\ ToSet(Tail(q)) \subseteq ToSet(q)
<1>1. Len(q) \in Nat /\ DOMAIN q = 1..Len(q) /\ Len(q) > 0
  BY LenProperties, EmptySeq
<1>2. /\ DOMAIN Tail(q) = 1..Len(q)-1
      /\ \A i \in 1..Len(q)-1 : Tail(q)[i] = q[i+1]
  BY HeadTailProperties, LenProperties
<1>3. \A i \in DOMAIN Tail(q) : i + 1 \in DOMAIN q /\ Tail(q)[i] = q[i+1] /\ i + 1 # 1
  BY <1>1, <1>2
<1>4. Waits(Tail(q), w, past, made, FALSE)
  <2> SUFFICES ASSUME NEW i \in DOMAIN Tail(q), IsAckable(Tail(q)[i])
               PROVE  /\ Tail(q)[i].worker = w /\ Tail(q)[i] \in made
                      /\ Tail(q)[i] \notin past
                      /\ \A j \in DOMAIN Tail(q) : Tail(q)[j] = Tail(q)[i] => j = i
    BY DEF Waits
  <2>1. /\ q[i+1].worker = w /\ q[i+1] \in made
        /\ q[i+1] \in past => late /\ i + 1 = 1
        /\ \A j \in DOMAIN q : q[j] = q[i+1] => j = i + 1
    BY <1>3 DEF Waits
  <2>2. \A j \in DOMAIN Tail(q) : Tail(q)[j] = Tail(q)[i] => j + 1 = i + 1
    BY <1>3, <2>1
  <2>3. \A j \in DOMAIN Tail(q) : j + 1 = i + 1 => j = i
    BY <1>2
  <2> QED BY <1>3, <2>1, <2>2, <2>3
<1>5. ToSet(Tail(q)) \subseteq ToSet(q)
  BY <1>3 DEF ToSet
<1> QED BY <1>4, <1>5

LEMMA WaitsRemove ==
  ASSUME NEW q \in Seq(Packet), NEW k \in DOMAIN q, NEW w, NEW past, NEW made,
         Waits(q, w, past, made, FALSE)
  PROVE  /\ Waits(RemoveAt(q, k), w, past, made, FALSE)
         /\ ToSet(RemoveAt(q, k)) \subseteq ToSet(q)
<1> DEFINE r == RemoveAt(q, k)
           at(i) == IF i < k THEN i ELSE i + 1
<1>1. Len(q) \in Nat /\ DOMAIN q = 1..Len(q)
  BY LenProperties
<1>2. /\ DOMAIN r = 1..Len(q)-1
      /\ \A j \in 1..Len(q)-1 : r[j] = IF j < k THEN q[j] ELSE q[j+1]
  BY RemoveAtType, LenProperties
<1> HIDE DEF r
<1>3. \A i \in DOMAIN r : at(i) \in DOMAIN q /\ r[i] = q[at(i)]
  BY <1>1, <1>2
<1>4. \A i, j \in DOMAIN r : at(i) = at(j) => i = j
  BY <1>1, <1>2
<1> HIDE DEF at
<1>5. Waits(r, w, past, made, FALSE)
  BY <1>3, <1>4 DEF Waits
<1>6. ToSet(r) \subseteq ToSet(q)
  BY <1>3 DEF ToSet
<1> QED BY <1>5, <1>6 DEF r

\* Timing the head makes it late.
LEMMA WaitsTimed ==
  ASSUME NEW q \in Seq(Packet), q # << >>, NEW w, NEW past, NEW made,
         Waits(q, w, past, made, FALSE), IsAckable(Head(q))
  PROVE  /\ Waits(q, w, past \cup {Head(q)}, made, TRUE)
         /\ Head(q) \notin past /\ Head(q).worker = w /\ Head(q) \in ToSet(q)
<1>1. 1 \in DOMAIN q /\ Head(q) = q[1]
  <2>1. Len(q) \in Nat /\ DOMAIN q = 1..Len(q) /\ Len(q) > 0
    BY LenProperties, EmptySeq
  <2> QED BY <2>1
<1> QED BY <1>1 DEF Waits, ToSet

\* A packet of another worker may be timed.
LEMMA WaitsOther ==
  ASSUME NEW q \in Seq(Packet), NEW w, NEW past, NEW made, NEW late \in BOOLEAN,
         Waits(q, w, past, made, late), NEW packet, packet.worker # w
  PROVE  Waits(q, w, past \cup {packet}, made, late)
BY DEF Waits

(***************************************************************************)
(* The steps.                                                              *)
(***************************************************************************)
Alive == Typed /\ TimerListAlive /\ Lifecycle

\* A step that leaves the lists alone and puts no packet in the hand of the
\* sender core, or of a session, that was not there.
LEMMA Quiet ==
  ASSUME Alive, Typed',
         UNCHANGED <<senderQueue, ackPendingQueue, timedPackets, freed, created>>,
         sender'.pc = "push" => sender' = sender,
         \A w \in Workers :
           session[w].pc = "append" \/ session'[w].pc \in {"time", "append"}
             => session'[w] = session[w],
         \A p \in Processors : processor'[p] # processor[p] =>
           /\ processor'[p].pc = "match" => processor'[p].packet \in Past
           /\ processor'[p].pc \in {"write", "test", "push"} =>
                ~IsAckable(processor'[p].packet)
  PROVE  Alive'
<1>1. Past' = Past
  BY DEF Past
<1>2. TimerListAlive'
  BY DEF Alive, TimerListAlive
<1>3. QueuedWait'
  <2>1. \A w \in Workers : session'[w].pc = "append" <=> session[w].pc = "append"
    OBVIOUS
  <2> QED BY <1>1, <2>1 DEF Alive, Lifecycle, QueuedWait, Waits
<1>4. PendingTimed'
  BY <1>1 DEF Alive, Lifecycle, PendingTimed
<1>5. ProcessorTimed'
  BY <1>1 DEF Alive, Lifecycle, ProcessorTimed
<1>6. SenderNew'
  BY <1>1 DEF Alive, Lifecycle, SenderNew
<1> QED BY <1>2, <1>3, <1>4, <1>5, <1>6 DEF Alive, Lifecycle

\* The sender core.
LEMMA SenderAlive ==
  ASSUME Alive, Typed', SenderStep
  PROVE  Alive'
<1>1. ASSUME NEW d \in Data, NEW w \in Workers, SenderCreate(d, w)
      PROVE  Alive'
  <2> DEFINE packet == [worker |-> w, data |-> d, kind |-> "data"]
  <2>1. /\ packet \notin created /\ created' = created \cup {packet}
        /\ sender' = At(IF CanQueue(w) THEN "push" ELSE "assign", packet)
        /\ UNCHANGED <<senderQueue, ackPendingQueue, timedPackets, freed, session, processor>>
    BY <1>1 DEF SenderCreate, queues, timing
  <2>2. Past' = Past /\ Past \subseteq created
    BY <2>1 DEF Past, Alive, Lifecycle, SenderNew
  <2>3. IsAckable(packet) /\ packet.worker = w /\ packet \in Packet
    BY DEF IsAckable, Packet, Kind
  <2> HIDE DEF packet
  <2>4. TimerListAlive'
    BY <2>1 DEF Alive, TimerListAlive
  <2>5. QueuedWait'
    BY <2>1, <2>2 DEF Alive, Lifecycle, QueuedWait, Waits
  <2>6. packet \notin ToSet(senderQueue[w])
    BY <2>1, <2>3 DEF Alive, Lifecycle, QueuedWait, Waits, ToSet
  <2>7. SenderNew'
    BY <2>1, <2>2, <2>3, <2>6 DEF SenderNew, At
  <2>8. PendingTimed' /\ ProcessorTimed'
    BY <2>1, <2>2 DEF Alive, Lifecycle, PendingTimed, ProcessorTimed
  <2> QED BY <2>4, <2>5, <2>7, <2>8 DEF Alive, Lifecycle
<1>2. ASSUME SenderPush PROVE Alive'
  <2> DEFINE packet == sender.packet
             w == packet.worker
  <2>1. /\ sender.pc = "push" /\ packet \in Packet /\ w \in Workers
        /\ senderQueue \in [Workers -> Seq(Packet)]
    BY <1>2 DEF SenderPush, SenderAt, Alive, Typed, TypeOK, Packet
  <2>2. /\ senderQueue' = [senderQueue EXCEPT ![w] = Append(@, packet)]
        /\ sender'.pc = "assign"
        /\ UNCHANGED <<ackPendingQueue, timedPackets, freed, created, session, processor>>
    BY <1>2 DEF SenderPush, At, timing, history
  <2>3. Past' = Past
    BY <2>2 DEF Past
  <2>4. packet \in created /\ packet \notin Past /\ packet \notin ToSet(senderQueue[w])
    BY <2>1 DEF Alive, Lifecycle, SenderNew
  <2> HIDE DEF packet, w
  <2>5. Waits(senderQueue[w], w, Past, created, session[w].pc = "append")
    BY <2>1 DEF Alive, Lifecycle, QueuedWait
  <2>6. Waits(Append(senderQueue[w], packet), w, Past, created, session[w].pc = "append")
    <3>1. senderQueue[w] \in Seq(Packet) /\ (session[w].pc = "append") \in BOOLEAN
      BY <2>1
    <3>2. packet.worker = w
      BY DEF packet, w
    <3> QED BY <2>1, <2>4, <2>5, <3>1, <3>2, WaitsAppend
  <2>7. QueuedWait'
    BY <2>1, <2>2, <2>3, <2>6 DEF Alive, Lifecycle, QueuedWait
  <2>8. TimerListAlive' /\ PendingTimed' /\ ProcessorTimed' /\ SenderNew'
    BY <2>2, <2>3 DEF Alive, Lifecycle, TimerListAlive, PendingTimed, ProcessorTimed, SenderNew
  <2> QED BY <2>7, <2>8 DEF Alive, Lifecycle
<1>3. ASSUME SenderAssign PROVE Alive'
  BY <1>3, Quiet DEF SenderAssign, queues, timing, history, Resting, At
<1>4. ASSUME SenderWrite PROVE Alive'
  BY <1>4, Quiet DEF SenderWrite, queues, timing, history, Resting, At
<1> QED BY <1>1, <1>2, <1>3, <1>4 DEF SenderStep

\* A session that takes a packet out of its queue while nothing is late.
LEMMA QueueShrinks ==
  ASSUME Alive, Typed', NEW w \in Workers, NEW q \in Seq(Packet), NEW s,
         s.pc \notin {"time", "append"},
         session' = [session EXCEPT ![w] = s],
         senderQueue' = [senderQueue EXCEPT ![w] = q],
         Waits(q, w, Past, created, FALSE),
         ToSet(q) \subseteq ToSet(senderQueue[w]),
         \A v \in Workers : ToSet(ackPendingQueue'[v]) \subseteq Past,
         UNCHANGED <<timedPackets, freed, created, sender, processor>>
  PROVE  Alive'
<1>1. Past' = Past
  BY DEF Past
<1>2. senderQueue \in [Workers -> Seq(Packet)] /\ session \in [Workers -> SessionState]
  BY DEF Alive, Typed, TypeOK, SessionState
<1>3. TimerListAlive' /\ ProcessorTimed'
  BY <1>1 DEF Alive, Lifecycle, TimerListAlive, ProcessorTimed
<1>4. QueuedWait'
  <2> SUFFICES ASSUME NEW v \in Workers
               PROVE  Waits(senderQueue'[v], v, Past, created, session'[v].pc = "append")
    BY <1>1 DEF QueuedWait
  <2>1. CASE v = w
    <3>1. senderQueue'[v] = q /\ session'[v].pc # "append"
      BY <1>2, <2>1
    <3> QED BY <2>1, <3>1 DEF Waits
  <2>2. CASE v # w
    <3>1. senderQueue'[v] = senderQueue[v] /\ session'[v] = session[v]
      BY <1>2, <2>2
    <3> QED BY <3>1 DEF Alive, Lifecycle, QueuedWait, Waits
  <2> QED BY <2>1, <2>2
<1>5. PendingTimed'
  BY <1>1, <1>2 DEF Alive, Lifecycle, PendingTimed
<1>6. SenderNew'
  BY SMTT(30), <1>1, <1>2 DEF Alive, Lifecycle, SenderNew, Typed, TypeOK
<1> QED BY <1>3, <1>4, <1>5, <1>6 DEF Alive, Lifecycle

LEMMA SendNextAlive ==
  ASSUME Alive, Typed', NEW w \in Workers, NEW held \in BOOLEAN,
         session[w].pc # "append", SendNext(w, held)
  PROVE  Alive'
<1> DEFINE queue == senderQueue[w]
<1>1. /\ UNCHANGED <<ackPendingQueue, timedPackets, freed, created, sender, processor>>
      /\ senderQueue \in [Workers -> Seq(Packet)]
      /\ session \in [Workers -> SessionState]
  BY DEF SendNext, timing, history, Alive, Typed, TypeOK, SessionState
<1>2. queue \in Seq(Packet) /\ Waits(queue, w, Past, created, FALSE)
  BY <1>1 DEF Alive, Lifecycle, QueuedWait, Waits
<1>3. \A v \in Workers : ToSet(ackPendingQueue'[v]) \subseteq Past
  BY <1>1 DEF Alive, Lifecycle, PendingTimed
<1>4. CASE session' = [session EXCEPT ![w] = Resting] /\ UNCHANGED senderQueue
  BY <1>1, <1>4, Quiet DEF Resting, At
<1>5. CASE /\ queue # << >>
           /\ session' = [session EXCEPT ![w] = At("copy", Head(queue))]
           /\ senderQueue' = [senderQueue EXCEPT ![w] = Tail(queue)]
  <2>1. Tail(queue) \in Seq(Packet)
    <3> HIDE DEF queue
    <3> QED BY <1>2, <1>5, HeadTailProperties
  <2>2. Waits(Tail(queue), w, Past, created, FALSE) /\ ToSet(Tail(queue)) \subseteq ToSet(queue)
    <3> HIDE DEF queue
    <3> QED BY <1>2, <1>5, WaitsTail
  <2>3. At("copy", Head(queue)).pc \notin {"time", "append"}
    BY DEF At
  <2> QED BY <1>1, <1>3, <1>5, <2>1, <2>2, <2>3, QueueShrinks
<1>6. CASE /\ queue # << >> /\ IsAckable(Head(queue))
           /\ session' = [session EXCEPT ![w] = At("time", Head(queue))]
           /\ UNCHANGED senderQueue
  <2>1. Past' = Past
    BY <1>1 DEF Past
  <2>2. \A v \in Workers : session'[v].pc = "append" <=> session[v].pc = "append"
    BY <1>1, <1>6 DEF At
  <2>3. QueuedWait'
    BY <1>1, <1>6, <2>1, <2>2 DEF Alive, Lifecycle, QueuedWait, Waits
  <2>4. PendingTimed'
    BY <1>1, <1>6, <2>1 DEF Alive, Lifecycle, PendingTimed, At
  <2>5. TimerListAlive' /\ ProcessorTimed' /\ SenderNew'
    BY <1>1, <1>6, <2>1 DEF Alive, Lifecycle, TimerListAlive, ProcessorTimed, SenderNew
  <2> QED BY <2>3, <2>4, <2>5 DEF Alive, Lifecycle
<1>7. ASSUME NEW k \in DOMAIN queue,
             session' = [session EXCEPT ![w] = At("copy", queue[k-1])],
             senderQueue' = [senderQueue EXCEPT ![w] = RemoveAt(queue, k)]
      PROVE  Alive'
  <2>1. RemoveAt(queue, k) \in Seq(Packet)
    <3> HIDE DEF queue
    <3> QED BY <1>2, RemoveAtType
  <2>2. /\ Waits(RemoveAt(queue, k), w, Past, created, FALSE)
        /\ ToSet(RemoveAt(queue, k)) \subseteq ToSet(queue)
    <3> HIDE DEF queue
    <3> QED BY <1>2, WaitsRemove
  <2>3. At("copy", queue[k-1]).pc \notin {"time", "append"}
    BY DEF At
  <2> QED BY <1>1, <1>3, <1>7, <2>1, <2>2, <2>3, QueueShrinks
<1>8. TypeOK
  BY DEF Alive, Typed
<1> QED BY <1>4, <1>5, <1>6, <1>7, <1>8, SendNextTakes

\* What a list holds after push_front.
LEMMA PushFrontSet ==
  ASSUME NEW S, NEW s \in Seq(S), NEW e \in S
  PROVE  ToSet(<<e>> \o s) = ToSet(s) \cup {e}
<1> DEFINE longer == <<e>> \o s
<1>1. <<e>> \in Seq(S) /\ Len(<<e>>) = 1 /\ <<e>>[1] = e
  OBVIOUS
<1>2. Len(s) \in Nat /\ DOMAIN s = 1..Len(s)
  BY LenProperties
<1>3. /\ DOMAIN longer = 1..1+Len(s)
      /\ \A i \in 1..1+Len(s) : longer[i] = IF i <= 1 THEN e ELSE s[i-1]
  BY <1>1, ConcatProperties, LenProperties
<1> HIDE DEF longer
<1>4. \A i \in DOMAIN longer : longer[i] \in ToSet(s) \cup {e}
  <2> TAKE i \in DOMAIN longer
  <2>1. CASE i <= 1
    BY <1>3, <2>1
  <2>2. CASE ~(i <= 1)
    <3>1. i - 1 \in DOMAIN s
      BY <1>2, <1>3, <2>2
    <3>2. longer[i] = s[i-1]
      BY <1>3, <2>2
    <3> QED BY <3>1, <3>2 DEF ToSet
  <2> QED BY <2>1, <2>2
<1>5. ToSet(longer) \subseteq ToSet(s) \cup {e}
  BY <1>4 DEF ToSet
<1>6. e \in ToSet(longer)
  <2>1. 1 \in DOMAIN longer /\ longer[1] = e
    BY <1>2, <1>3
  <2> QED BY <2>1 DEF ToSet
<1>7. ToSet(s) \subseteq ToSet(longer)
  <2>1. \A k \in DOMAIN s : k + 1 \in DOMAIN longer /\ longer[k+1] = s[k]
    <3> TAKE k \in DOMAIN s
    <3>1. k + 1 \in 1..1+Len(s) /\ ~(k + 1 <= 1) /\ (k + 1) - 1 = k
      BY <1>2
    <3> QED BY <1>3, <3>1
  <2> QED BY <2>1 DEF ToSet
<1>8. ToSet(longer) = ToSet(s) \cup {e}
  BY <1>5, <1>6, <1>7
<1> QED BY <1>8 DEF longer

\* The session of a worker.
LEMMA AddTimedAlive ==
  ASSUME Alive, Typed', NEW w \in Workers, AddTimed(w)
  PROVE  Alive'
<1> DEFINE packet == session[w].packet
<1>1. /\ session \in [Workers -> SessionState] /\ session[w].pc = "time"
      /\ packet \in Packet /\ timedPackets \in Seq(Packet)
      /\ senderQueue \in [Workers -> Seq(Packet)]
  BY DEF AddTimed, SessionAt, Alive, Typed, TypeOK, SessionState
<1>2. /\ timedPackets' = Append(timedPackets, packet)
      /\ session' = [session EXCEPT ![w].pc = "append"]
      /\ UNCHANGED <<senderQueue, ackPendingQueue, freed, created, sender, processor>>
  BY DEF AddTimed, queues, history
<1>3. senderQueue[w] # << >> /\ Head(senderQueue[w]) = packet /\ IsAckable(packet)
  BY <1>1 DEF Alive, Typed, HeadInHand, Lifecycle, PendingTimed
<1>4. session'[w].pc = "append" /\ session'[w].packet = packet
  BY <1>1, <1>2 DEF SessionState
<1>5. \A v \in Workers \ {w} : session'[v] = session[v]
  BY <1>1, <1>2
<1>6. Waits(senderQueue[w], w, Past, created, FALSE)
  BY <1>1 DEF Alive, Lifecycle, QueuedWait, Waits
<1>7. /\ Waits(senderQueue[w], w, Past \cup {packet}, created, TRUE)
      /\ packet \notin Past /\ packet.worker = w /\ packet \in ToSet(senderQueue[w])
  <2> HIDE DEF packet
  <2>1. senderQueue[w] \in Seq(Packet)
    BY <1>1
  <2> QED BY <1>3, <1>6, <2>1, WaitsTimed
<1>8. ToSet(timedPackets') = ToSet(timedPackets) \cup {packet}
  <2> HIDE DEF packet
  <2> QED BY <1>1, <1>2, AppendSet
<1>9. packet \in created
  <2>1. PICK i \in DOMAIN senderQueue[w] : senderQueue[w][i] = packet
    BY <1>7 DEF ToSet
  <2> QED BY <1>3, <1>6, <2>1 DEF Waits
<1> HIDE DEF packet
<1>10. Past' = Past \cup {packet}
  BY <1>2, <1>8 DEF Past
<1>11. TimerListAlive'
  BY <1>2, <1>7, <1>8 DEF Alive, TimerListAlive, Past
<1>12. QueuedWait'
  <2> SUFFICES ASSUME NEW v \in Workers
               PROVE  Waits(senderQueue[v], v, Past \cup {packet}, created,
                            session'[v].pc = "append")
    BY <1>2, <1>10 DEF QueuedWait
  <2>1. CASE v = w
    BY <1>4, <1>7, <2>1
  <2>2. CASE v # w
    <3>1. Waits(senderQueue[v], v, Past, created, session[v].pc = "append")
      BY DEF Alive, Lifecycle, QueuedWait
    <3>2. senderQueue[v] \in Seq(Packet) /\ packet.worker # v /\ session'[v] = session[v]
      BY <1>1, <1>5, <1>7, <2>2
    <3>3. (session[v].pc = "append") \in BOOLEAN
      OBVIOUS
    <3> QED BY <3>1, <3>2, <3>3, WaitsOther
  <2> QED BY <2>1, <2>2
<1>13. PendingTimed'
  <2> SUFFICES ASSUME NEW v \in Workers
               PROVE  /\ ToSet(ackPendingQueue[v]) \subseteq Past \cup {packet}
                      /\ session'[v].pc = "append" => session'[v].packet \in Past \cup {packet}
                      /\ session'[v].pc \in {"time", "append"} => IsAckable(session'[v].packet)
    BY <1>2, <1>10 DEF PendingTimed
  <2>1. ToSet(ackPendingQueue[v]) \subseteq Past
    BY DEF Alive, Lifecycle, PendingTimed
  <2>2. CASE v = w
    BY <1>3, <1>4, <2>1, <2>2
  <2>3. CASE v # w
    BY <1>5, <2>1, <2>3 DEF Alive, Lifecycle, PendingTimed
  <2> QED BY <2>2, <2>3
<1>14. ProcessorTimed'
  BY <1>2, <1>10 DEF Alive, Lifecycle, ProcessorTimed
<1>15. SenderNew'
  BY <1>2, <1>7, <1>9, <1>10 DEF Alive, Lifecycle, SenderNew
<1> QED BY <1>11, <1>12, <1>13, <1>14, <1>15 DEF Alive, Lifecycle

LEMMA MovePendingAlive ==
  ASSUME Alive, Typed', NEW w \in Workers, MovePending(w)
  PROVE  Alive'
<1> DEFINE packet == session[w].packet
           queue  == senderQueue[w]
<1>1. /\ session \in [Workers -> SessionState] /\ session[w].pc = "append"
      /\ packet \in Packet /\ queue \in Seq(Packet)
      /\ ackPendingQueue \in [Workers -> Seq(Packet)]
  BY DEF MovePending, SessionAt, Alive, Typed, TypeOK, SessionState
<1>2. /\ ackPendingQueue' = [ackPendingQueue EXCEPT ![w] = Append(@, packet)]
      /\ senderQueue' = [senderQueue EXCEPT ![w] = Tail(queue)]
      /\ session' = [session EXCEPT ![w] = [session[w] EXCEPT !.pc = "copy"]]
      /\ UNCHANGED <<timedPackets, freed, created, sender, processor>>
  BY <1>1 DEF MovePending, timing, history
<1>3. queue # << >> /\ packet \in Past /\ Waits(queue, w, Past, created, TRUE)
  BY <1>1 DEF Alive, Typed, HeadInHand, Lifecycle, PendingTimed, QueuedWait
<1>4. [session[w] EXCEPT !.pc = "copy"].pc \notin {"time", "append"}
  BY <1>1 DEF SessionState
<1> HIDE DEF packet, queue
<1>5. Tail(queue) \in Seq(Packet)
  BY <1>1, <1>3, HeadTailProperties
<1>6. Waits(Tail(queue), w, Past, created, FALSE) /\ ToSet(Tail(queue)) \subseteq ToSet(queue)
  BY <1>1, <1>3, WaitsTail
<1>7. ToSet(Append(ackPendingQueue[w], packet)) = ToSet(ackPendingQueue[w]) \cup {packet}
  BY <1>1, AppendSet
<1>8. \A v \in Workers : ToSet(ackPendingQueue'[v]) \subseteq Past
  BY <1>1, <1>2, <1>3, <1>7 DEF Alive, Lifecycle, PendingTimed
<1> QED BY <1>2, <1>4, <1>5, <1>6, <1>8, QueueShrinks DEF queue

LEMMA SessionAlive ==
  ASSUME Alive, Typed', NEW w \in Workers, SessionStep(w)
  PROVE  Alive'
<1>1. session \in [Workers -> SessionState]
  BY DEF Alive, Typed, TypeOK, SessionState
<1>2. ASSUME Poll(w) PROVE Alive'
  <2>1. CASE ackPacketPop[w]
    BY <1>1, <1>2, <2>1, Quiet DEF Poll, SessionAt, At, timing, history
  <2>2. CASE ~ackPacketPop[w]
    BY <1>2, <2>2, SendNextAlive DEF Poll, SessionAt
  <2> QED BY <2>1, <2>2
<1>3. ASSUME Resend(w) PROVE Alive'
  BY <1>1, <1>3, Quiet DEF Resend, SessionAt, At, queues, timing, history
<1>4. ASSUME ResendFront(w) PROVE Alive'
  BY <1>1, <1>4, Quiet DEF ResendFront, SessionAt, At, queues, timing, history
<1>5. ASSUME FallThrough(w) PROVE Alive'
  BY <1>5, SendNextAlive DEF FallThrough, SessionAt
<1>6. ASSUME Copy(w) PROVE Alive'
  BY <1>1, <1>6, Quiet DEF Copy, SessionAt, Resting, At, queues, timing, history
<1> QED BY <1>2, <1>3, <1>4, <1>5, <1>6, AddTimedAlive, MovePendingAlive DEF SessionStep

\* The packet processors.
LEMMA MatchEndAlive ==
  ASSUME Alive, Typed', NEW p \in Processors, MatchEnd(p)
  PROVE  Alive'
<1> DEFINE w == processor[p].worker
           packet == processor[p].packet
<1>1. /\ processor[p].pc = "match" /\ w \in Workers /\ packet \in Packet
      /\ timedPackets \in Seq(Packet) /\ ackPendingQueue \in [Workers -> Seq(Packet)]
  BY DEF MatchEnd, ProcessorAt, Alive, Typed, TypeOK
<1>2. packet \in Past
  BY <1>1 DEF Alive, Lifecycle, ProcessorTimed
<1>3. /\ timedPackets' = Without(timedPackets, packet)
      /\ freed' = freed \cup {packet}
      /\ ackPendingQueue' = [ackPendingQueue EXCEPT ![w] = EraseFirst(@, packet)]
      /\ processor' = [processor EXCEPT ![p] = Idle]
      /\ UNCHANGED <<senderQueue, created, session, sender>>
  BY DEF MatchEnd, Acknowledge
<1> HIDE DEF w, packet
<1>4. ToSet(timedPackets') = ToSet(timedPackets) \ {packet}
  BY <1>1, <1>3, WithoutType
<1>5. ToSet(EraseFirst(ackPendingQueue[w], packet)) \subseteq ToSet(ackPendingQueue[w])
  <2>1. ackPendingQueue[w] \in Seq(Packet)
    BY <1>1
  <2> QED BY <2>1, EraseFirstType
<1>6. Past' = Past
  BY <1>2, <1>3, <1>4 DEF Past
<1>7. TimerListAlive'
  BY <1>3, <1>4 DEF Alive, TimerListAlive
<1>8. QueuedWait'
  BY <1>3, <1>6 DEF Alive, Lifecycle, QueuedWait
<1>9. PendingTimed'
  <2>1. \A v \in Workers : ToSet(ackPendingQueue'[v]) \subseteq ToSet(ackPendingQueue[v])
    BY <1>1, <1>3, <1>5
  <2> QED BY <1>3, <1>6, <2>1 DEF Alive, Lifecycle, PendingTimed
<1>10. ProcessorTimed'
  <2>1. \A q \in Processors : processor'[q].pc # "idle" => processor'[q] = processor[q]
    BY <1>3 DEF Idle, Busy, Alive, Typed, TypeOK
  <2> QED BY <1>6, <2>1 DEF Alive, Lifecycle, ProcessorTimed
<1>11. SenderNew'
  BY <1>3, <1>6 DEF Alive, Lifecycle, SenderNew
<1> QED BY <1>7, <1>8, <1>9, <1>10, <1>11 DEF Alive, Lifecycle

LEMMA AnswerPushAlive ==
  ASSUME Alive, Typed', NEW p \in Processors, AnswerPush(p)
  PROVE  Alive'
<1> DEFINE w == processor[p].worker
           packet == processor[p].packet
<1>1. /\ processor[p].pc = "push" /\ w \in Workers /\ packet \in Packet
      /\ senderQueue \in [Workers -> Seq(Packet)]
  BY DEF AnswerPush, ProcessorAt, Alive, Typed, TypeOK
<1>2. ~IsAckable(packet)
  BY <1>1 DEF Alive, Lifecycle, ProcessorTimed
<1>3. /\ senderQueue' = [senderQueue EXCEPT ![w] = Append(@, packet)]
      /\ processor' = [processor EXCEPT ![p] = Idle]
      /\ UNCHANGED <<ackPendingQueue, timedPackets, freed, created, session, sender>>
  BY DEF AnswerPush, timing, history
<1> HIDE DEF w, packet
<1>4. Past' = Past
  BY <1>3 DEF Past
<1>5. /\ Waits(Append(senderQueue[w], packet), w, Past, created, session[w].pc = "append")
      /\ ToSet(Append(senderQueue[w], packet)) = ToSet(senderQueue[w]) \cup {packet}
  <2>1. senderQueue[w] \in Seq(Packet) /\ (session[w].pc = "append") \in BOOLEAN
    BY <1>1
  <2>2. Waits(senderQueue[w], w, Past, created, session[w].pc = "append")
    BY <1>1 DEF Alive, Lifecycle, QueuedWait
  <2> QED BY <1>1, <1>2, <2>1, <2>2, WaitsAppend
<1>6. QueuedWait'
  BY <1>1, <1>3, <1>4, <1>5 DEF Alive, Lifecycle, QueuedWait
<1>7. \A v \in Workers : ToSet(senderQueue'[v]) \subseteq ToSet(senderQueue[v]) \cup {packet}
  BY <1>1, <1>3, <1>5
<1>8. SenderNew'
  <2>1. sender.pc = "push" => sender.packet.worker \in Workers
    BY DEF Alive, Typed, TypeOK, Packet
  <2> QED BY <1>2, <1>3, <1>4, <1>7, <2>1 DEF Alive, Lifecycle, SenderNew
<1>9. ProcessorTimed'
  <2>1. \A q \in Processors : processor'[q].pc # "idle" => processor'[q] = processor[q]
    BY <1>3 DEF Idle, Busy, Alive, Typed, TypeOK
  <2> QED BY <1>4, <2>1 DEF Alive, Lifecycle, ProcessorTimed
<1>10. TimerListAlive' /\ PendingTimed'
  BY <1>3, <1>4 DEF Alive, Lifecycle, TimerListAlive, PendingTimed
<1> QED BY <1>6, <1>8, <1>9, <1>10 DEF Alive, Lifecycle

LEMMA ProcessorAlive ==
  ASSUME Alive, Typed', NEW p \in Processors, ProcessorStep(p)
  PROVE  Alive'
<1>1. processor \in [Processors -> ProcessorState]
  BY DEF Alive, Typed, TypeOK, ProcessorState
<1>2. ASSUME NEW w \in Workers, NEW d \in Data, HandleAck(p, w, d)
      PROVE  Alive'
  <2> DEFINE pending == ackPendingQueue[w]
  <2>1. CASE \E k \in DOMAIN pending : pending[k].data = d
    <3> DEFINE job == Busy("match", w, pending[FirstWithId(pending, d)], DATA_QUEUED)
    <3>1. pending \in Seq(Packet)
      BY DEF Alive, Typed, TypeOK
    <3>2. FirstWithId(pending, d) \in DOMAIN pending
      <4> HIDE DEF pending
      <4> QED BY <2>1, <3>1, FirstWithIdFound
    <3>3. job.packet \in Past /\ job.pc = "match"
      BY <3>2 DEF Alive, Lifecycle, PendingTimed, ToSet, Busy
    <3>4. /\ processor' = [processor EXCEPT ![p] = job]
          /\ UNCHANGED <<senderQueue, ackPendingQueue, timedPackets, freed, created, sender, session>>
      BY <1>2, <2>1 DEF HandleAck, queues, timing, history
    <3> HIDE DEF job
    <3> QED BY <1>1, <3>3, <3>4, Quiet
  <2>2. CASE ~ \E k \in DOMAIN pending : pending[k].data = d
    BY <1>2, <2>2, Quiet DEF HandleAck, queues, timing, history
  <2> QED BY <2>1, <2>2
<1>3. ASSUME NEW w \in Workers, NEW d \in UserData, NEW r \in Results, HandleResult(p, w, d, r)
      PROVE  Alive'
  <2> DEFINE job == Busy(IF r < taskStatus[d] THEN "test" ELSE "write", w,
                         AckPacket(w, d, r), r)
  <2>1. job.pc # "match" /\ ~IsAckable(job.packet)
    BY DEF Busy, IsAckable, AckPacket
  <2>2. processor' = [processor EXCEPT ![p] = job]
    BY <1>3 DEF HandleResult
  <2> HIDE DEF job
  <2> QED BY <1>1, <1>3, <2>1, <2>2, Quiet DEF HandleResult, queues, timing
<1>4. ASSUME StatusWrite(p) PROVE Alive'
  <2>1. ~IsAckable(processor[p].packet)
    BY <1>4 DEF StatusWrite, ProcessorAt, Alive, Lifecycle, ProcessorTimed
  <2>2. /\ processor'[p].pc = "test" /\ processor'[p].packet = processor[p].packet
        /\ \A q \in Processors \ {p} : processor'[q] = processor[q]
    BY <1>1, <1>4 DEF StatusWrite, ProcessorState
  <2> QED BY <1>4, <2>1, <2>2, Quiet DEF StatusWrite, queues, timing, history
<1>5. ASSUME AnswerTest(p) PROVE Alive'
  <2>1. ~IsAckable(processor[p].packet)
    BY <1>5 DEF AnswerTest, ProcessorAt, Alive, Lifecycle, ProcessorTimed
  <2>2. /\ \/ processor'[p].pc = "push" /\ processor'[p].packet = processor[p].packet
           \/ processor'[p].pc = "idle"
        /\ \A q \in Processors \ {p} : processor'[q] = processor[q]
    BY <1>1, <1>5 DEF AnswerTest, ProcessorState, Idle, Busy
  <2> QED BY <1>5, <2>1, <2>2, Quiet DEF AnswerTest, queues, timing, history
<1> QED BY <1>2, <1>3, <1>4, <1>5, MatchEndAlive, AnswerPushAlive DEF ProcessorStep

\* The timer.
LEMMA TimerAlive ==
  ASSUME Alive, Typed', TimerStep
  PROVE  Alive'
<1>1. ASSUME TimerWake PROVE Alive'
  BY <1>1, Quiet DEF TimerWake, queues, timing, history
<1>2. ASSUME TimerSleep PROVE Alive'
  BY <1>2, Quiet DEF TimerSleep, queues, timing, history
<1>3. ASSUME NEW packet \in Packet, TimerCheckOut(packet) PROVE Alive'
  BY <1>3, Quiet DEF TimerCheckOut, queues, history
<1>4. ASSUME NEW packet \in Packet, TimerStray(packet) PROVE Alive'
  BY <1>4, Quiet DEF TimerStray, queues, timing, history, threads
<1>5. ASSUME NEW packet \in Packet, TimerResend(packet) PROVE Alive'
  <2> DEFINE w == dataWorker[packet.data]
             rest == Without(ackPendingQueue[w], packet)
  <2>1. /\ w \in Workers /\ packet \in ToSet(timedPackets)
        /\ ackPendingQueue \in [Workers -> Seq(Packet)]
    BY <1>5 DEF TimerResend, Visiting, ToSet, Packet, Alive, Typed, TypeOK
  <2>2. /\ ackPendingQueue' = [ackPendingQueue EXCEPT ![w] = <<packet>> \o rest]
        /\ UNCHANGED <<senderQueue, timedPackets, freed, created, session, sender, processor>>
    BY <1>5 DEF TimerResend, timing, history
  <2> HIDE DEF w
  <2>3. rest \in Seq(Packet) /\ ToSet(rest) = ToSet(ackPendingQueue[w]) \ {packet}
    BY <2>1, WithoutType
  <2> HIDE DEF rest
  <2>4. ToSet(<<packet>> \o rest) \subseteq ToSet(ackPendingQueue[w]) \cup {packet}
    BY <2>3, PushFrontSet
  <2>5. Past' = Past
    BY <2>2 DEF Past
  <2>6. packet \in Past
    BY <2>1 DEF Past
  <2>7. PendingTimed'
    BY <2>1, <2>2, <2>4, <2>5, <2>6 DEF Alive, Lifecycle, PendingTimed
  <2>8. TimerListAlive' /\ QueuedWait' /\ ProcessorTimed' /\ SenderNew'
    BY <2>2, <2>5 DEF Alive, Lifecycle, TimerListAlive, QueuedWait, ProcessorTimed, SenderNew
  <2> QED BY <2>7, <2>8 DEF Alive, Lifecycle
<1> QED BY <1>1, <1>2, <1>3, <1>4, <1>5 DEF TimerStep

LEMMA AliveInit == Init => Alive
<1> SUFFICES ASSUME Init PROVE Alive
  OBVIOUS
<1>1. ToSet(<< >>) = {}
  BY DEF ToSet
<1>2. Past = {} /\ TimerListAlive
  BY <1>1 DEF Init, Past, TimerListAlive
<1>3. QueuedWait
  BY DEF Init, QueuedWait, Waits
<1>4. PendingTimed /\ ProcessorTimed /\ SenderNew
  BY <1>1, <1>2 DEF Init, PendingTimed, ProcessorTimed, SenderNew, Resting, At, Idle, Busy
<1> QED BY <1>2, <1>3, <1>4, TypedInit DEF Alive, Lifecycle

LEMMA AliveNext == Alive /\ [Next]_vars => Alive'
<1> SUFFICES ASSUME Alive, [Next]_vars PROVE Alive'
  OBVIOUS
<1>1. Typed'
  BY TypedNext DEF Alive
<1>2. ASSUME ListRace PROVE Alive'
  BY <1>1, <1>2, Quiet DEF ListRace, queues, timing, history, threads
<1>3. ASSUME UNCHANGED vars PROVE Alive'
  BY <1>1, <1>3, Quiet DEF vars, queues, timing, history, threads
<1> QED BY <1>1, <1>2, <1>3, SenderAlive, SessionAlive, ProcessorAlive, TimerAlive DEF Next

\* A packet is queued, timed, made pending and deleted in that order, once each,
\* whatever the interleaving and even after the lock of its worker was broken
\* (getQueuedPacket, matchAckablePacket, Timeout::addPacket).
THEOREM PacketLife == Spec => []Lifecycle
<1>1. Spec => []Alive
  BY AliveInit, AliveNext, PTL DEF Spec
<1> QED BY <1>1, PTL DEF Alive

\* The list the timer walks never holds a deleted packet: the packet processor
\* that deletes one takes it out of that list first, under the timer's lock
\* (Timeout::popPacket before the delete in Worker::matchAckablePacket).
THEOREM TimerSafety == Spec => []TimerListAlive
<1>1. Spec => []Alive
  BY AliveInit, AliveNext, PTL DEF Spec
<1> QED BY <1>1, PTL DEF Alive

(***************************************************************************)
(* The locks of the workers.                                               *)
(***************************************************************************)
\* The semaphore of a worker with those inside its lists: one while the lock
\* excludes.  Every step that takes the lock enters the lists, every step that
\* leaves them posts it; the session that falls through enters without.
Inside(w)   == session[w].pc \in {"time", "append", "fallThrough"}
Matching(w) == {p \in Processors : processor[p].pc = "match" /\ processor[p].worker = w}
Claims(w)   == workerLock[w] + Cardinality(InLists(w))

\* A session and the processors are different threads.
LEMMA ThreadsCount ==
  ASSUME NEW w \in Workers, NEW M \in SUBSET Processors, NEW inside \in BOOLEAN
  PROVE  /\ Cardinality((IF inside THEN {w} ELSE {}) \cup M)
              = (IF inside THEN 1 ELSE 0) + Cardinality(M)
         /\ Cardinality(M) \in Nat /\ IsFiniteSet(M)
<1>1. IsFiniteSet(M) /\ Cardinality(M) \in Nat /\ w \notin M
  BY WorkerNodeAssumption, FS_Subset, FS_CardinalityType
<1>2. CASE inside
  <2>1. Cardinality(M \cup {w}) = Cardinality(M) + 1
    BY <1>1, FS_AddElement
  <2>2. {w} \cup M = M \cup {w}
    OBVIOUS
  <2>3. Cardinality((IF inside THEN {w} ELSE {}) \cup M) = Cardinality(M) + 1
    BY <1>2, <2>1, <2>2
  <2> QED BY <1>1, <1>2, <2>3
<1>3. CASE ~inside
  <2>1. (IF inside THEN {w} ELSE {}) \cup M = M
    BY <1>3
  <2> QED BY <1>1, <1>3, <2>1
<1> QED BY <1>2, <1>3

LEMMA ClaimsNow ==
  ASSUME Typed, NEW w \in Workers
  PROVE  /\ Claims(w) = workerLock[w] + (IF Inside(w) THEN 1 ELSE 0) + Cardinality(Matching(w))
         /\ Cardinality(Matching(w)) \in Nat /\ workerLock[w] \in Nat
<1> DEFINE M == Matching(w)
           inside == Inside(w)
<1>1. InLists(w) = (IF inside THEN {w} ELSE {}) \cup M
  BY DEF InLists, Inside, Matching
<1>2. M \in SUBSET Processors /\ inside \in BOOLEAN
  BY DEF Matching, Inside
<1>3. workerLock[w] \in Nat
  BY DEF Typed, TypeOK
<1> HIDE DEF M, inside
<1>4. /\ Cardinality(InLists(w)) = (IF inside THEN 1 ELSE 0) + Cardinality(M)
      /\ Cardinality(M) \in Nat
  BY <1>1, <1>2, ThreadsCount
<1>5. Claims(w) = workerLock[w] + (IF inside THEN 1 ELSE 0) + Cardinality(M)
  BY <1>3, <1>4 DEF Claims
<1> QED BY <1>3, <1>4, <1>5 DEF M, inside

LEMMA ClaimsThen ==
  ASSUME Typed', NEW w \in Workers
  PROVE  /\ Claims(w)' = workerLock'[w] + (IF Inside(w)' THEN 1 ELSE 0) + Cardinality(Matching(w)')
         /\ Cardinality(Matching(w)') \in Nat /\ workerLock'[w] \in Nat
<1> DEFINE M == Matching(w)'
           inside == Inside(w)'
<1>1. InLists(w)' = (IF inside THEN {w} ELSE {}) \cup M
  BY DEF InLists, Inside, Matching
<1>2. M \in SUBSET Processors /\ inside \in BOOLEAN
  BY DEF Matching, Inside
<1>3. workerLock'[w] \in Nat
  BY DEF Typed, TypeOK
<1> HIDE DEF M, inside
<1>4. /\ Cardinality(InLists(w)') = (IF inside THEN 1 ELSE 0) + Cardinality(M)
      /\ Cardinality(M) \in Nat
  BY <1>1, <1>2, ThreadsCount
<1>5. Claims(w)' = workerLock'[w] + (IF inside THEN 1 ELSE 0) + Cardinality(M)
  BY <1>3, <1>4 DEF Claims
<1> QED BY <1>3, <1>4, <1>5 DEF M, inside

\* A step that does not touch the lock of a worker nor brings a thread out of its lists.
LEMMA ClaimsKept ==
  ASSUME Typed, Typed', NEW w \in Workers, workerLock'[w] >= workerLock[w],
         Inside(w) => Inside(w)', Matching(w)' = Matching(w)
  PROVE  Claims(w)' >= Claims(w)
BY ClaimsNow, ClaimsThen

\* The session of a worker.
LEMMA SendNextClaims ==
  ASSUME Typed, Typed', NEW w \in Workers, NEW held \in BOOLEAN,
         held <=> ~Inside(w), held => workerLock[w] > 0, SendNext(w, held)
  PROVE  Claims(w)' >= Claims(w)
<1>1. /\ workerLock \in [Workers -> Nat] /\ session \in [Workers -> SessionState]
      /\ UNCHANGED processor
  BY DEF Typed, TypeOK, SessionState, SendNext
<1>2. Matching(w)' = Matching(w)
  BY <1>1 DEF Matching
<1>3. Posted(w, held)[w] = IF held THEN workerLock[w] ELSE workerLock[w] + 1
  BY <1>1 DEF Posted
<1>4. \/ workerLock'[w] = Posted(w, held)[w] /\ ~Inside(w)'
      \/ workerLock'[w] = (IF held THEN workerLock[w] - 1 ELSE workerLock[w]) /\ Inside(w)'
  BY <1>1 DEF SendNext, Inside, Resting, At
<1> QED BY <1>2, <1>3, <1>4, ClaimsNow, ClaimsThen

LEMMA SessionClaims ==
  ASSUME Typed, Typed', NEW w \in Workers, SessionStep(w), NEW v \in Workers
  PROVE  Claims(v)' >= Claims(v)
<1>1. /\ workerLock \in [Workers -> Nat] /\ session \in [Workers -> SessionState]
      /\ UNCHANGED processor
  BY SessionShortens DEF Typed, TypeOK, SessionState
<1>2. \A u \in Workers : Matching(u)' = Matching(u)
  BY <1>1 DEF Matching
<1>3. ASSUME v # w PROVE Claims(v)' >= Claims(v)
  <2>1. workerLock'[v] = workerLock[v] /\ session'[v] = session[v]
    BY <1>1, <1>3 DEF SessionStep, Poll, Resend, ResendFront, FallThrough, AddTimed, MovePending,
       Copy, SendNext, Posted, locks
  <2>2. workerLock[v] \in Nat
    BY <1>1
  <2> QED BY <1>2, <2>1, <2>2, ClaimsKept DEF Inside
<1>4. ASSUME Poll(w) PROVE Claims(w)' >= Claims(w)
  <2>1. session[w].pc = "idle" /\ workerLock[w] > 0 /\ ~Inside(w)
    BY <1>4 DEF Poll, SessionAt, Inside
  <2>2. CASE ackPacketPop[w]
    BY <1>1, <1>2, <1>4, <2>1, <2>2, ClaimsNow, ClaimsKept DEF Poll, locks
  <2>3. CASE ~ackPacketPop[w]
    BY <1>4, <2>1, <2>3, SendNextClaims DEF Poll
  <2> QED BY <2>2, <2>3
<1>5. ASSUME FallThrough(w) PROVE Claims(w)' >= Claims(w)
  BY <1>5, SendNextClaims DEF FallThrough, SessionAt, Inside
<1>6. ASSUME Resend(w) \/ ResendFront(w) \/ AddTimed(w) \/ Copy(w)
      PROVE  Claims(w)' >= Claims(w)
  <2>1. workerLock'[w] = workerLock[w] /\ workerLock[w] \in Nat
    BY <1>1, <1>6 DEF Resend, ResendFront, AddTimed, Copy, locks
  <2>2. Inside(w) => Inside(w)'
    BY <1>1, <1>6 DEF Resend, ResendFront, AddTimed, Copy, SessionAt, Inside, SessionState
  <2> QED BY <1>2, <2>1, <2>2, ClaimsKept
<1>7. ASSUME MovePending(w) PROVE Claims(w)' >= Claims(w)
  <2>1. workerLock'[w] = workerLock[w] + 1
    BY <1>1, <1>7 DEF MovePending
  <2> QED BY <1>2, <2>1, ClaimsNow, ClaimsThen
<1> QED BY <1>3, <1>4, <1>5, <1>6, <1>7 DEF SessionStep

\* The packet processors.
LEMMA ProcessorClaims ==
  ASSUME Typed, Typed', NEW p \in Processors, ProcessorStep(p), NEW v \in Workers
  PROVE  Claims(v)' >= Claims(v)
<1>1. /\ workerLock \in [Workers -> Nat] /\ processor \in [Processors -> ProcessorState]
      /\ UNCHANGED session
  BY DEF Typed, TypeOK, ProcessorState, ProcessorStep, HandleAck, HandleResult, MatchEnd, Acknowledge,
     StatusWrite, AnswerTest, AnswerPush
<1>2. Inside(v)' = Inside(v)
  BY <1>1 DEF Inside
<1>3. IsFiniteSet(Matching(v))
  <2>1. Matching(v) \in SUBSET Processors
    BY DEF Matching
  <2> QED BY <2>1, WorkerNodeAssumption, FS_Subset
<1>4. ASSUME workerLock'[v] = workerLock[v],
             processor[p].pc # "match" \/ processor[p].worker # v \/ processor' = processor,
             processor'[p].pc # "match" \/ processor'[p].worker # v \/ processor' = processor,
             \A q \in Processors \ {p} : processor'[q] = processor[q]
      PROVE  Claims(v)' >= Claims(v)
  <2>1. Matching(v)' = Matching(v)
    BY <1>4 DEF Matching
  <2>2. workerLock[v] \in Nat
    BY <1>1
  <2> QED BY <1>2, <1>4, <2>1, <2>2, ClaimsKept
<1>5. ASSUME NEW w \in Workers, NEW d \in Data, HandleAck(p, w, d) PROVE Claims(v)' >= Claims(v)
  <2>1. CASE ~ \E i \in DOMAIN ackPendingQueue[w] : ackPendingQueue[w][i].data = d
    BY <1>1, <1>4, <1>5, <2>1 DEF HandleAck
  <2>2. CASE \E i \in DOMAIN ackPendingQueue[w] : ackPendingQueue[w][i].data = d
    <3>1. /\ workerLock' = [workerLock EXCEPT ![w] = @ - 1]
          /\ processor[p].pc = "idle"
          /\ processor'[p].pc = "match" /\ processor'[p].worker = w
          /\ \A q \in Processors \ {p} : processor'[q] = processor[q]
      BY <1>1, <1>5, <2>2 DEF HandleAck, ProcessorAt, Busy
    <3>2. CASE v # w
      <4>1. workerLock'[v] = workerLock[v]
        BY <1>1, <3>1, <3>2
      <4> QED BY <1>4, <3>1, <3>2, <4>1
    <3>3. CASE v = w
      <4>1. Matching(v)' = Matching(v) \cup {p} /\ p \notin Matching(v)
        BY <3>1, <3>3 DEF Matching
      <4>2. Cardinality(Matching(v)') = Cardinality(Matching(v)) + 1
        BY <1>3, <4>1, FS_AddElement
      <4>3. workerLock'[v] = workerLock[v] - 1
        BY <1>1, <3>1, <3>3
      <4> QED BY <1>2, <4>2, <4>3, ClaimsNow, ClaimsThen
    <3> QED BY <3>2, <3>3
  <2> QED BY <2>1, <2>2
<1>6. ASSUME MatchEnd(p) PROVE Claims(v)' >= Claims(v)
  <2> DEFINE w == processor[p].worker
  <2>1. /\ workerLock' = [workerLock EXCEPT ![w] = @ + 1]
        /\ processor[p].pc = "match" /\ w \in Workers
        /\ processor'[p].pc # "match"
        /\ \A q \in Processors \ {p} : processor'[q] = processor[q]
    BY <1>1, <1>6 DEF MatchEnd, Acknowledge, ProcessorAt, Idle, Busy, Typed, TypeOK
  <2>2. CASE v # w
    <3>1. workerLock'[v] = workerLock[v]
      BY <1>1, <2>1, <2>2
    <3> QED BY <1>4, <2>1, <2>2, <3>1
  <2>3. CASE v = w
    <3>1. Matching(v)' = Matching(v) \ {p} /\ p \in Matching(v)
      BY <2>1, <2>3 DEF Matching
    <3>2. Cardinality(Matching(v)') = Cardinality(Matching(v)) - 1
      BY <1>3, <3>1, FS_RemoveElement
    <3>3. workerLock'[v] = workerLock[v] + 1
      BY <1>1, <2>1, <2>3
    <3> QED BY <1>2, <3>2, <3>3, ClaimsNow, ClaimsThen
  <2> QED BY <2>2, <2>3
<1>7. ASSUME NEW w \in Workers, NEW d \in UserData, NEW r \in Results, HandleResult(p, w, d, r)
      PROVE  Claims(v)' >= Claims(v)
  <2>1. processor'[p].pc # "match" /\ processor[p].pc # "match"
    BY <1>1, <1>7 DEF HandleResult, Busy, ProcessorAt
  <2> QED BY <1>1, <1>4, <1>7, <2>1 DEF HandleResult, locks
<1>8. ASSUME StatusWrite(p) \/ AnswerTest(p) \/ AnswerPush(p) PROVE Claims(v)' >= Claims(v)
  <2>1. processor'[p].pc # "match" /\ processor[p].pc # "match"
    BY <1>1, <1>8 DEF StatusWrite, AnswerTest, AnswerPush, Idle, Busy, ProcessorAt, ProcessorState
  <2>2. workerLock'[v] = workerLock[v] /\ \A q \in Processors \ {p} : processor'[q] = processor[q]
    BY <1>1, <1>8 DEF StatusWrite, AnswerTest, AnswerPush, locks
  <2> QED BY <1>4, <2>1, <2>2
<1> QED BY <1>5, <1>6, <1>7, <1>8 DEF ProcessorStep

LEMMA ClaimsGrow ==
  ASSUME Typed, Typed', [Next]_vars, NEW v \in Workers
  PROVE  Claims(v)' >= Claims(v)
<1>1. ASSUME UNCHANGED <<workerLock, session, processor>> PROVE Claims(v)' >= Claims(v)
  <2>1. Matching(v)' = Matching(v) /\ Inside(v)' = Inside(v)
    BY <1>1 DEF Matching, Inside
  <2>2. workerLock[v] \in Nat
    BY DEF Typed, TypeOK
  <2> QED BY <1>1, <2>1, <2>2, ClaimsKept
<1>2. ASSUME SenderStep \/ TimerStep \/ ListRace \/ UNCHANGED vars
      PROVE  UNCHANGED <<workerLock, session, processor>>
  BY <1>2 DEF SenderStep, SenderCreate, SenderPush, SenderAssign, SenderWrite, TimerStep, TimerWake,
     TimerSleep, TimerCheckOut, TimerResend, TimerStray, ListRace, vars, locks, threads
<1> QED BY <1>1, <1>2, SessionClaims, ProcessorClaims DEF Next

(***************************************************************************)
(* Who owns what.                                                          *)
(***************************************************************************)
\* Only packets that need an acknowledgement are created, user data goes to one
\* worker only, and while the packet of user data is pending, acknowledged or
\* resent it is with that worker.
Own ==
  /\ created \subseteq AckablePacket
  /\ sender.pc \in {"push", "assign"} => sender.packet \in created
  /\ \A x, y \in created : x.data = y.data /\ x.data \in UserData => x = y
  /\ \A d \in UserData : dataWorker[d] # NoWorker =>
       \E x \in created : x.data = d /\ x.worker = dataWorker[d]
  /\ \A v \in Workers : \A x \in ToSet(ackPendingQueue[v]) :
       x.data \in UserData => x.worker = v
  /\ \A p \in Processors :
       processor[p].pc = "match" /\ processor[p].packet.data \in UserData =>
         processor[p].packet.worker = processor[p].worker

\* What the four steps that move an ackable packet do.
LEMMA AddTimedShape ==
  ASSUME Alive, NEW w \in Workers, AddTimed(w)
  PROVE  LET packet == session[w].packet IN
         /\ session[w].pc = "time" /\ packet \in Packet /\ packet.worker = w
         /\ timedPackets \in Seq(Packet) /\ timedPackets' = Append(timedPackets, packet)
         /\ packet \notin Past /\ packet \in ToSet(senderQueue[w]) /\ IsAckable(packet)
         /\ session'[w].pc = "append" /\ session'[w].packet = packet
         /\ \A v \in Workers \ {w} : session'[v] = session[v]
         /\ UNCHANGED <<senderQueue, ackPendingQueue, freed, created, dataWorker, sender, processor>>
<1> DEFINE packet == session[w].packet
<1>1. /\ session \in [Workers -> SessionState] /\ session[w].pc = "time"
      /\ packet \in Packet /\ timedPackets \in Seq(Packet)
      /\ senderQueue \in [Workers -> Seq(Packet)]
  BY DEF AddTimed, SessionAt, Alive, Typed, TypeOK, SessionState
<1>2. /\ timedPackets' = Append(timedPackets, packet)
      /\ session' = [session EXCEPT ![w].pc = "append"]
      /\ UNCHANGED <<senderQueue, ackPendingQueue, freed, created, dataWorker, sender, processor>>
  BY DEF AddTimed, queues, history, registry
<1>3. senderQueue[w] # << >> /\ Head(senderQueue[w]) = packet /\ IsAckable(packet)
  BY <1>1 DEF Alive, Typed, HeadInHand, Lifecycle, PendingTimed
<1>4. session'[w].pc = "append" /\ session'[w].packet = packet
  BY <1>1, <1>2 DEF SessionState
<1>5. \A v \in Workers \ {w} : session'[v] = session[v]
  BY <1>1, <1>2
<1>6. Waits(senderQueue[w], w, Past, created, FALSE)
  BY <1>1 DEF Alive, Lifecycle, QueuedWait, Waits
<1>7. packet \notin Past /\ packet.worker = w /\ packet \in ToSet(senderQueue[w])
  <2> HIDE DEF packet
  <2>1. senderQueue[w] \in Seq(Packet)
    BY <1>1
  <2> QED BY <1>3, <1>6, <2>1, WaitsTimed
<1> QED BY <1>1, <1>2, <1>3, <1>4, <1>5, <1>7

LEMMA MovePendingShape ==
  ASSUME Alive, NEW w \in Workers, MovePending(w)
  PROVE  LET packet == session[w].packet IN
         /\ session[w].pc = "append" /\ packet \in Packet /\ packet.worker = w
         /\ senderQueue[w] # << >> /\ packet = Head(senderQueue[w]) /\ packet \in Past
         /\ ackPendingQueue \in [Workers -> Seq(Packet)]
         /\ ackPendingQueue' = [ackPendingQueue EXCEPT ![w] = Append(@, packet)]
         /\ senderQueue' = [senderQueue EXCEPT ![w] = Tail(@)]
         /\ session'[w].pc = "copy"
         /\ \A v \in Workers \ {w} : session'[v] = session[v]
         /\ UNCHANGED <<timedPackets, freed, created, dataWorker, sender, processor>>
<1> DEFINE packet == session[w].packet
           queue  == senderQueue[w]
<1>1. /\ session \in [Workers -> SessionState] /\ session[w].pc = "append"
      /\ packet \in Packet /\ queue \in Seq(Packet)
      /\ ackPendingQueue \in [Workers -> Seq(Packet)]
  BY DEF MovePending, SessionAt, Alive, Typed, TypeOK, SessionState
<1>2. /\ ackPendingQueue' = [ackPendingQueue EXCEPT ![w] = Append(@, packet)]
      /\ senderQueue' = [senderQueue EXCEPT ![w] = Tail(@)]
      /\ session' = [session EXCEPT ![w].pc = "copy"]
      /\ UNCHANGED <<timedPackets, freed, created, dataWorker, sender, processor>>
  BY DEF MovePending, timing, history, registry
<1>3. /\ queue # << >> /\ packet \in Past /\ Waits(queue, w, Past, created, TRUE)
      /\ packet = Head(queue) /\ IsAckable(packet)
  BY <1>1 DEF Alive, Typed, HeadInHand, Lifecycle, PendingTimed, QueuedWait
<1>4. session'[w].pc = "copy" /\ \A v \in Workers \ {w} : session'[v] = session[v]
  BY <1>1, <1>2 DEF SessionState
<1>5. packet.worker = w
  <2>1. 1 \in DOMAIN queue /\ Head(queue) = queue[1]
    <3> HIDE DEF queue, packet
    <3>1. Len(queue) \in Nat /\ DOMAIN queue = 1..Len(queue) /\ Len(queue) > 0
      BY <1>1, <1>3, LenProperties, EmptySeq
    <3> QED BY <3>1
  <2> QED BY <1>3, <2>1 DEF Waits
<1> QED BY <1>1, <1>2, <1>3, <1>4, <1>5

LEMMA MatchEndShape ==
  ASSUME Alive, NEW p \in Processors, MatchEnd(p)
  PROVE  LET w      == processor[p].worker
             packet == processor[p].packet
         IN
         /\ processor[p].pc = "match" /\ w \in Workers /\ packet \in Packet /\ packet \in Past
         /\ timedPackets \in Seq(Packet) /\ ackPendingQueue \in [Workers -> Seq(Packet)]
         /\ timedPackets' = Without(timedPackets, packet)
         /\ freed' = freed \cup {packet}
         /\ ackPendingQueue' = [ackPendingQueue EXCEPT ![w] = EraseFirst(@, packet)]
         /\ \A q \in Processors : processor'[q].pc # "idle" => processor'[q] = processor[q]
         /\ UNCHANGED <<senderQueue, created, dataWorker, session, sender>>
BY DEF MatchEnd, Acknowledge, ProcessorAt, Alive, Typed, TypeOK, Lifecycle, ProcessorTimed, Idle,
       Busy, registry

LEMMA TimerResendShape ==
  ASSUME Alive, NEW packet \in Packet, TimerResend(packet)
  PROVE  LET w == dataWorker[packet.data] IN
         /\ w \in Workers /\ packet \in ToSet(timedPackets) /\ workerLock[w] > 0
         /\ ackPendingQueue \in [Workers -> Seq(Packet)]
         /\ ackPendingQueue' = [ackPendingQueue EXCEPT ![w] = <<packet>> \o Without(@, packet)]
         /\ UNCHANGED <<senderQueue, timedPackets, freed, created, dataWorker, session, sender, processor>>
<1>1. dataWorker[packet.data] \in Workers \cup {NoWorker}
  BY DEF Alive, Typed, TypeOK, Packet
<1>2. ackPendingQueue \in [Workers -> Seq(Packet)] /\ packet \in ToSet(timedPackets)
  BY DEF TimerResend, Visiting, ToSet, Alive, Typed, TypeOK
<1> QED BY <1>1, <1>2 DEF TimerResend, timing, history, registry

\* Every other step leaves those lists, and the packets in the sessions' hands, alone.
Still ==
  /\ UNCHANGED <<ackPendingQueue, timedPackets, freed>>
  /\ \A v \in Workers :
       /\ session[v].pc = "append" => session'[v] = session[v]
       /\ session'[v].pc = "append" => session'[v] = session[v]

LEMMA SessionStill ==
  ASSUME Typed, NEW w \in Workers, SessionStep(w), ~AddTimed(w), ~MovePending(w)
  PROVE  Still /\ UNCHANGED <<created, dataWorker, sender, processor>>
<1>1. session \in [Workers -> SessionState]
  BY DEF Typed, TypeOK, SessionState
<1>2. ASSUME NEW held \in BOOLEAN, session[w].pc # "append", SendNext(w, held)
      PROVE  Still /\ UNCHANGED <<created, dataWorker, sender, processor>>
  BY <1>1, <1>2 DEF SendNext, Still, timing, history, registry, Resting, At
<1>3. CASE Poll(w)
  <2>1. CASE ackPacketPop[w]
    BY <1>1, <1>3, <2>1 DEF Poll, Still, SessionAt, At, timing, history, registry
  <2>2. CASE ~ackPacketPop[w]
    BY <1>2, <1>3, <2>2 DEF Poll, SessionAt
  <2> QED BY <2>1, <2>2
<1>4. CASE FallThrough(w)
  BY <1>2, <1>4 DEF FallThrough, SessionAt
<1>5. CASE Resend(w) \/ ResendFront(w) \/ Copy(w)
  BY <1>1, <1>5 DEF Resend, ResendFront, Copy, Still, SessionAt, At, Resting, queues, timing, history,
     registry
<1> QED BY <1>3, <1>4, <1>5 DEF SessionStep

LEMMA OtherStill ==
  ASSUME Typed, [Next]_vars,
         \A w \in Workers : ~AddTimed(w) /\ ~MovePending(w),
         \A p \in Processors : ~MatchEnd(p),
         \A packet \in Packet : ~TimerResend(packet)
  PROVE  Still
<1>1. ASSUME NEW p \in Processors, ProcessorStep(p) PROVE Still
  BY <1>1 DEF ProcessorStep, HandleAck, HandleResult, StatusWrite, AnswerTest, AnswerPush,
     Still, queues, timing, history
<1>2. CASE SenderStep
  BY <1>2 DEF SenderStep, SenderCreate, SenderPush, SenderAssign, SenderWrite, Still, queues, timing,
     history
<1>3. CASE TimerStep
  BY <1>3 DEF TimerStep, TimerWake, TimerSleep, TimerCheckOut, TimerStray, Still, queues, timing,
     history, threads
<1>4. CASE ListRace \/ UNCHANGED vars
  BY <1>4 DEF ListRace, vars, Still, queues, timing, history, threads
<1> QED BY <1>1, <1>2, <1>3, <1>4, SessionStill DEF Next

LEMMA OwnQuiet ==
  ASSUME Own, UNCHANGED <<created, dataWorker, ackPendingQueue>>,
         sender'.pc \in {"push", "assign"} =>
           sender.pc \in {"push", "assign"} /\ sender'.packet = sender.packet,
         \A p \in Processors : processor'[p].pc = "match" => processor'[p] = processor[p]
  PROVE  Own'
BY DEF Own

LEMMA OwnSender ==
  ASSUME Alive, Own, SenderStep
  PROVE  Own'
<1>1. ASSUME NEW d \in Data, NEW w \in Workers, SenderCreate(d, w) PROVE Own'
  <2> DEFINE packet == [worker |-> w, data |-> d, kind |-> "data"]
  <2>1. /\ created' = created \cup {packet}
        /\ \A q \in created : d \in UserData => q.data # d
        /\ dataWorker' = IF d \in Templates /\ dataWorker[d] = NoWorker
                           THEN [dataWorker EXCEPT ![d] = w] ELSE dataWorker
        /\ sender' = At(IF CanQueue(w) THEN "push" ELSE "assign", packet)
        /\ UNCHANGED <<ackPendingQueue, processor>>
    BY <1>1 DEF SenderCreate, queues
  <2>2. packet \in AckablePacket /\ packet.data = d
    BY DEF AckablePacket, IsAckable, Packet, Kind
  <2> HIDE DEF packet
  <2>3. \A e \in UserData : dataWorker'[e] = dataWorker[e]
    BY <2>1, WorkerNodeAssumption DEF Alive, Typed, TypeOK
  <2>4. sender'.packet = packet
    BY <2>1 DEF At
  <2>5. created' \subseteq AckablePacket
    BY <2>1, <2>2 DEF Own
  <2>6. sender'.pc \in {"push", "assign"} => sender'.packet \in created'
    BY <2>1, <2>4
  <2>7. \A x, y \in created' : x.data = y.data /\ x.data \in UserData => x = y
    BY <2>1, <2>2 DEF Own
  <2>8. \A e \in UserData : dataWorker'[e] # NoWorker =>
          \E x \in created' : x.data = e /\ x.worker = dataWorker'[e]
    BY <2>1, <2>3 DEF Own
  <2> QED BY <2>1, <2>5, <2>6, <2>7, <2>8 DEF Own
<1>2. ASSUME SenderAssign PROVE Own'
  <2> DEFINE packet == sender.packet
  <2>1. /\ packet \in created /\ packet \in Packet
        /\ dataWorker' = [dataWorker EXCEPT ![packet.data] = packet.worker]
        /\ sender'.pc \notin {"push", "assign"}
        /\ UNCHANGED <<ackPendingQueue, processor, created>>
    BY <1>2 DEF SenderAssign, SenderAt, At, Resting, queues, history, Own, Alive, Typed, TypeOK
  <2>2. dataWorker \in [Data -> Workers \cup {NoWorker}]
    BY DEF Alive, Typed, TypeOK
  <2> HIDE DEF packet
  <2>3. \A e \in UserData : dataWorker'[e] # NoWorker =>
          \E x \in created : x.data = e /\ x.worker = dataWorker'[e]
    <3> SUFFICES ASSUME NEW e \in UserData, dataWorker'[e] # NoWorker
                 PROVE  \E x \in created : x.data = e /\ x.worker = dataWorker'[e]
      OBVIOUS
    <3>1. CASE packet.data = e
      BY <2>1, <2>2, <3>1 DEF Data
    <3>2. CASE packet.data # e
      BY <2>1, <2>2, <3>2 DEF Own, Data
    <3> QED BY <3>1, <3>2
  <2> QED BY <2>1, <2>3 DEF Own
<1>3. ASSUME SenderPush \/ SenderWrite PROVE Own'
  BY <1>3, OwnQuiet DEF SenderPush, SenderWrite, SenderAt, At, Resting, queues, registry, history
<1> QED BY <1>1, <1>2, <1>3 DEF SenderStep

\* What is pending with a worker grows by packets of that worker's user data only.
LEMMA OwnPending ==
  ASSUME Own, NEW w \in Workers, NEW q,
         ackPendingQueue \in [Workers -> Seq(Packet)],
         ackPendingQueue' = [ackPendingQueue EXCEPT ![w] = q],
         \A x \in ToSet(q) : x \in ToSet(ackPendingQueue[w]) \/ (x.data \in UserData => x.worker = w),
         UNCHANGED <<created, dataWorker, sender>>,
         \A p \in Processors : processor'[p].pc = "match" => processor'[p] = processor[p]
  PROVE  Own'
<1>1. \A v \in Workers : \A x \in ToSet(ackPendingQueue'[v]) : x.data \in UserData => x.worker = v
  <2> TAKE v \in Workers
  <2>1. CASE v = w
    BY <2>1 DEF Own
  <2>2. CASE v # w
    <3>1. ackPendingQueue'[v] = ackPendingQueue[v]
      BY <2>2
    <3> QED BY <3>1 DEF Own
  <2> QED BY <2>1, <2>2
<1> QED BY <1>1 DEF Own

LEMMA OwnStep ==
  ASSUME Alive, Own, [Next]_vars
  PROVE  Own'
<1>1. ASSUME NEW w \in Workers, AddTimed(w) PROVE Own'
  BY <1>1, AddTimedShape, OwnQuiet
<1>2. ASSUME NEW w \in Workers, MovePending(w) PROVE Own'
  <2> DEFINE packet == session[w].packet
  <2>1. /\ packet \in Packet /\ packet.worker = w
        /\ ackPendingQueue \in [Workers -> Seq(Packet)]
        /\ ackPendingQueue' = [ackPendingQueue EXCEPT ![w] = Append(@, packet)]
        /\ UNCHANGED <<created, dataWorker, sender, processor>>
    BY <1>2, MovePendingShape
  <2> HIDE DEF packet
  <2>2. ackPendingQueue[w] \in Seq(Packet)
    BY <2>1
  <2>3. ToSet(Append(ackPendingQueue[w], packet)) = ToSet(ackPendingQueue[w]) \cup {packet}
    BY <2>1, <2>2, AppendSet
  <2> QED BY <2>1, <2>3, OwnPending
<1>3. ASSUME NEW p \in Processors, MatchEnd(p) PROVE Own'
  <2> DEFINE w == processor[p].worker
             packet == processor[p].packet
  <2>1. /\ w \in Workers /\ ackPendingQueue \in [Workers -> Seq(Packet)]
        /\ ackPendingQueue' = [ackPendingQueue EXCEPT ![w] = EraseFirst(@, packet)]
        /\ \A q \in Processors : processor'[q].pc # "idle" => processor'[q] = processor[q]
        /\ UNCHANGED <<created, dataWorker, sender>>
    BY <1>3, MatchEndShape
  <2> HIDE DEF w, packet
  <2>2. ToSet(EraseFirst(ackPendingQueue[w], packet)) \subseteq ToSet(ackPendingQueue[w])
    <3>1. ackPendingQueue[w] \in Seq(Packet)
      BY <2>1
    <3> QED BY <3>1, EraseFirstType
  <2> QED BY <2>1, <2>2, OwnPending
<1>4. ASSUME NEW packet \in Packet, TimerResend(packet) PROVE Own'
  <2> DEFINE w == dataWorker[packet.data]
             rest == Without(ackPendingQueue[w], packet)
  <2>1. /\ w \in Workers /\ packet \in ToSet(timedPackets)
        /\ ackPendingQueue \in [Workers -> Seq(Packet)]
        /\ ackPendingQueue' = [ackPendingQueue EXCEPT ![w] = <<packet>> \o rest]
        /\ UNCHANGED <<created, dataWorker, sender, processor>>
    BY <1>4, TimerResendShape
  <2>2. packet.data \in UserData => packet.worker = w
    <3>1. packet \in created
      BY <2>1 DEF Alive, Lifecycle, SenderNew, Past
    <3>2. w # NoWorker
      BY <2>1, WorkerNodeAssumption
    <3> QED BY <3>1, <3>2 DEF Own
  <2> HIDE DEF w
  <2>3. ackPendingQueue[w] \in Seq(Packet)
    BY <2>1
  <2>4. rest \in Seq(Packet) /\ ToSet(rest) = ToSet(ackPendingQueue[w]) \ {packet}
    BY <2>3, WithoutType
  <2> HIDE DEF rest
  <2>5. ToSet(<<packet>> \o rest) = ToSet(rest) \cup {packet}
    BY <2>4, PushFrontSet
  <2> QED BY <2>1, <2>2, <2>4, <2>5, OwnPending
<1>5. ASSUME NEW p \in Processors, NEW w \in Workers, NEW d \in Data, HandleAck(p, w, d)
      PROVE  Own'
  <2> DEFINE pending == ackPendingQueue[w]
  <2>1. CASE \E k \in DOMAIN pending : pending[k].data = d
    <3> DEFINE job == Busy("match", w, pending[FirstWithId(pending, d)], DATA_QUEUED)
    <3>1. pending \in Seq(Packet)
      BY DEF Alive, Typed, TypeOK
    <3>2. FirstWithId(pending, d) \in DOMAIN pending
      <4> HIDE DEF pending
      <4> QED BY <2>1, <3>1, FirstWithIdFound
    <3>3. job.packet \in ToSet(pending) /\ job.worker = w
      BY <3>2 DEF ToSet, Busy
    <3>4. /\ processor' = [processor EXCEPT ![p] = job]
          /\ UNCHANGED <<ackPendingQueue, created, dataWorker, sender>>
      BY <1>5, <2>1 DEF HandleAck, queues, registry, history
    <3>5. processor \in [Processors -> ProcessorState]
      BY DEF Alive, Typed, TypeOK, ProcessorState
    <3> HIDE DEF job
    <3> QED BY <3>3, <3>4, <3>5 DEF Own
  <2>2. CASE ~ \E k \in DOMAIN pending : pending[k].data = d
    BY <1>5, <2>2, OwnQuiet DEF HandleAck, queues, registry, history
  <2> QED BY <2>1, <2>2
<1>6. ASSUME NEW p \in Processors, NEW w \in Workers, NEW d \in UserData,
             NEW r \in Results, HandleResult(p, w, d, r)
      PROVE  Own'
  <2>1. processor \in [Processors -> ProcessorState]
    BY DEF Alive, Typed, TypeOK, ProcessorState
  <2> QED BY <1>6, <2>1, OwnQuiet DEF HandleResult, Busy, queues, registry
<1>7. ASSUME NEW p \in Processors, StatusWrite(p) \/ AnswerTest(p) \/ AnswerPush(p)
      PROVE  Own'
  <2>1. processor \in [Processors -> ProcessorState]
    BY DEF Alive, Typed, TypeOK, ProcessorState
  <2> QED BY <1>7, <2>1, OwnQuiet DEF StatusWrite, AnswerTest, AnswerPush, Idle, Busy, ProcessorState,
             queues, registry, history
<1>8. CASE SenderStep
  BY <1>8, OwnSender
<1>9. ASSUME NEW w \in Workers, SessionStep(w), ~AddTimed(w), ~MovePending(w) PROVE Own'
  <2>1. Still /\ UNCHANGED <<created, dataWorker, sender, processor>>
    BY <1>9, SessionStill DEF Alive
  <2> QED BY <2>1, OwnQuiet DEF Still
<1>10. CASE TimerWake \/ TimerSleep \/ ListRace \/ UNCHANGED vars
            \/ \E packet \in Packet : TimerCheckOut(packet) \/ TimerStray(packet)
  BY <1>10, OwnQuiet DEF TimerWake, TimerSleep, TimerCheckOut, TimerStray, ListRace, vars, queues,
     registry, history, threads
<1> QED BY <1>1, <1>2, <1>3, <1>4, <1>5, <1>6, <1>7, <1>8, <1>9, <1>10
        DEF Next, ProcessorStep, TimerStep

(***************************************************************************)
(* Custody: where a packet is once it has been timed.                      *)
(***************************************************************************)
InHand(x) == session[x.worker].pc = "append" /\ session[x.worker].packet = x

\* A timed packet is in one place: pending once, or in the hand of its session.
OnePlace(x) ==
  LET pending == ackPendingQueue[x.worker] IN
  /\ NoRepeat(timedPackets, x) /\ NoRepeat(pending, x)
  /\ x \in ToSet(timedPackets) <=> (x \in ToSet(pending) \/ InHand(x))
  /\ ~(x \in ToSet(pending) /\ InHand(x))

OneCustody == \A x \in created : x.data \in UserData /\ Intact(x.worker) => OnePlace(x)

\* Of any data, and whatever the locks: what is timed is pending with its worker
\* or about to be.
TimedKept == \A x \in ToSet(timedPackets) : x \in ToSet(ackPendingQueue[x.worker]) \/ InHand(x)

LEMMA AddTimedHolds ==
  ASSUME Alive, NEW w \in Workers, AddTimed(w), NEW x \in Packet
  PROVE  /\ TimedKept /\ x \in ToSet(timedPackets') =>
              x \in ToSet(ackPendingQueue'[x.worker]) \/ InHand(x)'
         /\ OnePlace(x) => OnePlace(x)'
<1> DEFINE packet == session[w].packet
<1>1. /\ session[w].pc = "time" /\ packet \in Packet /\ packet.worker = w
      /\ timedPackets \in Seq(Packet) /\ timedPackets' = Append(timedPackets, packet)
      /\ packet \notin Past
      /\ session'[w].pc = "append" /\ session'[w].packet = packet
      /\ \A v \in Workers \ {w} : session'[v] = session[v]
      /\ UNCHANGED ackPendingQueue
  BY AddTimedShape
<1> HIDE DEF packet
<1>2. ToSet(timedPackets') = ToSet(timedPackets) \cup {packet}
  BY <1>1, AppendSet
<1>3. packet \notin ToSet(timedPackets) /\ packet \notin ToSet(ackPendingQueue[w])
  BY <1>1 DEF Past, Alive, Lifecycle, PendingTimed
<1>4. x.worker \in Workers
  BY DEF Packet
<1>5. CASE x = packet
  <2>1. InHand(x)' /\ ~InHand(x)
    BY <1>1, <1>5 DEF InHand
  <2>2. NoRepeat(timedPackets, x) => NoRepeat(timedPackets', x)
    BY <1>1, <1>3, <1>5, AppendOnce
  <2> QED BY <1>1, <1>2, <1>3, <1>5, <2>1, <2>2 DEF OnePlace
<1>6. CASE x # packet
  <2>1. InHand(x)' <=> InHand(x)
    BY <1>1, <1>4, <1>6 DEF InHand
  <2>2. NoRepeat(timedPackets, x) => NoRepeat(timedPackets', x)
    BY <1>1, <1>6, AppendOnce
  <2> QED BY <1>1, <1>2, <1>6, <2>1, <2>2 DEF OnePlace, TimedKept
<1> QED BY <1>5, <1>6

LEMMA MovePendingHolds ==
  ASSUME Alive, NEW w \in Workers, MovePending(w), NEW x \in Packet
  PROVE  /\ TimedKept /\ x \in ToSet(timedPackets') =>
              x \in ToSet(ackPendingQueue'[x.worker]) \/ InHand(x)'
         /\ OnePlace(x) => OnePlace(x)'
<1> DEFINE packet  == session[w].packet
           pending == ackPendingQueue[w]
<1>1. /\ session[w].pc = "append" /\ packet \in Packet /\ packet.worker = w
      /\ pending \in Seq(Packet)
      /\ ackPendingQueue'[w] = Append(pending, packet)
      /\ \A v \in Workers \ {w} : ackPendingQueue'[v] = ackPendingQueue[v]
      /\ session'[w].pc = "copy"
      /\ \A v \in Workers \ {w} : session'[v] = session[v]
      /\ UNCHANGED timedPackets
  BY MovePendingShape
<1>2. InHand(packet) /\ \A y \in Packet : y.worker = w /\ InHand(y) => y = packet
  BY <1>1 DEF InHand
<1> HIDE DEF packet
<1>3. ToSet(Append(pending, packet)) = ToSet(pending) \cup {packet}
  <2> HIDE DEF pending
  <2> QED BY <1>1, AppendSet
<1>4. x.worker \in Workers
  BY DEF Packet
<1>5. CASE x.worker # w
  <2>1. ackPendingQueue'[x.worker] = ackPendingQueue[x.worker] /\ (InHand(x)' <=> InHand(x))
    BY <1>1, <1>4, <1>5 DEF InHand
  <2> QED BY <1>1, <2>1 DEF OnePlace, TimedKept
<1>6. CASE x.worker = w
  <2>1. ~InHand(x)'
    BY <1>1, <1>6 DEF InHand
  <2>2. x # packet \/ x \notin ToSet(pending) => (NoRepeat(pending, x) => NoRepeat(Append(pending, packet), x))
    <3> HIDE DEF pending
    <3> QED BY <1>1, AppendOnce
  <2>3. CASE x = packet
    BY <1>1, <1>2, <1>3, <1>6, <2>1, <2>2, <2>3 DEF OnePlace
  <2>4. CASE x # packet
    <3>1. ~InHand(x)
      BY <1>2, <1>6, <2>4
    <3>2. x \in ToSet(ackPendingQueue'[w]) <=> x \in ToSet(pending)
      BY <1>1, <1>3, <2>4
    <3>3. NoRepeat(pending, x) => NoRepeat(ackPendingQueue'[w], x)
      BY <1>1, <2>2, <2>4
    <3>4. OnePlace(x) => OnePlace(x)'
      BY <1>1, <1>6, <2>1, <3>1, <3>2, <3>3 DEF OnePlace
    <3> QED BY <1>1, <1>6, <3>1, <3>2, <3>4 DEF TimedKept
  <2> QED BY <2>3, <2>4
<1> QED BY <1>5, <1>6

LEMMA MatchEndHolds ==
  ASSUME Alive, Own, NEW p \in Processors, MatchEnd(p), NEW x \in Packet
  PROVE  /\ TimedKept /\ x \in ToSet(timedPackets') =>
              x \in ToSet(ackPendingQueue'[x.worker]) \/ InHand(x)'
         /\ x.data \in UserData /\ Intact(x.worker) /\ OnePlace(x) => OnePlace(x)'
<1> DEFINE w       == processor[p].worker
           packet  == processor[p].packet
<1>1. /\ processor[p].pc = "match" /\ w \in Workers /\ packet \in Packet
      /\ timedPackets \in Seq(Packet) /\ ackPendingQueue[w] \in Seq(Packet)
      /\ timedPackets' = Without(timedPackets, packet)
      /\ ackPendingQueue'[w] = EraseFirst(ackPendingQueue[w], packet)
      /\ \A v \in Workers \ {w} : ackPendingQueue'[v] = ackPendingQueue[v]
      /\ UNCHANGED session
  BY MatchEndShape
<1>2. x.worker \in Workers /\ (InHand(x)' <=> InHand(x))
  BY <1>1 DEF Packet, InHand
<1>3. packet.data \in UserData => packet.worker = w
  BY <1>1 DEF Own
<1>4. packet.data \in UserData /\ Intact(w) => ~InHand(packet)
  <2> SUFFICES ASSUME packet.data \in UserData, Intact(w), InHand(packet) PROVE FALSE
    OBVIOUS
  <2>1. Inside(w) /\ p \in Matching(w)
    BY <1>1, <1>3 DEF InHand, Inside, Matching
  <2>2. Claims(w) = 1
    BY DEF Intact, Claims
  <2>3. /\ Claims(w) = workerLock[w] + (IF Inside(w) THEN 1 ELSE 0) + Cardinality(Matching(w))
        /\ Cardinality(Matching(w)) \in Nat /\ workerLock[w] \in Nat
    BY <1>1, ClaimsNow DEF Alive
  <2>4. Cardinality(Matching(w)) = 0
    BY <2>1, <2>2, <2>3
  <2>5. IsFiniteSet(Matching(w))
    <3>1. Matching(w) \in SUBSET Processors
      BY DEF Matching
    <3> QED BY <3>1, WorkerNodeAssumption, FS_Subset
  <2> QED BY <2>1, <2>4, <2>5, FS_EmptySet
<1> HIDE DEF w, packet
<1>5. /\ ToSet(timedPackets') = ToSet(timedPackets) \ {packet}
      /\ NoRepeat(timedPackets, x) => NoRepeat(timedPackets', x)
  BY <1>1, WithoutType
<1>6. /\ ToSet(ackPendingQueue'[w]) \subseteq ToSet(ackPendingQueue[w])
      /\ x # packet /\ x \in ToSet(ackPendingQueue[w]) => x \in ToSet(ackPendingQueue'[w])
      /\ NoRepeat(ackPendingQueue[w], x) => NoRepeat(ackPendingQueue'[w], x)
      /\ NoRepeat(ackPendingQueue[w], packet) => packet \notin ToSet(ackPendingQueue'[w])
  BY <1>1, EraseFirstType, EraseFirstKeeps
<1>7. x # packet =>
        /\ x \in ToSet(timedPackets') <=> x \in ToSet(timedPackets)
        /\ x \in ToSet(ackPendingQueue'[x.worker]) <=> x \in ToSet(ackPendingQueue[x.worker])
  BY <1>1, <1>2, <1>5, <1>6
<1>8. NoRepeat(ackPendingQueue[x.worker], x) => NoRepeat(ackPendingQueue'[x.worker], x)
  BY <1>1, <1>2, <1>6
<1>9. CASE x # packet
  BY <1>2, <1>5, <1>7, <1>8, <1>9 DEF OnePlace, TimedKept
<1>10. CASE x = packet
  <2>1. x \notin ToSet(timedPackets')
    BY <1>5, <1>10
  <2>2. ASSUME x.data \in UserData, Intact(x.worker), OnePlace(x) PROVE OnePlace(x)'
    <3>1. x.worker = w /\ ~InHand(x)'
      BY <1>2, <1>3, <1>4, <1>10, <2>2
    <3>2. x \notin ToSet(ackPendingQueue'[w])
      BY <1>6, <1>10, <2>2, <3>1 DEF OnePlace
    <3> QED BY <1>5, <1>8, <2>1, <2>2, <3>1, <3>2 DEF OnePlace
  <2> QED BY <2>1, <2>2
<1> QED BY <1>9, <1>10

LEMMA TimerResendHolds ==
  ASSUME Alive, Own, NEW packet \in Packet, TimerResend(packet), NEW x \in Packet
  PROVE  /\ TimedKept /\ x \in ToSet(timedPackets') =>
              x \in ToSet(ackPendingQueue'[x.worker]) \/ InHand(x)'
         /\ x.data \in UserData /\ Intact(x.worker) /\ OnePlace(x) => OnePlace(x)'
<1> DEFINE w    == dataWorker[packet.data]
           rest == Without(ackPendingQueue[w], packet)
<1>1. /\ w \in Workers /\ packet \in ToSet(timedPackets) /\ workerLock[w] > 0
      /\ ackPendingQueue[w] \in Seq(Packet)
      /\ ackPendingQueue'[w] = <<packet>> \o rest
      /\ \A v \in Workers \ {w} : ackPendingQueue'[v] = ackPendingQueue[v]
      /\ UNCHANGED <<timedPackets, session>>
  BY TimerResendShape
<1>2. x.worker \in Workers /\ (InHand(x)' <=> InHand(x))
  BY <1>1 DEF Packet, InHand
<1>3. packet.data \in UserData => packet.worker = w
  <2>1. packet \in created
    BY <1>1 DEF Alive, Lifecycle, SenderNew, Past
  <2>2. w # NoWorker
    BY <1>1, WorkerNodeAssumption
  <2> QED BY <2>1, <2>2 DEF Own
<1>4. Intact(w) => ~Inside(w)
  <2>1. Intact(w) => Claims(w) = 1
    BY DEF Intact, Claims
  <2>2. /\ Claims(w) = workerLock[w] + (IF Inside(w) THEN 1 ELSE 0) + Cardinality(Matching(w))
        /\ Cardinality(Matching(w)) \in Nat /\ workerLock[w] \in Nat
    BY <1>1, ClaimsNow DEF Alive
  <2> QED BY <1>1, <2>1, <2>2
<1> HIDE DEF w
<1>5. /\ rest \in Seq(Packet) /\ ToSet(rest) = ToSet(ackPendingQueue[w]) \ {packet}
      /\ NoRepeat(ackPendingQueue[w], x) => NoRepeat(rest, x)
  BY <1>1, WithoutType
<1> HIDE DEF rest
<1>6. /\ ToSet(ackPendingQueue'[w]) = ToSet(ackPendingQueue[w]) \cup {packet}
      /\ NoRepeat(ackPendingQueue[w], x) => NoRepeat(ackPendingQueue'[w], x)
  <2>1. ToSet(<<packet>> \o rest) = ToSet(rest) \cup {packet}
    BY <1>5, PushFrontSet
  <2>2. packet \notin ToSet(rest)
    BY <1>5
  <2>3. NoRepeat(rest, x) => NoRepeat(<<packet>> \o rest, x)
    BY <1>5, <2>2, PushFrontOnce
  <2> QED BY <1>1, <1>5, <2>1, <2>3
<1>7. /\ x \in ToSet(ackPendingQueue[x.worker]) => x \in ToSet(ackPendingQueue'[x.worker])
      /\ NoRepeat(ackPendingQueue[x.worker], x) => NoRepeat(ackPendingQueue'[x.worker], x)
  BY <1>1, <1>2, <1>6
<1>8. ASSUME x.data \in UserData, Intact(x.worker), OnePlace(x) PROVE OnePlace(x)'
  <2>1. CASE x = packet
    <3>1. x.worker = w /\ ~InHand(x)
      BY <1>3, <1>4, <1>8, <2>1 DEF InHand, Inside
    <3> QED BY <1>1, <1>2, <1>7, <1>8, <2>1, <3>1 DEF OnePlace
  <2>2. CASE x # packet
    <3>1. x \in ToSet(ackPendingQueue'[x.worker]) <=> x \in ToSet(ackPendingQueue[x.worker])
      BY <1>1, <1>2, <1>6, <2>2
    <3> QED BY <1>1, <1>2, <1>7, <1>8, <3>1 DEF OnePlace
  <2> QED BY <2>1, <2>2
<1> QED BY <1>1, <1>2, <1>7, <1>8 DEF TimedKept

LEMMA StillHolds ==
  ASSUME Still, NEW x \in Packet
  PROVE  /\ TimedKept /\ x \in ToSet(timedPackets') =>
              x \in ToSet(ackPendingQueue'[x.worker]) \/ InHand(x)'
         /\ OnePlace(x) => OnePlace(x)'
<1>1. InHand(x)' <=> InHand(x)
  BY DEF Still, InHand, Packet
<1> QED BY <1>1 DEF Still, OnePlace, TimedKept

Held == Alive /\ Own /\ (\A w \in Workers : Claims(w) >= 1) /\ OneCustody /\ TimedKept

LEMMA HeldInit == Init => Held
<1> SUFFICES ASSUME Init PROVE Held
  OBVIOUS
<1>1. \A w \in Workers : Claims(w) >= 1
  <2> TAKE w \in Workers
  <2>1. InLists(w) = {} /\ workerLock[w] = 1
    BY DEF Init, InLists, Resting, At, Idle, Busy
  <2> QED BY <2>1, FS_EmptySet DEF Claims
<1>2. ToSet(<< >>) = {}
  BY DEF ToSet
<1>3. Own
  BY <1>2 DEF Init, Own, Resting, At, Idle, Busy, Data
<1>4. OneCustody /\ TimedKept
  BY <1>2 DEF Init, OneCustody, TimedKept
<1> QED BY <1>1, <1>3, <1>4, AliveInit DEF Held

LEMMA HeldStep == Held /\ [Next]_vars => Held'
<1> SUFFICES ASSUME Held, [Next]_vars PROVE Held'
  OBVIOUS
<1>1. Alive' /\ Typed /\ Typed'
  BY AliveNext DEF Held, Alive
<1>2. Own'
  BY OwnStep DEF Held
<1>3. \A w \in Workers : Claims(w)' >= Claims(w)
  BY <1>1, ClaimsGrow
<1>4. \A w \in Workers : Claims(w) \in Nat /\ Claims(w)' \in Nat
  BY <1>1, ClaimsNow, ClaimsThen
<1>5. \A w \in Workers : Claims(w)' >= 1 /\ (Intact(w)' => Intact(w))
  BY <1>3, <1>4 DEF Held, Intact, Claims
<1>6. \A x \in Packet :
        /\ x \in ToSet(timedPackets') => x \in ToSet(ackPendingQueue'[x.worker]) \/ InHand(x)'
        /\ x.data \in UserData /\ Intact(x.worker) /\ OnePlace(x) => OnePlace(x)'
  BY <1>1, AddTimedHolds, MovePendingHolds, MatchEndHolds, TimerResendHolds, StillHolds, OtherStill
     DEF Held
<1>7. TimedKept'
  <2>1. ToSet(timedPackets') \subseteq Packet
    BY <1>1, ElementOfSeq DEF Typed, TypeOK, ToSet
  <2> QED BY <1>6, <2>1 DEF TimedKept
<1>8. OneCustody'
  <2> SUFFICES ASSUME NEW x \in created', x.data \in UserData, Intact(x.worker)'
               PROVE  OnePlace(x)'
    BY DEF OneCustody
  <2>1. x \in Packet /\ x.worker \in Workers
    BY <1>1 DEF Typed, TypeOK, Packet
  <2>2. CASE x \in created
    BY <1>5, <1>6, <2>1, <2>2 DEF Held, OneCustody
  <2>3. CASE x \notin created
    <3>1. PICK d \in Data, w \in Workers : SenderCreate(d, w)
      BY <2>3, SessionStill, AddTimedShape, MovePendingShape, MatchEndShape DEF Next, SenderStep,
         SenderPush, SenderAssign, SenderWrite, ProcessorStep, HandleAck, HandleResult,
         StatusWrite, AnswerTest, AnswerPush, TimerStep, TimerWake, TimerSleep, TimerCheckOut,
         TimerResend, TimerStray, ListRace, vars, history, Held, Alive
    <3>2. UNCHANGED <<ackPendingQueue, timedPackets, freed, session>>
      BY <3>1 DEF SenderCreate, queues, timing, history
    <3>3. x \notin Past
      BY <2>3 DEF Held, Alive, Lifecycle, SenderNew
    <3>4. x \notin ToSet(timedPackets) /\ x \notin ToSet(ackPendingQueue[x.worker]) /\ ~InHand(x)
      BY <2>1, <3>3 DEF Past, InHand, Held, Alive, Lifecycle, PendingTimed
    <3>5. \A s : x \notin ToSet(s) => NoRepeat(s, x)
      BY DEF NoRepeat, ToSet
    <3> QED BY <3>2, <3>4, <3>5 DEF OnePlace, InHand
  <2> QED BY <2>2, <2>3
<1> QED BY <1>1, <1>2, <1>5, <1>7, <1>8 DEF Held

LEMMA HeldInvariant == Spec => []Held
BY HeldInit, HeldStep, PTL DEF Spec

LEMMA CustodyHeld == Held => Custody
<1> SUFFICES ASSUME Held, NEW p \in created, p.data \in UserData, Intact(p.worker)
             PROVE  LET queued  == Count(senderQueue[p.worker], p)
                        pending == Count(ackPendingQueue[p.worker], p)
                        moving  == IF session[p.worker] = At("append", p) THEN 1 ELSE 0
                    IN  /\ queued + pending + Cardinality({p} \cap freed) <= 1
                        /\ Count(timedPackets, p) = pending + moving
  BY DEF Custody
<1> DEFINE w == p.worker
<1>1. /\ p \in Packet /\ w \in Workers /\ IsAckable(p)
      /\ senderQueue[w] \in Seq(Packet) /\ ackPendingQueue[w] \in Seq(Packet)
      /\ timedPackets \in Seq(Packet) /\ session[w] \in SessionState
  BY DEF Held, Own, Alive, Typed, TypeOK, Packet, AckablePacket, SessionState
<1>2. OnePlace(p)
  BY DEF Held, OneCustody
<1>3. Count(timedPackets, p) = IF p \in ToSet(timedPackets) THEN 1 ELSE 0
  BY <1>1, <1>2, OnceCounted DEF Count, OnePlace
<1>4. Count(ackPendingQueue[w], p) = IF p \in ToSet(ackPendingQueue[w]) THEN 1 ELSE 0
  BY <1>1, <1>2, OnceCounted DEF Count, OnePlace
<1>5. session[w] = At("append", p) <=> InHand(p)
  BY <1>1 DEF InHand, At, SessionState
<1>6. NoRepeat(senderQueue[w], p)
  BY <1>1 DEF Held, Alive, Lifecycle, QueuedWait, Waits, NoRepeat
<1>7. Count(senderQueue[w], p) = IF p \in ToSet(senderQueue[w]) THEN 1 ELSE 0
  BY <1>1, <1>6, OnceCounted DEF Count
<1>8. p \in ToSet(senderQueue[w]) /\ p \in Past => InHand(p)
  <2> SUFFICES ASSUME p \in ToSet(senderQueue[w]), p \in Past PROVE InHand(p)
    OBVIOUS
  <2>1. PICK i \in DOMAIN senderQueue[w] : senderQueue[w][i] = p
    BY DEF ToSet
  <2>2. session[w].pc = "append" /\ i = 1
    BY <1>1, <2>1 DEF Held, Alive, Lifecycle, QueuedWait, Waits
  <2>3. Head(senderQueue[w]) = session[w].packet /\ senderQueue[w] # << >>
    BY <1>1, <2>2 DEF Held, Alive, Typed, HeadInHand
  <2>4. Head(senderQueue[w]) = senderQueue[w][1]
    BY <1>1, <2>3
  <2> QED BY <2>1, <2>2, <2>3, <2>4 DEF InHand
<1>9. p \in ToSet(ackPendingQueue[w]) => p \in Past
  BY <1>1 DEF Held, Alive, Lifecycle, PendingTimed
<1>10. p \in ToSet(timedPackets) => p \in Past /\ p \notin freed
  BY DEF Past, Held, Alive, TimerListAlive
<1>11. p \in freed => p \in Past
  BY DEF Past
<1>12. Cardinality({p} \cap freed) = IF p \in freed THEN 1 ELSE 0
  <2>1. CASE p \in freed
    <3>1. {p} \cap freed = {p}
      BY <2>1
    <3> QED BY <2>1, <3>1, FS_Singleton
  <2>2. CASE p \notin freed
    <3>1. {p} \cap freed = {}
      BY <2>2
    <3> QED BY <2>2, <3>1, FS_EmptySet
  <2> QED BY <2>1, <2>2
<1> QED BY <1>2, <1>3, <1>4, <1>5, <1>7, <1>8, <1>9, <1>10, <1>11, <1>12 DEF OnePlace

\* As long as the lock of its worker excludes, a packet of user data is in one
\* place - queued once, pending once, or deleted - and timed exactly while it is
\* pending or on its way there (worker.cpp, timeout.cpp), for any number of
\* workers, tables, templates and processors.
THEOREM PacketCustody == Spec => []Custody
BY HeldInvariant, CustodyHeld, PTL

(***************************************************************************)
(* The ledger: WorkerNode implements Ledger.                               *)
(***************************************************************************)
\* The unacknowledged packets of a worker, and how many there were when its
\* session found the window open: only that session adds to them.
Unacked(w) == {x \in ToSet(timedPackets) : x.worker = w}
WindowKept ==
  \A w \in Workers : session[w].pc = "time" =>
    Cardinality(Unacked(w)) <= WORKER_QUEUE_SIZE \div 2

LEMMA UnackedFinite ==
  ASSUME Typed, NEW w \in Workers
  PROVE  IsFiniteSet(Unacked(w))
<1>1. timedPackets \in Seq(Packet)
  BY DEF Typed, TypeOK
<1>2. IsFiniteSet(ToSet(timedPackets))
  BY <1>1, ToSetSize
<1>3. Unacked(w) \subseteq ToSet(timedPackets)
  BY DEF Unacked
<1> QED BY <1>2, <1>3, FS_Subset

\* The timer's list grows in AddTimed only.
LEMMA UnackedShrinks ==
  ASSUME Held, [Next]_vars, NEW w \in Workers, ~AddTimed(w)
  PROVE  Unacked(w)' \subseteq Unacked(w)
<1>1. ASSUME NEW v \in Workers, AddTimed(v) PROVE Unacked(w)' \subseteq Unacked(w)
  <2> DEFINE packet == session[v].packet
  <2>1. /\ packet \in Packet /\ packet.worker = v /\ timedPackets \in Seq(Packet)
        /\ timedPackets' = Append(timedPackets, packet)
    BY <1>1, AddTimedShape DEF Held
  <2> HIDE DEF packet
  <2>2. ToSet(timedPackets') = ToSet(timedPackets) \cup {packet}
    BY <2>1, AppendSet
  <2>3. v # w
    BY <1>1
  <2> QED BY <2>1, <2>2, <2>3 DEF Unacked
<1>2. ASSUME NEW p \in Processors, MatchEnd(p) PROVE Unacked(w)' \subseteq Unacked(w)
  <2> DEFINE packet == processor[p].packet
  <2>1. timedPackets \in Seq(Packet) /\ timedPackets' = Without(timedPackets, packet)
    BY <1>2, MatchEndShape DEF Held
  <2> HIDE DEF packet
  <2>2. ToSet(timedPackets') = ToSet(timedPackets) \ {packet}
    BY <2>1, WithoutType
  <2> QED BY <2>2 DEF Unacked
<1>3. ASSUME UNCHANGED timedPackets PROVE Unacked(w)' \subseteq Unacked(w)
  BY <1>3 DEF Unacked
<1>4. ASSUME NEW v \in Workers, MovePending(v) PROVE UNCHANGED timedPackets
  BY <1>4 DEF MovePending, timing
<1>5. ASSUME NEW packet \in Packet, TimerResend(packet) PROVE UNCHANGED timedPackets
  BY <1>5 DEF TimerResend, timing
<1>6. ASSUME Still PROVE UNCHANGED timedPackets
  BY <1>6 DEF Still
<1>7. Typed
  BY DEF Held, Alive
<1> QED BY <1>1, <1>2, <1>3, <1>4, <1>5, <1>6, <1>7, OtherStill

\* A session starts timing a packet only while the window is open.
LEMMA TimingStarts ==
  ASSUME Held, [Next]_vars, NEW w \in Workers, session'[w].pc = "time", session[w].pc # "time"
  PROVE  ~WindowFull(w) /\ session[w].pc # "append" /\ UNCHANGED timedPackets
<1>1. session \in [Workers -> SessionState] /\ TypeOK
  BY DEF Held, Alive, Typed, TypeOK, SessionState
<1>2. PICK v \in Workers : SessionStep(v)
  BY DEF Next, SenderStep, SenderCreate, SenderPush, SenderAssign, SenderWrite, ProcessorStep, HandleAck,
     HandleResult, MatchEnd, Acknowledge, StatusWrite, AnswerTest, AnswerPush, TimerStep, TimerWake,
     TimerSleep, TimerCheckOut, TimerResend, TimerStray, ListRace, vars, threads
<1>3. ASSUME NEW held \in BOOLEAN, SendNext(v, held), session[v].pc # "append"
      PROVE  ~WindowFull(w) /\ session[w].pc # "append" /\ UNCHANGED timedPackets
  <2>1. w = v /\ ~WindowFull(v)
    BY <1>1, <1>3, SendNextTakes DEF Resting, At
  <2> QED BY <1>3, <2>1 DEF SendNext, timing
<1>4. CASE Poll(v)
  <2>1. CASE ackPacketPop[v]
    BY <1>1, <1>4, <2>1 DEF Poll, At
  <2>2. CASE ~ackPacketPop[v]
    BY <1>3, <1>4, <2>2 DEF Poll, SessionAt
  <2> QED BY <2>1, <2>2
<1>5. CASE FallThrough(v)
  BY <1>3, <1>5 DEF FallThrough, SessionAt
<1>6. CASE Resend(v) \/ ResendFront(v) \/ AddTimed(v) \/ MovePending(v) \/ Copy(v)
  BY <1>1, <1>6 DEF Resend, ResendFront, AddTimed, MovePending, Copy, At, Resting, SessionState
<1> QED BY <1>2, <1>4, <1>5, <1>6 DEF SessionStep

LEMMA WindowStep ==
  ASSUME Held, WindowKept, [Next]_vars
  PROVE  WindowKept'
<1> SUFFICES ASSUME NEW w \in Workers, session'[w].pc = "time"
             PROVE  Cardinality(Unacked(w)') <= WORKER_QUEUE_SIZE \div 2
  BY DEF WindowKept
<1> DEFINE limit == WORKER_QUEUE_SIZE \div 2
<1>1. Typed /\ limit \in Nat
  BY WorkerNodeAssumption DEF Held, Alive
<1>2. session \in [Workers -> SessionState]
  BY <1>1 DEF Typed, TypeOK, SessionState
<1>3. ~AddTimed(w)
  BY <1>2 DEF AddTimed, SessionState
<1>4. Unacked(w)' \subseteq Unacked(w)
  BY <1>3, UnackedShrinks
<1>5. IsFiniteSet(Unacked(w))
  BY <1>1, UnackedFinite
<1>6. Cardinality(Unacked(w)) <= limit
  <2>1. CASE session[w].pc = "time"
    BY <2>1 DEF WindowKept
  <2>2. CASE session[w].pc # "time"
    <3>1. ~WindowFull(w) /\ session[w].pc # "append"
      BY <2>2, TimingStarts
    <3>2. Unacked(w) \subseteq ToSet(ackPendingQueue[w])
      BY <3>1 DEF Unacked, Held, TimedKept, InHand
    <3>3. /\ IsFiniteSet(ToSet(ackPendingQueue[w]))
          /\ Cardinality(ToSet(ackPendingQueue[w])) <= Len(ackPendingQueue[w])
          /\ Len(ackPendingQueue[w]) \in Nat
      <4>1. ackPendingQueue[w] \in Seq(Packet)
        BY <1>1 DEF Typed, TypeOK
      <4> QED BY <4>1, ToSetSize, LenProperties
    <3>4. /\ Cardinality(Unacked(w)) <= Cardinality(ToSet(ackPendingQueue[w]))
          /\ Cardinality(Unacked(w)) \in Nat /\ Cardinality(ToSet(ackPendingQueue[w])) \in Nat
      BY <1>5, <3>2, <3>3, FS_Subset, FS_CardinalityType
    <3> QED BY <1>1, <3>1, <3>3, <3>4 DEF WindowFull
  <2> QED BY <2>1, <2>2
<1>7. /\ Cardinality(Unacked(w)') <= Cardinality(Unacked(w))
      /\ Cardinality(Unacked(w)') \in Nat /\ Cardinality(Unacked(w)) \in Nat
  BY <1>4, <1>5, FS_Subset, FS_CardinalityType
<1> QED BY <1>1, <1>6, <1>7

\* The state of a packet in the ledger: what it depends on, and when it is the same.
Queued(x) == x \in ToSet(senderQueue[x.worker])
Fresh(x)  == x \notin created \/ sender = At("push", x)

\* A packet that goes out ahead of its turn is one of its own worker's queue, so
\* that no packet is received that the sender core is still about to queue.
OutEarly(w, x) == x.worker = w /\ Queued(x)
Early ==
  /\ \A w \in Workers : \A x \in received[w] : IsAckable(x) => ~Fresh(x)
  /\ \A w \in Workers : \A x \in AckablePacket : session[w] = At("copy", x) =>
       /\ ~Fresh(x)
       /\ x \in Past \/ OutEarly(w, x)


LEMMA StateSame ==
  ASSUME NEW x,
         x \in freed' <=> x \in freed,
         x \in ToSet(timedPackets') <=> x \in ToSet(timedPackets),
         x \in Past \/ (Queued(x)' <=> Queued(x)),
         x \in Past \/ (Fresh(x)' <=> Fresh(x)),
         x \in Past \/ (SentEarly(x)' <=> SentEarly(x))
  PROVE  StateOf(x)' = StateOf(x)
BY DEF StateOf, Queued, Fresh, Past

LEMMA LedgerSame ==
  ASSUME \A x \in AckablePacket : StateOf(x)' = StateOf(x)
  PROVE  UNCHANGED [p \in AckablePacket |-> StateOf(p)]
<1>1. [p \in AckablePacket |-> StateOf(p)]' = [p \in AckablePacket |-> StateOf(p)']
  BY DEF AckablePacket
<1> QED BY <1>1

LEMMA LedgerMove ==
  ASSUME NEW p \in AckablePacket, NEW from, NEW to,
         StateOf(p) = from, StateOf(p)' = to,
         \A x \in AckablePacket : x # p => StateOf(x)' = StateOf(x)
  PROVE  PacketLedger!Becomes(p, from, to)
<1>1. [x \in AckablePacket |-> StateOf(x)]' = [x \in AckablePacket |-> StateOf(x)']
  BY DEF AckablePacket
<1>2. [x \in AckablePacket |-> StateOf(x)'] =
        [[x \in AckablePacket |-> StateOf(x)] EXCEPT ![p] = to]
  OBVIOUS
<1> QED BY <1>1, <1>2 DEF PacketLedger!Becomes

\* The steps of the ledger.
Keeps == PacketLedger!Next \/ UNCHANGED [p \in AckablePacket |-> StateOf(p)]

LEMMA SenderCreateLedger ==
  ASSUME Held, NEW d \in Data, NEW w \in Workers, SenderCreate(d, w)
  PROVE  Keeps
<1> DEFINE packet == [worker |-> w, data |-> d, kind |-> "data"]
<1>1. /\ sender.pc = "idle" /\ packet \notin created /\ created' = created \cup {packet}
      /\ sender' = At(IF CanQueue(w) THEN "push" ELSE "assign", packet)
      /\ UNCHANGED <<senderQueue, timedPackets, freed, received>>
  BY DEF SenderCreate, SenderAt, queues, timing
<1>2. packet \in AckablePacket /\ packet.worker = w
  BY DEF AckablePacket, IsAckable, Packet, Kind
<1> HIDE DEF packet
<1>3. packet \notin Past
  BY <1>1 DEF Held, Alive, Lifecycle, SenderNew
<1>4. ~Queued(packet)
  BY <1>1, <1>2 DEF Queued, ToSet, AckablePacket, Held, Alive, Lifecycle, QueuedWait, Waits
<1>5. StateOf(packet) = "new"
  BY <1>1, <1>3, <1>4 DEF StateOf, Past, Queued
<1>6. \A x \in AckablePacket : x # packet => StateOf(x)' = StateOf(x)
  <2> SUFFICES ASSUME NEW x \in AckablePacket, x # packet PROVE StateOf(x)' = StateOf(x)
    OBVIOUS
  <2>1. sender # At("push", x) /\ sender' # At("push", x)
    BY <1>1 DEF At
  <2>2. Queued(x)' <=> Queued(x)
    BY <1>1 DEF Queued
  <2>3. Fresh(x)' <=> Fresh(x)
    BY <1>1, <2>1 DEF Fresh
  <2>4. SentEarly(x)' <=> SentEarly(x)
    BY <1>1 DEF SentEarly
  <2> QED BY <1>1, <2>2, <2>3, <2>4, StateSame
<1>7. CASE CanQueue(w)
  <2>1. StateOf(packet)' = "new"
    BY <1>1, <1>3, <1>4, <1>7 DEF StateOf, Past, Queued
  <2>2. \A x \in AckablePacket : StateOf(x)' = StateOf(x)
    BY <1>5, <1>6, <2>1
  <2> QED BY <2>2, LedgerSame DEF Keeps
<1>8. CASE ~CanQueue(w)
  <2>1. sender' # At("push", packet) /\ packet \in created'
    BY <1>1, <1>8 DEF At
  <2>2. StateOf(packet)' = "refused"
    BY <1>1, <1>3, <1>4, <2>1 DEF StateOf, Past, Queued
  <2>3. PacketLedger!Becomes(packet, "new", "refused")
    BY <1>2, <1>5, <1>6, <2>2, LedgerMove
  <2> QED BY <1>2, <2>3 DEF Keeps, PacketLedger!Next, PacketLedger!Refuse
<1> QED BY <1>7, <1>8

LEMMA SenderPushLedger ==
  ASSUME Held, Early, SenderPush
  PROVE  Keeps
<1>1. sender.pc = "push" /\ sender.packet \in Packet /\ IsAckable(sender.packet)
  BY DEF SenderPush, SenderAt, Held, Alive, Typed, TypeOK, Lifecycle, SenderNew
<1>2. PICK packet \in AckablePacket : packet = sender.packet
  BY <1>1 DEF AckablePacket
<1> DEFINE w == packet.worker
<1>3. /\ w \in Workers
      /\ sender = At("push", packet) /\ sender' = At("assign", packet)
      /\ senderQueue \in [Workers -> Seq(Packet)]
      /\ senderQueue' = [senderQueue EXCEPT ![w] = Append(@, packet)]
      /\ UNCHANGED <<timedPackets, freed, created, received>>
  BY <1>1, <1>2 DEF SenderPush, At, timing, history, Held, Alive, Typed, TypeOK, Packet
<1>4. packet \in created /\ packet \notin Past /\ packet \notin ToSet(senderQueue[w])
  BY <1>1, <1>2 DEF Held, Alive, Lifecycle, SenderNew
<1> HIDE DEF w
<1>5. ToSet(Append(senderQueue[w], packet)) = ToSet(senderQueue[w]) \cup {packet}
  <2>1. senderQueue[w] \in Seq(Packet)
    BY <1>3
  <2> QED BY <1>2, <2>1, AppendSet DEF AckablePacket
<1>6. StateOf(packet) = "new"
  BY <1>3, <1>4 DEF StateOf, Past, w
<1>7. StateOf(packet)' = "queued"
  <2>1. packet \in ToSet(senderQueue'[w])
    BY <1>3, <1>5
  <2>2. packet \notin freed' /\ packet \notin ToSet(timedPackets')
    BY <1>3, <1>4 DEF Past
  <2>3. ~SentEarly(packet)'
    BY <1>1, <1>2, <1>3 DEF Early, Fresh, SentEarly
  <2> QED BY <2>1, <2>2, <2>3 DEF StateOf, w
<1>8. \A x \in AckablePacket : x # packet => StateOf(x)' = StateOf(x)
  <2> SUFFICES ASSUME NEW x \in AckablePacket, x # packet PROVE StateOf(x)' = StateOf(x)
    OBVIOUS
  <2>1. sender # At("push", x) /\ sender' # At("push", x)
    BY <1>3 DEF At
  <2>2. x.worker \in Workers
    BY DEF AckablePacket, Packet
  <2>3. Queued(x)' <=> Queued(x)
    BY <1>3, <1>5, <2>2 DEF Queued
  <2>4. Fresh(x)' <=> Fresh(x)
    BY <1>3, <2>1 DEF Fresh
  <2>5. SentEarly(x)' <=> SentEarly(x)
    BY <1>3 DEF SentEarly
  <2> QED BY <1>3, <2>3, <2>4, <2>5, StateSame
<1>9. PacketLedger!Becomes(packet, "new", "queued")
  BY <1>6, <1>7, <1>8, LedgerMove
<1> QED BY <1>9 DEF Keeps, PacketLedger!Next, PacketLedger!Queue

\* What the ledger counts as outstanding is what is timed.
LEMMA OutstandingUnacked ==
  ASSUME Held, NEW w \in Workers
  PROVE  PacketLedger!Outstanding(w) = Unacked(w)
<1>1. ToSet(timedPackets) \subseteq AckablePacket
  BY DEF Held, Own, Alive, Lifecycle, SenderNew, Past
<1>2. \A x \in AckablePacket : StateOf(x) = "unacked" <=> x \in ToSet(timedPackets)
  BY DEF StateOf, Held, Alive, TimerListAlive
<1>3. PacketLedger!Outstanding(w) = {x \in AckablePacket : StateOf(x) = "unacked" /\ x.worker = w}
  BY DEF PacketLedger!Outstanding
<1> QED BY <1>1, <1>2, <1>3 DEF Unacked

LEMMA SameCardinality ==
  ASSUME NEW S
  PROVE  PacketLedger!Cardinality(S) = Cardinality(S)
BY DEF PacketLedger!Cardinality, Cardinality

LEMMA AddTimedLedger ==
  ASSUME Held, WindowKept, NEW w \in Workers, AddTimed(w)
  PROVE  Keeps
<1>0. IsAckable(session[w].packet) /\ session[w].packet \in Packet
  BY AddTimedShape DEF Held
<1>1. PICK packet \in AckablePacket : packet = session[w].packet
  BY <1>0 DEF AckablePacket
<1>2. /\ session[w].pc = "time" /\ packet.worker = w
      /\ timedPackets \in Seq(Packet) /\ timedPackets' = Append(timedPackets, packet)
      /\ packet \notin Past /\ packet \in ToSet(senderQueue[w])
      /\ UNCHANGED <<senderQueue, freed, created, sender, received>>
  BY <1>1, AddTimedShape DEF Held, AddTimed, history
<1>3. ToSet(timedPackets') = ToSet(timedPackets) \cup {packet}
  BY <1>2, AppendSet DEF AckablePacket
<1>4. StateOf(packet) \in {"queued", "early"} /\ StateOf(packet)' = "unacked"
  <2>1. StateOf(packet) \in {"queued", "early"}
    BY <1>2 DEF StateOf, Past
  <2>2. packet \notin freed' /\ packet \in ToSet(timedPackets')
    BY <1>2, <1>3 DEF Past
  <2> QED BY <2>1, <2>2 DEF StateOf
<1>5. \A x \in AckablePacket : x # packet => StateOf(x)' = StateOf(x)
  <2> SUFFICES ASSUME NEW x \in AckablePacket, x # packet PROVE StateOf(x)' = StateOf(x)
    OBVIOUS
  <2>1. (Queued(x)' <=> Queued(x)) /\ (Fresh(x)' <=> Fresh(x)) /\ (SentEarly(x)' <=> SentEarly(x))
    BY <1>2 DEF Queued, Fresh, SentEarly
  <2> QED BY <1>2, <1>3, <2>1, StateSame
<1>6. \/ PacketLedger!Becomes(packet, "queued", "unacked")
      \/ PacketLedger!Becomes(packet, "early", "unacked")
  BY <1>4, <1>5, LedgerMove
<1>7. PacketLedger!Cardinality(PacketLedger!Outstanding(w)) < WORKER_QUEUE_SIZE \div 2 + 1
  <2> DEFINE limit == WORKER_QUEUE_SIZE \div 2
  <2>1. Cardinality(Unacked(w)) <= limit
    BY <1>2 DEF WindowKept
  <2>2. Cardinality(Unacked(w)) \in Nat
    BY UnackedFinite, FS_CardinalityType DEF Held, Alive
  <2>3. limit \in Nat
    BY WorkerNodeAssumption
  <2>4. Cardinality(Unacked(w)) < limit + 1
    <3> HIDE DEF limit
    <3> QED BY <2>1, <2>2, <2>3
  <2> QED BY <2>4, OutstandingUnacked, SameCardinality
<1>8. [p \in AckablePacket |-> p.worker][packet] = w
  BY <1>2
<1>9. PacketLedger!Send(packet)
  BY <1>6, <1>7, <1>8 DEF PacketLedger!Send
<1> QED BY <1>9 DEF Keeps, PacketLedger!Next

LEMMA MovePendingLedger ==
  ASSUME Held, NEW w \in Workers, MovePending(w)
  PROVE  Keeps
<1> DEFINE packet == session[w].packet
           queue  == senderQueue[w]
<1>1. /\ packet \in Past /\ queue # << >> /\ packet = Head(queue)
      /\ senderQueue' = [senderQueue EXCEPT ![w] = Tail(queue)]
      /\ UNCHANGED <<timedPackets, freed, created, sender, received>>
  BY MovePendingShape DEF Held, MovePending, history
<1>2. senderQueue \in [Workers -> Seq(Packet)] /\ queue \in Seq(Packet)
  BY DEF Held, Alive, Typed, TypeOK
<1> HIDE DEF packet, queue
<1>3. \A x \in AckablePacket : StateOf(x)' = StateOf(x)
  <2> TAKE x \in AckablePacket
  <2>1. x # packet => (x \in ToSet(Tail(queue)) <=> x \in ToSet(queue))
    BY <1>1, <1>2, TailKeeps
  <2>2. x.worker \in Workers
    BY DEF AckablePacket, Packet
  <2>3. x \in Past \/ (Queued(x)' <=> Queued(x))
    BY <1>1, <1>2, <2>1, <2>2 DEF Queued, queue
  <2>4. (Fresh(x)' <=> Fresh(x)) /\ (SentEarly(x)' <=> SentEarly(x))
    BY <1>1 DEF Fresh, SentEarly
  <2> QED BY <1>1, <2>3, <2>4, StateSame
<1> QED BY <1>3, LedgerSame DEF Keeps

LEMMA MatchEndLedger ==
  ASSUME Held, NEW p \in Processors, MatchEnd(p)
  PROVE  Keeps
<1>0. processor[p].packet \in AckablePacket
  <2>1. processor[p].packet \in Past
    BY MatchEndShape DEF Held
  <2> QED BY <2>1 DEF Held, Own, Alive, Lifecycle, SenderNew
<1>1. PICK packet \in AckablePacket : packet = processor[p].packet
  BY <1>0
<1>2. /\ packet \in Past /\ timedPackets \in Seq(Packet)
      /\ timedPackets' = Without(timedPackets, packet)
      /\ freed' = freed \cup {packet}
      /\ UNCHANGED <<senderQueue, created, sender, received>>
  BY <1>1, MatchEndShape DEF Held, MatchEnd, Acknowledge
<1>3. ToSet(timedPackets') = ToSet(timedPackets) \ {packet}
  BY <1>2, WithoutType
<1>4. \A x \in AckablePacket : x # packet => StateOf(x)' = StateOf(x)
  <2> SUFFICES ASSUME NEW x \in AckablePacket, x # packet PROVE StateOf(x)' = StateOf(x)
    OBVIOUS
  <2>1. (Queued(x)' <=> Queued(x)) /\ (Fresh(x)' <=> Fresh(x)) /\ (SentEarly(x)' <=> SentEarly(x))
    BY <1>2 DEF Queued, Fresh, SentEarly
  <2> QED BY <1>2, <1>3, <2>1, StateSame
<1>5. StateOf(packet)' = "acked"
  <2>1. packet \in freed'
    BY <1>2
  <2> QED BY <2>1 DEF StateOf
<1>6. CASE packet \in freed
  <2>1. StateOf(packet) = "acked"
    BY <1>6 DEF StateOf
  <2>2. \A x \in AckablePacket : StateOf(x)' = StateOf(x)
    BY <1>4, <1>5, <2>1
  <2> QED BY <2>2, LedgerSame DEF Keeps
<1>7. CASE packet \notin freed
  <2>1. StateOf(packet) = "unacked"
    BY <1>2, <1>7 DEF StateOf, Past
  <2>2. PacketLedger!Becomes(packet, "unacked", "acked")
    BY <1>4, <1>5, <2>1, LedgerMove
  <2> QED BY <2>2 DEF Keeps, PacketLedger!Next, PacketLedger!Acked
<1> QED BY <1>6, <1>7

\* All other steps: the ackable packets in the queues stay.
LEMMA QueueKept ==
  ASSUME Held, NEW w \in Workers, NEW q, NEW x \in AckablePacket,
         senderQueue' = [senderQueue EXCEPT ![w] = q],
         x \in ToSet(q) <=> x \in ToSet(senderQueue[w])
  PROVE  Queued(x)' <=> Queued(x)
<1>1. senderQueue \in [Workers -> Seq(Packet)] /\ x.worker \in Workers
  BY DEF Held, Alive, Typed, TypeOK, AckablePacket, Packet
<1> QED BY <1>1 DEF Queued

LEMMA SendNextQueue ==
  ASSUME Held, NEW w \in Workers, NEW held \in BOOLEAN, SendNext(w, held), NEW x \in AckablePacket
  PROVE  Queued(x)' <=> Queued(x)
<1> DEFINE queue == senderQueue[w]
<1>1. TypeOK /\ queue \in Seq(Packet)
  BY DEF Held, Alive, Typed, TypeOK
<1>2. CASE UNCHANGED senderQueue
  BY <1>2 DEF Queued
<1>3. ASSUME queue # << >>, ~IsAckable(Head(queue)),
             senderQueue' = [senderQueue EXCEPT ![w] = Tail(queue)]
      PROVE  Queued(x)' <=> Queued(x)
  <2>1. x # Head(queue)
    BY <1>3 DEF AckablePacket
  <2>2. x \in ToSet(Tail(queue)) <=> x \in ToSet(queue)
    <3> HIDE DEF queue
    <3> QED BY <1>1, <1>3, <2>1, TailKeeps
  <2> QED BY <1>3, <2>2, QueueKept
<1>4. ASSUME NEW k \in DOMAIN queue, ~IsAckable(queue[k]),
             senderQueue' = [senderQueue EXCEPT ![w] = RemoveAt(queue, k)]
      PROVE  Queued(x)' <=> Queued(x)
  <2>1. queue[k] # x
    BY <1>4 DEF AckablePacket
  <2>2. x \in ToSet(RemoveAt(queue, k)) <=> x \in ToSet(queue)
    <3> HIDE DEF queue
    <3> QED BY <1>1, <2>1, RemoveAtKeeps
  <2> QED BY <1>4, <2>2, QueueKept
<1> QED BY <1>1, <1>2, <1>3, <1>4, SendNextTakes

LEMMA AnswerPushQueue ==
  ASSUME Held, NEW p \in Processors, AnswerPush(p), NEW x \in AckablePacket
  PROVE  Queued(x)' <=> Queued(x)
<1> DEFINE w      == processor[p].worker
           packet == processor[p].packet
<1>1. /\ processor[p].pc = "push" /\ w \in Workers /\ packet \in Packet
      /\ senderQueue[w] \in Seq(Packet) /\ ~IsAckable(packet)
      /\ senderQueue' = [senderQueue EXCEPT ![w] = Append(@, packet)]
  BY DEF AnswerPush, ProcessorAt, Held, Alive, Typed, TypeOK, Lifecycle, ProcessorTimed
<1>2. x # packet
  BY <1>1 DEF AckablePacket
<1> HIDE DEF w, packet
<1>3. ToSet(Append(senderQueue[w], packet)) = ToSet(senderQueue[w]) \cup {packet}
  BY <1>1, AppendSet
<1> QED BY <1>1, <1>2, <1>3, QueueKept

\* What is queued, pending or acknowledged has left the sender core.
LEMMA QueuedKnown ==
  ASSUME Held, NEW w \in Workers, NEW x \in ToSet(senderQueue[w]), IsAckable(x)
  PROVE  ~Fresh(x) /\ OutEarly(w, x)
<1>1. PICK i \in DOMAIN senderQueue[w] : senderQueue[w][i] = x
  BY DEF ToSet
<1>2. x.worker = w /\ x \in created
  BY <1>1 DEF Held, Alive, Lifecycle, QueuedWait, Waits
<1>3. sender # At("push", x)
  BY <1>2 DEF Held, Alive, Lifecycle, SenderNew, At
<1> QED BY <1>2, <1>3 DEF Fresh, OutEarly, Queued

LEMMA PastKnown ==
  ASSUME Held, NEW x \in Past
  PROVE  ~Fresh(x)
BY DEF Held, Alive, Lifecycle, SenderNew, Fresh, At

LEMMA FreshShrinks ==
  ASSUME Held, [Next]_vars, NEW x, ~Fresh(x)
  PROVE  ~Fresh(x)'
<1>1. ASSUME NEW d \in Data, NEW w \in Workers, SenderCreate(d, w) PROVE ~Fresh(x)'
  BY <1>1 DEF SenderCreate, Fresh, At
<1>2. CASE SenderPush \/ SenderAssign \/ SenderWrite
  BY <1>2 DEF SenderPush, SenderAssign, SenderWrite, Fresh, At, Resting, history
<1>3. ASSUME UNCHANGED <<created, sender>> PROVE ~Fresh(x)'
  BY <1>3 DEF Fresh
<1>4. ASSUME NEW w \in Workers, SessionStep(w) PROVE UNCHANGED <<created, sender>>
  BY <1>4, SessionStill, AddTimedShape, MovePendingShape DEF Held, Alive
<1>5. ASSUME NEW p \in Processors, ProcessorStep(p) PROVE UNCHANGED <<created, sender>>
  BY <1>5, MatchEndShape DEF Held, ProcessorStep, HandleAck, HandleResult, StatusWrite, AnswerTest,
     AnswerPush, history
<1>6. ASSUME TimerStep \/ ListRace \/ UNCHANGED vars PROVE UNCHANGED <<created, sender>>
  BY <1>6 DEF TimerStep, TimerWake, TimerSleep, TimerCheckOut, TimerResend, TimerStray, ListRace,
     vars, history, threads
<1> QED BY <1>1, <1>2, <1>3, <1>4, <1>5, <1>6 DEF Next, SenderStep

\* What was timed once is timed or deleted.
LEMMA PastGrows ==
  ASSUME Held, [Next]_vars
  PROVE  Past \subseteq Past'
<1>1. ASSUME NEW w \in Workers, AddTimed(w) PROVE Past \subseteq Past'
  <2> DEFINE packet == session[w].packet
  <2>1. /\ packet \in Packet /\ timedPackets \in Seq(Packet)
        /\ timedPackets' = Append(timedPackets, packet) /\ UNCHANGED freed
    BY <1>1, AddTimedShape DEF Held
  <2> HIDE DEF packet
  <2>2. ToSet(timedPackets') = ToSet(timedPackets) \cup {packet}
    BY <2>1, AppendSet
  <2> QED BY <2>1, <2>2 DEF Past
<1>2. ASSUME NEW p \in Processors, MatchEnd(p) PROVE Past \subseteq Past'
  <2> DEFINE packet == processor[p].packet
  <2>1. /\ timedPackets \in Seq(Packet) /\ timedPackets' = Without(timedPackets, packet)
        /\ freed' = freed \cup {packet}
    BY <1>2, MatchEndShape DEF Held
  <2> HIDE DEF packet
  <2>2. ToSet(timedPackets') = ToSet(timedPackets) \ {packet}
    BY <2>1, WithoutType
  <2> QED BY <2>1, <2>2 DEF Past
<1>3. ASSUME UNCHANGED <<timedPackets, freed>> PROVE Past \subseteq Past'
  BY <1>3 DEF Past
<1>4. ASSUME NEW w \in Workers, MovePending(w) PROVE UNCHANGED <<timedPackets, freed>>
  BY <1>4 DEF MovePending, timing, history
<1>5. ASSUME NEW packet \in Packet, TimerResend(packet) PROVE UNCHANGED <<timedPackets, freed>>
  BY <1>5 DEF TimerResend, timing, history
<1>6. ASSUME Still PROVE UNCHANGED <<timedPackets, freed>>
  BY <1>6 DEF Still
<1>7. Typed
  BY DEF Held, Alive
<1> QED BY <1>1, <1>2, <1>3, <1>4, <1>5, <1>6, <1>7, OtherStill

\* Only the session of its worker takes an ackable packet from a queue, and only
\* when it moves it.
LEMMA QueuedStays ==
  ASSUME Held, [Next]_vars, NEW w \in Workers, session[w].pc = "copy",
         NEW x \in AckablePacket, OutEarly(w, x)
  PROVE  OutEarly(w, x)'
<1>1. Queued(x) /\ x.worker = w /\ senderQueue \in [Workers -> Seq(Packet)]
  BY DEF OutEarly, Held, Alive, Typed, TypeOK
<1>2. ASSUME Queued(x)' PROVE OutEarly(w, x)'
  BY <1>1, <1>2 DEF OutEarly
<1>3. ASSUME UNCHANGED senderQueue PROVE Queued(x)'
  BY <1>1, <1>3 DEF Queued
<1>4. ASSUME NEW v \in Workers, SessionStep(v) PROVE Queued(x)'
  <2>1. CASE MovePending(v)
    <3>1. v # w
      BY <2>1 DEF MovePending, SessionAt
    <3>2. senderQueue'[w] = senderQueue[w]
      BY <1>1, <2>1, <3>1 DEF MovePending
    <3> QED BY <1>1, <3>2 DEF Queued
  <2>2. CASE AddTimed(v) \/ Resend(v) \/ ResendFront(v) \/ Copy(v)
    BY <1>3, <2>2 DEF AddTimed, Resend, ResendFront, Copy, queues
  <2>3. CASE Poll(v) \/ FallThrough(v)
    BY <1>1, <1>3, <2>3, SendNextQueue DEF Poll, FallThrough
  <2> QED BY <1>4, <2>1, <2>2, <2>3 DEF SessionStep
<1>5. ASSUME NEW p \in Processors, ProcessorStep(p) PROVE Queued(x)'
  BY <1>1, <1>3, <1>5, AnswerPushQueue DEF ProcessorStep, HandleAck, HandleResult, MatchEnd,
     Acknowledge, StatusWrite, AnswerTest, queues
<1>6. ASSUME SenderPush PROVE Queued(x)'
  <2>1. PICK v \in Workers : v = sender.packet.worker
    BY <1>6 DEF SenderPush, SenderAt, Held, Alive, Typed, TypeOK, Packet
  <2>2. sender.packet \in Packet /\ senderQueue[v] \in Seq(Packet)
    BY <1>1, <1>6 DEF SenderPush, SenderAt, Held, Alive, Typed, TypeOK
  <2>3. ToSet(Append(senderQueue[v], sender.packet)) = ToSet(senderQueue[v]) \cup {sender.packet}
    BY <2>2, AppendSet
  <2>4. senderQueue' = [senderQueue EXCEPT ![v] = Append(senderQueue[v], sender.packet)]
    BY <1>6, <2>1 DEF SenderPush
  <2>5. ToSet(senderQueue'[w]) = ToSet(senderQueue[w])
          \/ ToSet(senderQueue'[w]) = ToSet(senderQueue[w]) \cup {sender.packet}
    BY <1>1, <2>3, <2>4
  <2>6. x \in ToSet(senderQueue[w])
    BY <1>1 DEF Queued
  <2>7. x \in ToSet(senderQueue'[w])
    BY <2>5, <2>6
  <2>8. x \in ToSet(senderQueue'[x.worker])
    BY <1>1, <2>7
  <2> QED BY <2>8 DEF Queued
<1>7. ASSUME \/ \E d \in Data, v \in Workers : SenderCreate(d, v)
             \/ SenderAssign \/ SenderWrite \/ TimerStep \/ ListRace \/ UNCHANGED vars
      PROVE  UNCHANGED senderQueue
  BY <1>7 DEF SenderCreate, SenderAssign, SenderWrite, TimerStep, TimerWake, TimerSleep,
     TimerCheckOut, TimerResend, TimerStray, ListRace, vars, queues
<1> QED BY <1>2, <1>3, <1>4, <1>5, <1>6, <1>7 DEF Next, SenderStep

\* Where the packet a session copies out comes from.
LEMMA CopySource ==
  ASSUME Held, [Next]_vars, NEW w \in Workers, session'[w].pc = "copy", session'[w] # session[w],
         NEW x \in AckablePacket, x = session'[w].packet
  PROVE  ~Fresh(x) /\ (x \in Past \/ (x.worker = w /\ Queued(x)'))
<1>1. TypeOK /\ session \in [Workers -> SessionState]
  BY DEF Held, Alive, Typed, TypeOK, SessionState
<1>2. PICK v \in Workers : SessionStep(v)
  BY DEF Next, SenderStep, SenderCreate, SenderPush, SenderAssign, SenderWrite, ProcessorStep, HandleAck,
     HandleResult, MatchEnd, Acknowledge, StatusWrite, AnswerTest, AnswerPush, TimerStep, TimerWake,
     TimerSleep, TimerCheckOut, TimerResend, TimerStray, ListRace, vars, threads
<1>3. ASSUME NEW held \in BOOLEAN, SendNext(v, held)
      PROVE  ~Fresh(x) /\ x.worker = w /\ Queued(x)'
  <2>1. v = w
    BY <1>1, <1>3 DEF SendNext
  <2>2. PICK k \in DOMAIN senderQueue[w] :
          /\ IsAckable(Head(senderQueue[w])) /\ ~IsAckable(senderQueue[w][k])
          /\ session' = [session EXCEPT ![w] = At("copy", senderQueue[w][k-1])]
    BY <1>1, <1>3, <2>1, SendNextTakes DEF Resting, At, AckablePacket
  <2>3. senderQueue[w] \in Seq(Packet)
    BY <1>1 DEF TypeOK
  <2>4. /\ Len(senderQueue[w]) \in Nat /\ k \in 1..Len(senderQueue[w])
        /\ DOMAIN senderQueue[w] = 1..Len(senderQueue[w])
    BY <2>3, LenProperties
  <2>5. k # 1
    BY <2>2, <2>3
  <2>6. k - 1 \in DOMAIN senderQueue[w]
    BY <2>4, <2>5
  <2>7. session'[w].packet = senderQueue[w][k-1]
    BY <1>1, <2>2 DEF At
  <2>8. x \in ToSet(senderQueue[w]) /\ IsAckable(x)
    BY <2>6, <2>7 DEF ToSet, AckablePacket
  <2>9. ~Fresh(x) /\ OutEarly(w, x)
    BY <2>8, QueuedKnown
  <2>10. Queued(x)'
    BY <1>3, <2>9, SendNextQueue DEF OutEarly
  <2> QED BY <2>9, <2>10 DEF OutEarly
<1>4. CASE Poll(v)
  <2>1. CASE ackPacketPop[v]
    BY <1>1, <1>4, <2>1 DEF Poll, At
  <2>2. CASE ~ackPacketPop[v]
    BY <1>3, <1>4, <2>2 DEF Poll
  <2> QED BY <2>1, <2>2
<1>5. CASE FallThrough(v)
  BY <1>3, <1>5 DEF FallThrough
<1>6. CASE MovePending(v)
  <2>1. v = w
    BY <1>1, <1>6 DEF MovePending
  <2>2. session'[w].packet = session[w].packet
    BY <1>1, <1>6, <2>1 DEF MovePending, SessionState
  <2>3. x \in Past
    BY <1>6, <2>1, <2>2, MovePendingShape DEF Held
  <2> QED BY <2>3, PastKnown
<1>7. CASE ResendFront(v)
  <2>1. v = w /\ ackPendingQueue[w] # << >> /\ session'[w].packet = Head(ackPendingQueue[w])
    BY <1>1, <1>7 DEF ResendFront, At
  <2>2. ackPendingQueue[w] \in Seq(Packet)
    BY <1>1 DEF TypeOK
  <2>3. /\ Head(ackPendingQueue[w]) = ackPendingQueue[w][1] /\ 1 \in 1..Len(ackPendingQueue[w])
        /\ DOMAIN ackPendingQueue[w] = 1..Len(ackPendingQueue[w])
    BY <2>1, <2>2, EmptySeq, LenProperties
  <2>4. session'[w].packet \in ToSet(ackPendingQueue[w])
    BY <2>1, <2>3 DEF ToSet
  <2>5. x \in Past
    BY <2>4 DEF Held, Alive, Lifecycle, PendingTimed
  <2> QED BY <2>5, PastKnown
<1>8. CASE Resend(v) \/ AddTimed(v) \/ Copy(v)
  BY <1>1, <1>8 DEF Resend, AddTimed, Copy, At, Resting, SessionState
<1> QED BY <1>2, <1>4, <1>5, <1>6, <1>7, <1>8 DEF SessionStep

LEMMA EarlyStep ==
  ASSUME Held, Held', Early, [Next]_vars
  PROVE  Early'
<1>1. ASSUME NEW w \in Workers, NEW x \in received'[w], IsAckable(x) PROVE ~Fresh(x)'
  <2>1. x \in received[w] \/ (session[w].pc = "copy" /\ x = session[w].packet)
    <3>1. CASE UNCHANGED received
      BY <1>1, <3>1
    <3>2. ASSUME NEW v \in Workers, Copy(v)
          PROVE  x \in received[w] \/ (session[w].pc = "copy" /\ x = session[w].packet)
      BY <1>1, <3>2 DEF Copy, SessionAt, Held, Alive, Typed, TypeOK
    <3>3. UNCHANGED received \/ \E v \in Workers : Copy(v)
      BY DEF Next, SenderStep, SenderCreate, SenderPush, SenderAssign, SenderWrite, SessionStep, Poll,
         Resend, ResendFront, FallThrough, SendNext, AddTimed, MovePending, ProcessorStep, HandleAck,
         HandleResult, MatchEnd, Acknowledge, StatusWrite, AnswerTest, AnswerPush, TimerStep, TimerWake,
         TimerSleep, TimerCheckOut, TimerResend, TimerStray, ListRace, vars, history
    <3> QED BY <3>1, <3>2, <3>3
  <2>2. ASSUME session[w].pc = "copy", x = session[w].packet PROVE ~Fresh(x)
    <3>1. session[w] = At("copy", x) /\ x \in AckablePacket
      BY <1>1, <2>2 DEF At, AckablePacket, Held, Alive, Typed, TypeOK
    <3> QED BY <3>1 DEF Early
  <2>3. ~Fresh(x)
    BY <1>1, <2>1, <2>2 DEF Early
  <2> QED BY <2>3, FreshShrinks
<1>2. ASSUME NEW w \in Workers, NEW x \in AckablePacket, session'[w] = At("copy", x)
      PROVE  ~Fresh(x)' /\ (x \in Past' \/ OutEarly(w, x)')
  <2>1. session'[w].pc = "copy" /\ session'[w].packet = x
    BY <1>2 DEF At
  <2>2. CASE session'[w] = session[w]
    <3>1. session[w].pc = "copy" /\ session[w] = At("copy", x)
      BY <1>2, <2>1, <2>2
    <3>2. ~Fresh(x) /\ (x \in Past \/ OutEarly(w, x))
      BY <3>1 DEF Early
    <3>3. ~Fresh(x)'
      BY <3>2, FreshShrinks
    <3>4. x \in Past => x \in Past'
      BY PastGrows
    <3>5. OutEarly(w, x) => OutEarly(w, x)'
      BY <3>1, QueuedStays
    <3> QED BY <3>2, <3>3, <3>4, <3>5
  <2>3. CASE session'[w] # session[w]
    <3>1. ~Fresh(x) /\ (x \in Past \/ (x.worker = w /\ Queued(x)'))
      BY <2>1, <2>3, CopySource
    <3>2. ~Fresh(x)'
      BY <3>1, FreshShrinks
    <3>3. x \in Past' \/ OutEarly(w, x)'
      BY <3>1, PastGrows DEF OutEarly
    <3> QED BY <3>2, <3>3
  <2> QED BY <2>2, <2>3
<1> QED BY <1>1, <1>2 DEF Early

\* The copy of a queued packet that was not timed is one ahead of its turn; that of
\* any other changes nothing for the ledger.
LEMMA CopyLedger ==
  ASSUME Held, Early, NEW w \in Workers, Copy(w)
  PROVE  Keeps
<1>0. PICK packet \in Packet : packet = session[w].packet
  BY DEF Copy, SessionAt, Held, Alive, Typed, TypeOK
<1>1. /\ session[w] = At("copy", packet)
      /\ received \in [Workers -> SUBSET Packet]
      /\ received' = [received EXCEPT ![w] = @ \cup {packet}]
      /\ UNCHANGED <<senderQueue, timedPackets, freed, created, sender>>
  BY <1>0 DEF Copy, SessionAt, At, queues, timing, Held, Alive, Typed, TypeOK
<1>2. \A x \in AckablePacket : (Queued(x)' <=> Queued(x)) /\ (Fresh(x)' <=> Fresh(x))
  BY <1>1 DEF Queued, Fresh
<1>3. (~Fresh(packet) /\ (packet \in Past \/ OutEarly(w, packet))) \/ ~IsAckable(packet)
  BY <1>1 DEF Early, AckablePacket
<1>4. \A x : x # packet => (SentEarly(x)' <=> SentEarly(x))
  BY <1>1 DEF SentEarly
<1>5. \A x \in AckablePacket : x # packet => StateOf(x)' = StateOf(x)
  BY <1>1, <1>2, <1>4, StateSame
<1>6. CASE ~IsAckable(packet)
  <2>1. \A x \in AckablePacket : StateOf(x)' = StateOf(x)
    BY <1>5, <1>6 DEF AckablePacket
  <2> QED BY <2>1, LedgerSame DEF Keeps
<1>7. CASE IsAckable(packet) /\ (packet \in Past \/ SentEarly(packet))
  <2>1. packet \in AckablePacket
    BY <1>1, <1>7 DEF AckablePacket
  <2>2. SentEarly(packet)'
    BY <1>1 DEF SentEarly
  <2>3. StateOf(packet)' = StateOf(packet)
    BY <1>1, <1>2, <1>7, <2>1, <2>2, StateSame
  <2>4. \A x \in AckablePacket : StateOf(x)' = StateOf(x)
    BY <1>5, <2>3
  <2> QED BY <2>4, LedgerSame DEF Keeps
<1>8. CASE IsAckable(packet) /\ packet \notin Past /\ ~SentEarly(packet)
  <2>1. packet \in AckablePacket
    BY <1>1, <1>8 DEF AckablePacket
  <2>2. Queued(packet) /\ Queued(packet)' /\ SentEarly(packet)'
    BY <1>1, <1>2, <1>3, <1>8, <2>1 DEF OutEarly, SentEarly
  <2>3. StateOf(packet) = "queued"
    BY <1>8, <2>2 DEF StateOf, Queued, Past
  <2>4. StateOf(packet)' = "early"
    <3>1. packet \notin freed' /\ packet \notin ToSet(timedPackets')
      BY <1>1, <1>8 DEF Past
    <3> QED BY <2>2, <3>1 DEF StateOf, Queued
  <2>5. PacketLedger!Becomes(packet, "queued", "early")
    BY <1>5, <2>1, <2>3, <2>4, LedgerMove
  <2> QED BY <2>1, <2>5 DEF Keeps, PacketLedger!Next, PacketLedger!Early
<1> QED BY <1>6, <1>7, <1>8

LEMMA QuietLedger ==
  ASSUME UNCHANGED <<timedPackets, freed, created, received>>,
         (sender.pc # "push" /\ sender'.pc # "push") \/ UNCHANGED sender,
         \A x \in AckablePacket : Queued(x)' <=> Queued(x)
  PROVE  Keeps
<1>1. \A x \in AckablePacket : StateOf(x)' = StateOf(x)
  <2> TAKE x \in AckablePacket
  <2>1. Fresh(x)' <=> Fresh(x)
    BY DEF Fresh, At
  <2>2. SentEarly(x)' <=> SentEarly(x)
    BY DEF SentEarly
  <2> QED BY <2>1, <2>2, StateSame
<1> QED BY <1>1, LedgerSame DEF Keeps

LEMMA LedgerStep ==
  ASSUME Held, Early, WindowKept, [Next]_vars
  PROVE  Keeps
<1>1. ASSUME UNCHANGED senderQueue PROVE \A x \in AckablePacket : Queued(x)' <=> Queued(x)
  BY <1>1 DEF Queued
<1>2. ASSUME NEW w \in Workers, SessionStep(w), ~AddTimed(w), ~MovePending(w), ~Copy(w)
      PROVE  Keeps
  <2>1. UNCHANGED <<timedPackets, freed, created, sender>>
    BY <1>2, SessionStill DEF Still, Held, Alive
  <2>3. UNCHANGED received
    BY <1>2 DEF SessionStep, Poll, Resend, ResendFront, FallThrough, SendNext, history
  <2>2. \A x \in AckablePacket : Queued(x)' <=> Queued(x)
    BY <1>1, <1>2, SendNextQueue DEF SessionStep, Poll, Resend, ResendFront, FallThrough, queues
  <2> QED BY <2>1, <2>2, <2>3, QuietLedger
<1>3. ASSUME NEW p \in Processors, AnswerPush(p) PROVE Keeps
  <2>1. UNCHANGED <<timedPackets, freed, created, sender, received>>
    BY <1>3 DEF AnswerPush, timing, history
  <2> QED BY <1>3, <2>1, AnswerPushQueue, QuietLedger
<1>4. ASSUME NEW p \in Processors, ProcessorStep(p), ~MatchEnd(p), ~AnswerPush(p) PROVE Keeps
  <2>1. UNCHANGED <<senderQueue, timedPackets, freed, created, sender, received>>
    BY <1>4 DEF ProcessorStep, HandleAck, HandleResult, StatusWrite, AnswerTest, queues, timing, history
  <2> QED BY <1>1, <2>1, QuietLedger
<1>5. CASE SenderAssign \/ SenderWrite
  <2>1. /\ UNCHANGED <<senderQueue, timedPackets, freed, created, received>>
        /\ sender.pc # "push" /\ sender'.pc # "push"
    BY <1>5 DEF SenderAssign, SenderWrite, SenderAt, At, Resting, queues, timing, history
  <2> QED BY <1>1, <2>1, QuietLedger
<1>6. CASE TimerStep \/ ListRace \/ UNCHANGED vars
  <2>1. UNCHANGED <<senderQueue, timedPackets, freed, created, sender, received>>
    BY <1>6 DEF TimerStep, TimerWake, TimerSleep, TimerCheckOut, TimerResend, TimerStray, ListRace, vars,
       queues, timing, history, threads
  <2> QED BY <1>1, <2>1, QuietLedger
<1> QED BY <1>2, <1>3, <1>4, <1>5, <1>6, SenderCreateLedger, SenderPushLedger, AddTimedLedger,
           CopyLedger, MovePendingLedger, MatchEndLedger DEF Next, SenderStep

\* WorkerNode implements Ledger for any number of workers, tables, templates and
\* processors and any queue size, broken locks and resends included: no packet that
\* was queued disappears before it is acknowledged, no acknowledgement counts for one
\* that was not timed, and no more packets of a worker are timed than the window
\* allows.  The packet that erase(i--) sends ahead of its turn (worker.cpp:114) is
\* not counted by the window; it is one of the worker's own queue, stays there, and
\* is sent again in its turn.
THEOREM LedgerKept == Spec => KeepsLedger
<1>1. Init => PacketLedger!Init
  <2> SUFFICES ASSUME Init PROVE PacketLedger!Init
    OBVIOUS
  <2>1. ToSet(<< >>) = {}
    BY DEF ToSet
  <2>2. \A x \in AckablePacket : StateOf(x) = "new"
    BY <2>1 DEF Init, StateOf, AckablePacket, Packet
  <2> QED BY <2>2 DEF PacketLedger!Init
<1>2. Init => WindowKept /\ Early
  BY DEF Init, WindowKept, Early, Resting, At
<1>3. Held /\ Held' /\ Early /\ WindowKept /\ [Next]_vars =>
        /\ Early' /\ WindowKept'
        /\ [PacketLedger!Next]_[p \in AckablePacket |-> StateOf(p)]
  BY EarlyStep, WindowStep, LedgerStep DEF Keeps
<1> QED BY <1>1, <1>2, <1>3, HeldInvariant, PTL DEF Spec, KeepsLedger, PacketLedger!Spec
=============================================================================
