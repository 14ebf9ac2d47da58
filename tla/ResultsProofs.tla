---------------------------- MODULE ResultsProofs ----------------------------
(***************************************************************************)
(* What holds of the results for any number of tables, processors, packets *)
(* and failed database writes.                                             *)
(***************************************************************************)
EXTENDS Results, SequenceTheorems, TLAPS

\* More than TypeOK: what reports a status is not an acknowledgement, and a result
\* or a file is that of a packet already taken.
Typed ==
  /\ TypeOK
  /\ Len(arrived) <= MaxPackets
  /\ \A p \in Processors :
       pc[p] \in {"compare", "status", "assign"} => Reports(Of(p))
  /\ \A t \in Tables : interFile[t] \in (0..taken) \cup {Empty, Torn}
  /\ \A t \in Tables : finalFile[t] \in (0..taken) \cup {Empty, Torn}

\* What a packet reports is a status of the registry, and the one its head names.
LEMMA ReportRange ==
  ASSUME NEW k \in Packet, Reports(k)
  PROVE  ReportOf(k) \in {DATA_INTER, DATA_FINAL, DATA_ERROR}
BY DEF Packet, Heads, Reports, ReportOf

\* A packet that arrives leaves those that were there where they are.
LEMMA Arrival ==
  ASSUME Typed, NEW k \in Sent, Arrive(k)
  PROVE  /\ arrived' \in Seq(Packet)
         /\ Len(arrived') = Len(arrived) + 1 /\ Len(arrived) \in Nat
         /\ \A n \in 1..Len(arrived) : arrived'[n] = arrived[n]
         /\ \A n \in 1..taken : arrived'[n] = arrived[n]
<1>1. k \in Packet /\ arrived \in Seq(Packet)
  BY SentAssumption DEF Typed, TypeOK
<1>2. taken <= Len(arrived) /\ taken \in Nat /\ Len(arrived) \in Nat
  BY <1>1, LenProperties DEF Typed, TypeOK
<1> QED BY <1>1, <1>2, AppendProperties DEF Arrive

\* The types hold at the start.
LEMMA TypedInit == Init => Typed
<1> SUFFICES ASSUME Init
             PROVE  Typed
  OBVIOUS
<1>1. arrived \in Seq(Packet) /\ Len(arrived) = 0 /\ taken = 0
  BY DEF Init
<1>2. 0 \in Content /\ 0 <= MaxPackets
  BY ResultsAssumption DEF Content, Torn
<1>3. "idle" \in Places /\ DATA_QUEUED \in Statuses
  BY DEF Places, Statuses
<1>4. TypeOK
  <2>1. /\ taken \in 0..Len(arrived)
        /\ pc \in [Processors -> Places]
        /\ packet \in [Processors -> 0..taken]
        /\ \A p \in Processors : pc[p] = "idle"
    BY <1>1, <1>3 DEF Init
  <2>2. /\ core \in [Tables -> {"todo", "compare", "status", "assign", "done"}]
        /\ taskStatus \in [Tables -> Statuses]
        /\ dbStatus \in [Tables -> Statuses]
        /\ dbResult \in [Tables -> 0..taken]
    BY <1>1, <1>3 DEF Init, Nothing
  <2>3. interFile \in [Tables -> Content] /\ finalFile \in [Tables -> Content]
    BY <1>2 DEF Init, Nothing
  <2> QED BY <1>1, <2>1, <2>2, <2>3 DEF Init, TypeOK
<1> QED BY <1>1, <1>2, <1>4 DEF Init, Typed, Nothing

\* A packet arrives: nobody's hand changes.
LEMMA TypedArrive ==
  ASSUME Typed, NEW k \in Sent, Arrive(k)
  PROVE  Typed'
<1>1. \A p \in Processors : pc[p] # "idle" => Of(p)' = Of(p)
  BY Arrival DEF Typed, TypeOK, Arrive, Of
<1>2. TypeOK'
  <2>1. arrived' \in Seq(Packet) /\ taken' \in 0..Len(arrived')
    BY Arrival DEF Typed, TypeOK, Arrive
  <2> QED BY <1>1, <2>1 DEF Typed, TypeOK, Arrive, files, history
<1>3. Len(arrived') <= MaxPackets
  BY Arrival, ResultsAssumption DEF Arrive
<1> QED BY <1>1, <1>2, <1>3 DEF Typed, Arrive, files, history

\* A processor that is not idle has a packet in hand.
LEMMA InHand ==
  ASSUME Typed, NEW p \in Processors, pc[p] # "idle"
  PROVE  /\ packet[p] \in 1..taken /\ packet[p] \in 1..Len(arrived)
         /\ Of(p) \in Packet
<1>1. taken \in Nat /\ taken <= Len(arrived) /\ Len(arrived) \in Nat
  BY LenProperties DEF Typed, TypeOK
<1>2. packet[p] \in 1..taken /\ packet[p] \in 1..Len(arrived)
  BY <1>1 DEF Typed, TypeOK
<1> QED BY <1>2, ElementOfSeq DEF Typed, TypeOK, Of

\* What a processor reports is a status.
LEMMA Reported ==
  ASSUME Typed, NEW p \in Processors, pc[p] \in {"compare", "status", "assign"}
  PROVE  ReportOf(Of(p)) \in {DATA_INTER, DATA_FINAL, DATA_ERROR}
BY InHand, ReportRange DEF Typed

\* A file that is opened or written holds what a file may hold.
LEMMA Filed ==
  ASSUME Typed, NEW p \in Processors, Of(p).id \in Tables,
         NEW value \in (0..taken) \cup {Empty, Torn}, InFile(p, value)
  PROVE  /\ interFile' \in [Tables -> Content] /\ finalFile' \in [Tables -> Content]
         /\ \A t \in Tables : interFile'[t] \in (0..taken) \cup {Empty, Torn}
         /\ \A t \in Tables : finalFile'[t] \in (0..taken) \cup {Empty, Torn}
<1>1. value \in Content
  BY ResultsAssumption, LenProperties DEF Typed, TypeOK, Content, Empty, Torn
<1> QED BY <1>1 DEF Typed, TypeOK, InFile

\* The status column takes a status, or the write fails.
LEMMA StatusWritten ==
  ASSUME Typed, NEW t \in Tables, NEW value \in Statuses, DbWrite(dbStatus, t, value)
  PROVE  /\ dbStatus' \in [Tables -> Statuses] /\ spoiled' \subseteq Tables
         /\ failures' \in Nat /\ crashed' \in BOOLEAN
<1>1. dbStatus \in [Tables -> Statuses] /\ spoiled \subseteq Tables
      /\ failures \in Nat /\ crashed \in BOOLEAN
  BY DEF Typed, TypeOK
<1>2. CASE /\ dbStatus' = [dbStatus EXCEPT ![t] = value]
           /\ UNCHANGED <<spoiled, failures, crashed>>
  <2>1. dbStatus' \in [Tables -> Statuses]
    BY <1>1, <1>2
  <2> QED BY <1>1, <1>2, <2>1
<1>3. CASE /\ failures' = failures + 1 /\ spoiled' = spoiled \cup {t}
           /\ crashed' \in BOOLEAN /\ UNCHANGED dbStatus
  BY <1>1, <1>3
<1> QED BY <1>2, <1>3 DEF DbWrite

\* A processor takes the next packet.
LEMMA TypedTake ==
  ASSUME Typed, NEW p \in Processors, TakePacket(p)
  PROVE  Typed'
BY LenProperties DEF Typed, TypeOK, TakePacket, At, Goto, FirstPlace, Of, Places, files

\* An entry of the table is looked for.
LEMMA TypedFindMatch ==
  ASSUME Typed, NEW p \in Processors, FindMatch(p)
  PROVE  Typed'
BY DEF Typed, TypeOK, FindMatch, At, Goto, Of, Places, files, history

\* The file is opened.
LEMMA TypedOpenCsv ==
  ASSUME Typed, NEW p \in Processors, OpenCsv(p)
  PROVE  Typed'
<1>1. pc[p] = "open" /\ Of(p).id \in Tables /\ InFile(p, Empty)
  BY DEF Typed, TypeOK, OpenCsv, At
<1>2. /\ interFile' \in [Tables -> Content] /\ finalFile' \in [Tables -> Content]
      /\ \A t \in Tables : interFile'[t] \in (0..taken) \cup {Empty, Torn}
      /\ \A t \in Tables : finalFile'[t] \in (0..taken) \cup {Empty, Torn}
  BY <1>1, Filed
<1> QED BY <1>1, <1>2 DEF Typed, TypeOK, OpenCsv, Goto, Of, Places, history

\* The data are written, or torn.
LEMMA TypedWriteCsv ==
  ASSUME Typed, NEW p \in Processors, WriteCsv(p)
  PROVE  Typed'
<1>1. /\ pc[p] = "write" /\ Of(p).id \in Tables /\ packet[p] \in 1..taken
      /\ \E content \in {packet[p], Torn} : InFile(p, content)
  BY InHand DEF Typed, TypeOK, WriteCsv, At
<1>2. /\ interFile' \in [Tables -> Content] /\ finalFile' \in [Tables -> Content]
      /\ \A t \in Tables : interFile'[t] \in (0..taken) \cup {Empty, Torn}
      /\ \A t \in Tables : finalFile'[t] \in (0..taken) \cup {Empty, Torn}
  <2>1. PICK content \in {packet[p], Torn} : InFile(p, content)
    BY <1>1
  <2>2. content \in (0..taken) \cup {Empty, Torn}
    BY <1>1, <2>1
  <2> QED BY <1>1, <2>1, <2>2, Filed
<1>3. /\ stored' \subseteq 1..taken
      /\ Goto(p, "worker") \/ Goto(p, "db")
  BY <1>1 DEF WriteCsv, Typed, TypeOK
<1>4. UNCHANGED <<arrived, taken, packet, core, taskStatus, dbStatus, dbResult,
                  confirmed, overlapped, spoiled, failures, crashed>>
  BY DEF WriteCsv
<1> QED BY <1>1, <1>2, <1>3, <1>4 DEF Typed, TypeOK, Goto, Of, Places

\* The data go to the database, or the write fails.
LEMMA TypedPushDataToDb ==
  ASSUME Typed, NEW p \in Processors, PushDataToDb(p)
  PROVE  Typed'
<1>1. pc[p] = "db" /\ Of(p).id \in Tables /\ packet[p] \in 1..taken
  BY InHand DEF Typed, TypeOK, PushDataToDb, At
<1>2. /\ dbResult' \in [Tables -> 0..taken] /\ spoiled' \subseteq Tables
      /\ failures' \in Nat /\ crashed' \in BOOLEAN
  BY <1>1 DEF PushDataToDb, DbWrite, Typed, TypeOK
<1>3. stored' \subseteq 1..taken /\ Goto(p, "worker")
  BY <1>1 DEF PushDataToDb, Typed, TypeOK
<1>4. UNCHANGED <<arrived, taken, packet, core, taskStatus, dbStatus, files,
                  confirmed, overlapped>>
  BY DEF PushDataToDb
<1> QED BY <1>1, <1>2, <1>3, <1>4 DEF Typed, TypeOK, Goto, Of, Places, files

\* The worker of the packet is looked for.
LEMMA TypedLookUpWorker ==
  ASSUME Typed, NEW p \in Processors, LookUpWorker(p)
  PROVE  Typed'
BY DEF Typed, TypeOK, LookUpWorker, At, Goto, Of, Places, files, history

\* A processor compares the status.
LEMMA TypedCompareStatus ==
  ASSUME Typed, NEW p \in Processors, CompareStatus(p)
  PROVE  Typed'
BY DEF Typed, TypeOK, CompareStatus, At, Goto, AfterCompare, Of, Places, files, history

\* A processor writes the status column.
LEMMA TypedWriteStatus ==
  ASSUME Typed, NEW p \in Processors, WriteStatus(p)
  PROVE  Typed'
<1>1. /\ pc[p] = "status" /\ Of(p).id \in Tables /\ packet[p] \in 1..taken
      /\ ReportOf(Of(p)) \in Statuses
  BY Reported, InHand DEF Typed, TypeOK, WriteStatus, At, Statuses
<1>2. /\ dbStatus' \in [Tables -> Statuses] /\ spoiled' \subseteq Tables
      /\ failures' \in Nat /\ crashed' \in BOOLEAN
  <2>1. DbWrite(dbStatus, Of(p).id, ReportOf(Of(p)))
    BY DEF WriteStatus
  <2> QED BY <1>1, <2>1, StatusWritten
<1>3. confirmed' \subseteq 1..taken /\ Goto(p, "assign")
  BY <1>1 DEF WriteStatus, Typed, TypeOK
<1>4. UNCHANGED <<arrived, taken, packet, core, taskStatus, dbResult, files, stored,
                  overlapped>>
  BY DEF WriteStatus
<1> QED BY <1>1, <1>2, <1>3, <1>4 DEF Typed, TypeOK, Goto, Of, Places, files

\* A processor assigns the status.
LEMMA TypedAssignStatus ==
  ASSUME Typed, NEW p \in Processors, AssignStatus(p)
  PROVE  Typed'
BY Reported DEF Typed, TypeOK, AssignStatus, At, Goto, Statuses, Of, Places, files, history

\* A processor answers the worker and is idle again.
LEMMA TypedAnswer ==
  ASSUME Typed, NEW p \in Processors, Answer(p)
  PROVE  Typed'
<1>1. packet[p] \in 1..taken
  BY InHand DEF Typed, TypeOK, Answer, At
<1>2. confirmed' \subseteq 1..taken /\ Goto(p, "idle")
  BY <1>1 DEF Answer, Typed, TypeOK
<1>3. UNCHANGED <<arrived, taken, packet, core, taskStatus, dbStatus, dbResult, files, stored,
                  overlapped, spoiled, failures, crashed>>
  BY DEF Answer
<1> QED BY <1>2, <1>3 DEF Typed, TypeOK, Goto, Of, Places, files

\* The sender core queues a table.
LEMMA TypedQueueTable ==
  ASSUME Typed, NEW t \in Tables, QueueTable(t)
  PROVE  Typed'
BY DEF Typed, TypeOK, QueueTable, CoreAt, Of, files, history

\* The sender core compares the status.
LEMMA TypedCoreCompare ==
  ASSUME Typed, NEW t \in Tables, CoreCompare(t)
  PROVE  Typed'
BY DEF Typed, TypeOK, CoreCompare, CoreAt, Of, files, history

\* The sender core writes the status column.
LEMMA TypedCoreWrite ==
  ASSUME Typed, NEW t \in Tables, CoreWrite(t)
  PROVE  Typed'
<1>1. /\ dbStatus' \in [Tables -> Statuses] /\ spoiled' \subseteq Tables
      /\ failures' \in Nat /\ crashed' \in BOOLEAN
  <2>1. DbWrite(dbStatus, t, DATA_READY) /\ DATA_READY \in Statuses
    BY DEF CoreWrite, Statuses
  <2> QED BY <2>1, StatusWritten
<1> QED BY <1>1 DEF Typed, TypeOK, CoreWrite, CoreAt, Of, files

\* The sender core assigns the status.
LEMMA TypedCoreAssign ==
  ASSUME Typed, NEW t \in Tables, CoreAssign(t)
  PROVE  Typed'
BY DEF Typed, TypeOK, CoreAssign, CoreAt, Statuses, Of, files, history

\* Every step keeps the types.
LEMMA TypedStep == Typed /\ [Next]_vars => Typed'
<1> SUFFICES ASSUME Typed, [Next]_vars
             PROVE  Typed'
  OBVIOUS
<1>1. ASSUME NEW k \in Sent, Arrive(k)
      PROVE  Typed'
  BY <1>1, TypedArrive
<1>2. ASSUME NEW p \in Processors, Process(p)
      PROVE  Typed'
  BY <1>2, TypedTake, TypedFindMatch, TypedOpenCsv, TypedWriteCsv, TypedPushDataToDb,
     TypedLookUpWorker, TypedCompareStatus, TypedWriteStatus, TypedAssignStatus,
     TypedAnswer DEF Process
<1>3. ASSUME NEW t \in Tables, SenderCore(t)
      PROVE  Typed'
  BY <1>3, TypedQueueTable, TypedCoreCompare, TypedCoreWrite, TypedCoreAssign
     DEF SenderCore
<1>4. CASE UNCHANGED vars
  BY <1>4 DEF vars, files, history, Typed, TypeOK, Of
<1> QED BY <1>1, <1>2, <1>3, <1>4 DEF Next

\* Only packets of tables with an entry get as far as a file or a status, and files,
\* columns and statuses hold what they may.
THEOREM ResultsTyping == Spec => []TypeOK
<1>1. Spec => []Typed
  BY TypedInit, TypedStep, PTL DEF Spec
<1>2. Typed => TypeOK
  BY DEF Typed
<1> QED BY <1>1, <1>2, PTL
-----------------------------------------------------------------------------
(***************************************************************************)
(* Results of the two kinds stay apart.                                    *)
(***************************************************************************)

\* What is about to go to the database is not an intermediate result.
FinalToDb ==
  \A p \in Processors : pc[p] = "db" => Of(p).head # "P_INTR_RES"

\* If n, what a file or a column holds, is a packet, it is one of the kind meant.
IsResultOf(n, t, isFinal) ==
  n \in 1..MaxPackets =>
    arrived[n].id = t /\ (arrived[n].head # "P_INTR_RES" <=> isFinal)

Kinds ==
  \A t \in Tables :
    /\ IsResultOf(dbResult[t], t, TRUE)
    /\ IsResultOf(finalFile[t], t, TRUE)
    /\ IsResultOf(interFile[t], t, FALSE)

\* A packet that arrives does not change what is held.
LEMMA KindsArrive ==
  ASSUME Typed, Kinds, NEW k \in Sent, Arrive(k)
  PROVE  Kinds'
<1>1. ASSUME NEW n \in (0..taken) \cup {Empty, Torn}, NEW t, NEW isFinal,
             IsResultOf(n, t, isFinal)
      PROVE  IsResultOf(n, t, isFinal)'
  <2>1. CASE n \in 1..taken
    BY <1>1, <2>1, Arrival DEF IsResultOf
  <2>2. CASE n \notin 1..taken
    <3>1. n \notin 1..MaxPackets
      BY <2>2, ResultsAssumption DEF Empty, Torn, Typed, TypeOK
    <3> QED BY <3>1 DEF IsResultOf
  <2> QED BY <2>1, <2>2
<1>2. \A t \in Tables : dbResult[t] \in 0..taken
  BY DEF Typed, TypeOK
<1> QED BY <1>1, <1>2 DEF Kinds, Typed, Arrive, files

\* Nor does opening a file, or writing to it the data it is for.
LEMMA KindsFile ==
  ASSUME Typed, Kinds, NEW p \in Processors, pc[p] # "idle", Of(p).id \in Tables,
         NEW value \in {packet[p], Empty, Torn}, InFile(p, value),
         UNCHANGED <<arrived, dbResult>>
  PROVE  Kinds'
<1>1. IsResultOf(value, Of(p).id, Of(p).head # "P_INTR_RES")
  <2>1. CASE value = packet[p]
    BY <2>1 DEF IsResultOf, Of
  <2>2. CASE value \in {Empty, Torn}
    BY <2>2, ResultsAssumption DEF IsResultOf, Empty, Torn
  <2> QED BY <2>1, <2>2
<1>2. CASE Of(p).head = "P_INTR_RES"
  <2>1. /\ interFile' = [interFile EXCEPT ![Of(p).id] = value]
        /\ UNCHANGED finalFile
    BY <1>2 DEF InFile, IsIntermediate
  <2>2. \A t \in Tables :
          interFile'[t] = interFile[t] \/ (t = Of(p).id /\ interFile'[t] = value)
    BY <2>1 DEF Typed, TypeOK
  <2> QED BY <1>1, <1>2, <2>1, <2>2 DEF Kinds, IsResultOf
<1>3. CASE Of(p).head # "P_INTR_RES"
  <2>1. /\ finalFile' = [finalFile EXCEPT ![Of(p).id] = value]
        /\ UNCHANGED interFile
    BY <1>3 DEF InFile, IsIntermediate
  <2>2. \A t \in Tables :
          finalFile'[t] = finalFile[t] \/ (t = Of(p).id /\ finalFile'[t] = value)
    BY <2>1 DEF Typed, TypeOK
  <2> QED BY <1>1, <1>3, <2>1, <2>2 DEF Kinds, IsResultOf
<1> QED BY <1>2, <1>3

\* Every step keeps the kinds apart.
LEMMA KindsStep == Typed /\ Kinds /\ FinalToDb /\ [Next]_vars => Kinds' /\ FinalToDb'
<1> SUFFICES ASSUME Typed, Kinds, FinalToDb, [Next]_vars
             PROVE  Kinds' /\ FinalToDb'
  OBVIOUS
<1>1. ASSUME NEW k \in Sent, Arrive(k)
      PROVE  Kinds' /\ FinalToDb'
  <2>1. FinalToDb'
    BY <1>1, Arrival, InHand DEF FinalToDb, Arrive, Of
  <2> QED BY <1>1, <2>1, KindsArrive
<1>2. ASSUME NEW p \in Processors, OpenCsv(p)
      PROVE  Kinds' /\ FinalToDb'
  <2>1. pc[p] # "idle" /\ Of(p).id \in Tables
    BY <1>2 DEF OpenCsv, At, Typed, TypeOK
  <2>2. Kinds'
    BY <1>2, <2>1, KindsFile DEF OpenCsv
  <2> QED BY <1>2, <2>2 DEF OpenCsv, FinalToDb, Of, Goto, Typed, TypeOK
<1>3. ASSUME NEW p \in Processors, WriteCsv(p)
      PROVE  Kinds' /\ FinalToDb'
  <2>1. pc[p] # "idle" /\ Of(p).id \in Tables
    BY <1>3 DEF WriteCsv, At, Typed, TypeOK
  <2>2. \E value \in {packet[p], Torn} : InFile(p, value)
    BY <1>3 DEF WriteCsv
  <2>3. Kinds'
    BY <1>3, <2>1, <2>2, KindsFile DEF WriteCsv
  <2>4. FinalToDb'
    BY <1>3 DEF WriteCsv, FinalToDb, IsIntermediate, Of, Goto, Typed, TypeOK
  <2> QED BY <2>3, <2>4
<1>4. ASSUME NEW p \in Processors, PushDataToDb(p)
      PROVE  Kinds' /\ FinalToDb'
  <2>1. pc[p] = "db" /\ Of(p).id \in Tables
    BY <1>4 DEF PushDataToDb, At, Typed, TypeOK
  <2>2. IsResultOf(packet[p], Of(p).id, TRUE)
    BY <2>1 DEF FinalToDb, IsResultOf, Of
  <2>3. \A t \in Tables :
          dbResult'[t] = dbResult[t] \/ (t = Of(p).id /\ dbResult'[t] = packet[p])
    BY <1>4, <2>1 DEF PushDataToDb, DbWrite, Typed, TypeOK
  <2>4. Kinds'
    BY <1>4, <2>2, <2>3 DEF PushDataToDb, Kinds, IsResultOf, files
  <2> QED BY <1>4, <2>4 DEF PushDataToDb, FinalToDb, Of, Goto, Typed, TypeOK
<1>5. ASSUME NEW p \in Processors,
             TakePacket(p) \/ FindMatch(p) \/ LookUpWorker(p) \/ CompareStatus(p)
               \/ WriteStatus(p) \/ AssignStatus(p) \/ Answer(p)
      PROVE  Kinds' /\ FinalToDb'
  <2>1. UNCHANGED <<arrived, dbResult, interFile, finalFile>>
    BY <1>5 DEF TakePacket, FindMatch, LookUpWorker, CompareStatus, WriteStatus,
       AssignStatus, Answer, files
  <2>2. /\ pc'[p] # "db"
        /\ \A q \in Processors \ {p} : pc'[q] = pc[q] /\ packet'[q] = packet[q]
    BY <1>5 DEF TakePacket, FirstPlace, FindMatch, LookUpWorker, CompareStatus,
       AfterCompare, WriteStatus, AssignStatus, Answer, Goto, Typed, TypeOK
  <2> QED BY <2>1, <2>2 DEF Kinds, FinalToDb, IsResultOf, Of
<1>6. ASSUME NEW t \in Tables, SenderCore(t)
      PROVE  Kinds' /\ FinalToDb'
  BY <1>6 DEF SenderCore, QueueTable, CoreCompare, CoreWrite, CoreAssign, files,
     Kinds, FinalToDb, IsResultOf, Of
<1>7. CASE UNCHANGED vars
  BY <1>7 DEF vars, files, Kinds, FinalToDb, IsResultOf, Of
<1> QED BY <1>1, <1>2, <1>3, <1>4, <1>5, <1>6, <1>7 DEF Next, Process

\* process_data_packet.cpp: whatever overtakes whatever, no intermediate result gets
\* into the database or the final file, and no other into the intermediate one.
THEOREM KindsStayApart == Spec => []KindsApart
<1>1. Init => Kinds /\ FinalToDb
  BY DEF Init, Kinds, FinalToDb, IsResultOf, Nothing
<1>2. Spec => []Typed
  BY TypedInit, TypedStep, PTL DEF Spec
<1>3. Kinds => KindsApart
  <2> SUFFICES ASSUME Kinds
               PROVE  KindsApart
    OBVIOUS
  <2>1. ASSUME NEW t \in Tables, NEW n \in {dbResult[t], finalFile[t]} \cap 1..MaxPackets
        PROVE  arrived[n].id = t /\ arrived[n].head # "P_INTR_RES"
    BY <2>1 DEF Kinds, IsResultOf
  <2>2. ASSUME NEW t \in Tables, interFile[t] \in 1..MaxPackets
        PROVE  arrived[interFile[t]].id = t /\ arrived[interFile[t]].head = "P_INTR_RES"
    BY <2>2 DEF Kinds, IsResultOf
  <2> QED BY <2>1, <2>2 DEF KindsApart
<1> QED BY <1>1, <1>2, <1>3, KindsStep, PTL DEF Spec
-----------------------------------------------------------------------------
(***************************************************************************)
(* A result is stored before it is reported or answered.                   *)
(***************************************************************************)
Storable(n) == arrived[n].form = "full" /\ arrived[n].id \in Tables

\* A processor is done with the data of a packet before it comes to its status.
StoredOnTheWay ==
  \A p \in Processors :
    pc[p] \in {"worker", "compare", "status", "assign", "answer"} /\ Storable(packet[p])
      => packet[p] \in stored

ConfirmedStored == \A n \in confirmed : Storable(n) => n \in stored

\* A packet that is confirmed has a table with an entry.
ConfirmedHere == \A n \in confirmed : arrived[n].id \in Tables

Storing == StoredOnTheWay /\ ConfirmedStored /\ ConfirmedHere

\* Every step keeps the data of what is reported stored.
LEMMA StoringStep == Typed /\ Storing /\ [Next]_vars => Storing'
<1> SUFFICES ASSUME Typed, Storing, [Next]_vars
             PROVE  Storing'
  OBVIOUS
<1> USE DEF Storing
<1>1. ASSUME NEW k \in Sent, Arrive(k)
      PROVE  Storing'
  <2>1. \A p \in Processors : pc[p] # "idle" => packet[p] \in 1..taken
    BY InHand
  <2>2. \A n \in 1..taken : Storable(n)' = Storable(n)
    BY <1>1, Arrival DEF Storable
  <2>3. \A n \in confirmed : n \in 1..taken /\ arrived'[n] = arrived[n]
    BY <1>1, Arrival DEF Typed, TypeOK
  <2> QED BY <1>1, <2>1, <2>2, <2>3
          DEF Arrive, history, StoredOnTheWay, ConfirmedStored, ConfirmedHere
<1>2. ASSUME NEW p \in Processors, TakePacket(p)
      PROVE  Storing'
  <2>1. StoredOnTheWay'
    <3>1. \A q \in Processors \ {p} : pc'[q] = pc[q] /\ packet'[q] = packet[q]
      BY <1>2 DEF TakePacket, Goto, Typed, TypeOK
    <3>2. pc'[p] = "match" \/ ~Storable(packet[p])'
      BY <1>2 DEF TakePacket, Goto, FirstPlace, Storable, Typed, TypeOK
    <3>3. pc'[p] \in {"match", "worker"}
      BY <1>2 DEF TakePacket, Goto, FirstPlace, Typed, TypeOK
    <3> QED BY <1>2, <3>1, <3>2, <3>3 DEF TakePacket, StoredOnTheWay, Storable
  <2> QED BY <1>2, <2>1 DEF TakePacket, ConfirmedStored, ConfirmedHere, Storable
<1>3. ASSUME NEW p \in Processors, FindMatch(p)
      PROVE  Storing'
  <2>1. pc'[p] = "worker" => ~Storable(packet[p])
    BY <1>3 DEF FindMatch, Goto, Of, Storable, Typed, TypeOK
  <2> QED BY <1>3, <2>1 DEF FindMatch, Goto, history, Typed, TypeOK, Storable,
          StoredOnTheWay, ConfirmedStored, ConfirmedHere
<1>4. ASSUME NEW p \in Processors, OpenCsv(p)
      PROVE  Storing'
  BY <1>4 DEF OpenCsv, Goto, history, Typed, TypeOK, Storable,
     StoredOnTheWay, ConfirmedStored, ConfirmedHere
<1>5. ASSUME NEW p \in Processors, WriteCsv(p) \/ PushDataToDb(p)
      PROVE  Storing'
  <2>1. /\ UNCHANGED <<arrived, packet, confirmed>>
        /\ stored \subseteq stored'
        /\ \A q \in Processors \ {p} : pc'[q] = pc[q]
        /\ pc'[p] = "db" \/ (pc'[p] = "worker" /\ packet[p] \in stored')
    BY <1>5 DEF WriteCsv, PushDataToDb, Goto, Typed, TypeOK
  <2> QED BY <2>1 DEF Storable, StoredOnTheWay, ConfirmedStored, ConfirmedHere
<1>6. ASSUME NEW p \in Processors,
             \/ LookUpWorker(p) \/ CompareStatus(p) \/ WriteStatus(p)
             \/ AssignStatus(p) \/ Answer(p)
      PROVE  Storing'
  <2>1. /\ UNCHANGED <<arrived, packet, stored>>
        /\ pc[p] \in {"worker", "compare", "status", "assign", "answer"}
        /\ \A q \in Processors \ {p} : pc'[q] = pc[q]
    <3>1. UNCHANGED <<arrived, packet, stored>>
      BY <1>6 DEF LookUpWorker, CompareStatus, WriteStatus, AssignStatus, Answer, history
    <3>2. pc[p] \in {"worker", "compare", "status", "assign", "answer"}
      BY <1>6 DEF LookUpWorker, CompareStatus, WriteStatus, AssignStatus, Answer, At
    <3>3. \E place : Goto(p, place)
      BY <1>6 DEF LookUpWorker, CompareStatus, WriteStatus, AssignStatus, Answer
    <3> QED BY <3>1, <3>2, <3>3 DEF Goto, Typed, TypeOK
  <2>2. confirmed' = confirmed \/ (confirmed' = confirmed \cup {packet[p]} /\ pc[p] # "worker")
    BY <1>6 DEF LookUpWorker, CompareStatus, WriteStatus, AssignStatus, Answer, At,
       history
  <2>3. pc[p] # "worker" => arrived[packet[p]].id \in Tables
    BY <2>1 DEF Typed, TypeOK, Of
  <2>4. Storable(packet[p]) => packet[p] \in stored
    BY <2>1 DEF StoredOnTheWay
  <2> QED BY <2>1, <2>2, <2>3, <2>4
          DEF Storable, StoredOnTheWay, ConfirmedStored, ConfirmedHere
<1>7. ASSUME NEW t \in Tables, SenderCore(t)
      PROVE  Storing'
  BY <1>7 DEF SenderCore, QueueTable, CoreCompare, CoreWrite, CoreAssign, history,
     Storable, StoredOnTheWay, ConfirmedStored, ConfirmedHere
<1>8. CASE UNCHANGED vars
  BY <1>8 DEF vars, history, Storable, StoredOnTheWay, ConfirmedStored, ConfirmedHere
<1> QED BY <1>1, <1>2, <1>3, <1>4, <1>5, <1>6, <1>7, <1>8 DEF Next, Process

\* packet_validator.cpp: a result is reported, or acknowledged to its worker, only
\* after the attempt to store its data.
THEOREM StoredBeforeReported == Spec => []StoredFirst
<1>1. Init => Storing
  BY DEF Init, Storing, StoredOnTheWay, ConfirmedStored, ConfirmedHere
<1>2. Spec => []Typed
  BY TypedInit, TypedStep, PTL DEF Spec
<1>3. Storing => StoredFirst
  BY DEF Storing, ConfirmedStored, ConfirmedHere, Storable, StoredFirst
<1> QED BY <1>1, <1>2, <1>3, StoringStep, PTL DEF Spec
-----------------------------------------------------------------------------
(***************************************************************************)
(* While a table was handled by one thread at a time its status, file and  *)
(* row are what the code, read as a sequential program, makes of them.     *)
(***************************************************************************)
Busy(p, t)   == pc[p] # "idle" /\ Of(p).id = t
CoreBusy(t)  == core[t] \notin {"todo", "done"}

\* A table nobody has overlapped on has one thread at work; and no packet of a
\* table is there before the sender core has been at it.
Sole ==
  \A t \in Tables :
    /\ core[t] = "todo" => \A n \in 1..Len(arrived) : arrived[n].id # t
    /\ t \notin overlapped =>
         /\ \A p, q \in Processors : Busy(p, t) /\ Busy(q, t) => p = q
         /\ CoreBusy(t) => \A p \in Processors : ~Busy(p, t)

\* No two handlers of a table, in terms of who is at it.
LEMMA HandlersBusy ==
  ASSUME NEW t \in Tables
  PROVE  Handlers(t) = {} <=> ~CoreBusy(t) /\ \A p \in Processors : ~Busy(p, t)
BY DEF Handlers, CoreBusy, Busy

\* What all actions of a processor but the first have in common.
LEMMA Continues ==
  ASSUME Typed, NEW p \in Processors,
         \/ FindMatch(p) \/ OpenCsv(p) \/ WriteCsv(p) \/ PushDataToDb(p)
         \/ LookUpWorker(p) \/ CompareStatus(p) \/ WriteStatus(p) \/ AssignStatus(p)
         \/ Answer(p)
  PROVE  /\ pc[p] # "idle"
         /\ \A q \in Processors \ {p} : pc'[q] = pc[q]
         /\ UNCHANGED <<arrived, taken, packet, core, overlapped>>
         /\ \A q \in Processors : Of(q)' = Of(q)
<1>1. pc[p] # "idle"
  BY DEF FindMatch, OpenCsv, WriteCsv, PushDataToDb, LookUpWorker, CompareStatus,
     WriteStatus, AssignStatus, Answer, At
<1>2. \E place : Goto(p, place)
  BY DEF FindMatch, OpenCsv, WriteCsv, PushDataToDb, LookUpWorker, CompareStatus,
     WriteStatus, AssignStatus, Answer
<1>3. UNCHANGED <<arrived, taken, packet, core, overlapped>>
  BY DEF FindMatch, OpenCsv, WriteCsv, PushDataToDb, LookUpWorker, CompareStatus,
     WriteStatus, AssignStatus, Answer, history
<1> QED BY <1>1, <1>2, <1>3 DEF Goto, Of, Typed, TypeOK

\* Every step keeps a table not overlapped with one thread.
LEMMA SoleStep == Typed /\ Sole /\ [Next]_vars => Sole'
<1> SUFFICES ASSUME Typed, Sole, [Next]_vars
             PROVE  Sole'
  OBVIOUS
<1>1. ASSUME NEW k \in Sent, Arrive(k)
      PROVE  Sole'
  <2>1. \A p \in Processors, t \in Tables : Busy(p, t)' = Busy(p, t)
    BY <1>1, Arrival, InHand DEF Arrive, Busy, Of
  <2>2. \A n \in 1..Len(arrived') : n \in 1..Len(arrived) \/ arrived'[n] = k
    BY <1>1, Arrival, AppendProperties, SentAssumption DEF Arrive, Typed, TypeOK
  <2>3. \A t \in Tables : core[t] = "todo" => k.id # t
    BY <1>1 DEF Arrive
  <2> QED BY <1>1, <2>1, <2>2, <2>3, Arrival DEF Arrive, history, Sole, CoreBusy
<1>2. ASSUME NEW p \in Processors, TakePacket(p)
      PROVE  Sole'
  <2>1. /\ \A q \in Processors \ {p} : pc'[q] = pc[q] /\ Of(q)' = Of(q)
        /\ UNCHANGED <<arrived, core>>
        /\ overlapped \subseteq overlapped'
    BY <1>2 DEF TakePacket, Goto, Of, Typed, TypeOK
  <2>2. \A t \in Tables \ overlapped' :
          Busy(p, t)' => ~CoreBusy(t) /\ \A q \in Processors : ~Busy(q, t)
    BY <1>2, HandlersBusy DEF TakePacket, Busy, Of, Typed, TypeOK
  <2> QED BY <2>1, <2>2 DEF Sole, Busy, CoreBusy
<1>3. ASSUME NEW p \in Processors, Process(p), ~TakePacket(p)
      PROVE  Sole'
  BY <1>3, Continues DEF Process, Sole, Busy, CoreBusy
<1>4. ASSUME NEW t \in Tables, QueueTable(t)
      PROVE  Sole'
  <2>1. \A p \in Processors : ~Busy(p, t)
    BY <1>4, InHand DEF QueueTable, CoreAt, Sole, Busy, Of
  <2> QED BY <1>4, <2>1 DEF QueueTable, history, Sole, Busy, CoreBusy, Of, Typed, TypeOK
<1>5. ASSUME NEW t \in Tables, CoreCompare(t) \/ CoreWrite(t) \/ CoreAssign(t)
      PROVE  Sole'
  <2>1. CoreBusy(t) /\ core[t] # "todo"
    BY <1>5 DEF CoreCompare, CoreWrite, CoreAssign, CoreAt, CoreBusy
  <2>2. /\ UNCHANGED <<arrived, pc, packet, overlapped>>
        /\ core'[t] # "todo" /\ \A u \in Tables \ {t} : core'[u] = core[u]
    BY <1>5 DEF CoreCompare, CoreWrite, CoreAssign, history, Typed, TypeOK
  <2> QED BY <2>1, <2>2 DEF Sole, Busy, CoreBusy, Of
<1>6. CASE UNCHANGED vars
  BY <1>6 DEF vars, history, Sole, Busy, CoreBusy, Of
<1> QED BY <1>1, <1>2, <1>3, <1>4, <1>5, <1>6 DEF Next, SenderCore

\* A status some thread has decided on, and one it has written to the database and
\* not yet to the entry.
Chosen(t, s) ==
  \/ \E p \in Processors :
       Busy(p, t) /\ pc[p] \in {"status", "assign"} /\ s = ReportOf(Of(p))
  \/ core[t] \in {"status", "assign"} /\ s = DATA_READY
Pending(t, s) ==
  \/ \E p \in Processors : Busy(p, t) /\ pc[p] = "assign" /\ s = ReportOf(Of(p))
  \/ core[t] = "assign" /\ s = DATA_READY

AheadOn(t) ==
  /\ \A s \in Statuses : Chosen(t, s) => taskStatus[t] <= s
  /\ \A s \in Statuses : Pending(t, s) => dbStatus[t] <= s /\ (t \in spoiled \/ dbStatus[t] = s)
  /\ (\A s \in Statuses : ~Pending(t, s)) =>
       dbStatus[t] <= taskStatus[t] /\ (t \in spoiled \/ dbStatus[t] = taskStatus[t])

\* No status is chosen that the table has passed, and the database does not fall
\* behind unless a write fails.
Ahead == \A t \in Tables \ overlapped : AheadOn(t)

StatusKept == Typed /\ Sole /\ Ahead

\* A step that neither touches the statuses of a table nor brings a thread to them.
LEMMA AheadElsewhere ==
  ASSUME NEW t \in Tables, AheadOn(t),
         dbStatus'[t] = dbStatus[t], taskStatus'[t] = taskStatus[t],
         t \in spoiled => t \in spoiled',
         \A s \in Statuses : Chosen(t, s)' => Chosen(t, s),
         \A s \in Statuses : Pending(t, s)' <=> Pending(t, s)
  PROVE  AheadOn(t)'
BY DEF AheadOn

\* Statuses are numbers.
LEMMA StatusNumbers == Statuses \subseteq Nat /\ DATA_READY \in Statuses
BY DEF Statuses, DATA_QUEUED, DATA_READY, DATA_INTER, DATA_FINAL, DATA_ERROR

\* The only processor at a table, when it is at its status.
LEMMA AloneAtStatus ==
  ASSUME StatusKept, NEW p \in Processors, NEW t \in Tables \ overlapped,
         Busy(p, t), pc[p] \in {"compare", "status", "assign"}
  PROVE  /\ ReportOf(Of(p)) \in Statuses
         /\ ~CoreBusy(t)
         /\ \A s : Chosen(t, s) <=> pc[p] # "compare" /\ s = ReportOf(Of(p))
         /\ \A s : Pending(t, s) <=> pc[p] = "assign" /\ s = ReportOf(Of(p))
<1>1. ~CoreBusy(t) /\ \A q \in Processors : Busy(q, t) => q = p
  BY DEF StatusKept, Sole
<1>2. ReportOf(Of(p)) \in Statuses
  BY Reported DEF StatusKept, Statuses
<1> QED BY <1>1, <1>2 DEF Chosen, Pending, CoreBusy

\* The sender core, when it is at a table.
LEMMA CoreAlone ==
  ASSUME StatusKept, NEW t \in Tables \ overlapped, CoreBusy(t)
  PROVE  /\ \A p \in Processors : ~Busy(p, t)
         /\ \A s : Chosen(t, s) <=> core[t] \in {"status", "assign"} /\ s = DATA_READY
         /\ \A s : Pending(t, s) <=> core[t] = "assign" /\ s = DATA_READY
<1>1. \A p \in Processors : ~Busy(p, t)
  BY DEF StatusKept, Sole
<1> QED BY <1>1 DEF Chosen, Pending

\* What StatusAdvances says of a step.
Advance ==
  \A t \in Tables \ overlapped :
    taskStatus'[t] >= taskStatus[t] /\ dbStatus'[t] >= dbStatus[t]

\* So are those held.
LEMMA StatusNats ==
  ASSUME Typed, NEW t \in Tables
  PROVE  taskStatus[t] \in Nat /\ dbStatus[t] \in Nat
BY StatusNumbers DEF Typed, TypeOK

\* A step that leaves the statuses alone and starts or ends no thread's handling of one.
LEMMA AheadAway ==
  ASSUME StatusKept, UNCHANGED <<taskStatus, dbStatus>>,
         spoiled \subseteq spoiled', overlapped \subseteq overlapped',
         \A t \in Tables, s \in Statuses :
           (Chosen(t, s)' <=> Chosen(t, s)) /\ (Pending(t, s)' <=> Pending(t, s))
  PROVE  Ahead' /\ Advance
<1>1. Advance
  BY StatusNats DEF StatusKept, Advance
<1>2. Ahead'
  BY AheadElsewhere DEF StatusKept, Ahead
<1> QED BY <1>1, <1>2

\* A processor moves: tables of other packets do not see it.
LEMMA ProcessorElsewhere ==
  ASSUME StatusKept, NEW p \in Processors, NEW t \in Tables, Of(p).id # t,
         \A q \in Processors \ {p} : pc'[q] = pc[q],
         UNCHANGED core, \A q \in Processors : Of(q)' = Of(q)
  PROVE  \A s : (Chosen(t, s)' <=> Chosen(t, s)) /\ (Pending(t, s)' <=> Pending(t, s))
<1>1. ~Busy(p, t) /\ ~Busy(p, t)'
  BY DEF Busy
<1>2. \A q \in Processors \ {p} : Busy(q, t)' = Busy(q, t)
  BY DEF Busy
<1>3. \A q \in Processors : ReportOf(Of(q))' = ReportOf(Of(q))
  BY DEF ReportOf
<1> QED BY <1>1, <1>2, <1>3 DEF Chosen, Pending

\* A processor alone at a table has compared: it is ahead, or gives up.
LEMMA AheadCompare ==
  ASSUME StatusKept, NEW p \in Processors, CompareStatus(p)
  PROVE  Ahead' /\ Advance
<1>1. /\ pc[p] = "compare" /\ Busy(p, Of(p).id)
      /\ UNCHANGED <<taskStatus, dbStatus, spoiled, overlapped>>
  BY DEF CompareStatus, At, Busy, history
<1>2. Advance
  BY <1>1, StatusNats DEF StatusKept, Advance
<1>3. ASSUME NEW t \in Tables \ overlapped
      PROVE  AheadOn(t)'
  <2>1. CASE t # Of(p).id
    BY <1>1, <2>1, Continues, ProcessorElsewhere, AheadElsewhere DEF StatusKept, Ahead
  <2>2. CASE t = Of(p).id
    <3> DEFINE s == ReportOf(Of(p))
    <3>1. /\ s \in Statuses /\ ~CoreBusy(t)
          /\ \A r : ~Chosen(t, r) /\ ~Pending(t, r)
      BY <1>1, <2>2, AloneAtStatus
    <3>2. \A r : /\ Chosen(t, r)' => pc'[p] = "status" /\ r = s
                 /\ ~Pending(t, r)'
      <4>1. pc'[p] \in {"answer", "status"}
        BY DEF CompareStatus, AfterCompare, Goto, StatusKept, Typed, TypeOK
      <4>2. ReportOf(Of(p))' = s
        BY Continues DEF ReportOf, StatusKept
      <4> QED BY <1>1, <2>2, <3>1, <4>1, <4>2, Continues
              DEF Chosen, Pending, Busy, CoreBusy, StatusKept, Sole
    <3>3. pc'[p] = "status" => taskStatus[t] <= s
      <4>1. pc'[p] = AfterCompare(s, t)
        BY <2>2 DEF CompareStatus, Goto, StatusKept, Typed, TypeOK
      <4>2. AfterCompare(s, t) = "status" => ~(s < taskStatus[t])
        BY DEF AfterCompare, IsBehind
      <4> HIDE DEF s
      <4>3. s \in Nat /\ taskStatus[t] \in Nat
        BY <3>1, StatusNumbers, StatusNats DEF StatusKept
      <4> QED BY <4>1, <4>2, <4>3
    <3> QED BY <1>1, <3>1, <3>2, <3>3 DEF AheadOn, Ahead, StatusKept
  <2> QED BY <2>1, <2>2
<1> QED BY <1>1, <1>2, <1>3 DEF Ahead

\* A processor alone at a table writes the column.
LEMMA AheadWrite ==
  ASSUME StatusKept, NEW p \in Processors, WriteStatus(p)
  PROVE  Ahead' /\ Advance
<1> DEFINE s == ReportOf(Of(p))
<1>1. /\ pc[p] = "status" /\ Busy(p, Of(p).id) /\ Of(p).id \in Tables
      /\ UNCHANGED <<taskStatus, overlapped>>
  BY DEF WriteStatus, At, Busy, StatusKept, Typed, TypeOK
<1>2. /\ pc'[p] = "assign" /\ s' = s
  BY Continues DEF WriteStatus, Goto, ReportOf, StatusKept, Typed, TypeOK
<1>3. /\ spoiled \subseteq spoiled'
      /\ \A t \in Tables : t # Of(p).id => dbStatus'[t] = dbStatus[t]
      /\ \/ dbStatus'[Of(p).id] = s
         \/ dbStatus'[Of(p).id] = dbStatus[Of(p).id] /\ Of(p).id \in spoiled'
  BY <1>1 DEF WriteStatus, DbWrite, StatusKept, Typed, TypeOK
<1>4. ASSUME NEW t \in Tables \ overlapped
      PROVE  AheadOn(t)' /\ taskStatus'[t] >= taskStatus[t] /\ dbStatus'[t] >= dbStatus[t]
  <2>1. CASE t # Of(p).id
    <3>1. AheadOn(t)'
      BY <1>1, <1>3, <2>1, Continues, ProcessorElsewhere, AheadElsewhere
         DEF StatusKept, Ahead
    <3> QED BY <1>1, <1>3, <2>1, <3>1, StatusNats DEF StatusKept
  <2>2. CASE t = Of(p).id
    <3>1. /\ s \in Statuses /\ ~CoreBusy(t)
          /\ \A r : Chosen(t, r) <=> r = s
          /\ \A r : ~Pending(t, r)
      BY <1>1, <2>2, AloneAtStatus
    <3>2. \A r : (Chosen(t, r)' <=> r = s) /\ (Pending(t, r)' <=> r = s)
      BY <1>1, <1>2, <2>2, <3>1, Continues
         DEF Chosen, Pending, Busy, CoreBusy, StatusKept, Sole
    <3> HIDE DEF s
    <3>3. taskStatus[t] <= s /\ dbStatus[t] <= taskStatus[t]
      BY <3>1 DEF AheadOn, Ahead, StatusKept
    <3>4. s \in Nat /\ taskStatus[t] \in Nat /\ dbStatus[t] \in Nat
      BY <3>1, StatusNumbers, StatusNats DEF StatusKept
    <3>5. dbStatus'[t] = s \/ (dbStatus'[t] = dbStatus[t] /\ t \in spoiled')
      BY <1>3, <2>2
    <3>6. taskStatus'[t] = taskStatus[t]
      BY <1>1
    <3>7. AheadOn(t)'
      BY <3>1, <3>2, <3>3, <3>4, <3>5, <3>6 DEF AheadOn
    <3> QED BY <3>3, <3>4, <3>5, <3>6, <3>7
  <2> QED BY <2>1, <2>2
<1> QED BY <1>1, <1>4 DEF Ahead, Advance

\* A processor alone at a table assigns the status.
LEMMA AheadAssign ==
  ASSUME StatusKept, NEW p \in Processors, AssignStatus(p)
  PROVE  Ahead' /\ Advance
<1> DEFINE s == ReportOf(Of(p))
<1>1. /\ pc[p] = "assign" /\ Busy(p, Of(p).id) /\ Of(p).id \in Tables
      /\ UNCHANGED <<dbStatus, spoiled, overlapped>>
  BY DEF AssignStatus, At, Busy, history, StatusKept, Typed, TypeOK
<1>2. pc'[p] = "answer"
  BY DEF AssignStatus, Goto, StatusKept, Typed, TypeOK
<1>3. \A t \in Tables : taskStatus'[t] = IF t = Of(p).id THEN s ELSE taskStatus[t]
  BY <1>1 DEF AssignStatus, StatusKept, Typed, TypeOK
<1>4. ASSUME NEW t \in Tables \ overlapped
      PROVE  AheadOn(t)' /\ taskStatus'[t] >= taskStatus[t] /\ dbStatus'[t] >= dbStatus[t]
  <2>1. CASE t # Of(p).id
    <3>1. AheadOn(t)'
      BY <1>1, <1>3, <2>1, Continues, ProcessorElsewhere, AheadElsewhere
         DEF StatusKept, Ahead
    <3> QED BY <1>1, <1>3, <2>1, <3>1, StatusNats DEF StatusKept
  <2>2. CASE t = Of(p).id
    <3>1. /\ s \in Statuses /\ ~CoreBusy(t)
          /\ \A r : Chosen(t, r) <=> r = s
          /\ \A r : Pending(t, r) <=> r = s
      BY <1>1, <2>2, AloneAtStatus
    <3>2. \A r : ~Chosen(t, r)' /\ ~Pending(t, r)'
      BY <1>1, <1>2, <2>2, <3>1, Continues
         DEF Chosen, Pending, Busy, CoreBusy, StatusKept, Sole
    <3>3. taskStatus'[t] = s
      BY <1>3, <2>2
    <3> HIDE DEF s
    <3>4. taskStatus[t] <= s /\ dbStatus[t] <= s /\ (t \in spoiled \/ dbStatus[t] = s)
      BY <3>1 DEF AheadOn, Ahead, StatusKept
    <3>5. s \in Nat /\ taskStatus[t] \in Nat /\ dbStatus[t] \in Nat
      BY <3>1, StatusNumbers, StatusNats DEF StatusKept
    <3>6. AheadOn(t)'
      BY <1>1, <3>2, <3>3, <3>4, <3>5 DEF AheadOn
    <3> QED BY <1>1, <3>3, <3>4, <3>5, <3>6
  <2> QED BY <2>1, <2>2
<1> QED BY <1>1, <1>4 DEF Ahead, Advance

\* The sender core moves: other tables do not see it.
LEMMA CoreContinues ==
  ASSUME StatusKept, NEW t \in Tables,
         QueueTable(t) \/ CoreCompare(t) \/ CoreWrite(t) \/ CoreAssign(t)
  PROVE  /\ UNCHANGED <<arrived, pc, packet, overlapped>>
         /\ \A u \in Tables \ {t} : core'[u] = core[u]
         /\ \A p \in Processors : Of(p)' = Of(p) /\ ReportOf(Of(p))' = ReportOf(Of(p))
         /\ \A u \in Tables \ {t} : \A s :
              (Chosen(u, s)' <=> Chosen(u, s)) /\ (Pending(u, s)' <=> Pending(u, s))
<1>1. UNCHANGED <<arrived, pc, packet, overlapped>>
  BY DEF QueueTable, CoreCompare, CoreWrite, CoreAssign, history
<1>2. \A u \in Tables \ {t} : core'[u] = core[u]
  BY DEF QueueTable, CoreCompare, CoreWrite, CoreAssign, StatusKept, Typed, TypeOK
<1>3. \A p \in Processors : Of(p)' = Of(p) /\ ReportOf(Of(p))' = ReportOf(Of(p))
  BY <1>1 DEF Of, ReportOf
<1>4. \A p \in Processors, u \in Tables : Busy(p, u)' = Busy(p, u)
  BY <1>1, <1>3 DEF Busy
<1> QED BY <1>1, <1>2, <1>3, <1>4 DEF Chosen, Pending

\* What is chosen and pending on the table the sender core is at, after a step of it.
LEMMA CoreAfter ==
  ASSUME StatusKept, NEW t \in Tables \ overlapped, CoreBusy(t),
         CoreCompare(t) \/ CoreWrite(t) \/ CoreAssign(t)
  PROVE  /\ \A s : Chosen(t, s)' <=> core'[t] \in {"status", "assign"} /\ s = DATA_READY
         /\ \A s : Pending(t, s)' <=> core'[t] = "assign" /\ s = DATA_READY
<1>1. \A p \in Processors : ~Busy(p, t)'
  BY CoreAlone, CoreContinues DEF Busy
<1>2. DATA_READY' = DATA_READY
  BY DEF DATA_READY
<1> QED BY <1>1, <1>2 DEF Chosen, Pending

\* The sender core alone at a table.
LEMMA AheadCore ==
  ASSUME StatusKept, NEW t \in Tables, CoreCompare(t) \/ CoreWrite(t) \/ CoreAssign(t)
  PROVE  Ahead' /\ Advance
<1>1. CoreBusy(t) /\ UNCHANGED overlapped
  BY DEF CoreCompare, CoreWrite, CoreAssign, CoreAt, CoreBusy, history
<1>2. \A u \in Tables : u # t =>
        /\ dbStatus'[u] = dbStatus[u] /\ taskStatus'[u] = taskStatus[u]
        /\ u \in spoiled => u \in spoiled'
  BY DEF CoreCompare, CoreWrite, CoreAssign, DbWrite, history, StatusKept, Typed, TypeOK
<1>3. ASSUME NEW u \in Tables \ overlapped, u # t
      PROVE  AheadOn(u)' /\ taskStatus'[u] >= taskStatus[u] /\ dbStatus'[u] >= dbStatus[u]
  <2>1. AheadOn(u)'
    BY <1>2, <1>3, CoreContinues, AheadElsewhere DEF StatusKept, Ahead
  <2> QED BY <1>2, <1>3, <2>1, StatusNats DEF StatusKept
<1>4. ASSUME t \notin overlapped
      PROVE  AheadOn(t)' /\ taskStatus'[t] >= taskStatus[t] /\ dbStatus'[t] >= dbStatus[t]
  <2> DEFINE r == DATA_READY
  <2>1. /\ AheadOn(t) /\ r \in Statuses /\ r \in Nat
        /\ taskStatus[t] \in Nat /\ dbStatus[t] \in Nat
    BY <1>4, StatusNumbers, StatusNats DEF StatusKept, Ahead
  <2>2. /\ \A s : Chosen(t, s) <=> core[t] \in {"status", "assign"} /\ s = r
        /\ \A s : Pending(t, s) <=> core[t] = "assign" /\ s = r
    BY <1>1, <1>4, CoreAlone
  <2>3. /\ \A s : Chosen(t, s)' <=> core'[t] \in {"status", "assign"} /\ s = r
        /\ \A s : Pending(t, s)' <=> core'[t] = "assign" /\ s = r
    BY <1>1, <1>4, CoreAfter
  <2>4. CASE CoreCompare(t)
    <3>1. /\ core[t] = "compare" /\ UNCHANGED <<taskStatus, dbStatus, spoiled>>
          /\ core'[t] \in {"status", "done"}
          /\ core'[t] = "status" => ~(r < taskStatus[t])
      BY <2>4 DEF CoreCompare, CoreAt, AfterCompare, IsBehind, history,
         StatusKept, Typed, TypeOK
    <3> HIDE DEF r
    <3> QED BY <2>1, <2>2, <2>3, <3>1 DEF AheadOn
  <2>5. CASE CoreWrite(t)
    <3>1. core[t] = "status" /\ core'[t] = "assign" /\ taskStatus' = taskStatus
      BY <2>5 DEF CoreWrite, CoreAt, StatusKept, Typed, TypeOK
    <3>2. dbStatus'[t] = r \/ (dbStatus'[t] = dbStatus[t] /\ t \in spoiled')
      BY <2>5 DEF CoreWrite, DbWrite, StatusKept, Typed, TypeOK
    <3> HIDE DEF r
    <3>3. taskStatus[t] <= r /\ dbStatus[t] <= taskStatus[t]
      BY <2>1, <2>2, <3>1 DEF AheadOn
    <3> QED BY <2>1, <2>3, <3>1, <3>2, <3>3 DEF AheadOn
  <2>6. CASE CoreAssign(t)
    <3>1. /\ core[t] = "assign" /\ core'[t] = "done" /\ taskStatus'[t] = r
          /\ UNCHANGED <<dbStatus, spoiled>>
      BY <2>6 DEF CoreAssign, CoreAt, history, StatusKept, Typed, TypeOK
    <3> HIDE DEF r
    <3>2. taskStatus[t] <= r /\ dbStatus[t] <= r /\ (t \in spoiled \/ dbStatus[t] = r)
      BY <2>1, <2>2, <3>1 DEF AheadOn
    <3> QED BY <2>1, <2>3, <3>1, <3>2 DEF AheadOn
  <2> QED BY <2>4, <2>5, <2>6
<1> QED BY <1>1, <1>3, <1>4 DEF Ahead, Advance

\* Every step keeps the order of the statuses, and takes none back.
LEMMA StatusStep == StatusKept /\ [Next]_vars => StatusKept' /\ Advance
<1> SUFFICES ASSUME StatusKept, [Next]_vars
             PROVE  Ahead' /\ Advance
  BY TypedStep, SoleStep DEF StatusKept
<1>0. Typed
  BY DEF StatusKept
<1>1. ASSUME NEW k \in Sent, Arrive(k)
      PROVE  Ahead' /\ Advance
  <2>1. \A p \in Processors : pc[p] # "idle" => Of(p)' = Of(p) /\ ReportOf(Of(p))' = ReportOf(Of(p))
    BY <1>0, <1>1, Arrival, InHand DEF Arrive, Of, ReportOf
  <2>2. \A t \in Tables, s \in Statuses :
          (Chosen(t, s)' <=> Chosen(t, s)) /\ (Pending(t, s)' <=> Pending(t, s))
    BY <1>1, <2>1 DEF Arrive, Chosen, Pending, Busy
  <2> QED BY <1>1, <2>2, AheadAway DEF Arrive, history
<1>2. ASSUME NEW p \in Processors, TakePacket(p)
      PROVE  Ahead' /\ Advance
  <2>1. pc[p] = "idle" /\ pc'[p] \in {"match", "worker"}
    BY <1>0, <1>2 DEF TakePacket, At, Goto, FirstPlace, Typed, TypeOK
  <2>2. \A q \in Processors \ {p} :
          pc'[q] = pc[q] /\ Of(q)' = Of(q) /\ ReportOf(Of(q))' = ReportOf(Of(q))
    BY <1>0, <1>2 DEF TakePacket, Goto, Of, ReportOf, Typed, TypeOK
  <2>3. \A t \in Tables, s \in Statuses :
          (Chosen(t, s)' <=> Chosen(t, s)) /\ (Pending(t, s)' <=> Pending(t, s))
    BY <1>2, <2>1, <2>2 DEF TakePacket, Chosen, Pending, Busy
  <2> QED BY <1>2, <2>3, AheadAway DEF TakePacket
<1>3. ASSUME NEW p \in Processors,
             \/ FindMatch(p) \/ OpenCsv(p) \/ WriteCsv(p) \/ PushDataToDb(p)
             \/ LookUpWorker(p) \/ Answer(p)
      PROVE  Ahead' /\ Advance
  <2>1. pc[p] \notin {"status", "assign"} /\ pc'[p] \notin {"status", "assign"}
    BY <1>0, <1>3 DEF FindMatch, OpenCsv, WriteCsv, PushDataToDb, LookUpWorker, Answer,
       At, Goto, Typed, TypeOK
  <2>2. /\ UNCHANGED <<taskStatus, dbStatus, overlapped>>
        /\ spoiled \subseteq spoiled'
    BY <1>3 DEF FindMatch, OpenCsv, WriteCsv, PushDataToDb, LookUpWorker, Answer,
       DbWrite, history
  <2>3. \A q \in Processors : ReportOf(Of(q))' = ReportOf(Of(q))
    BY <1>0, <1>3, Continues DEF ReportOf
  <2>4. \A t \in Tables, s \in Statuses :
          (Chosen(t, s)' <=> Chosen(t, s)) /\ (Pending(t, s)' <=> Pending(t, s))
    BY <1>0, <1>3, <2>1, <2>3, Continues DEF Chosen, Pending, Busy
  <2> QED BY <2>2, <2>4, AheadAway
<1>4. ASSUME NEW t \in Tables, QueueTable(t)
      PROVE  Ahead' /\ Advance
  <2>1. /\ core[t] = "todo" /\ core'[t] = "compare"
        /\ UNCHANGED <<taskStatus, dbStatus, spoiled, overlapped>>
    BY <1>0, <1>4 DEF QueueTable, CoreAt, history, Typed, TypeOK
  <2>2. \A u \in Tables, s \in Statuses :
          (Chosen(u, s)' <=> Chosen(u, s)) /\ (Pending(u, s)' <=> Pending(u, s))
    BY <1>4, <2>1, CoreContinues DEF Chosen, Pending, Busy
  <2> QED BY <2>1, <2>2, AheadAway
<1>5. CASE UNCHANGED vars
  <2>1. \A u \in Tables, s \in Statuses :
          (Chosen(u, s)' <=> Chosen(u, s)) /\ (Pending(u, s)' <=> Pending(u, s))
    BY <1>5 DEF vars, Chosen, Pending, Busy, Of, ReportOf
  <2> QED BY <1>5, <2>1, AheadAway DEF vars, history
<1> QED BY <1>1, <1>2, <1>3, <1>4, <1>5, AheadCompare, AheadWrite, AheadAssign, AheadCore
        DEF Next, Process, SenderCore

\* The order of the statuses holds at the start.
LEMMA StatusInit == Init => StatusKept
<1> SUFFICES ASSUME Init
             PROVE  StatusKept
  OBVIOUS
<1>1. Sole
  <2>1. Len(arrived) = 0
    BY DEF Init
  <2>2. \A p \in Processors : pc[p] = "idle"
    BY DEF Init
  <2> QED BY <2>1, <2>2 DEF Sole, Busy
<1>2. \A t \in Tables, s \in Statuses : ~Chosen(t, s) /\ ~Pending(t, s)
  BY DEF Init, Chosen, Pending, Busy
<1>3. Ahead
  <2>1. \A t \in Tables : dbStatus[t] = 0 /\ taskStatus[t] = 0
    BY DEF Init, DATA_QUEUED
  <2>2. ASSUME NEW t \in Tables
        PROVE  AheadOn(t)
    <3>1. dbStatus[t] <= taskStatus[t] /\ dbStatus[t] = taskStatus[t]
      BY <2>1
    <3> QED BY <1>2, <3>1 DEF AheadOn
  <2> QED BY <2>2 DEF Ahead
<1> QED BY <1>1, <1>3, TypedInit DEF StatusKept

\* outgoing_data_registry.cpp, updateTaskStatus: the status of a table, in the entry
\* and in the database, never goes back unless two threads were at the table at once.
THEOREM StatusMonotone == Spec => StatusAdvances
<1>1. Spec => []StatusKept
  BY StatusInit, StatusStep, PTL DEF Spec
<1>2. StatusKept /\ [Next]_vars =>
        [\A t \in Tables \ overlapped :
           taskStatus'[t] >= taskStatus[t] /\ dbStatus'[t] >= dbStatus[t]]_vars
  BY StatusStep DEF Advance
<1> QED BY <1>1, <1>2, PTL DEF Spec, StatusAdvances

\* A processor with a final result in hand: about to write it to the file, or to the
\* database.
Writes(p, t) == Busy(p, t) /\ pc[p] = "write" /\ ~IsIntermediate(Of(p))
Stores(p, t) == Busy(p, t) /\ pc[p] = "db"

FilingOn(t) ==
  /\ \A p \in Processors : Writes(p, t) => finalFile[t] = Empty
  /\ \A p \in Processors : Stores(p, t) => finalFile[t] = packet[p]
  /\ (\A p \in Processors : ~Writes(p, t) /\ ~Stores(p, t)) => finalFile[t] = dbResult[t]

\* The final file and the result column part only on the way from one to the other.
Filing == \A t \in Tables \ (overlapped \cup spoiled) : FilingOn(t)

\* A step that neither touches file and column of a table nor brings a thread to them.
LEMMA FilingElsewhere ==
  ASSUME NEW t \in Tables, FilingOn(t),
         finalFile'[t] = finalFile[t], dbResult'[t] = dbResult[t],
         \A p \in Processors : /\ Writes(p, t)' <=> Writes(p, t)
                               /\ Stores(p, t)' <=> Stores(p, t)
                               /\ Stores(p, t) => packet'[p] = packet[p]
  PROVE  FilingOn(t)'
BY DEF FilingOn

\* A step that leaves files and results alone.
LEMMA FilingAway ==
  ASSUME Filing, UNCHANGED <<finalFile, dbResult>>,
         spoiled \subseteq spoiled', overlapped \subseteq overlapped',
         \A t \in Tables, p \in Processors :
            /\ Writes(p, t)' <=> Writes(p, t)
            /\ Stores(p, t)' <=> Stores(p, t)
            /\ Stores(p, t) => packet'[p] = packet[p]
  PROVE  Filing'
BY FilingElsewhere DEF Filing

\* A step of the processor that is alone at a table; other tables do not see it.
LEMMA FilingAlone ==
  ASSUME Typed, Sole, Filing, NEW p \in Processors, Process(p), ~TakePacket(p),
         \A t \in Tables : t # Of(p).id =>
           finalFile'[t] = finalFile[t] /\ dbResult'[t] = dbResult[t],
         spoiled \subseteq spoiled',
         ASSUME NEW t \in Tables, t = Of(p).id, t \notin overlapped, t \notin spoiled',
                FilingOn(t), \A q \in Processors : Busy(q, t) => q = p,
                \A q \in Processors \ {p} : ~Writes(q, t)' /\ ~Stores(q, t)'
         PROVE  FilingOn(t)'
  PROVE  Filing'
<1>1. ASSUME NEW t \in Tables \ (overlapped \cup spoiled'), t # Of(p).id
      PROVE  FilingOn(t)'
  <2>1. ~Busy(p, t) /\ ~Busy(p, t)'
    BY <1>1, Continues DEF Process, Busy
  <2>2. \A q \in Processors : /\ Writes(q, t)' <=> Writes(q, t)
                              /\ Stores(q, t)' <=> Stores(q, t)
    BY <2>1, Continues DEF Process, Writes, Stores, Busy, IsIntermediate
  <2>3. UNCHANGED packet
    BY Continues DEF Process
  <2> QED BY <1>1, <2>2, <2>3, FilingElsewhere DEF Filing
<1>2. ASSUME NEW t \in Tables \ (overlapped \cup spoiled'), t = Of(p).id
      PROVE  FilingOn(t)'
  <2>1. Busy(p, t)
    BY <1>2, Continues DEF Process, Busy
  <2>2. \A q \in Processors : Busy(q, t) => q = p
    BY <1>2, <2>1 DEF Sole
  <2>3. \A q \in Processors \ {p} : ~Writes(q, t)' /\ ~Stores(q, t)'
    BY <2>2, Continues DEF Process, Writes, Stores, Busy
  <2>4. FilingOn(t)
    BY <1>2 DEF Filing
  <2> QED BY <1>2, <2>2, <2>3, <2>4
<1> QED BY <1>1, <1>2, Continues DEF Process, Filing

\* Every step keeps file and column of a table together.
LEMMA FilingStep == Typed /\ Sole /\ Filing /\ [Next]_vars => Filing'
<1> SUFFICES ASSUME Typed, Sole, Filing, [Next]_vars
             PROVE  Filing'
  OBVIOUS
<1>1. ASSUME NEW k \in Sent, Arrive(k)
      PROVE  Filing'
  <2>1. \A p \in Processors : pc[p] # "idle" => Of(p)' = Of(p)
    BY <1>1, Arrival, InHand DEF Arrive, Of
  <2>2. UNCHANGED <<pc, packet, finalFile, dbResult, spoiled, overlapped>>
    BY <1>1 DEF Arrive, files, history
  <2>3. \A t \in Tables, p \in Processors :
          (Writes(p, t)' <=> Writes(p, t)) /\ (Stores(p, t)' <=> Stores(p, t))
    BY <2>1, <2>2 DEF Writes, Stores, Busy, IsIntermediate
  <2> QED BY <2>2, <2>3, FilingAway
<1>2. ASSUME NEW p \in Processors, TakePacket(p)
      PROVE  Filing'
  <2>1. pc[p] = "idle" /\ pc'[p] \in {"match", "worker"}
    BY <1>2 DEF TakePacket, At, Goto, FirstPlace, Typed, TypeOK
  <2>2. \A q \in Processors \ {p} : pc'[q] = pc[q] /\ packet'[q] = packet[q] /\ Of(q)' = Of(q)
    BY <1>2 DEF TakePacket, Goto, Of, Typed, TypeOK
  <2>3. \A t \in Tables, q \in Processors :
          /\ Writes(q, t)' <=> Writes(q, t)
          /\ Stores(q, t)' <=> Stores(q, t)
          /\ Stores(q, t) => packet'[q] = packet[q]
    BY <2>1, <2>2 DEF Writes, Stores, Busy, IsIntermediate
  <2>4. /\ UNCHANGED <<finalFile, dbResult, spoiled>>
        /\ overlapped \subseteq overlapped'
    BY <1>2 DEF TakePacket, files
  <2> QED BY <2>3, <2>4, FilingAway
<1>3. ASSUME NEW p \in Processors, OpenCsv(p)
      PROVE  Filing'
  <2>1. pc[p] = "open" /\ pc'[p] = "write" /\ Of(p).id \in Tables
    BY <1>3 DEF OpenCsv, At, Goto, Typed, TypeOK
  <2>2. /\ UNCHANGED <<dbResult, spoiled>>
        /\ \A t \in Tables : t # Of(p).id => finalFile'[t] = finalFile[t]
        /\ IF IsIntermediate(Of(p)) THEN UNCHANGED finalFile
           ELSE finalFile'[Of(p).id] = Empty
    BY <1>3, <2>1 DEF OpenCsv, InFile, history, Typed, TypeOK
  <2>3. ASSUME NEW t \in Tables, t = Of(p).id, FilingOn(t),
               \A q \in Processors : Busy(q, t) => q = p,
               \A q \in Processors \ {p} : ~Writes(q, t)' /\ ~Stores(q, t)'
        PROVE  FilingOn(t)'
    <3>1. \A q \in Processors : ~Writes(q, t) /\ ~Stores(q, t)
      BY <2>1, <2>3 DEF Writes, Stores
    <3>2. ~Stores(p, t)' /\ (Writes(p, t)' <=> ~IsIntermediate(Of(p)))
      BY <1>3, <2>1, <2>3, Continues DEF Writes, Stores, Busy, IsIntermediate
    <3> QED BY <2>2, <2>3, <3>1, <3>2 DEF FilingOn, Empty
  <2> QED BY <1>3, <2>1, <2>2, <2>3, FilingAlone DEF Process, TakePacket, At
<1>4. ASSUME NEW p \in Processors, WriteCsv(p)
      PROVE  Filing'
  <2>1. pc[p] = "write" /\ Of(p).id \in Tables
    BY <1>4 DEF WriteCsv, At, Typed, TypeOK
  <2>2. /\ UNCHANGED <<dbResult, spoiled>>
        /\ \A t \in Tables : t # Of(p).id => finalFile'[t] = finalFile[t]
    BY <1>4, <2>1 DEF WriteCsv, InFile, Typed, TypeOK
  <2>3. ASSUME NEW t \in Tables, t = Of(p).id, FilingOn(t),
               \A q \in Processors : Busy(q, t) => q = p,
               \A q \in Processors \ {p} : ~Writes(q, t)' /\ ~Stores(q, t)'
        PROVE  FilingOn(t)'
    <3>1. CASE IsIntermediate(Of(p))
      <4>1. pc'[p] = "worker" /\ UNCHANGED finalFile
        BY <1>4, <3>1 DEF WriteCsv, InFile, Goto, Typed, TypeOK
      <4>2. \A q \in Processors : ~Writes(q, t) /\ ~Stores(q, t)
        BY <2>1, <2>3, <3>1 DEF Writes, Stores
      <4>3. ~Writes(p, t)' /\ ~Stores(p, t)'
        BY <4>1 DEF Writes, Stores
      <4> QED BY <2>2, <2>3, <4>1, <4>2, <4>3 DEF FilingOn
    <3>2. CASE ~IsIntermediate(Of(p))
      <4>1. Writes(p, t) /\ finalFile[t] = Empty
        BY <2>1, <2>3, <3>2 DEF Writes, Busy, FilingOn
      <4>2. ~SharesFile(p)
        BY <2>3 DEF SharesFile, Busy
      <4>3. pc'[p] = "db" /\ finalFile'[t] = packet[p]
        BY <1>4, <2>1, <2>3, <3>2, <4>1, <4>2 DEF WriteCsv, InFile, Goto, Typed, TypeOK
      <4>4. ~Writes(p, t)' /\ Stores(p, t)' /\ packet'[p] = packet[p]
        BY <1>4, <2>3, <4>3, Continues DEF Writes, Stores, Busy
      <4> QED BY <2>3, <4>3, <4>4 DEF FilingOn
    <3> QED BY <3>1, <3>2
  <2> QED BY <1>4, <2>1, <2>2, <2>3, FilingAlone DEF Process, TakePacket, At
<1>5. ASSUME NEW p \in Processors, PushDataToDb(p)
      PROVE  Filing'
  <2>1. pc[p] = "db" /\ pc'[p] = "worker" /\ Of(p).id \in Tables
    BY <1>5 DEF PushDataToDb, At, Goto, Typed, TypeOK
  <2>2. /\ UNCHANGED finalFile
        /\ spoiled \subseteq spoiled'
        /\ \A t \in Tables : t # Of(p).id => dbResult'[t] = dbResult[t]
        /\ dbResult'[Of(p).id] = packet[p] \/ Of(p).id \in spoiled'
    BY <1>5, <2>1 DEF PushDataToDb, DbWrite, files, Typed, TypeOK
  <2>3. ASSUME NEW t \in Tables, t = Of(p).id, t \notin spoiled', FilingOn(t),
               \A q \in Processors \ {p} : ~Writes(q, t)' /\ ~Stores(q, t)'
        PROVE  FilingOn(t)'
    <3>1. finalFile[t] = packet[p]
      BY <2>1, <2>3 DEF FilingOn, Stores, Busy
    <3>2. ~Writes(p, t)' /\ ~Stores(p, t)'
      BY <2>1 DEF Writes, Stores
    <3> QED BY <2>2, <2>3, <3>1, <3>2 DEF FilingOn
  <2> QED BY <1>5, <2>1, <2>2, <2>3, FilingAlone DEF Process, TakePacket, At
<1>6. ASSUME NEW p \in Processors,
             \/ FindMatch(p) \/ LookUpWorker(p) \/ CompareStatus(p) \/ WriteStatus(p)
             \/ AssignStatus(p) \/ Answer(p)
      PROVE  Filing'
  <2>1. pc[p] \notin {"write", "db"} /\ pc'[p] \notin {"write", "db"}
    BY <1>6 DEF FindMatch, LookUpWorker, CompareStatus, AfterCompare, WriteStatus,
       AssignStatus, Answer, At, Goto, Typed, TypeOK
  <2>2. UNCHANGED <<finalFile, dbResult>> /\ spoiled \subseteq spoiled'
    BY <1>6 DEF FindMatch, LookUpWorker, CompareStatus, WriteStatus, AssignStatus,
       Answer, DbWrite, files, history
  <2>3. \A t \in Tables, q \in Processors :
          (Writes(q, t)' <=> Writes(q, t)) /\ (Stores(q, t)' <=> Stores(q, t))
    BY <1>6, <2>1, Continues DEF Writes, Stores, Busy, IsIntermediate
  <2>4. UNCHANGED <<packet, overlapped>>
    BY <1>6, Continues
  <2> QED BY <2>2, <2>3, <2>4, FilingAway
<1>7. ASSUME NEW t \in Tables, SenderCore(t)
      PROVE  Filing'
  <2>1. UNCHANGED <<arrived, pc, packet, finalFile, dbResult, overlapped>>
    BY <1>7 DEF SenderCore, QueueTable, CoreCompare, CoreWrite, CoreAssign, files, history
  <2>2. spoiled \subseteq spoiled'
    BY <1>7 DEF SenderCore, QueueTable, CoreCompare, CoreWrite, CoreAssign, DbWrite, history
  <2>3. \A u \in Tables, p \in Processors :
          (Writes(p, u)' <=> Writes(p, u)) /\ (Stores(p, u)' <=> Stores(p, u))
    BY <2>1 DEF Writes, Stores, Busy, Of, IsIntermediate
  <2> QED BY <2>1, <2>2, <2>3, FilingAway
<1>8. CASE UNCHANGED vars
  <2>1. \A u \in Tables, p \in Processors :
          (Writes(p, u)' <=> Writes(p, u)) /\ (Stores(p, u)' <=> Stores(p, u))
    BY <1>8 DEF vars, Writes, Stores, Busy, Of, IsIntermediate
  <2> QED BY <1>8, <2>1, FilingAway DEF vars, files, history
<1> QED BY <1>1, <1>2, <1>3, <1>4, <1>5, <1>6, <1>7, <1>8 DEF Next, Process

\* process_data_packet.cpp and updateTaskStatus: when no thread is at a table, its
\* final file and its result column agree, and so do its status and its entry,
\* unless two threads were at it at once or a database write failed.
THEOREM SerialTables == Spec => []SerialAgree
<1>1. Init => StatusKept /\ Filing
  <2>1. Init => Filing
    BY DEF Init, Filing, FilingOn, Writes, Stores, Busy
  <2> QED BY <2>1, StatusInit
<1>2. StatusKept /\ Filing /\ [Next]_vars => StatusKept' /\ Filing'
  BY StatusStep, FilingStep DEF StatusKept
<1>3. StatusKept /\ Filing => SerialAgree
  <2> SUFFICES ASSUME StatusKept, Filing, NEW t \in Tables \ (overlapped \cup spoiled),
                      Handlers(t) = {}
               PROVE  finalFile[t] = dbResult[t] /\ dbStatus[t] = taskStatus[t]
    BY DEF SerialAgree
  <2>1. ~CoreBusy(t) /\ \A p \in Processors : ~Busy(p, t)
    BY HandlersBusy
  <2>2. finalFile[t] = dbResult[t]
    BY <2>1 DEF Filing, FilingOn, Writes, Stores
  <2>3. \A s \in Statuses : ~Pending(t, s)
    BY <2>1 DEF Pending, CoreBusy
  <2> QED BY <2>2, <2>3 DEF StatusKept, Ahead, AheadOn
<1> QED BY <1>1, <1>2, <1>3, PTL DEF Spec
=============================================================================
