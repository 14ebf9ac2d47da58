------------------------------- MODULE Results -------------------------------
(***************************************************************************)
(* What becomes of the results the workers send:                           *)
(*                                                                         *)
(*   packet_processor/packet_validator.cpp       the task of a packet      *)
(*   packet_processor/process_data_packet.cpp    files and database        *)
(*   packet_processor/process_status_packet.cpp  status and answer         *)
(*   packet_processor/outgoing_data_registry.cpp updateTaskStatus          *)
(*                                                                         *)
(* The packets come out of the receiver sink in the order they came in     *)
(* (Sink!ReceiverIsFifo), each to a processor: one of the worker threads   *)
(* that run start_validator.  The sender core updates the status of a      *)
(* table it has queued at the same time.  Nothing here is under a lock.    *)
(***************************************************************************)
EXTENDS Naturals, Sequences

CONSTANTS
  Tables,       \* user tables the registry has an entry of
  Stranger,     \* an id it has none of
  Sent,         \* the packets workers may send, a set of Packet
  Processors,   \* threads that run start_validator
  MaxPackets,   \* bound: so many packets come from workers
  MaxFailures   \* bound: so many database writes fail

ASSUME ResultsAssumption ==
  Stranger \notin Tables /\ MaxPackets \in Nat /\ MaxFailures \in Nat

\* What a packet says and carries.  "full" has an id, a priority and data; "empty"
\* has data of length 0; "status" has no priority and is no data packet.
Heads == {"P_INTR_RES", "P_FINAL_RES", "P_ERR", "P_DATA_ACK"}
Forms == {"full", "empty", "status"}
Packet == [head : Heads, form : Forms, id : Tables \cup {Stranger}]

ASSUME SentAssumption == Sent \subseteq Packet

\* UserTaskStatus, task.hpp.
DATA_QUEUED == 0
DATA_READY  == 1
DATA_INTER  == 3
DATA_FINAL  == 4
DATA_ERROR  == 5

Nothing == 0             \* no result: no file, or a column that is NULL
Empty   == MaxPackets + 1  \* an opened, truncated file
Torn    == MaxPackets + 2  \* a file two threads wrote to at once
Content == 0..Torn         \* otherwise the number of the packet it came with

VARIABLES
  arrived,      \* the packets pushed to the receiver sink
  taken,        \* how many of them were popped
  pc,           \* per processor: where it is
  packet,       \* per processor: the number of the packet it handles
  core,         \* per table: where the sender core is with it
  taskStatus,   \* per table: OutgoingDataState::taskStatus
  dbStatus,     \* per table: the status column
  dbResult,     \* per table: the result column
  interFile,    \* per table: the file of intermediate results
  finalFile,    \* per table: the file of final results
  stored,       \* history: packets whose data went where it belongs
  confirmed,    \* history: packets whose result was reported or answered
  overlapped,   \* history: tables two threads have handled at once
  spoiled,      \* history: tables a database write of failed
  failures,     \* bound
  crashed       \* a connection that never was has been used

files   == <<interFile, finalFile>>
history == <<stored, confirmed, overlapped, spoiled>>
vars    == <<arrived, taken, pc, packet, core, taskStatus, dbStatus, dbResult, files,
             history, failures, crashed>>

Init ==
  /\ arrived = << >>
  /\ taken = 0
  /\ pc = [p \in Processors |-> "idle"]
  /\ packet = [p \in Processors |-> 0]
  /\ core = [t \in Tables |-> "todo"]
  /\ taskStatus = [t \in Tables |-> DATA_QUEUED]
  /\ dbStatus = [t \in Tables |-> DATA_QUEUED]
  /\ dbResult = [t \in Tables |-> Nothing]
  /\ interFile = [t \in Tables |-> Nothing]
  /\ finalFile = [t \in Tables |-> Nothing]
  /\ stored = {}
  /\ confirmed = {}
  /\ overlapped = {}
  /\ spoiled = {}
  /\ failures = 0
  /\ crashed = FALSE

-----------------------------------------------------------------------------
At(p, place)   == ~crashed /\ pc[p] = place
Goto(p, place) == pc' = [pc EXCEPT ![p] = place]
Of(p)          == arrived[packet[p]]

\* The threads that handle table t.
Handlers(t) ==
  {p \in Processors : pc[p] # "idle" /\ Of(p).id = t}
    \cup (IF core[t] \in {"todo", "done"} THEN {} ELSE {"core"})

\* A database write from a connection of its own: it succeeds, or fails and nobody
\* looks at the result; without a connection its pointer is uninitialised.
DbWrite(column, t, value) ==
  \/ /\ column' = [column EXCEPT ![t] = value]
     /\ UNCHANGED <<spoiled, failures, crashed>>
  \/ /\ failures < MaxFailures
     /\ failures' = failures + 1
     /\ spoiled' = spoiled \cup {t}
     /\ crashed' \in BOOLEAN
     /\ UNCHANGED column

\* A worker answers a table it was sent; Stranger stands for any other answer.
Arrive(k) ==
  /\ ~crashed
  /\ Len(arrived) < MaxPackets
  /\ k.id \in Tables => core[k.id] # "todo"
  /\ arrived' = Append(arrived, k)
  /\ UNCHANGED <<taken, pc, packet, core, taskStatus, dbStatus, dbResult, files,
                 history, failures, crashed>>

-----------------------------------------------------------------------------
(***************************************************************************)
(* start_validator: the data of the packet first, then its status.         *)
(***************************************************************************)
\* Mutant: every packet is taken for a status.
FirstStatus(k) == "worker"

FirstPlace(k) == IF k.form = "status" THEN "worker" ELSE "match"

TakePacket(p) ==
  /\ At(p, "idle")
  /\ taken < Len(arrived)
  /\ taken' = taken + 1
  /\ packet' = [packet EXCEPT ![p] = taken + 1]
  /\ LET k == arrived[taken + 1]
     IN  /\ Goto(p, FirstPlace(k))
         /\ overlapped' = overlapped \cup
              {t \in Tables : t = k.id /\ Handlers(t) # {}}
  /\ UNCHANGED <<arrived, core, taskStatus, dbStatus, dbResult, files, stored,
                 confirmed, spoiled, failures, crashed>>

\* Mutant: findMatchInList is not asked.
FindMatchAny(p) ==
  /\ At(p, "match")
  /\ Goto(p, IF Of(p).form = "full" THEN "open" ELSE "worker")
  /\ UNCHANGED <<arrived, taken, packet, core, taskStatus, dbStatus, dbResult, files,
                 history, failures, crashed>>

\* ProcessDataPacket::execute up to createCsvFromData: data of a table without an
\* entry, and empty data, are not stored.
FindMatch(p) ==
  /\ At(p, "match")
  /\ Goto(p, IF Of(p).id \in Tables /\ Of(p).form = "full" THEN "open" ELSE "worker")
  /\ UNCHANGED <<arrived, taken, packet, core, taskStatus, dbStatus, dbResult, files,
                 history, failures, crashed>>

\* Mutant: what is not final is intermediate.
IsIntermediateRest(k) == k.head # "P_FINAL_RES"

\* detectDataType.  What is neither, an error or an acknowledgement with data, is
\* ERROR_DATA, which is stored as a final result.
IsIntermediate(k) == k.head = "P_INTR_RES"

\* The file of the data's type becomes what the data or its opening makes it.
InFile(p, content) ==
  IF IsIntermediate(Of(p))
    THEN /\ interFile' = [interFile EXCEPT ![Of(p).id] = content]
         /\ UNCHANGED finalFile
    ELSE /\ finalFile' = [finalFile EXCEPT ![Of(p).id] = content]
         /\ UNCHANGED interFile

\* The file is opened, and truncated.
OpenCsv(p) ==
  /\ At(p, "open")
  /\ InFile(p, Empty)
  /\ Goto(p, "write")
  /\ UNCHANGED <<arrived, taken, packet, core, taskStatus, dbStatus, dbResult,
                 history, failures, crashed>>

\* Others that have opened the same file and not yet written it.
SharesFile(p) ==
  \E q \in Processors \ {p} :
    /\ pc[q] = "write" /\ Of(q).id = Of(p).id
    /\ IsIntermediate(Of(q)) = IsIntermediate(Of(p))

\* The data is written: over what another thread wrote since, or with another
\* thread that truncates the file meanwhile, the outcome may be a mixture.
WriteCsv(p) ==
  LET t    == Of(p).id
      mine == IF IsIntermediate(Of(p)) THEN interFile[t] ELSE finalFile[t]
  IN  /\ At(p, "write")
      /\ \E content \in {packet[p]} \cup
                        (IF SharesFile(p) \/ mine # Empty THEN {Torn} ELSE {}) :
           InFile(p, content)
      /\ IF IsIntermediate(Of(p))
           THEN Goto(p, "worker") /\ stored' = stored \cup {packet[p]}
           ELSE Goto(p, "db") /\ UNCHANGED stored
      /\ UNCHANGED <<arrived, taken, packet, core, taskStatus, dbStatus, dbResult,
                     confirmed, overlapped, spoiled, failures, crashed>>

\* Mutant: the result does not reach the row.
PushDataToDbNever(p) ==
  /\ At(p, "db")
  /\ stored' = stored \cup {packet[p]}
  /\ Goto(p, "worker")
  /\ UNCHANGED <<arrived, taken, packet, core, taskStatus, dbStatus, dbResult, files,
                 confirmed, overlapped, spoiled, failures, crashed>>

PushDataToDb(p) ==
  /\ At(p, "db")
  /\ DbWrite(dbResult, Of(p).id, packet[p])
  /\ stored' = stored \cup {packet[p]}
  /\ Goto(p, "worker")
  /\ UNCHANGED <<arrived, taken, packet, core, taskStatus, dbStatus, files,
                 confirmed, overlapped>>

-----------------------------------------------------------------------------
(***************************************************************************)
(* packetStatusParse, and updateTaskStatus for processors and sender core. *)
(***************************************************************************)
ReportOf(k) ==
  CASE k.head = "P_INTR_RES"  -> DATA_INTER
    [] k.head = "P_FINAL_RES" -> DATA_FINAL
    [] k.head = "P_ERR"       -> DATA_ERROR

\* An error without a text is not reported; WorkerNode handles acknowledgements.
Reports(k) == k.head # "P_DATA_ACK" /\ (k.head = "P_ERR" => k.form # "empty")

\* The worker is looked up: registered in haste it may be lost (Session), and then
\* the packet ends here.  Only an entry has a status.
LookUpWorker(p) ==
  /\ At(p, "worker")
  /\ \/ Goto(p, IF Reports(Of(p)) /\ Of(p).id \in Tables THEN "compare" ELSE "idle")
     \/ Goto(p, "idle")
  /\ UNCHANGED <<arrived, taken, packet, core, taskStatus, dbStatus, dbResult, files,
                 history, failures, crashed>>

IsBehind(status, t) == status < taskStatus[t]

\* Mutant: a lower status is no reason to stop.
AfterCompareAlways(status, t) == "status"

AfterCompare(status, t) == IF IsBehind(status, t) THEN "answer" ELSE "status"

CompareStatus(p) ==
  /\ At(p, "compare")
  /\ Goto(p, AfterCompare(ReportOf(Of(p)), Of(p).id))
  /\ UNCHANGED <<arrived, taken, packet, core, taskStatus, dbStatus, dbResult, files,
                 history, failures, crashed>>

WriteStatus(p) ==
  /\ At(p, "status")
  /\ DbWrite(dbStatus, Of(p).id, ReportOf(Of(p)))
  /\ confirmed' = confirmed \cup {packet[p]}
  /\ Goto(p, "assign")
  /\ UNCHANGED <<arrived, taken, packet, core, taskStatus, dbResult, files, stored,
                 overlapped>>

AssignStatus(p) ==
  /\ At(p, "assign")
  /\ taskStatus' = [taskStatus EXCEPT ![Of(p).id] = ReportOf(Of(p))]
  /\ Goto(p, "answer")
  /\ UNCHANGED <<arrived, taken, packet, core, dbStatus, dbResult, files,
                 history, failures, crashed>>

\* A result is answered by SP_INTR_ACK or SP_FRES_ACK; the queue is WorkerNode's.
Answer(p) ==
  /\ At(p, "answer")
  /\ confirmed' = IF Of(p).head = "P_ERR" THEN confirmed ELSE confirmed \cup {packet[p]}
  /\ Goto(p, "idle")
  /\ UNCHANGED <<arrived, taken, packet, core, taskStatus, dbStatus, dbResult, files,
                 stored, overlapped, spoiled, failures, crashed>>

\* pushUserDataToWorkerQueue: the table is queued for a worker and only then its
\* status updated.  The sender core handles one table at a time.
CoreAt(t, place) == ~crashed /\ core[t] = place

QueueTable(t) ==
  /\ CoreAt(t, "todo")
  /\ \A u \in Tables : core[u] \in {"todo", "done"}
  /\ core' = [core EXCEPT ![t] = "compare"]
  /\ UNCHANGED <<arrived, taken, pc, packet, taskStatus, dbStatus, dbResult, files,
                 history, failures, crashed>>

CoreCompare(t) ==
  /\ CoreAt(t, "compare")
  /\ core' = [core EXCEPT ![t] =
                IF AfterCompare(DATA_READY, t) = "status" THEN "status" ELSE "done"]
  /\ UNCHANGED <<arrived, taken, pc, packet, taskStatus, dbStatus, dbResult, files,
                 history, failures, crashed>>

CoreWrite(t) ==
  /\ CoreAt(t, "status")
  /\ DbWrite(dbStatus, t, DATA_READY)
  /\ core' = [core EXCEPT ![t] = "assign"]
  /\ UNCHANGED <<arrived, taken, pc, packet, taskStatus, dbResult, files, stored,
                 confirmed, overlapped>>

CoreAssign(t) ==
  /\ CoreAt(t, "assign")
  /\ taskStatus' = [taskStatus EXCEPT ![t] = DATA_READY]
  /\ core' = [core EXCEPT ![t] = "done"]
  /\ UNCHANGED <<arrived, taken, pc, packet, dbStatus, dbResult, files,
                 history, failures, crashed>>

Process(p) ==
  \/ TakePacket(p)
  \/ FindMatch(p) \/ OpenCsv(p) \/ WriteCsv(p) \/ PushDataToDb(p)
  \/ LookUpWorker(p) \/ CompareStatus(p) \/ WriteStatus(p) \/ AssignStatus(p)
  \/ Answer(p)

SenderCore(t) == QueueTable(t) \/ CoreCompare(t) \/ CoreWrite(t) \/ CoreAssign(t)

Next ==
  \/ \E k \in Sent : Arrive(k)
  \/ \E p \in Processors : Process(p)
  \/ \E t \in Tables : SenderCore(t)

Spec == Init /\ [][Next]_vars

-----------------------------------------------------------------------------
Statuses == {DATA_QUEUED, DATA_READY, DATA_INTER, DATA_FINAL, DATA_ERROR}
Places   == {"idle", "match", "open", "write", "db", "worker", "compare", "status",
             "assign", "answer"}

\* Type invariant.  Only a packet of a table with an entry gets as far as a file or
\* a status.
TypeOK ==
  /\ arrived \in Seq(Packet)
  /\ taken \in 0..Len(arrived)
  /\ pc \in [Processors -> Places]
  /\ packet \in [Processors -> 0..taken]
  /\ \A p \in Processors :
       /\ pc[p] # "idle" => packet[p] # 0
       /\ pc[p] \notin {"idle", "match", "worker"} => Of(p).id \in Tables
  /\ core \in [Tables -> {"todo", "compare", "status", "assign", "done"}]
  /\ taskStatus \in [Tables -> Statuses]
  /\ dbStatus \in [Tables -> Statuses]
  /\ dbResult \in [Tables -> 0..taken]
  /\ interFile \in [Tables -> Content]
  /\ finalFile \in [Tables -> Content]
  /\ stored \subseteq 1..taken /\ confirmed \subseteq 1..taken
  /\ overlapped \subseteq Tables /\ spoiled \subseteq Tables
  /\ failures \in Nat
  /\ crashed \in BOOLEAN

\* start_validator handles the data of a packet before its status: a result whose
\* data is worth storing is reported as received, or acknowledged to the worker -
\* which then forgets it - only after the attempt to store it.
StoredFirst ==
  \A n \in confirmed :
    arrived[n].form = "full" /\ arrived[n].head # "P_DATA_ACK" => n \in stored

\* Whoever overtakes whom, the two kinds of results never mix: what lies in the
\* database or the file of final results did not come as an intermediate one, and
\* the other way round, and it came for this table.
KindsApart ==
  \A t \in Tables :
    /\ \A n \in {dbResult[t], finalFile[t]} \cap 1..MaxPackets :
         arrived[n].id = t /\ arrived[n].head # "P_INTR_RES"
    /\ interFile[t] \in 1..MaxPackets =>
         arrived[interFile[t]].id = t /\ arrived[interFile[t]].head = "P_INTR_RES"

\* The final file and the result column are written one after the other, and so are
\* the status column and the entry.  They agree whenever no thread is at the
\* table, unless two threads were at it at once or a database write failed.
SerialAgree ==
  \A t \in Tables \ (overlapped \cup spoiled) :
    Handlers(t) = {} => finalFile[t] = dbResult[t] /\ dbStatus[t] = taskStatus[t]

\* updateTaskStatus, which tests before it writes to the database and assigns after:
\* the status a user sees goes back only where two threads were at the table.
StatusAdvances ==
  [][\A t \in Tables \ overlapped :
       taskStatus'[t] >= taskStatus[t] /\ dbStatus'[t] >= dbStatus[t]]_vars
=============================================================================
