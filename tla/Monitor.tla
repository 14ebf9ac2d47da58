------------------------------- MODULE Monitor -------------------------------
(***************************************************************************)
(* The two services that look for new rows in the database and have them   *)
(* extracted:                                                              *)
(*                                                                         *)
(*   services/monitor_user_table.cpp      user data, by time stamp         *)
(*   services/monitor_instance_table.cpp  templates, all at every change   *)
(*   services/sql_access.cpp              what a query and its failure give*)
(*   data_extractor/data_extractor.cpp    the extraction, name by name     *)
(*                                                                         *)
(* Each service has a table, a connection and a thread of its own and they *)
(* share nothing, so a behaviour follows one of them, chosen initially.    *)
(* The web application changes the table between any two queries, several  *)
(* times in a second; a row's time stamp is the second of its last change. *)
(* What becomes of an extracted user table is the subject of Dispatch, of  *)
(* a registered template that of TemplateSync.                             *)
(***************************************************************************)
EXTENDS Integers

CONSTANTS
  MaxRows,      \* bound: so many rows are entered
  MaxWrites,    \* bound: the table is written at most this often
  MaxClock,     \* bound: the last second
  MaxFailures   \* bound: failed queries for the last time stamp

ASSUME MonitorAssumption ==
  MaxRows \in Nat /\ MaxWrites \in Nat /\ MaxClock \in Nat \ {0, 1} /\ MaxFailures \in Nat

\* Rows are numbered in the order they are entered.
Rows == 1..MaxRows

\* The time stamp "" and the initial "2022-05-01 00:00:00", before any row.
NoStamp    == 0
StartStamp == 1
Stamp      == 0..MaxClock

\* What the registry may hold for a template: nothing, the empty text a failed
\* query for the file's name ends in (its directory is opened instead), or what
\* was written last when it was read.
Absent  == -1
Blank   == 0
Content == Absent..MaxWrites

VARIABLES
  service,       \* the service that is followed, and its table
  connected,     \* its SqlAccess::initialize succeeded
  clock,         \* the current second
  stampOf,       \* per row: its time stamp, NoStamp before it is entered
  present,       \* the rows in the table
  written,       \* per row: the number of the write that gave its content
  twins,         \* history: rows that shared their second with another row
  pc,            \* where the loop of the service is
  current,       \* currentTimeStamp
  latest,        \* latestTimeStamp
  names,         \* the names still to extract
  extracted,     \* per user row: how often its table was made and pushed
  instanceList,  \* executeInstanceExtractor: the contents read so far
  registry,      \* UserDataTemplate::uDataTemplateList
  failedMax,     \* history: failed queries for the last time stamp
  lastFailed,    \* history: the last list failed or was not fully read
  everFailed,    \* history: some list failed
  crashed        \* undefined behaviour has ended the program

tables   == <<service, connected, clock, stampOf, present, written, twins>>
polling  == <<pc, current, latest, names>>
outcome  == <<extracted, instanceList, registry>>
history  == <<failedMax, lastFailed, everFailed>>
vars     == <<tables, polling, outcome, history, crashed>>

-----------------------------------------------------------------------------
Init ==
  /\ service \in {"user", "template"}
  /\ connected \in BOOLEAN
  /\ clock = StartStamp + 1
  /\ stampOf = [r \in Rows |-> NoStamp]
  /\ present = {}
  /\ written = [r \in Rows |-> 0]
  /\ twins = {}
  /\ pc = "poll"
  /\ current = NoStamp
  /\ latest = IF service = "user" THEN StartStamp ELSE NoStamp
  /\ names = {}
  /\ extracted = [r \in Rows |-> 0]
  /\ instanceList = [r \in Rows |-> Absent]
  /\ registry = [r \in Rows |-> Absent]
  /\ failedMax = 0
  /\ lastFailed = FALSE
  /\ everFailed = FALSE
  /\ crashed = FALSE

\* The database's clock and the web application.
Tick ==
  /\ clock < MaxClock
  /\ clock' = clock + 1
  /\ UNCHANGED <<service, connected, stampOf, present, written, twins, polling,
                 outcome, history, crashed>>

\* A row is entered, or a template changed.
Writes == LET numbers == {written[r] : r \in Rows}
          IN  CHOOSE n \in numbers : \A m \in numbers : m <= n

Write(r) ==
  /\ \/ stampOf[r] = NoStamp /\ \A q \in 1..r - 1 : stampOf[q] # NoStamp
     \/ service = "template" /\ r \in present
  /\ Writes < MaxWrites
  /\ written' = [written EXCEPT ![r] = Writes + 1]
  /\ stampOf' = [stampOf EXCEPT ![r] = clock]
  /\ present' = present \cup {r}
  /\ LET others == {q \in Rows \ {r} : stampOf[q] = clock}
     IN  twins' = IF others = {} THEN twins ELSE twins \cup others \cup {r}
  /\ UNCHANGED <<service, connected, clock, polling, outcome, history, crashed>>

RemoveRow(r) ==
  /\ r \in present
  /\ present' = present \ {r}
  /\ UNCHANGED <<service, connected, clock, stampOf, written, twins, polling,
                 outcome, history, crashed>>

-----------------------------------------------------------------------------
(***************************************************************************)
(* A poll.  Every query may fail: it then returns an empty text or list,   *)
(* and nobody looks at the difference.                                     *)
(***************************************************************************)
At(place) == ~crashed /\ connected /\ pc = place

\* SELECT MAX(timestamp): an empty text when the table is empty.
MaxStamp ==
  LET stamps == {stampOf[r] : r \in present}
  IN  IF stamps = {} THEN NoStamp ELSE CHOOSE t \in stamps : \A u \in stamps : u <= t

\* The comparison is by !=, so an earlier stamp counts as a change too.
Compared(stamp) ==
  /\ current' = stamp
  /\ pc' = IF stamp # latest THEN "list" ELSE "poll"
  /\ UNCHANGED <<tables, latest, names, outcome, lastFailed, everFailed, crashed>>

\* The guard of the user service, that no sink is full (isSinkFull), never holds it
\* back: it compares with >, and the sender sink has its size at most (SenderSinkSafe).
QueryMax ==
  /\ At("poll")
  /\ Compared(MaxStamp)
  /\ UNCHANGED failedMax

QueryMaxFails ==
  /\ At("poll")
  /\ failedMax < MaxFailures
  /\ failedMax' = failedMax + 1
  /\ Compared(NoStamp)

\* SqlAccess never tests inited: without a connection conn is uninitialised.
QueryUnconnected ==
  /\ ~connected /\ ~crashed
  /\ crashed' = TRUE
  /\ UNCHANGED <<tables, polling, outcome, history>>

\* Mutants: the query is built after the stamp was saved; it starts at it.
NewRowsAfterSave == {r \in present : stampOf[r] > current}
NewRowsFrom      == {r \in present : stampOf[r] >= latest}

\* The rows after the stamp saved at the previous poll.
NewRows == {r \in present : stampOf[r] > latest}

\* Mutant: the stamp is not saved.
ListedUnsaved(found) ==
  /\ names' = found
  /\ pc' = IF service = "user" /\ found = {} THEN "poll" ELSE "extract"
  /\ UNCHANGED <<tables, current, latest, outcome, failedMax, crashed>>

Listed(found) ==
  /\ latest' = current
  /\ names' = found
  /\ pc' = IF service = "user" /\ found = {} THEN "poll" ELSE "extract"
  /\ UNCHANGED <<tables, current, outcome, failedMax, crashed>>

\* Mutant: templates are listed by time stamp too.
ListByStamp ==
  /\ At("list")
  /\ Listed(NewRows)
  /\ lastFailed' = FALSE
  /\ UNCHANGED everFailed

\* User data is listed by time stamp, of the templates all.
List ==
  /\ At("list")
  /\ Listed(IF service = "user" THEN NewRows ELSE present)
  /\ lastFailed' = FALSE
  /\ UNCHANGED everFailed

ListFails ==
  /\ At("list")
  /\ Listed({})
  /\ lastFailed' = TRUE
  /\ everFailed' = TRUE

-----------------------------------------------------------------------------
(***************************************************************************)
(* The extraction, which queries the table again for every name.           *)
(***************************************************************************)
\* executeUserTableExtractor for one name: the table is made and pushed, even
\* when its row has gone or its file is missing.
ExtractUserTable(r) ==
  /\ At("extract") /\ service = "user"
  /\ r \in names
  /\ extracted' = [extracted EXCEPT ![r] = @ + 1]
  /\ names' = names \ {r}
  /\ pc' = IF names = {r} THEN "poll" ELSE "extract"
  /\ UNCHANGED <<tables, current, latest, instanceList, registry, history, crashed>>

\* executeInstanceExtractor for one name: a row that has gone gives no file name.
Read(r, content) ==
  /\ At("extract") /\ service = "template"
  /\ r \in names
  /\ instanceList' = [instanceList EXCEPT ![r] = content]
  /\ names' = names \ {r}
  /\ UNCHANGED <<tables, pc, current, latest, extracted, registry, failedMax,
                 everFailed, crashed>>

ReadTemplate(r) ==
  /\ Read(r, IF r \in present THEN written[r] ELSE Blank)
  /\ UNCHANGED lastFailed

\* The file is missing and the name left out, or the query for it failed.
ReadTemplateFails(r) ==
  /\ Read(r, Absent) \/ Read(r, Blank)
  /\ lastFailed' = TRUE

\* Mutant: only the first update counts.
KeptRegistry ==
  IF \E r \in Rows : registry[r] # Absent THEN registry ELSE instanceList

\* UserDataTemplate::update: the names it knows keep their content for good.
MergedRegistry ==
  [r \in Rows |-> IF registry[r] = Absent THEN instanceList[r] ELSE registry[r]]

RegisterTemplates ==
  /\ At("extract") /\ service = "template"
  /\ names = {}
  /\ registry' = MergedRegistry
  /\ instanceList' = [r \in Rows |-> Absent]
  /\ pc' = "poll"
  /\ UNCHANGED <<tables, current, latest, names, extracted, history, crashed>>

Application == Tick \/ \E r \in Rows : Write(r) \/ RemoveRow(r)

Poll ==
  \/ QueryMax \/ QueryMaxFails \/ QueryUnconnected
  \/ List \/ ListFails
  \/ \E r \in Rows : ExtractUserTable(r) \/ ReadTemplate(r) \/ ReadTemplateFails(r)
  \/ RegisterTemplates

Next == Application \/ Poll

\* The service loops for ever: it sleeps and polls again.
Fairness == WF_vars(Poll)

Spec == Init /\ [][Next]_vars /\ Fairness

-----------------------------------------------------------------------------
\* Type invariant.  The service is between its two queries only with a stamp it
\* has not saved, and extracts names only under the stamp it then saved.
TypeOK ==
  /\ service \in {"user", "template"} /\ connected \in BOOLEAN
  /\ clock \in Stamp
  /\ stampOf \in [Rows -> Stamp]
  /\ present \subseteq Rows
  /\ written \in [Rows -> 0..MaxWrites]
  /\ twins \subseteq Rows
  /\ pc \in {"poll", "list", "extract"}
  /\ current \in Stamp /\ latest \in Stamp
  /\ names \subseteq Rows
  /\ pc = "list" => current # latest
  /\ names # {} => pc = "extract" /\ latest = current
  /\ extracted \in [Rows -> Nat]
  /\ instanceList \in [Rows -> Content] /\ registry \in [Rows -> Content]
  /\ failedMax \in 0..MaxFailures
  /\ lastFailed \in BOOLEAN /\ everFailed \in BOOLEAN
  /\ crashed \in BOOLEAN

\* monitorUserTable saves the stamp before it queries the rows, and compares
\* with >.  Between two polls a row older than the saved stamp was extracted,
\* unless it shares its second with another row or a list failed - those rows
\* are lost - however rows come and go between the two queries, and even when
\* the query for the stamp failed and put the saved stamp back to "".
UserRowsFound ==
  service = "user" /\ ~everFailed /\ pc = "poll" =>
    \A r \in present : stampOf[r] < latest /\ r \notin twins => extracted[r] > 0

\* monitorUserTable: a row entered between the two queries is found by the next
\* poll once more, and a failed query for the stamp makes the server extract and
\* compute everything again - but no row more often than that.
ExtractionBound == \A r \in Rows : extracted[r] <= 2 + failedMax

\* monitorInstanceTable reads all names whenever the stamp differs: after a poll
\* that did not fail every template older than the saved stamp is registered,
\* those that earlier failures left out included.
TemplatesFound ==
  service = "template" /\ ~lastFailed /\ pc = "poll" =>
    \A r \in present : stampOf[r] < latest => registry[r] # Absent

\* A row alone in its second that stays in its table is extracted, or registered,
\* in the end, unless a list failed or there was never a connection.
RowsServed ==
  \A r \in Rows :
    r \in present ~> \/ extracted[r] > 0 \/ registry[r] # Absent
                     \/ r \notin present \/ r \in twins \/ everFailed \/ lastFailed \/ crashed
=============================================================================
