--------------------------- MODULE MonitorProofs ---------------------------
(***************************************************************************)
(* What the two polls find, for any number of rows, writes, seconds and    *)
(* failures; and what becomes of the templates found, for any number of    *)
(* workers, templates, processors and updates.                             *)
(***************************************************************************)
EXTENDS Monitor, TemplateSync, StdListProofs

(***************************************************************************)
(* Types and time: no stamp is ahead of the clock, and a row that has been *)
(* entered is younger than the first stamp saved.                          *)
(***************************************************************************)
Timely ==
  /\ clock > StartStamp
  /\ latest <= clock /\ current <= clock
  /\ \A r \in Rows : stampOf[r] <= clock
  /\ \A r \in Rows : stampOf[r] = NoStamp \/ stampOf[r] > StartStamp
  /\ \A r \in present : stampOf[r] # NoStamp

Typed == TypeOK /\ Timely

\* A bounded set of numbers has a greatest.
LEMMA GreatestExists ==
  ASSUME NEW b \in Nat, NEW T \in SUBSET (0..b), T # {}
  PROVE  \E t \in T : \A u \in T : u <= t
<1> DEFINE below == {b - t : t \in T}
<1>1. below \in SUBSET Nat /\ below # {}
  <2>1. \A t \in T : b - t \in Nat
    OBVIOUS
  <2> QED BY <2>1
<1>2. PICK d \in below : \A e \in below : d <= e
  <2> HIDE DEF below
  <2> QED BY <1>1, LeastExists
<1>3. PICK t \in T : d = b - t
  OBVIOUS
<1>4. ASSUME NEW u \in T
      PROVE  u <= t
  <2>1. b - t <= b - u
    BY <1>2, <1>3
  <2> QED BY <2>1
<1> QED BY <1>4

\* The number of the last write.
LEMMA WritesType ==
  ASSUME Typed, NEW r \in Rows
  PROVE  Writes \in 0..MaxWrites
<1> DEFINE numbers == {written[q] : q \in Rows}
<1>1. numbers \in SUBSET (0..MaxWrites) /\ numbers # {}
  BY DEF Typed, TypeOK
<1>2. PICK n \in numbers : \A m \in numbers : m <= n
  <2> HIDE DEF numbers
  <2> QED BY <1>1, GreatestExists, MonitorAssumption
<1>3. Writes \in numbers
  BY <1>2 DEF Writes
<1> QED BY <1>1, <1>3

\* The greatest stamp is that of a row in the table, and of none greater.
LEMMA MaxStampIs ==
  ASSUME Typed
  PROVE  /\ MaxStamp \in Stamp /\ MaxStamp <= clock
         /\ \A r \in present : stampOf[r] <= MaxStamp
         /\ MaxStamp = NoStamp \/ \E r \in present : MaxStamp = stampOf[r]
<1> DEFINE stamps == {stampOf[r] : r \in present}
<1>1. CASE stamps = {}
  <2>1. MaxStamp = NoStamp /\ present = {}
    BY <1>1 DEF MaxStamp
  <2> QED BY <2>1, MonitorAssumption DEF NoStamp, Stamp, Typed, TypeOK
<1>2. CASE stamps # {}
  <2>1. stamps \in SUBSET (0..MaxClock)
    BY DEF Typed, TypeOK, Stamp
  <2>2. \E t \in stamps : \A u \in stamps : u <= t
    <3> HIDE DEF stamps
    <3> QED BY <1>2, <2>1, GreatestExists, MonitorAssumption
  <2>3. MaxStamp \in stamps /\ \A u \in stamps : u <= MaxStamp
    BY <1>2, <2>2 DEF MaxStamp
  <2> QED BY <2>1, <2>3 DEF Typed, TypeOK, Timely, Stamp
<1> QED BY <1>1, <1>2

\* Types and time hold at the start.
LEMMA TypedInit == Init => Typed
<1> SUFFICES ASSUME Init
             PROVE  Typed
  OBVIOUS
<1>1. /\ NoStamp \in Stamp /\ StartStamp \in Stamp /\ StartStamp + 1 \in Stamp
      /\ Absent \in Content /\ 0 \in 0..MaxWrites /\ 0 \in 0..MaxFailures
  BY MonitorAssumption DEF NoStamp, StartStamp, Stamp, Absent, Content
<1>2. TypeOK
  BY <1>1 DEF Init, TypeOK
<1>3. Timely
  BY DEF Init, Timely, NoStamp, StartStamp
<1> QED BY <1>2, <1>3 DEF Typed

\* The web application.
LEMMA TypedApplication ==
  ASSUME Typed, Application
  PROVE  Typed'
<1>1. CASE Tick
  <2>1. clock \in Nat /\ clock + 1 \in Stamp
    BY <1>1, MonitorAssumption DEF Typed, TypeOK, Tick, Stamp
  <2>2. TypeOK'
    BY <1>1, <2>1 DEF Typed, TypeOK, Tick, polling, outcome, history
  <2>3. Timely'
    BY <1>1, <2>1 DEF Typed, TypeOK, Timely, Tick, polling, outcome, history, Stamp, StartStamp
  <2> QED BY <2>2, <2>3 DEF Typed
<1>2. ASSUME NEW r \in Rows, Write(r)
      PROVE  Typed'
  <2>1. Writes + 1 \in 0..MaxWrites
    BY <1>2, WritesType, MonitorAssumption DEF Write
  <2>2. twins' \subseteq Rows
    <3> DEFINE others == {q \in Rows \ {r} : stampOf[q] = clock}
    <3>1. twins' = IF others = {} THEN twins ELSE twins \cup others \cup {r}
      BY <1>2 DEF Write
    <3>2. others \subseteq Rows
      OBVIOUS
    <3> HIDE DEF others
    <3> QED BY <3>1, <3>2 DEF Typed, TypeOK
  <2>3. /\ written' \in [Rows -> 0..MaxWrites] /\ stampOf' \in [Rows -> Stamp]
        /\ present' \subseteq Rows
    BY <1>2, <2>1 DEF Typed, TypeOK, Write
  <2>4. TypeOK'
    BY <1>2, <2>2, <2>3 DEF Typed, TypeOK, Write, polling, outcome, history
  <2>5. Timely'
    BY <1>2 DEF Typed, TypeOK, Timely, Write, polling, outcome, history, Stamp, StartStamp,
       NoStamp
  <2> QED BY <2>4, <2>5 DEF Typed
<1>3. ASSUME NEW r \in Rows, RemoveRow(r)
      PROVE  Typed'
  <2>1. present' \subseteq Rows /\ \A q \in present' : q \in present
    BY <1>3 DEF RemoveRow, Typed, TypeOK
  <2>2. TypeOK'
    BY <1>3, <2>1 DEF Typed, TypeOK, RemoveRow, polling, outcome, history
  <2>3. Timely'
    BY <1>3, <2>1 DEF Typed, Timely, RemoveRow, polling, outcome, history
  <2> QED BY <2>2, <2>3 DEF Typed
<1> QED BY <1>1, <1>2, <1>3 DEF Application

\* The queries of a poll.
LEMMA TypedQuery ==
  ASSUME Typed, QueryMax \/ QueryMaxFails \/ QueryUnconnected \/ List \/ ListFails
  PROVE  Typed'
<1>1. CASE QueryMax \/ QueryMaxFails
  <2>1. failedMax' \in 0..MaxFailures
    BY <1>1, MonitorAssumption DEF QueryMax, QueryMaxFails, Typed, TypeOK
  <2>2. PICK stamp \in Stamp : Compared(stamp) /\ stamp <= clock
    BY <1>1, MaxStampIs, MonitorAssumption
    DEF QueryMax, QueryMaxFails, Stamp, NoStamp, Typed, TypeOK
  <2>3. pc = "poll"
    BY <1>1 DEF QueryMax, QueryMaxFails, At
  <2>4. TypeOK'
    BY <2>1, <2>2, <2>3 DEF Typed, TypeOK, Compared, tables, outcome
  <2>5. Timely'
    BY <2>2 DEF Typed, Timely, Compared, tables
  <2> QED BY <2>4, <2>5 DEF Typed
<1>2. CASE QueryUnconnected
  BY <1>2 DEF QueryUnconnected, Typed, TypeOK, Timely, tables, polling, outcome, history
<1>3. CASE List \/ ListFails
  <2>1. PICK found \in SUBSET Rows : Listed(found)
    BY <1>3 DEF List, ListFails, NewRows, Typed, TypeOK
  <2>2. pc' \in {"poll", "extract"} /\ (names' # {} => pc' = "extract")
    BY <2>1 DEF Listed
  <2>3. lastFailed' \in BOOLEAN /\ everFailed' \in BOOLEAN
    BY <1>3 DEF List, ListFails, Typed, TypeOK
  <2>4. TypeOK'
    BY <2>1, <2>2, <2>3 DEF Typed, TypeOK, Listed, tables, outcome
  <2>5. Timely'
    BY <2>1 DEF Typed, Timely, Listed, tables
  <2> QED BY <2>4, <2>5 DEF Typed
<1> QED BY <1>1, <1>2, <1>3

\* The extraction.
LEMMA TypedExtraction ==
  ASSUME Typed,
         \/ RegisterTemplates
         \/ \E r \in Rows : ExtractUserTable(r) \/ ReadTemplate(r) \/ ReadTemplateFails(r)
  PROVE  Typed'
<1>1. CASE RegisterTemplates
  <2>1. registry' \in [Rows -> Content]
    BY <1>1 DEF RegisterTemplates, MergedRegistry, Typed, TypeOK
  <2>2. instanceList' \in [Rows -> Content]
    BY <1>1, MonitorAssumption DEF RegisterTemplates, Content, Absent
  <2> QED BY <1>1, <2>1, <2>2 DEF RegisterTemplates, Typed, TypeOK, Timely, tables, history
<1>2. ASSUME NEW r \in Rows, ExtractUserTable(r)
      PROVE  Typed'
  <2>1. extracted' \in [Rows -> Nat]
    BY <1>2 DEF ExtractUserTable, Typed, TypeOK
  <2>2. names' \subseteq Rows /\ pc' \in {"poll", "extract"} /\ (names' # {} => pc' = "extract")
        /\ latest = current
    BY <1>2 DEF ExtractUserTable, Typed, TypeOK
  <2> QED BY <1>2, <2>1, <2>2 DEF ExtractUserTable, Typed, TypeOK, Timely, tables, history
<1>3. ASSUME NEW r \in Rows, NEW content \in Content, Read(r, content), lastFailed' \in BOOLEAN
      PROVE  Typed'
  <2>1. instanceList' \in [Rows -> Content]
    BY <1>3 DEF Read, Typed, TypeOK
  <2>2. names' \subseteq Rows /\ pc = "extract" /\ latest = current
    BY <1>3 DEF Read, At, Typed, TypeOK
  <2> QED BY <1>3, <2>1, <2>2 DEF Read, Typed, TypeOK, Timely, tables
<1>4. /\ Absent \in Content /\ Blank \in Content
      /\ \A r \in Rows : written[r] \in Content
  BY MonitorAssumption DEF Absent, Blank, Content, Typed, TypeOK
<1>5. lastFailed \in BOOLEAN
  BY DEF Typed, TypeOK
<1> QED BY <1>1, <1>2, <1>3, <1>4, <1>5 DEF ReadTemplate, ReadTemplateFails

\* Every step keeps types and time.
LEMMA TypedStep == Typed /\ [Next]_vars => Typed'
<1>1. Typed /\ UNCHANGED vars => Typed'
  BY DEF vars, tables, polling, outcome, history, Typed, TypeOK, Timely
<1> QED BY <1>1, TypedApplication, TypedQuery, TypedExtraction DEF Next, Poll

\* monitor_user_table.cpp and monitor_instance_table.cpp: the stamps, the names and
\* the registry keep their types; names are left only under the stamp just saved.
THEOREM MonitorTyping == Spec => []TypeOK
<1>1. Typed => TypeOK
  BY DEF Typed
<1> QED BY <1>1, TypedInit, TypedStep, PTL DEF Spec

-----------------------------------------------------------------------------
(***************************************************************************)
(* How often a user row is extracted.  Every row has two chances: it is    *)
(* listed late, because it was entered between the two queries, and in     *)
(* time, under a stamp not older than its own.  As long as it is in the    *)
(* table no later stamp is older, unless the query for it fails.           *)
(***************************************************************************)
Once(condition) == IF condition THEN 1 ELSE 0

\* The times a row is yet to be listed.
Ahead(r) ==
  Once(r \in present /\ latest < stampOf[r])
  + Once(r \in present /\ pc = "list" /\ current < stampOf[r])

Counted ==
  \A r \in Rows :
    /\ service = "user" => extracted[r] + Once(r \in names) + Ahead(r) <= 2 + failedMax
    /\ service = "template" \/ stampOf[r] = NoStamp => extracted[r] = 0
    /\ service = "user" /\ stampOf[r] = NoStamp => r \notin names

\* The chances of a row are two at most.
LEMMA Chances ==
  ASSUME NEW r \in Rows
  PROVE  Ahead(r) \in 0..2 /\ \A c \in BOOLEAN : Once(c) \in 0..1
BY DEF Ahead, Once

\* The application enters a row, which has its chances before it, or removes one.
LEMMA CountedApplication ==
  ASSUME Typed, Counted, Application
  PROVE  Counted'
<1> SUFFICES ASSUME NEW r \in Rows
             PROVE  /\ service' = "user" =>
                         (extracted[r] + Once(r \in names) + Ahead(r) <= 2 + failedMax)'
                    /\ service' = "template" \/ stampOf'[r] = NoStamp => extracted'[r] = 0
                    /\ service' = "user" /\ stampOf'[r] = NoStamp => r \notin names'
  BY DEF Counted
<1>1. UNCHANGED <<service, extracted, names, pc, latest, current, failedMax>>
  BY DEF Application, Tick, Write, RemoveRow, polling, outcome, history
<1>2. CASE UNCHANGED stampOf /\ (r \in present' => r \in present)
  <2>1. Ahead(r)' <= Ahead(r) /\ Ahead(r)' \in 0..2 /\ Ahead(r) \in 0..2
    BY <1>1, <1>2 DEF Ahead, Once
  <2> QED BY <1>1, <1>2, <2>1 DEF Counted, Typed, TypeOK, Once
<1>3. ASSUME NEW q \in Rows, Write(q), q # r
      PROVE  UNCHANGED stampOf[r] /\ (r \in present' <=> r \in present)
  BY <1>3 DEF Write, Typed, TypeOK
<1>4. CASE UNCHANGED stampOf[r] /\ (r \in present' <=> r \in present)
  <2>1. Ahead(r)' = Ahead(r)
    BY <1>1, <1>4 DEF Ahead
  <2> QED BY <1>1, <1>4, <2>1 DEF Counted
<1>5. CASE Write(r)
  <2>1. CASE service = "template"
    BY <1>1, <2>1 DEF Counted
  <2>2. CASE service = "user"
    <3>1. extracted[r] = 0 /\ r \notin names /\ stampOf'[r] # NoStamp
      BY <1>5, <2>2 DEF Write, Counted, Typed, TypeOK, Timely, NoStamp, StartStamp
    <3>2. Ahead(r)' \in 0..2
      BY DEF Ahead, Once
    <3> QED BY <1>1, <2>2, <3>1, <3>2 DEF Typed, TypeOK, Once
  <2> QED BY <2>1, <2>2 DEF Typed, TypeOK
<1>6. CASE Tick
  BY <1>2, <1>6 DEF Tick
<1>7. ASSUME NEW q \in Rows, RemoveRow(q)
      PROVE  UNCHANGED stampOf /\ (r \in present' => r \in present)
  BY <1>7 DEF RemoveRow
<1> QED BY <1>2, <1>3, <1>4, <1>5, <1>6, <1>7 DEF Application

\* A poll gives a chance away, or a failure gives one more.
LEMMA CountedPoll ==
  ASSUME Typed, Counted, Poll
  PROVE  Counted'
<1> SUFFICES ASSUME NEW r \in Rows
             PROVE  /\ service' = "user" =>
                         (extracted[r] + Once(r \in names) + Ahead(r) <= 2 + failedMax)'
                    /\ service' = "template" \/ stampOf'[r] = NoStamp => extracted'[r] = 0
                    /\ service' = "user" /\ stampOf'[r] = NoStamp => r \notin names'
  BY DEF Counted
<1>1. UNCHANGED <<service, stampOf, present>>
  BY DEF Poll, QueryMax, QueryMaxFails, QueryUnconnected, List, ListFails, ExtractUserTable,
     ReadTemplate, ReadTemplateFails, Read, RegisterTemplates, Compared, Listed, tables
<1>2. /\ service = "user" => extracted[r] + Once(r \in names) + Ahead(r) <= 2 + failedMax
      /\ service = "template" \/ stampOf[r] = NoStamp => extracted[r] = 0
      /\ service = "user" /\ stampOf[r] = NoStamp => r \notin names
      /\ extracted[r] \in Nat /\ failedMax \in Nat /\ stampOf[r] \in Nat
      /\ latest \in Nat /\ current \in Nat
  BY MonitorAssumption DEF Counted, Typed, TypeOK, Stamp
<1>3. CASE QueryMax
  <2>1. Ahead(r)' <= Ahead(r) /\ Ahead(r)' \in 0..2 /\ Ahead(r) \in 0..2
    <3>1. pc = "poll" /\ latest' = latest /\ current' = MaxStamp
      BY <1>3 DEF QueryMax, At, Compared
    <3>2. r \in present => stampOf[r] <= MaxStamp /\ MaxStamp \in Nat
      BY MaxStampIs, MonitorAssumption DEF Stamp
    <3> QED BY <1>1, <1>2, <3>1, <3>2 DEF Ahead, Once
  <2> QED BY <1>1, <1>2, <1>3, <2>1 DEF QueryMax, Compared, outcome, Once
<1>4. CASE QueryMaxFails
  <2>1. Ahead(r)' <= Ahead(r) + 1 /\ Ahead(r)' \in 0..2 /\ Ahead(r) \in 0..2
    <3>1. pc = "poll" /\ latest' = latest
      BY <1>4 DEF QueryMaxFails, At, Compared
    <3> QED BY <1>1, <3>1 DEF Ahead, Once
  <2> QED BY <1>1, <1>2, <1>4, <2>1 DEF QueryMaxFails, Compared, outcome, Once
<1>5. CASE QueryUnconnected
  <2>1. Ahead(r)' = Ahead(r)
    BY <1>1, <1>5 DEF Ahead, QueryUnconnected, polling
  <2> QED BY <1>1, <1>2, <1>5, <2>1 DEF QueryUnconnected, polling, outcome, history
<1>6. CASE List \/ ListFails
  <2>1. PICK found : Listed(found) /\ (service = "user" => found \subseteq NewRows)
    BY <1>6 DEF List, ListFails
  <2>2. pc = "list" /\ names = {} /\ pc' # "list" /\ latest' = current /\ names' = found
        /\ UNCHANGED <<extracted, failedMax>>
    BY <1>6, <2>1 DEF List, ListFails, At, Listed, Typed, TypeOK, outcome
  <2>3. CASE service = "user"
    <3>1. r \in found => r \in present /\ latest < stampOf[r]
      BY <2>1, <2>3 DEF NewRows
    <3>2. Once(r \in found) + Ahead(r)' <= Ahead(r)
          /\ Ahead(r)' \in 0..2 /\ Ahead(r) \in 0..2 /\ Once(r \in found) \in 0..1
      BY <1>1, <2>2, <3>1 DEF Ahead, Once
    <3>3. r \in names' => stampOf[r] # NoStamp
      BY <2>2, <3>1 DEF Typed, Timely
    <3>4. Once(r \in names) = 0
      BY <2>2 DEF Once
    <3>5. extracted[r] + Once(r \in found) + Ahead(r)' <= 2 + failedMax
      BY <1>2, <2>3, <3>2, <3>4
    <3> QED BY <1>1, <1>2, <2>2, <2>3, <3>3, <3>5
  <2> QED BY <1>1, <1>2, <2>2, <2>3 DEF Typed, TypeOK
<1>7. ASSUME NEW q \in Rows, ExtractUserTable(q)
      PROVE  /\ extracted'[r] + Once(r \in names') + Ahead(r)' <= 2 + failedMax'
             /\ stampOf'[r] = NoStamp => extracted'[r] = 0
             /\ service' = "user" /\ stampOf'[r] = NoStamp => r \notin names'
             /\ service = "user"
  <2>1. /\ pc = "extract" /\ pc' # "list" /\ names' = names \ {q} /\ service = "user"
        /\ q \in names /\ UNCHANGED <<failedMax, latest>>
        /\ extracted' = [extracted EXCEPT ![q] = @ + 1]
    BY <1>7 DEF ExtractUserTable, At, history
  <2>2. Ahead(r)' = Ahead(r) /\ Ahead(r) \in 0..2
    BY <1>1, <2>1 DEF Ahead, Once
  <2>3. extracted'[r] + Once(r \in names') = extracted[r] + Once(r \in names)
    BY <2>1 DEF Once, Typed, TypeOK
  <2>4. extracted'[r] \in Nat /\ Once(r \in names') \in 0..1 /\ Once(r \in names) \in 0..1
    BY <2>1 DEF Once, Typed, TypeOK
  <2>5. stampOf[r] = NoStamp => r # q
    BY <1>2, <2>1
  <2> QED BY <1>1, <1>2, <2>1, <2>2, <2>3, <2>4, <2>5 DEF Typed, TypeOK
<1>8. ASSUME \/ RegisterTemplates
             \/ \E q \in Rows : ReadTemplate(q) \/ ReadTemplateFails(q)
      PROVE  service = "template" /\ UNCHANGED extracted
  BY <1>8 DEF RegisterTemplates, ReadTemplate, ReadTemplateFails, Read
<1> QED BY <1>1, <1>2, <1>3, <1>4, <1>5, <1>6, <1>7, <1>8 DEF Poll, Typed, TypeOK

\* monitor_user_table.cpp: a row is extracted at most twice, and once more for every
\* failed query for the last time stamp, however rows come and go.
THEOREM ExtractedSeldom == Spec => []ExtractionBound
<1>1. Init => Counted
  <2> SUFFICES ASSUME Init, NEW r \in Rows
               PROVE  /\ extracted[r] + Once(r \in names) + Ahead(r) <= 2 + failedMax
                      /\ extracted[r] = 0 /\ r \notin names
    BY DEF Counted
  <2> QED BY DEF Init, Ahead, Once
<1>2. Typed /\ Counted /\ [Next]_vars => Counted'
  <2>1. Counted /\ UNCHANGED vars => Counted'
    BY DEF vars, tables, polling, outcome, history, Counted, Ahead
  <2> QED BY <2>1, CountedApplication, CountedPoll DEF Next
<1>3. Typed /\ Counted => ExtractionBound
  <2> SUFFICES ASSUME Typed, Counted, NEW r \in Rows
               PROVE  extracted[r] <= 2 + failedMax
    BY DEF ExtractionBound
  <2>1. extracted[r] \in Nat /\ failedMax \in Nat /\ Ahead(r) \in 0..2 /\ Once(r \in names) \in 0..1
    BY MonitorAssumption DEF Typed, TypeOK, Ahead, Once
  <2> QED BY <2>1 DEF Counted, Typed, TypeOK
<1> QED BY <1>1, <1>2, <1>3, TypedInit, TypedStep, PTL DEF Spec

-----------------------------------------------------------------------------
(***************************************************************************)
(* Which user rows are found.  The stamp saved is that of a row, so a row  *)
(* entered under it shares its second.  Any other was listed before the    *)
(* stamp passed it.                                                        *)
(***************************************************************************)
StampOfRow(t) == t \in {NoStamp, StartStamp} \/ \E q \in Rows : t = stampOf[q]

Passed ==
  service = "user" =>
    /\ StampOfRow(latest) /\ StampOfRow(current)
    /\ everFailed \/ \A r \in present \ twins :
                       stampOf[r] <= latest => extracted[r] > 0 \/ r \in names

\* The application enters a row under the second of the clock.
LEMMA PassedApplication ==
  ASSUME Typed, Passed, Application
  PROVE  Passed'
<1>1. UNCHANGED <<service, extracted, names, pc, latest, current, everFailed>>
  BY DEF Application, Tick, Write, RemoveRow, polling, outcome, history
<1> SUFFICES ASSUME service = "user"
             PROVE  Passed'
  BY <1>1 DEF Passed
<1>2. CASE UNCHANGED <<stampOf, twins>> /\ present' \subseteq present
  BY <1>1, <1>2 DEF Passed, StampOfRow
<1>3. ASSUME NEW r \in Rows, Write(r)
      PROVE  Passed'
  <2>1. /\ \A q \in Rows \ {r} : stampOf'[q] = stampOf[q]
        /\ stampOf'[r] = clock /\ stampOf[r] = NoStamp
        /\ present' = present \cup {r} /\ twins \subseteq twins'
        /\ r \notin present
    BY <1>3 DEF Write, Typed, TypeOK, Timely
  <2>2. (\E q \in Rows \ {r} : stampOf[q] = clock) => r \in twins'
    <3> DEFINE others == {q \in Rows \ {r} : stampOf[q] = clock}
    <3>1. twins' = IF others = {} THEN twins ELSE twins \cup others \cup {r}
      BY <1>3 DEF Write
    <3> QED BY <3>1
  <2>3. \A t : StampOfRow(t) => StampOfRow(t)'
    <3> SUFFICES ASSUME NEW t, StampOfRow(t)
                 PROVE  StampOfRow(t)'
      OBVIOUS
    <3> QED BY <2>1 DEF StampOfRow
  <2>4. clock <= latest => r \in twins'
    <3> SUFFICES ASSUME clock <= latest
                 PROVE  r \in twins'
      OBVIOUS
    <3>1. clock = latest /\ clock > StartStamp
      BY MonitorAssumption DEF Typed, TypeOK, Timely, Stamp
    <3>2. clock \notin {NoStamp, StartStamp}
      BY <3>1 DEF NoStamp, StartStamp
    <3>3. PICK q \in Rows : clock = stampOf[q]
      BY <3>1, <3>2 DEF Passed, StampOfRow
    <3>4. q # r
      BY <2>1, <3>2, <3>3
    <3> QED BY <2>2, <3>3, <3>4
  <2> QED BY <1>1, <2>1, <2>3, <2>4 DEF Passed, Typed, TypeOK
<1>4. CASE Tick
  BY <1>2, <1>4 DEF Tick
<1>5. ASSUME NEW q \in Rows, RemoveRow(q)
      PROVE  UNCHANGED <<stampOf, twins>> /\ present' \subseteq present
  BY <1>5 DEF RemoveRow
<1> QED BY <1>2, <1>3, <1>4, <1>5 DEF Application

\* A poll saves a row's stamp, and lists what the stamp passes.
LEMMA PassedPoll ==
  ASSUME Typed, Passed, Poll
  PROVE  Passed'
<1>1. UNCHANGED <<service, stampOf, present, twins>>
  BY DEF Poll, QueryMax, QueryMaxFails, QueryUnconnected, List, ListFails, ExtractUserTable,
     ReadTemplate, ReadTemplateFails, Read, RegisterTemplates, Compared, Listed, tables
<1> SUFFICES ASSUME service = "user"
             PROVE  Passed'
  BY <1>1 DEF Passed
<1>2. CASE QueryMax \/ QueryMaxFails
  <2>1. UNCHANGED <<latest, names, extracted, everFailed>>
    BY <1>2 DEF QueryMax, QueryMaxFails, Compared, outcome
  <2>2. current' = NoStamp \/ \E r \in Rows : current' = stampOf[r]
    BY <1>2, MaxStampIs DEF QueryMax, QueryMaxFails, Compared, Typed, TypeOK
  <2> QED BY <1>1, <2>1, <2>2 DEF Passed, StampOfRow
<1>3. CASE QueryUnconnected
  BY <1>1, <1>3 DEF QueryUnconnected, polling, outcome, history, Passed, StampOfRow
<1>4. CASE List
  <2>1. /\ latest' = current /\ names' = NewRows /\ names = {}
        /\ UNCHANGED <<current, extracted, everFailed>>
    BY <1>4 DEF List, Listed, At, outcome, Typed, TypeOK
  <2>2. ASSUME NEW r \in present \ twins, ~everFailed
        PROVE  extracted[r] > 0 \/ r \in NewRows
    <3>1. CASE latest < stampOf[r]
      BY <3>1 DEF NewRows
    <3>2. CASE stampOf[r] <= latest
      BY <2>1, <2>2, <3>2 DEF Passed
    <3>3. stampOf[r] \in Nat /\ latest \in Nat
      BY MonitorAssumption DEF Typed, TypeOK, Stamp
    <3> QED BY <3>1, <3>2, <3>3
  <2> QED BY <1>1, <2>1, <2>2 DEF Passed, StampOfRow
<1>5. CASE ListFails
  BY <1>1, <1>5 DEF ListFails, Listed, Passed, StampOfRow
<1>6. ASSUME NEW q \in Rows, ExtractUserTable(q)
      PROVE  Passed'
  <2>1. /\ names' = names \ {q} /\ UNCHANGED <<current, latest, everFailed>>
        /\ extracted' = [extracted EXCEPT ![q] = @ + 1]
    BY <1>6 DEF ExtractUserTable, history
  <2>2. extracted'[q] > 0 /\ \A r \in Rows \ {q} : extracted'[r] = extracted[r]
    BY <2>1 DEF Typed, TypeOK
  <2> QED BY <1>1, <2>1, <2>2 DEF Passed, StampOfRow, Typed, TypeOK
<1> QED BY <1>2, <1>3, <1>4, <1>5, <1>6 DEF Poll, RegisterTemplates, ReadTemplate,
        ReadTemplateFails, Read

\* monitor_user_table.cpp: between two polls every row older than the saved stamp has
\* been extracted, unless it shares its second with another or a list failed.
THEOREM UserRowsExtracted == Spec => []UserRowsFound
<1>1. Init => Passed
  BY DEF Init, Passed, StampOfRow
<1>2. Typed /\ Passed /\ [Next]_vars => Passed'
  <2>1. Passed /\ UNCHANGED vars => Passed'
    BY DEF vars, tables, polling, outcome, history, Passed, StampOfRow
  <2> QED BY <2>1, PassedApplication, PassedPoll DEF Next
<1>3. Typed /\ Passed => UserRowsFound
  <2> SUFFICES ASSUME Typed, Passed, service = "user", ~everFailed, pc = "poll",
                      NEW r \in present, stampOf[r] < latest, r \notin twins
               PROVE  extracted[r] > 0
    BY DEF UserRowsFound
  <2>1. stampOf[r] <= latest /\ names = {}
    BY MonitorAssumption DEF Typed, TypeOK, Stamp
  <2> QED BY <2>1 DEF Passed
<1> QED BY <1>1, <1>2, <1>3, TypedInit, TypedStep, PTL DEF Spec

-----------------------------------------------------------------------------
(***************************************************************************)
(* Which templates are registered: all that are listed are on their way.   *)
(***************************************************************************)
OnTheWay(r) ==
  \/ registry[r] # Absent
  \/ pc = "extract" /\ (r \in names \/ instanceList[r] # Absent)

Brought ==
  service = "template" /\ ~lastFailed =>
    \A r \in present : stampOf[r] < latest => OnTheWay(r)

\* The application writes under the second of the clock, which no stamp exceeds.
LEMMA BroughtApplication ==
  ASSUME Typed, Brought, Application
  PROVE  Brought'
<1>1. UNCHANGED <<service, registry, instanceList, names, pc, latest, lastFailed>>
  BY DEF Application, Tick, Write, RemoveRow, polling, outcome, history
<1>2. \A r \in present' : (r \in present /\ stampOf'[r] = stampOf[r]) \/ stampOf'[r] = clock
  BY DEF Application, Tick, Write, RemoveRow, Typed, TypeOK
<1>3. ~(clock < latest)
  BY MonitorAssumption DEF Typed, TypeOK, Timely, Stamp
<1> QED BY <1>1, <1>2, <1>3 DEF Brought, OnTheWay

\* A poll lists all, reads all, registers all.
LEMMA BroughtPoll ==
  ASSUME Typed, Brought, Poll
  PROVE  Brought'
<1>1. UNCHANGED <<service, stampOf, present>>
  BY DEF Poll, QueryMax, QueryMaxFails, QueryUnconnected, List, ListFails, ExtractUserTable,
     ReadTemplate, ReadTemplateFails, Read, RegisterTemplates, Compared, Listed, tables
<1> SUFFICES ASSUME service = "template"
             PROVE  Brought'
  BY <1>1 DEF Brought
<1>2. CASE QueryMax \/ QueryMaxFails
  <2>1. pc = "poll" /\ UNCHANGED <<latest, registry, lastFailed>>
    BY <1>2 DEF QueryMax, QueryMaxFails, At, Compared, outcome
  <2> QED BY <1>1, <2>1 DEF Brought, OnTheWay
<1>3. CASE QueryUnconnected
  BY <1>1, <1>3 DEF QueryUnconnected, polling, outcome, history, Brought, OnTheWay
<1>4. CASE List
  BY <1>1, <1>4 DEF List, Listed, Brought, OnTheWay
<1>5. CASE ListFails
  BY <1>5 DEF ListFails, Brought
<1>6. ASSUME NEW q \in Rows, ReadTemplate(q)
      PROVE  Brought'
  <2>1. /\ names' = names \ {q} /\ pc = "extract" /\ UNCHANGED <<pc, latest, registry, lastFailed>>
        /\ \A r \in Rows \ {q} : instanceList'[r] = instanceList[r]
    BY <1>6 DEF ReadTemplate, Read, At, Typed, TypeOK
  <2>2. instanceList'[q] # Absent
    <3>1. (IF q \in present THEN written[q] ELSE Blank) \in 0..MaxWrites
      BY MonitorAssumption DEF Typed, TypeOK, Blank
    <3> QED BY <1>6, <3>1 DEF ReadTemplate, Read, Typed, TypeOK, Absent
  <2> QED BY <1>1, <2>1, <2>2 DEF Brought, OnTheWay, Typed, TypeOK
<1>7. ASSUME NEW q \in Rows, ReadTemplateFails(q)
      PROVE  Brought'
  BY <1>7 DEF ReadTemplateFails, Brought
<1>8. CASE RegisterTemplates
  <2>1. /\ names = {} /\ UNCHANGED <<latest, lastFailed>>
        /\ \A r \in Rows : registry'[r] = IF registry[r] = Absent THEN instanceList[r] ELSE registry[r]
    BY <1>8 DEF RegisterTemplates, MergedRegistry, history
  <2> QED BY <1>1, <2>1 DEF Brought, OnTheWay, Typed, TypeOK
<1> QED BY <1>2, <1>3, <1>4, <1>5, <1>6, <1>7, <1>8 DEF Poll, ExtractUserTable

\* monitor_instance_table.cpp: after a poll that did not fail every template older than
\* the saved stamp is registered, those that earlier failures left out included.
THEOREM TemplatesRegistered == Spec => []TemplatesFound
<1>1. Init => Brought
  <2> SUFFICES ASSUME Init
               PROVE  present = {}
    BY DEF Brought
  <2> QED BY DEF Init
<1>2. Typed /\ Brought /\ [Next]_vars => Brought'
  <2>1. Brought /\ UNCHANGED vars => Brought'
    BY DEF vars, tables, polling, outcome, history, Brought, OnTheWay
  <2> QED BY <2>1, BroughtApplication, BroughtPoll DEF Next
<1>3. Brought => TemplatesFound
  BY DEF Brought, OnTheWay, TemplatesFound
<1> QED BY <1>1, <1>2, <1>3, TypedInit, TypedStep, PTL DEF Spec

-----------------------------------------------------------------------------
(***************************************************************************)
(* What becomes of the templates found: TemplateSync, whatever names the   *)
(* monitor reads at its updates.                                           *)
(***************************************************************************)
\* The sender core serves a worker only while there is one, and what it has read
\* of the templates is in the list.
Serving == sender.pc \in {"queue", "unready", "track"} => newWorkerList # << >>
Queued == ToSet(sender.json) \cup ToSet(sender.todo) \subseteq ToSet(uDataTemplateList)
Templated == TSTypeOK /\ Serving /\ Queued

\* Merging keeps the names that were there, whatever the monitor found.
LEMMA MergedKeeps ==
  ASSUME NEW list \in Seq(Templates), NEW found \in Seq(Templates)
  PROVE  /\ FoldBy(AddName, list, found) \in Seq(Templates)
         /\ ToSet(list) \subseteq ToSet(FoldBy(AddName, list, found))
<1> DEFINE P == {f \in Seq(Templates) :
                   /\ FoldBy(AddName, list, f) \in Seq(Templates)
                   /\ ToSet(list) \subseteq ToSet(FoldBy(AddName, list, f))}
<1>1. << >> \in P
  BY FoldByEmpty, EmptySeq
<1>2. ASSUME NEW f \in Seq(Templates), NEW n \in Templates, f \in P
      PROVE  Append(f, n) \in P
  <2>1. PICK longer \in Seq(Templates) : longer = Append(f, n)
    BY AppendProperties
  <2>2. PICK l \in Seq(Templates) : l = FoldBy(AddName, list, f) /\ ToSet(list) \subseteq ToSet(l)
    BY <1>2
  <2>3. FoldBy(AddName, list, longer) = AddName[l][n]
    BY <2>1, <2>2, FoldByAppend
  <2>4. AddName[l][n] = IF n \in ToSet(l) THEN l ELSE Append(l, n)
    BY DEF AddName
  <2>5. PICK m \in Seq(Templates) : m = Append(l, n) /\ ToSet(m) = ToSet(l) \cup {n}
    BY AppendProperties, AppendSet
  <2> QED BY <2>1, <2>2, <2>3, <2>4, <2>5
<1> HIDE DEF P
<1>3. Seq(Templates) \subseteq P
  BY <1>1, <1>2, SeqInduction
<1> QED BY <1>3 DEF P

\* The list of new workers stays one of workers.
LEMMA MissingType ==
  ASSUME NEW list \in Seq(Workers), NEW s \in Seq(Workers)
  PROVE  FoldBy(AddMissing, list, s) \in Seq(Workers)
<1>1. AddMissing \in [Seq(Workers) -> [Workers -> Seq(Workers)]]
  BY AppendProperties DEF AddMissing
<1> QED BY <1>1, FoldByType

\* What has been filled again so far is part of the list.
LEMMA PrefixAmong ==
  ASSUME NEW S, NEW s \in Seq(S), NEW p \in Prefixes(s)
  PROVE  p \in Seq(S) /\ ToSet(p) \subseteq ToSet(s)
<1>1. PICK l \in 0..Len(s) : p = SubSeq(s, 1, l)
  BY DEF Prefixes
<1>2. Len(s) \in Nat /\ DOMAIN s = 1..Len(s) /\ \A i \in 1..Len(s) : s[i] \in S
  BY LenProperties, ElementOfSeq
<1>3. \A i \in 1..l : s[i] \in S
  BY <1>2
<1>4. p \in Seq(S) /\ Len(p) = l /\ \A i \in 1..l : p[i] = s[i]
  BY <1>1, <1>2, <1>3, SubSeqProperties
<1>5. DOMAIN p = 1..l /\ 1..l \subseteq 1..Len(s)
  BY <1>2, <1>4, LenProperties
<1>6. ToSet(p) \subseteq ToSet(s)
  BY <1>2, <1>4, <1>5 DEF ToSet
<1> QED BY <1>4, <1>6

LEMMA Readable ==
  ASSUME Templated
  PROVE  /\ \A json \in ReadablePackets :
              json \in Seq(Templates) /\ ToSet(json) \subseteq ToSet(uDataTemplateList)
         /\ \A ids \in ReadableIds : ids \subseteq Templates
         /\ templateIdList \subseteq ToSet(uDataTemplateList) =>
              \A ids \in ReadableIds : ids \subseteq ToSet(uDataTemplateList)
<1>1. uDataTemplateList \in Seq(Templates) /\ templateIdList \subseteq Templates
  BY DEF Templated, TSTypeOK
<1>2. \A s \in Prefixes(uDataTemplateList) :
        s \in Seq(Templates) /\ ToSet(s) \subseteq ToSet(uDataTemplateList)
  BY <1>1, PrefixAmong
<1>3. ToSet(uDataTemplateList) \subseteq Templates
  BY <1>1, ElementOfSeq, LenProperties DEF ToSet
<1> QED BY <1>1, <1>2, <1>3 DEF ReadablePackets, ReadableIds

\* What is left of a list is part of it.
LEMMA TailAmong ==
  ASSUME NEW S, NEW s \in Seq(S), s # << >>
  PROVE  ToSet(Tail(s)) \subseteq ToSet(s)
<1>1. /\ Len(s) \in Nat \ {0} /\ DOMAIN s = 1..Len(s) /\ DOMAIN Tail(s) = 1..Len(s)-1
      /\ \A i \in 1..Len(s)-1 : Tail(s)[i] = s[i+1]
  BY EmptySeq, LenProperties, HeadTailProperties
<1>2. \A i \in 1..Len(s)-1 : i+1 \in 1..Len(s)
  BY <1>1
<1> QED BY <1>1, <1>2 DEF ToSet

\* The entry that updateWorker changes is one of the worker's.
LEMMA FirstEntry ==
  ASSUME TSTypeOK, NEW w, EntriesOf(w) # {}
  PROVE  (CHOOSE k \in EntriesOf(w) : \A j \in EntriesOf(w) : k <= j) \in EntriesOf(w)
<1>1. EntriesOf(w) \in SUBSET Nat
  BY LenProperties DEF EntriesOf, TSTypeOK
<1>2. \E k \in EntriesOf(w) : \A j \in EntriesOf(w) : k <= j
  BY <1>1, LeastExists
<1> QED BY <1>2

\* updateWorker keeps types, and a worker that is ready or has an entry is ready
\* or has one afterwards: only the entry that made it ready goes.  No entry waits
\* for a template that none waited for before.
LEMMA UpdateKeeps ==
  ASSUME TSTypeOK, NEW p \in Processors, UpdateWorker(p)
  PROVE  /\ workerList' \in Seq([worker : Workers, ids : SUBSET Templates])
         /\ workerReady' \in [Workers -> BOOLEAN]
         /\ \A v \in Workers : workerReady[v] \/ EntriesOf(v) # {} =>
                               workerReady'[v] \/ EntriesOf(v)' # {}
         /\ \A k \in DOMAIN workerList' : \E j \in DOMAIN workerList :
              workerList'[k].ids \subseteq workerList[j].ids
<1> DEFINE Entry == [worker : Workers, ids : SUBSET Templates]
           first(w) == CHOOSE k \in EntriesOf(w) : \A j \in EntriesOf(w) : k <= j
<1>1. PICK w, n : w = processor[p].worker /\ n = processor[p].template
  OBVIOUS
<1>2. PICK i : i = first(w)
  OBVIOUS
<1>3. PICK ids : ids = workerList[i].ids \ {n}
  OBVIOUS
<1>4. \/ EntriesOf(w) = {} /\ UNCHANGED tracking
      \/ /\ EntriesOf(w) # {} /\ ids = {}
         /\ workerReady' = [workerReady EXCEPT ![w] = TRUE]
         /\ workerList' = RemoveAt(workerList, i)
      \/ /\ EntriesOf(w) # {} /\ ids # {}
         /\ workerList' = [workerList EXCEPT ![i].ids = ids]
         /\ UNCHANGED workerReady
  BY <1>1, <1>2, <1>3, Zenon DEF UpdateWorker
<1>5. /\ workerList \in Seq(Entry) /\ workerReady \in [Workers -> BOOLEAN]
      /\ Len(workerList) \in Nat /\ DOMAIN workerList = 1..Len(workerList)
      /\ \A k \in 1..Len(workerList) : workerList[k] \in Entry
  BY LenProperties, ElementOfSeq DEF TSTypeOK
<1>6. EntriesOf(w) # {} => i \in 1..Len(workerList) /\ workerList[i].worker = w
  <2> HIDE DEF first
  <2>1. EntriesOf(w) # {} => first(w) \in EntriesOf(w)
    BY FirstEntry DEF first
  <2> QED BY <1>2, <1>5, <2>1 DEF EntriesOf
<1> HIDE DEF first
<1>7. CASE EntriesOf(w) = {}
  BY <1>4, <1>5, <1>7 DEF tracking, EntriesOf
<1>8. CASE EntriesOf(w) # {} /\ ids = {}
  <2>1. /\ workerReady' = [workerReady EXCEPT ![w] = TRUE]
        /\ workerList' = RemoveAt(workerList, i) /\ i \in 1..Len(workerList)
    BY <1>4, <1>6, <1>8
  <2>2. /\ workerList' \in Seq(Entry)
        /\ DOMAIN workerList' = 1..Len(workerList)-1
        /\ \A j \in 1..Len(workerList)-1 :
             workerList'[j] = IF j < i THEN workerList[j] ELSE workerList[j+1]
    BY <1>5, <2>1, RemoveAtType, LenProperties
  <2>3. ASSUME NEW v \in Workers, v # w, EntriesOf(v) # {}
        PROVE  EntriesOf(v)' # {}
    <3>1. PICK k \in 1..Len(workerList) : workerList[k].worker = v
      BY <1>5, <2>3 DEF EntriesOf
    <3>2. k # i
      BY <1>6, <1>8, <2>3, <3>1
    <3>3. PICK j \in 1..Len(workerList)-1 : k = IF j < i THEN j ELSE j + 1
      <4>1. CASE k < i
        <5>1. k \in 1..Len(workerList)-1
          BY <1>5, <2>1, <4>1
        <5> QED BY <4>1, <5>1
      <4>2. CASE k > i
        <5>1. k - 1 \in 1..Len(workerList)-1 /\ (k - 1) + 1 = k /\ ~(k - 1 < i)
          BY <1>5, <2>1, <4>2
        <5> QED BY <5>1
      <4> QED BY <1>5, <2>1, <3>2, <4>1, <4>2
    <3>4. workerList'[j].worker = v
      BY <2>2, <3>1, <3>3
    <3> QED BY <2>2, <3>4 DEF EntriesOf
  <2>4. ASSUME NEW k \in DOMAIN workerList'
        PROVE  \E j \in DOMAIN workerList : workerList'[k].ids \subseteq workerList[j].ids
    <3>1. k \in DOMAIN workerList /\ k + 1 \in DOMAIN workerList
      BY <1>5, <2>2, <2>4
    <3>2. workerList'[k] = workerList[k] \/ workerList'[k] = workerList[k+1]
      BY <2>2, <2>4
    <3> QED BY <3>1, <3>2
  <2> QED BY <1>5, <2>1, <2>2, <2>3, <2>4
<1>9. CASE EntriesOf(w) # {} /\ ids # {}
  <2>1. /\ workerList' = [workerList EXCEPT ![i].ids = ids] /\ UNCHANGED workerReady
        /\ i \in 1..Len(workerList)
    BY <1>4, <1>6, <1>9
  <2>2. workerList[i] \in Entry /\ ids \subseteq Templates
    BY <1>3, <1>5, <2>1
  <2>3. PICK e \in Entry : e = [workerList[i] EXCEPT !.ids = ids]
    BY <2>2
  <2>4. workerList' = [workerList EXCEPT ![i] = e] /\ e.worker = workerList[i].worker
    BY <2>1, <2>2, <2>3
  <2>5. workerList' \in Seq(Entry)
    BY <1>5, <2>1, <2>4, ExceptSeq
  <2>6. /\ DOMAIN workerList' = DOMAIN workerList
        /\ \A k \in DOMAIN workerList : workerList'[k].worker = workerList[k].worker
    BY <1>5, <2>1, <2>4
  <2>7. ASSUME NEW v PROVE EntriesOf(v)' = EntriesOf(v)
    BY <2>6 DEF EntriesOf
  <2>8. e.ids \subseteq workerList[i].ids
    BY <1>3, <2>2, <2>3
  <2>9. ASSUME NEW k \in DOMAIN workerList
        PROVE  workerList'[k].ids \subseteq workerList[k].ids
    <3>1. CASE k = i
      BY <1>5, <2>1, <2>4, <2>8, <3>1
    <3>2. CASE k # i
      BY <1>5, <2>1, <2>4, <3>2
    <3> QED BY <3>1, <3>2
  <2> QED BY <1>5, <2>1, <2>5, <2>6, <2>7, <2>9
<1> QED BY <1>7, <1>8, <1>9

LEMMA TemplatesInit == TSInit => Templated
<1> SUFFICES ASSUME TSInit
             PROVE  Templated
  OBVIOUS
<1>1. << >> \in Seq(Workers) /\ << >> \in Seq(Templates) /\ ToSet(<< >>) = {}
      /\ << >> \in Seq([worker : Workers, ids : SUBSET Templates])
  BY EmptySeq DEF ToSet
<1>2. 0 \in 0..Len(Tables)
  BY TemplateSyncAssumption, LenProperties
<1> QED BY <1>1, <1>2 DEF TSInit, Templated, TSTypeOK, Serving, Queued, Idle

LEMMA TemplatesStep == Templated /\ [TSNext]_tsVars => Templated'
<1> DEFINE Sender == [pc : {"idle", "json", "take", "queue", "unready", "track", "reset", "new"},
                      updating : BOOLEAN, left : SUBSET Workers,
                      json : Seq(Templates), todo : Seq(Templates)]
           Task == [pc : {"idle", "match", "update"},
                    worker : Workers \cup {Nobody}, template : Templates \cup {Nothing}]
<1> SUFFICES ASSUME Templated, [TSNext]_tsVars
             PROVE  Templated'
  OBVIOUS
<1>0. /\ currentWorkerList \in Seq(Workers) /\ newWorkerList \in Seq(Workers)
      /\ uDataTemplateList \in Seq(Templates)
      /\ sender \in Sender /\ processor \in [Processors -> Task]
      /\ outstanding \in [Workers -> [Templates -> Nat]]
      /\ workerReady \in [Workers -> BOOLEAN]
      /\ workerList \in Seq([worker : Workers, ids : SUBSET Templates])
  BY DEF Templated, TSTypeOK
<1>1. ASSUME NEW w \in Workers, Register(w) PROVE Templated'
  <2>1. <<w>> \o currentWorkerList \in Seq(Workers)
    BY <1>0, ConcatProperties
  <2> QED BY <1>1, <2>1 DEF Register, Templated, TSTypeOK, Serving, Queued, templates, tracking, packets
<1>2. ASSUME NEW w \in Workers, Announce(w) PROVE Templated'
  <2>1. newWorkerList' \in Seq(Workers) /\ newWorkerList' # << >>
    <3>1. PICK longer \in Seq(Workers) :
            longer = Append(newWorkerList, w) /\ Len(longer) = Len(newWorkerList) + 1
      BY <1>0, AppendProperties
    <3>2. newWorkerList' = longer /\ Len(newWorkerList) \in Nat
      BY <1>0, <1>2, <3>1, LenProperties DEF Announce
    <3>3. longer # << >>
      BY <3>1, <3>2, EmptySeq
    <3> QED BY <3>1, <3>2, <3>3
  <2> QED BY <1>2, <2>1 DEF Announce, Templated, TSTypeOK, Serving, Queued, templates, tracking, packets
<1>3. CASE UpdateList
  <2>1. updates + 1 \in 1..Len(Tables) /\ Tables \in Seq(Seq(Templates) \ {<< >>})
    BY <1>3, TemplateSyncAssumption, LenProperties DEF UpdateList, Templated, TSTypeOK
  <2>2. Tables[updates + 1] \in Seq(Templates)
    BY <2>1, ElementOfSeq
  <2>3. /\ uDataTemplateList' \in Seq(Templates)
        /\ ToSet(uDataTemplateList) \subseteq ToSet(uDataTemplateList')
    BY <1>0, <1>3, <2>2, MergedKeeps DEF UpdateList, Merged
  <2>4. updates' \in 0..Len(Tables)
    BY <1>3, <2>1 DEF UpdateList
  <2> QED BY <1>3, <2>3, <2>4 DEF UpdateList, Templated, TSTypeOK, Serving, Queued, registration, tracking, packets
<1>4. CASE SetFlag
  BY <1>4 DEF SetFlag, Templated, TSTypeOK, Serving, Queued, registration, templates, tracking, packets
<1>5. CASE FinishUpdate
  <2>1. ToSet(uDataTemplateList) \subseteq Templates
    BY <1>0, ElementOfSeq, LenProperties DEF ToSet
  <2> QED BY <1>5, <2>1 DEF FinishUpdate, Templated, TSTypeOK, Serving, Queued, registration, tracking, packets
<1>6. CASE StartSender
  <2>1. newWorkerList' \in Seq(Workers)
    BY <1>0, <1>6, MissingType DEF StartSender
  <2>2. ToSet(currentWorkerList) \subseteq Workers
    BY <1>0, ElementOfSeq, LenProperties DEF ToSet
  <2>3. /\ sender' \in Sender /\ sender'.pc \in {"json", "new"}
        /\ sender'.json = sender.json /\ sender'.todo = sender.todo
    BY <1>0, <1>6, <2>2 DEF StartSender
  <2> QED BY <1>6, <2>1, <2>3 DEF StartSender, Templated, TSTypeOK, Serving, Queued, registration, templates, tracking, packets
<1>7. CASE TestNew
  <2>1. /\ sender' \in Sender /\ sender'.pc \in {"idle", "json"}
        /\ sender'.json = sender.json /\ sender'.todo = sender.todo
    BY <1>0, <1>7 DEF TestNew
  <2> QED BY <1>7, <2>1 DEF TestNew, Templated, TSTypeOK, Serving, Queued, registration, templates, tracking, packets
<1>8. CASE ReadJson
  <2>1. PICK json \in ReadablePackets : sender' = [sender EXCEPT !.pc = "take", !.json = json]
    BY <1>8 DEF ReadJson
  <2>2. json \in Seq(Templates) /\ ToSet(json) \subseteq ToSet(uDataTemplateList)
    BY Readable
  <2>3. /\ sender' \in Sender /\ sender'.pc = "take"
        /\ sender'.json = json /\ sender'.todo = sender.todo
    BY <1>0, <2>1, <2>2
  <2> QED BY <1>8, <2>2, <2>3 DEF ReadJson, Templated, TSTypeOK, Serving, Queued, registration, templates, tracking, packets
<1>9. CASE TakeWorker
  <2>1. /\ sender' \in Sender /\ sender'.pc \in {"queue", "reset", "idle"}
        /\ sender'.pc = "queue" => newWorkerList # << >>
        /\ sender'.json = sender.json /\ sender'.todo \in {sender.json, sender.todo}
    BY <1>0, <1>9 DEF TakeWorker
  <2> QED BY <1>9, <2>1 DEF TakeWorker, Templated, TSTypeOK, Serving, Queued, registration, templates, tracking, packets
<1>10. CASE QueueTemplate
  <2>1. newWorkerList # << >> /\ Served \in Workers
    BY <1>0, <1>10, HeadTailProperties DEF QueueTemplate, Templated, Serving, Served
  <2>2. PICK h \in Templates, rest \in Seq(Templates) :
          /\ h = Head(sender.todo) /\ rest = Tail(sender.todo)
          /\ ToSet(rest) \subseteq ToSet(sender.todo)
    <3>1. sender.todo \in Seq(Templates) /\ sender.todo # << >>
      BY <1>0, <1>10 DEF QueueTemplate
    <3>2. Head(sender.todo) \in Templates /\ Tail(sender.todo) \in Seq(Templates)
      BY <3>1, HeadTailProperties
    <3>3. ToSet(Tail(sender.todo)) \subseteq ToSet(sender.todo)
      BY <3>1, TailAmong
    <3> QED BY <3>2, <3>3
  <2>3. /\ sender' \in Sender /\ sender'.pc = "unready"
        /\ sender'.json = sender.json /\ sender'.todo = rest
    BY <1>0, <1>10, <2>2 DEF QueueTemplate
  <2>4. outstanding' \in [Workers -> [Templates -> Nat]]
    <3>1. PICK w \in Workers : w = Served
      BY <2>1
    <3>2. \/ outstanding' = [outstanding EXCEPT ![w][h] = @ + 1]
          \/ UNCHANGED outstanding
      BY <1>10, <2>2, <3>1 DEF QueueTemplate
    <3>3. outstanding[w] \in [Templates -> Nat] /\ outstanding[w][h] + 1 \in Nat
      BY <1>0, <2>2
    <3>4. [outstanding[w] EXCEPT ![h] = outstanding[w][h] + 1] \in [Templates -> Nat]
      BY <3>3
    <3>5. \/ outstanding' = [outstanding EXCEPT ![w] =
                               [outstanding[w] EXCEPT ![h] = outstanding[w][h] + 1]]
          \/ UNCHANGED outstanding
      BY <3>2
    <3> QED BY <1>0, <3>4, <3>5
  <2>5. reached' \subseteq Workers
    BY <1>10, <2>1 DEF QueueTemplate, Templated, TSTypeOK
  <2> QED BY <1>10, <2>1, <2>2, <2>3, <2>4, <2>5 DEF QueueTemplate, Templated, TSTypeOK, Serving, Queued, registration, templates, tracking
<1>11. CASE ResetReady
  <2>1. /\ sender' \in Sender /\ sender'.pc = "track"
        /\ sender'.json = sender.json /\ sender'.todo = sender.todo
    BY <1>0, <1>11 DEF ResetReady
  <2>2. workerReady' \in [Workers -> BOOLEAN] /\ newWorkerList # << >>
    BY <1>0, <1>11 DEF ResetReady, Templated, Serving
  <2> QED BY <1>11, <2>1, <2>2 DEF ResetReady, Templated, TSTypeOK, Serving, Queued, registration, templates, packets
<1>12. CASE TrackWorker
  <2>1. /\ sender' \in Sender /\ sender'.pc = "queue"
        /\ sender'.json = sender.json /\ sender'.todo = sender.todo
    BY <1>0, <1>12 DEF TrackWorker
  <2>2. newWorkerList # << >> /\ Served \in Workers
    BY <1>0, <1>12, HeadTailProperties DEF TrackWorker, Templated, Serving, Served
  <2>3. workerList' \in Seq([worker : Workers, ids : SUBSET Templates])
    <3>1. PICK ids \in ReadableIds :
            workerList' = Append(workerList, [worker |-> Served, ids |-> ids])
      BY <1>12 DEF TrackWorker, AddEntry
    <3>2. [worker |-> Served, ids |-> ids] \in [worker : Workers, ids : SUBSET Templates]
      BY <2>2, <3>1, Readable
    <3> QED BY <1>0, <3>1, <3>2, AppendProperties
  <2> QED BY <1>12, <2>1, <2>2, <2>3 DEF TrackWorker, Templated, TSTypeOK, Serving, Queued, registration, templates, packets
<1>13. CASE DropWorker
  <2>1. newWorkerList # << >>
    BY <1>13 DEF DropWorker, Templated, Serving
  <2>2. newWorkerList' \in Seq(Workers)
    BY <1>0, <1>13, <2>1, HeadTailProperties DEF DropWorker
  <2>3. /\ sender' \in Sender /\ sender'.pc = "take"
        /\ sender'.json = sender.json /\ sender'.todo = sender.todo
    BY <1>0, <1>13 DEF DropWorker
  <2> QED BY <1>13, <2>2, <2>3 DEF DropWorker, Templated, TSTypeOK, Serving, Queued, registration, templates, tracking, packets
<1>14. CASE ResetFlag
  <2>1. /\ sender' \in Sender /\ sender'.pc = "new"
        /\ sender'.json = sender.json /\ sender'.todo = sender.todo
    BY <1>0, <1>14 DEF ResetFlag
  <2> QED BY <1>14, <2>1 DEF ResetFlag, Templated, TSTypeOK, Serving, Queued, registration, templates, tracking, packets
<1>15. ASSUME NEW p \in Processors, NEW w \in Workers, NEW n \in Templates, Acknowledge(p, w, n)
       PROVE  Templated'
  <2>1. [pc |-> "match", worker |-> w, template |-> n] \in Task
    OBVIOUS
  <2>2. processor' \in [Processors -> Task]
    BY <1>0, <1>15, <2>1 DEF Acknowledge
  <2>3. outstanding' \in [Workers -> [Templates -> Nat]]
    <3>1. outstanding[w][n] - 1 \in Nat /\ outstanding[w] \in [Templates -> Nat]
      BY <1>0, <1>15 DEF Acknowledge
    <3>2. [outstanding[w] EXCEPT ![n] = outstanding[w][n] - 1] \in [Templates -> Nat]
      BY <3>1
    <3>3. outstanding' = [outstanding EXCEPT ![w] = [outstanding[w] EXCEPT ![n] = outstanding[w][n] - 1]]
      BY <1>15 DEF Acknowledge
    <3> QED BY <1>0, <3>2, <3>3
  <2> QED BY <1>15, <2>2, <2>3 DEF Acknowledge, Templated, TSTypeOK, Serving, Queued, registration, templates, tracking
<1>16. ASSUME NEW p \in Processors, NEW w \in Workers, NEW n \in Templates, Reset(p, w, n)
       PROVE  Templated'
  <2>1. [pc |-> "match", worker |-> w, template |-> n] \in Task
    OBVIOUS
  <2>2. processor' \in [Processors -> Task]
    BY <1>0, <1>16, <2>1 DEF Reset
  <2> QED BY <1>16, <2>2 DEF Reset, Templated, TSTypeOK, Serving, Queued, registration, templates, tracking, packets
<1>17. ASSUME NEW p \in Processors, Match(p)
       PROVE  Templated'
  <2>1. Idle \in Task /\ [processor[p] EXCEPT !.pc = "update"] \in Task
    BY <1>0 DEF Idle
  <2>2. processor' \in [Processors -> Task]
    BY <1>0, <1>17, <2>1 DEF Match
  <2> QED BY <1>17, <2>2 DEF Match, Templated, TSTypeOK, Serving, Queued, registration, templates, tracking, packets
<1>18. ASSUME NEW p \in Processors, UpdateWorker(p)
       PROVE  Templated'
  <2>1. Idle \in Task
    BY DEF Idle
  <2>2. processor' \in [Processors -> Task] /\ UNCHANGED <<registration, newWorkerList, templates,
          dataUpdated, packets, monitor, sender>>
    BY <1>0, <1>18, <2>1 DEF UpdateWorker
  <2>3. /\ workerList' \in Seq([worker : Workers, ids : SUBSET Templates])
        /\ workerReady' \in [Workers -> BOOLEAN]
    BY <1>18, UpdateKeeps DEF Templated
  <2> QED BY <2>2, <2>3 DEF Templated, TSTypeOK, Serving, Queued, registration, templates, packets
<1>19. CASE UNCHANGED tsVars
  BY <1>19 DEF tsVars, Templated, TSTypeOK, Serving, Queued, registration, templates, tracking, packets
<1> QED BY <1>1, <1>2, <1>3, <1>4, <1>5, <1>6, <1>7, <1>8, <1>9, <1>10, <1>11, <1>12, <1>13,
           <1>14, <1>15, <1>16, <1>17, <1>18, <1>19 DEF TSNext

\* The names, workers and processors keep their types, and a worker's counts of
\* packets never go below zero, for any number of them and any table.
THEOREM TemplateTyping == TSSpec => []TSTypeOK
BY TemplatesInit, TemplatesStep, PTL DEF TSSpec, Templated

\* A worker that was sent templates and is not ready has an entry or is about to
\* be given one.
Tracked ==
  \A w \in Workers :
    w \in reached /\ ~workerReady[w] =>
      \/ EntriesOf(w) # {}
      \/ sender.pc \in {"unready", "track"} /\ Served = w

LEMMA TrackedInit == TSInit => Tracked
BY DEF TSInit, Tracked

LEMMA TrackedStep == Templated /\ Tracked /\ [TSNext]_tsVars => Tracked'
<1> SUFFICES ASSUME Templated, Tracked, [TSNext]_tsVars
             PROVE  Tracked'
  OBVIOUS
<1>0. /\ workerReady \in [Workers -> BOOLEAN] /\ newWorkerList \in Seq(Workers)
      /\ workerList \in Seq([worker : Workers, ids : SUBSET Templates])
  BY DEF Templated, TSTypeOK
<1>1. ASSUME NEW w \in Workers, Announce(w) PROVE Tracked'
  <2>1. newWorkerList # << >> => Head(newWorkerList') = Head(newWorkerList)
    <3>1. newWorkerList' = Append(newWorkerList, w)
      BY <1>1 DEF Announce
    <3>2. newWorkerList # << >> => Head(Append(newWorkerList, w)) = Head(newWorkerList)
      BY <1>0, AppendProperties, LenProperties, EmptySeq, HeadTailProperties
    <3> QED BY <3>1, <3>2
  <2>2. sender.pc \in {"unready", "track"} => Served' = Served
    BY <2>1 DEF Templated, Serving, Served
  <2>3. ASSUME NEW v PROVE EntriesOf(v)' = EntriesOf(v)
    BY <1>1 DEF Announce, tracking, EntriesOf
  <2> QED BY <1>1, <2>2, <2>3 DEF Announce, Tracked, tracking, packets
<1>2. CASE QueueTemplate
  <2>1. sender'.pc = "unready" /\ UNCHANGED newWorkerList /\ sender.pc = "queue"
    BY <1>2 DEF QueueTemplate, Templated, TSTypeOK
  <2>2. ASSUME NEW v PROVE EntriesOf(v)' = EntriesOf(v)
    BY <1>2 DEF QueueTemplate, tracking, EntriesOf
  <2>3. Served' = Served
    BY <2>1 DEF Served
  <2> QED BY <1>2, <2>1, <2>2, <2>3 DEF QueueTemplate, Tracked, tracking
<1>3. CASE ResetReady
  <2>1. sender'.pc = "track" /\ UNCHANGED <<newWorkerList, workerList, reached>>
    BY <1>3 DEF ResetReady, Templated, TSTypeOK, packets
  <2>2. ASSUME NEW v PROVE EntriesOf(v)' = EntriesOf(v)
    BY <2>1 DEF EntriesOf
  <2>3. Served' = Served
    BY <2>1 DEF Served
  <2>4. \A v \in Workers : v # Served => workerReady'[v] = workerReady[v]
    BY <1>0, <1>3 DEF ResetReady
  <2> QED BY <2>1, <2>2, <2>3, <2>4 DEF Tracked
<1>4. CASE TrackWorker
  <2>1. PICK ids \in ReadableIds :
          workerList' = Append(workerList, [worker |-> Served, ids |-> ids])
    BY <1>4 DEF TrackWorker, AddEntry
  <2>2. UNCHANGED <<workerReady, reached>>
    BY <1>4 DEF TrackWorker, packets
  <2>7. PICK e : e = [worker |-> Served, ids |-> ids]
    OBVIOUS
  <2>3. e.worker = Served
    BY <2>7
  <2>4. e \in [worker : Workers, ids : SUBSET Templates]
    <3>1. newWorkerList # << >> /\ Served \in Workers
      BY <1>0, <1>4, HeadTailProperties DEF TrackWorker, Templated, Serving, Served
    <3> QED BY <2>7, <3>1, Readable
  <2>5. /\ DOMAIN workerList = 1..Len(workerList) /\ Len(workerList) \in Nat
        /\ DOMAIN workerList' = 1..Len(workerList)+1
        /\ \A k \in 1..Len(workerList) : workerList'[k] = workerList[k]
        /\ workerList'[Len(workerList)+1] = e
    BY <1>0, <2>1, <2>4, <2>7, AppendProperties, LenProperties
  <2>6. ASSUME NEW v \in Workers, EntriesOf(v) # {} \/ v = Served
        PROVE  EntriesOf(v)' # {}
    <3>1. CASE v = Served
      <4>1. Len(workerList)+1 \in DOMAIN workerList' /\ workerList'[Len(workerList)+1].worker = v
        BY <2>3, <2>5, <3>1
      <4> QED BY <4>1 DEF EntriesOf
    <3>2. CASE EntriesOf(v) # {}
      <4>1. PICK k \in 1..Len(workerList) : workerList[k].worker = v
        BY <2>5, <3>2 DEF EntriesOf
      <4>2. k \in DOMAIN workerList' /\ workerList'[k].worker = v
        BY <2>5, <4>1
      <4> QED BY <4>2 DEF EntriesOf
    <3> QED BY <2>6, <3>1, <3>2
  <2> QED BY <2>2, <2>6 DEF Tracked
<1>5. ASSUME NEW p \in Processors, UpdateWorker(p) PROVE Tracked'
  <2>1. \A v \in Workers : workerReady[v] \/ EntriesOf(v) # {} =>
                           workerReady'[v] \/ EntriesOf(v)' # {}
    BY <1>5, UpdateKeeps DEF Templated
  <2>2. UNCHANGED <<sender, newWorkerList, reached>>
    BY <1>5 DEF UpdateWorker, packets
  <2>3. Served' = Served
    BY <2>2 DEF Served
  <2> QED BY <2>1, <2>2, <2>3 DEF Tracked
<1>6. ASSUME UNCHANGED <<workerReady, workerList, reached>>,
             sender.pc \in {"unready", "track"} => UNCHANGED <<sender, newWorkerList>>
      PROVE  Tracked'
  <2>1. ASSUME NEW v PROVE EntriesOf(v)' = EntriesOf(v)
    BY <1>6 DEF EntriesOf
  <2>2. sender.pc \in {"unready", "track"} => Served' = Served
    BY <1>6 DEF Served
  <2> QED BY <1>6, <2>1, <2>2 DEF Tracked
<1> QED BY <1>1, <1>2, <1>3, <1>4, <1>5, <1>6 DEF TSNext, tsVars, tracking, packets, Register,
        UpdateList, SetFlag, FinishUpdate, StartSender, TestNew, ReadJson, TakeWorker,
        DropWorker, ResetFlag, Acknowledge, Reset, Match

\* What an entry waits for, and what the next one will, are templates of the
\* list, which has some once a template was queued.
Recognised ==
  /\ templateIdList \subseteq ToSet(uDataTemplateList)
  /\ \A i \in DOMAIN workerList : workerList[i].ids \subseteq ToSet(uDataTemplateList)
  /\ reached # {} => ToSet(uDataTemplateList) # {}

LEMMA RecognisedInit == TSInit => Recognised
BY EmptySeq DEF TSInit, Recognised, ToSet

LEMMA RecognisedStep == Templated /\ Recognised /\ [TSNext]_tsVars => Recognised'
<1> SUFFICES ASSUME Templated, Recognised, [TSNext]_tsVars
             PROVE  Recognised'
  OBVIOUS
<1>0. /\ uDataTemplateList \in Seq(Templates) /\ newWorkerList \in Seq(Workers)
      /\ workerList \in Seq([worker : Workers, ids : SUBSET Templates])
  BY DEF Templated, TSTypeOK
<1>1. CASE UpdateList
  <2>1. updates + 1 \in 1..Len(Tables) /\ Tables \in Seq(Seq(Templates) \ {<< >>})
    BY <1>1, TemplateSyncAssumption, LenProperties DEF UpdateList, Templated, TSTypeOK
  <2>2. Tables[updates + 1] \in Seq(Templates)
    BY <2>1, ElementOfSeq
  <2>3. ToSet(uDataTemplateList) \subseteq ToSet(uDataTemplateList')
    BY <1>0, <1>1, <2>2, MergedKeeps DEF UpdateList, Merged
  <2>4. UNCHANGED <<templateIdList, workerList, reached>>
    BY <1>1 DEF UpdateList, tracking, packets
  <2>5. \A i \in DOMAIN workerList' : workerList'[i].ids \subseteq ToSet(uDataTemplateList')
    BY <2>3, <2>4 DEF Recognised
  <2> QED BY <2>3, <2>4, <2>5 DEF Recognised
<1>2. CASE FinishUpdate
  <2>1. /\ templateIdList' = ToSet(uDataTemplateList)
        /\ UNCHANGED <<uDataTemplateList, workerList, reached>>
    BY <1>2 DEF FinishUpdate, tracking, packets
  <2> QED BY <2>1 DEF Recognised
<1>3. CASE QueueTemplate
  <2>1. sender.todo \in Seq(Templates) /\ sender.todo # << >>
    BY <1>3 DEF QueueTemplate, Templated, TSTypeOK
  <2>2. Head(sender.todo) \in ToSet(sender.todo)
    BY <2>1, HeadTailProperties, EmptySeq, LenProperties DEF ToSet
  <2>3. ToSet(uDataTemplateList) # {}
    BY <2>2 DEF Templated, Queued
  <2>4. UNCHANGED <<uDataTemplateList, templateIdList, workerList>>
    BY <1>3 DEF QueueTemplate, templates, tracking
  <2> QED BY <2>3, <2>4 DEF Recognised
<1>4. CASE TrackWorker
  <2>1. PICK ids \in ReadableIds :
          workerList' = Append(workerList, [worker |-> Served, ids |-> ids])
    BY <1>4 DEF TrackWorker, AddEntry
  <2>2. PICK e : e = [worker |-> Served, ids |-> ids]
    OBVIOUS
  <2>3. ids \subseteq Templates /\ ids \subseteq ToSet(uDataTemplateList)
    BY Readable DEF Recognised
  <2>4. e \in [worker : Workers, ids : SUBSET Templates]
    <3>1. newWorkerList # << >> /\ Served \in Workers
      BY <1>0, <1>4, HeadTailProperties DEF TrackWorker, Templated, Serving, Served
    <3> QED BY <2>2, <2>3, <3>1
  <2>5. /\ DOMAIN workerList = 1..Len(workerList) /\ Len(workerList) \in Nat
        /\ DOMAIN workerList' = 1..Len(workerList)+1
        /\ \A k \in 1..Len(workerList) : workerList'[k] = workerList[k]
        /\ workerList'[Len(workerList)+1] = e
    BY <1>0, <2>1, <2>2, <2>4, AppendProperties, LenProperties
  <2>6. e.ids \subseteq ToSet(uDataTemplateList)
    BY <2>2, <2>3
  <2>7. ASSUME NEW k \in DOMAIN workerList'
        PROVE  workerList'[k].ids \subseteq ToSet(uDataTemplateList)
    <3>1. k \in 1..Len(workerList) \/ k = Len(workerList)+1
      BY <2>5, <2>7
    <3> QED BY <2>5, <2>6, <3>1 DEF Recognised
  <2>8. UNCHANGED <<uDataTemplateList, templateIdList, reached>>
    BY <1>4 DEF TrackWorker, templates, packets
  <2> QED BY <2>7, <2>8 DEF Recognised
<1>5. ASSUME NEW p \in Processors, UpdateWorker(p) PROVE Recognised'
  <2>1. UNCHANGED <<uDataTemplateList, templateIdList, reached>>
    BY <1>5 DEF UpdateWorker, templates, packets
  <2>2. \A k \in DOMAIN workerList' : \E j \in DOMAIN workerList :
          workerList'[k].ids \subseteq workerList[j].ids
    BY <1>5, UpdateKeeps DEF Templated
  <2>3. \A k \in DOMAIN workerList' : workerList'[k].ids \subseteq ToSet(uDataTemplateList)
    BY <2>2 DEF Recognised
  <2> QED BY <2>1, <2>3 DEF Recognised
<1>6. ASSUME UNCHANGED <<uDataTemplateList, templateIdList, workerList, reached>>
      PROVE  Recognised'
  BY <1>6 DEF Recognised
<1> QED BY <1>1, <1>2, <1>3, <1>4, <1>5, <1>6 DEF TSNext, tsVars, templates, tracking, packets,
        Register, Announce, SetFlag, StartSender, TestNew, ReadJson, TakeWorker, ResetReady,
        DropWorker, ResetFlag, Acknowledge, Reset, Match

\* A worker that was sent templates and is not ready has an entry, and templates
\* whose resets empty it, whenever its acknowledgements come in between the steps
\* of the sender core and whatever is read of a list that is being rebuilt.
THEOREM UnreadyResettable == TSSpec => []UnreadyCanReset
<1>1. Tracked /\ Recognised => UnreadyCanReset
  <2> SUFFICES ASSUME Tracked, Recognised, NEW w \in Workers, w \in reached, ~workerReady[w]
               PROVE  \/ sender.pc \in {"unready", "track"} /\ Served = w
                      \/ /\ EntriesOf(w) # {} /\ uDataTemplateList # << >>
                         /\ \A i \in EntriesOf(w) :
                              workerList[i].ids \subseteq ToSet(uDataTemplateList)
    BY DEF UnreadyCanReset
  <2>1. uDataTemplateList # << >>
    BY EmptySeq DEF Recognised, ToSet
  <2>2. \A i \in EntriesOf(w) : workerList[i].ids \subseteq ToSet(uDataTemplateList)
    BY DEF Recognised, EntriesOf
  <2> QED BY <2>1, <2>2 DEF Tracked
<1> QED BY <1>1, TemplatesInit, TemplatesStep, TrackedInit, TrackedStep, RecognisedInit,
        RecognisedStep, PTL DEF TSSpec
=============================================================================
