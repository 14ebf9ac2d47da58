-------------------------------- MODULE Sink --------------------------------
(***************************************************************************)
(* sink/sink_stack.cpp: the bounded queue the server uses twice, as the    *)
(* sender sink (user-table monitor -> sender core) and as the receiver     *)
(* sink (socket sessions -> packet processors).                            *)
(*                                                                         *)
(* Both pushObject and popObject look at the size of the list BEFORE they  *)
(* take sinkLock and never look again, so each of them is two steps here:  *)
(* the unlocked test and the locked section.                               *)
(***************************************************************************)
EXTENDS Naturals, StdList

CONSTANTS
  Pushers,        \* threads that call pushObject
  Poppers,        \* threads that call popObject
  Priorities,     \* the TaskPriority values the pushers use
  StarveBytes,    \* values an uninitialised std::uint8_t may hold
  MAX_POOL_SIZE,  \* sink_stack.hpp: 20
  MaxObjects      \* bound: pushObject is called at most this often

HIGH_PRIORITY   == 1
MEDIUM_PRIORITY == 2
LOW_PRIORITY    == 3     \* also DEFAULT_PRIORITY
TaskPriority    == 0..3  \* 0 is NON_PREEMTABLE

ASSUME SinkAssumption ==
  /\ IsFiniteSet(Pushers) /\ Pushers # {}
  /\ Priorities \subseteq TaskPriority
  /\ StarveBytes \subseteq 0..255 /\ StarveBytes # {}
  /\ MAX_POOL_SIZE \in Nat \ {0}
  /\ MaxObjects \in Nat

Object == 1..MaxObjects
Call   == [object : Object, priority : Priorities]
Item   == [object : Object, priority : Priorities, starveCounter : StarveBytes]
Idle   == [object |-> 0, priority |-> 0]

VARIABLES
  sinkItemList,   \* the list, front first
  pushing,        \* per pusher: the call that passed the size test, or Idle
  popping,        \* the poppers that saw a non-empty list and want the lock
  popped,         \* history: the items handed out, oldest first
  calls,          \* history: number of pushObject calls so far
  crashed         \* front() of an empty std::list was dereferenced

vars == <<sinkItemList, pushing, popping, popped, calls, crashed>>

-----------------------------------------------------------------------------
CalculateStarveCounter(priority) ==
  CASE priority = HIGH_PRIORITY   -> 6
    [] priority = MEDIUM_PRIORITY -> 4
    [] OTHER                      -> 0

\* Mutant of the test that pushObject makes without the lock.
HasRoomOffByOne == Len(sinkItemList) <= MAX_POOL_SIZE

HasRoom  == Len(sinkItemList) < MAX_POOL_SIZE
SeesItem == sinkItemList # << >>

(***************************************************************************)
(* The constructor of SinkItem assigns its parameter to itself by name:    *)
(* the member starveCounter stays uninitialised, so a new item carries any *)
(* byte.  The loop stops at the first item whose byte is below the new     *)
(* item's counter and inserts before that item's PREDECESSOR (--i); the    *)
(* predecessor of the first item is end(), so there the item goes last.    *)
(***************************************************************************)
\* Mutant: <= for <, so that equal counters overtake.
BeatenOrEqual(s, priority) ==
  {i \in 1..Len(s) : s[i].starveCounter <= CalculateStarveCounter(priority)}

Beaten(s, priority) ==
  {i \in 1..Len(s) : s[i].starveCounter < CalculateStarveCounter(priority)}

InsertPosition(s, priority) ==
  LET beaten == Beaten(s, priority)
      first  == CHOOSE i \in beaten : \A j \in beaten : i <= j
  IN  IF beaten = {} \/ first = 1 THEN Len(s) + 1 ELSE first - 1

\* Mutant: the object is shadowed by the parameter as the counter is.
NewItemShadowed(call, byte) ==
  [object |-> 0, priority |-> call.priority, starveCounter |-> byte]

NewItem(call, byte) ==
  [object |-> call.object, priority |-> call.priority, starveCounter |-> byte]

-----------------------------------------------------------------------------
Init ==
  /\ sinkItemList = << >>
  /\ pushing = [t \in Pushers |-> Idle]
  /\ popping = {}
  /\ popped = << >>
  /\ calls = 0
  /\ crashed = FALSE

\* pushObject up to sem_wait: a full list refuses the object for good.
PushTest(t, priority) ==
  /\ ~crashed
  /\ pushing[t] = Idle
  /\ calls < MaxObjects
  /\ calls' = calls + 1
  /\ IF HasRoom
       THEN pushing' = [pushing EXCEPT ![t] =
                          [object |-> calls + 1, priority |-> priority]]
       ELSE UNCHANGED pushing
  /\ UNCHANGED <<sinkItemList, popping, popped, crashed>>

\* Mutant: insertion before the predecessor erases it, as assigning *i would.
PushReplaces(t) ==
  /\ ~crashed
  /\ pushing[t] # Idle
  /\ \E byte \in StarveBytes :
       LET i == InsertPosition(sinkItemList, pushing[t].priority)
           item == NewItem(pushing[t], byte)
       IN  sinkItemList' = IF i \in DOMAIN sinkItemList
                             THEN [sinkItemList EXCEPT ![i] = item]
                             ELSE Append(sinkItemList, item)
  /\ pushing' = [pushing EXCEPT ![t] = Idle]
  /\ UNCHANGED <<popping, popped, calls, crashed>>

\* pushObject between sem_wait and sem_post.
PushInsert(t) ==
  /\ ~crashed
  /\ pushing[t] # Idle
  /\ \E byte \in StarveBytes :
       sinkItemList' = InsertAt(sinkItemList,
                                InsertPosition(sinkItemList, pushing[t].priority),
                                NewItem(pushing[t], byte))
  /\ pushing' = [pushing EXCEPT ![t] = Idle]
  /\ UNCHANGED <<popping, popped, calls, crashed>>

\* popObject up to sem_wait; an empty list returns a NULL object at once.
PopTest(t) ==
  /\ ~crashed
  /\ t \notin popping
  /\ SeesItem
  /\ popping' = popping \cup {t}
  /\ UNCHANGED <<sinkItemList, pushing, popped, calls, crashed>>

\* Mutant: pop_front is forgotten.
PopTakeKeepsItem(t) ==
  /\ ~crashed
  /\ t \in popping
  /\ sinkItemList # << >>
  /\ popping' = popping \ {t}
  /\ popped' = Append(popped, Head(sinkItemList))
  /\ UNCHANGED <<sinkItemList, pushing, calls, crashed>>

\* popObject between sem_wait and sem_post, which trusts the earlier test.
\* front() of an emptied libstdc++ list yields NULL, which is dereferenced.
PopTake(t) ==
  /\ ~crashed
  /\ t \in popping
  /\ popping' = popping \ {t}
  /\ IF sinkItemList = << >>
       THEN /\ crashed' = TRUE
            /\ UNCHANGED <<sinkItemList, popped>>
       ELSE /\ popped' = Append(popped, Head(sinkItemList))
            /\ sinkItemList' = Tail(sinkItemList)
            /\ UNCHANGED crashed
  /\ UNCHANGED <<pushing, calls>>

Next ==
  \/ \E t \in Pushers : PushInsert(t) \/ \E p \in Priorities : PushTest(t, p)
  \/ \E t \in Poppers : PopTest(t) \/ PopTake(t)

Spec == Init /\ [][Next]_vars

-----------------------------------------------------------------------------
\* Type invariant: the list holds items, a pusher is idle or between its two
\* steps, and only poppers pop.
TypeOK ==
  /\ sinkItemList \in Seq(Item)
  /\ pushing \in [Pushers -> Call \cup {Idle}]
  /\ popping \subseteq Poppers
  /\ popped \in Seq(Item)
  /\ calls \in 0..MaxObjects
  /\ crashed \in BOOLEAN

\* The size test of pushObject is made without the lock, so the sink may grow
\* past MAX_POOL_SIZE, but never by more than one object per other pusher.
OvershootBound == Len(sinkItemList) <= MAX_POOL_SIZE + Cardinality(Pushers) - 1

\* Every object is in at most one place: in a pusher's hands, at one position
\* of the list, or handed out once.  No interleaving of the unlocked tests
\* copies an object.
NoDuplication ==
  LET all == popped \o sinkItemList
  IN  /\ \A i, j \in 1..Len(all) : all[i].object = all[j].object => i = j
      /\ \A t \in Pushers : pushing[t] # Idle =>
           /\ \A i \in 1..Len(all) : all[i].object # pushing[t].object
           /\ \A u \in Pushers : pushing[u] = pushing[t] => u = t

\* popObject trusts a size it read before it had the lock: with several poppers
\* this may lead it to take the front of an empty list, with one it never does.
\* (Only the proofs speak of it: with one popper nobody else empties the list.)
NeverPopsEmpty == ~crashed

\* sink_stack.cpp:36-53, :64-73: what passed the size test stays - in its
\* pusher's hands, in the list, or handed out - whatever priorities and bytes
\* decide on its place, whoever pushes at the same time, and even when two
\* poppers go for the last object.
Kept == {pushing[t].object : t \in {t \in Pushers : pushing[t] # Idle}}
          \cup {sinkItemList[i].object : i \in DOMAIN sinkItemList}
          \cup {popped[i].object : i \in DOMAIN popped}
NothingLost == [][Kept \subseteq Kept']_vars

Objects(s) == [i \in 1..Len(s) |-> s[i].object]

\* The receiver sink only ever carries DEFAULT_PRIORITY.  Whatever bytes the
\* items carry, it is then a FIFO of MAX_POOL_SIZE objects and one more per
\* other pusher.
Queue == INSTANCE Fifo WITH
           Capacity  <- MAX_POOL_SIZE + Cardinality(Pushers) - 1,
           queue     <- Objects(sinkItemList),
           delivered <- Objects(popped)
ReceiverIsFifo == Queue!Spec

IsLow(item) == item.priority = LOW_PRIORITY

\* The low-priority items of a list, in their order.
AddLow == [low \in Seq(Item) |-> [item \in Item |->
            IF IsLow(item) THEN Append(low, item) ELSE low]]
LowItems(s) == FoldBy(AddLow, << >>, s)

\* In the sender sink, items of different priority overtake each other as the
\* uninitialised bytes decide, but low-priority items among themselves stay
\* first in, first out.
LowQueue == INSTANCE Fifo WITH
              Capacity  <- MAX_POOL_SIZE + Cardinality(Pushers) - 1,
              queue     <- Objects(LowItems(sinkItemList)),
              delivered <- Objects(LowItems(popped))
LowItemsAreFifo == LowQueue!Spec
=============================================================================
