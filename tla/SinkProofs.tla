----------------------------- MODULE SinkProofs -----------------------------
(***************************************************************************)
(* What holds of the sink for every number of threads, pool size and       *)
(* choice of the uninitialised bytes.                                      *)
(***************************************************************************)
EXTENDS Sink, StdListProofs

\* The place pushObject picks is one at which an element may be inserted,
\* whatever bytes the items carry.
LEMMA InsertPositionRange ==
  ASSUME NEW s \in Seq(Item), NEW priority
  PROVE  InsertPosition(s, priority) \in 1..Len(s)+1
<1> DEFINE beaten == Beaten(s, priority)
           first  == CHOOSE i \in beaten : \A j \in beaten : i <= j
<1>1. Len(s) \in Nat
  BY LenProperties
<1>2. beaten \subseteq 1..Len(s)
  BY DEF Beaten
<1>3. CASE beaten = {}
  BY <1>1, <1>3 DEF InsertPosition
<1>4. CASE beaten # {}
  <2>1. \E i \in beaten : \A j \in beaten : i <= j
    BY <1>1, <1>2, <1>4, LeastExists
  <2>2. first \in beaten
    BY <2>1
  <2>3. first \in 1..Len(s)
    BY <2>2, <1>2
  <2> QED BY <1>1, <2>3 DEF InsertPosition
<1> QED BY <1>3, <1>4

-----------------------------------------------------------------------------
(***************************************************************************)
(* Type correctness.                                                       *)
(***************************************************************************)
\* Between sem_wait and sem_post a push puts one well-formed item into the
\* list, whatever byte the constructor leaves in it.
LEMMA InsertStep ==
  ASSUME TypeOK, NEW t \in Pushers, pushing[t] # Idle,
         NEW byte \in StarveBytes,
         NEW list,
         list = InsertAt(sinkItemList,
                         InsertPosition(sinkItemList, pushing[t].priority),
                         NewItem(pushing[t], byte))
  PROVE  list \in Seq(Item) /\ Len(list) = Len(sinkItemList) + 1
<1>1. pushing[t] \in Call
  BY DEF TypeOK
<1>2. NewItem(pushing[t], byte) \in Item
  BY <1>1 DEF NewItem, Call, Item
<1>3. InsertPosition(sinkItemList, pushing[t].priority) \in 1..Len(sinkItemList)+1
  BY InsertPositionRange DEF TypeOK
<1>4. sinkItemList \in Seq(Item)
  BY DEF TypeOK
<1> QED BY <1>2, <1>3, <1>4, InsertAtType

\* TypeOK holds in every state of the sink: the unlocked tests never leave a
\* thread holding something that is not a call, nor the list a non-item.
THEOREM Typing == Spec => []TypeOK
<1>1. Init => TypeOK
  <2>1. << >> \in Seq(Item)
    OBVIOUS
  <2>2. [t \in Pushers |-> Idle] \in [Pushers -> Call \cup {Idle}]
    OBVIOUS
  <2>3. 0 \in 0..MaxObjects
    BY SinkAssumption
  <2> QED BY <2>1, <2>2, <2>3 DEF Init, TypeOK
<1>2. TypeOK /\ [Next]_vars => TypeOK'
  <2> SUFFICES ASSUME TypeOK, [Next]_vars
               PROVE  TypeOK'
    OBVIOUS
  <2>1. ASSUME NEW t \in Pushers, NEW p \in Priorities, PushTest(t, p)
        PROVE  TypeOK'
    <3>1. CASE HasRoom
      <4>1. calls + 1 \in Object
        BY <2>1, SinkAssumption DEF TypeOK, PushTest, Object
      <4>2. [object |-> calls + 1, priority |-> p] \in Call
        BY <4>1 DEF Call
      <4>3. pushing' \in [Pushers -> Call \cup {Idle}]
        BY <2>1, <3>1, <4>2 DEF TypeOK, PushTest
      <4>4. calls' \in 0..MaxObjects
        BY <2>1, SinkAssumption DEF TypeOK, PushTest
      <4> QED BY <2>1, <4>3, <4>4 DEF TypeOK, PushTest
    <3>2. CASE ~HasRoom
      BY <2>1, <3>2, SinkAssumption DEF TypeOK, PushTest
    <3> QED BY <3>1, <3>2
  <2>2. ASSUME NEW t \in Pushers, PushInsert(t)
        PROVE  TypeOK'
    <3>1. sinkItemList' \in Seq(Item)
      BY <2>2, InsertStep DEF PushInsert
    <3> QED BY <2>2, <3>1 DEF TypeOK, PushInsert
  <2>3. ASSUME NEW t \in Poppers, PopTest(t)
        PROVE  TypeOK'
    BY <2>3 DEF TypeOK, PopTest
  <2>4. ASSUME NEW t \in Poppers, PopTake(t)
        PROVE  TypeOK'
    <3>1. CASE sinkItemList = << >>
      BY <2>4, <3>1 DEF TypeOK, PopTake
    <3>2. CASE sinkItemList # << >>
      <4>1. Head(sinkItemList) \in Item /\ Tail(sinkItemList) \in Seq(Item)
        BY <3>2, HeadTailProperties DEF TypeOK
      <4>2. Append(popped, Head(sinkItemList)) \in Seq(Item)
        BY <4>1, AppendProperties DEF TypeOK
      <4> QED BY <2>4, <3>2, <4>1, <4>2 DEF TypeOK, PopTake
    <3> QED BY <3>1, <3>2
  <2>5. CASE UNCHANGED vars
    BY <2>5 DEF TypeOK, vars
  <2> QED BY <2>1, <2>2, <2>3, <2>4, <2>5 DEF Next
<1> QED BY <1>1, <1>2, PTL DEF Spec

-----------------------------------------------------------------------------
(***************************************************************************)
(* The overshoot.  The bound on the list alone is not inductive: what is   *)
(* preserved counts the objects in the list together with those whose      *)
(* pusher has passed the size test and not yet inserted.                   *)
(***************************************************************************)
Inserting == {t \in Pushers : pushing[t] # Idle}

OvershootInv ==
  Len(sinkItemList) + Cardinality(Inserting)
    <= MAX_POOL_SIZE + Cardinality(Pushers) - 1

\* The threads inside pushObject are finitely many, at most all the pushers.
LEMMA InsertingFinite ==
  /\ IsFiniteSet(Inserting)
  /\ Cardinality(Inserting) \in Nat
  /\ Cardinality(Pushers) \in Nat
  /\ Cardinality(Inserting) <= Cardinality(Pushers)
<1>1. Inserting \in SUBSET Pushers
  BY DEF Inserting
<1> QED BY <1>1, SinkAssumption, FS_Subset, FS_CardinalityType

\* OvershootInv is inductive: a pusher passes the test only below the limit,
\* and trades its claim for the item it inserts.
LEMMA OvershootInvariant == Spec => []OvershootInv
<1> USE SinkAssumption
<1>1. Init => OvershootInv
  <2> SUFFICES ASSUME Init PROVE OvershootInv
    OBVIOUS
  <2>1. Inserting = {}
    BY DEF Init, Inserting
  <2>2. Cardinality(Inserting) = 0
    BY <2>1, FS_EmptySet
  <2>3. Len(sinkItemList) = 0
    BY DEF Init
  <2>4. Cardinality(Pushers) # 0
    BY FS_EmptySet
  <2> QED BY <2>2, <2>3, <2>4, InsertingFinite DEF OvershootInv
<1>2. TypeOK /\ TypeOK' /\ OvershootInv /\ [Next]_vars => OvershootInv'
  <2> SUFFICES ASSUME TypeOK, TypeOK', OvershootInv, [Next]_vars
               PROVE  OvershootInv'
    OBVIOUS
  <2>0. /\ Len(sinkItemList) \in Nat
        /\ IsFiniteSet(Inserting)
        /\ Cardinality(Inserting) \in Nat
        /\ Cardinality(Pushers) \in Nat
        /\ Cardinality(Inserting) <= Cardinality(Pushers)
    BY InsertingFinite, LenProperties DEF TypeOK
  <2>1. ASSUME NEW t \in Pushers, NEW p \in Priorities, PushTest(t, p)
        PROVE  OvershootInv'
    <3>1. CASE HasRoom
      <4>1. Inserting' \in SUBSET Pushers
        BY DEF Inserting
      <4>2. Cardinality(Inserting') <= Cardinality(Pushers)
        BY <4>1, FS_Subset
      <4>3. Cardinality(Inserting') \in Nat
        BY <4>1, FS_Subset, FS_CardinalityType
      <4>4. Len(sinkItemList') = Len(sinkItemList)
        BY <2>1 DEF PushTest
      <4>5. Len(sinkItemList) <= MAX_POOL_SIZE - 1
        BY <2>0, <3>1 DEF HasRoom
      <4> QED BY <2>0, <4>2, <4>3, <4>4, <4>5 DEF OvershootInv
    <3>2. CASE ~HasRoom
      BY <2>1, <3>2 DEF PushTest, OvershootInv, Inserting
    <3> QED BY <3>1, <3>2
  <2>2. ASSUME NEW t \in Pushers, PushInsert(t)
        PROVE  OvershootInv'
    <3>1. Len(sinkItemList') = Len(sinkItemList) + 1
      BY <2>2, InsertStep DEF PushInsert
    <3>2. t \in Inserting
      BY <2>2 DEF PushInsert, Inserting
    <3>3. Inserting' = Inserting \ {t}
      BY <2>2 DEF PushInsert, Inserting, TypeOK
    <3>4. Cardinality(Inserting') = Cardinality(Inserting) - 1
      BY <2>0, <3>2, <3>3, FS_RemoveElement
    <3> QED BY <2>0, <3>1, <3>4 DEF OvershootInv
  <2>3. ASSUME NEW t \in Poppers, PopTest(t)
        PROVE  OvershootInv'
    BY <2>3 DEF PopTest, OvershootInv, Inserting
  <2>4. ASSUME NEW t \in Poppers, PopTake(t)
        PROVE  OvershootInv'
    <3>1. Inserting' = Inserting
      BY <2>4 DEF PopTake, Inserting
    <3>2. CASE sinkItemList = << >>
      BY <2>4, <3>1, <3>2 DEF PopTake, OvershootInv
    <3>3. CASE sinkItemList # << >>
      <4>1. Len(sinkItemList') = Len(sinkItemList) - 1
        BY <2>4, <3>3, HeadTailProperties DEF PopTake, TypeOK
      <4> QED BY <2>0, <3>1, <4>1 DEF OvershootInv
    <3> QED BY <3>2, <3>3
  <2>5. CASE UNCHANGED vars
    BY <2>5 DEF vars, OvershootInv, Inserting
  <2> QED BY <2>1, <2>2, <2>3, <2>4, <2>5 DEF Next
<1> QED BY <1>1, <1>2, Typing, PTL DEF Spec

\* The sink never holds more than MAX_POOL_SIZE objects and one more per
\* pusher but one, for every interleaving of the unlocked size tests.
THEOREM Overshoot == Spec => []OvershootBound
<1>1. TypeOK /\ OvershootInv => OvershootBound
  <2> SUFFICES ASSUME TypeOK, OvershootInv PROVE OvershootBound
    OBVIOUS
  <2>1. Len(sinkItemList) \in Nat /\ MAX_POOL_SIZE \in Nat
    BY LenProperties, SinkAssumption DEF TypeOK
  <2> QED BY <2>1, InsertingFinite DEF OvershootInv, OvershootBound
<1> QED BY <1>1, Typing, OvershootInvariant, PTL

-----------------------------------------------------------------------------
(***************************************************************************)
(* One consumer.  The sender sink is popped by the sender core alone.      *)
(***************************************************************************)
\* A consumer between its test and its pop still has something to pop: only
\* consumers shorten the list.
PopperHasItem == popping # {} => sinkItemList # << >>

\* With a single consumer both halves are inductive together.
LEMMA ConsumerInvariant ==
  ASSUME \A p, q \in Poppers : p = q
  PROVE  Spec => [](PopperHasItem /\ NeverPopsEmpty)
<1> DEFINE Inv == PopperHasItem /\ NeverPopsEmpty
<1>1. Init => Inv
  BY DEF Init, PopperHasItem, NeverPopsEmpty
<1>2. TypeOK /\ Inv /\ [Next]_vars => Inv'
  <2> SUFFICES ASSUME TypeOK, Inv, [Next]_vars
               PROVE  Inv'
    OBVIOUS
  <2>1. ASSUME NEW t \in Pushers, NEW p \in Priorities, PushTest(t, p)
        PROVE  Inv'
    BY <2>1 DEF PushTest, PopperHasItem, NeverPopsEmpty
  <2>2. ASSUME NEW t \in Pushers, PushInsert(t)
        PROVE  Inv'
    <3>1. Len(sinkItemList') = Len(sinkItemList) + 1 /\ Len(sinkItemList) \in Nat
      BY <2>2, InsertStep, LenProperties DEF PushInsert, TypeOK
    <3>2. sinkItemList' # << >>
      BY <3>1
    <3> QED BY <2>2, <3>2 DEF PushInsert, PopperHasItem, NeverPopsEmpty
  <2>3. ASSUME NEW t \in Poppers, PopTest(t)
        PROVE  Inv'
    BY <2>3 DEF PopTest, SeesItem, PopperHasItem, NeverPopsEmpty
  <2>4. ASSUME NEW t \in Poppers, PopTake(t)
        PROVE  Inv'
    <3>1. sinkItemList # << >>
      BY <2>4 DEF PopTake, PopperHasItem
    <3>2. popping = {t}
      BY <2>4 DEF PopTake, TypeOK
    <3>3. popping' = {}
      BY <2>4, <3>2 DEF PopTake
    <3> QED BY <2>4, <3>1, <3>3 DEF PopTake, PopperHasItem, NeverPopsEmpty
  <2>5. CASE UNCHANGED vars
    BY <2>5 DEF vars, PopperHasItem, NeverPopsEmpty
  <2> QED BY <2>1, <2>2, <2>3, <2>4, <2>5 DEF Next
<1> QED BY <1>1, <1>2, Typing, PTL DEF Spec

\* With a single consumer, popObject never dereferences the front of an empty
\* list although it tests the size before it has the lock.
THEOREM SingleConsumer ==
  ASSUME \A p, q \in Poppers : p = q
  PROVE  Spec => []NeverPopsEmpty
<1>1. PopperHasItem /\ NeverPopsEmpty => NeverPopsEmpty
  OBVIOUS
<1> QED BY <1>1, ConsumerInvariant, PTL

-----------------------------------------------------------------------------
(***************************************************************************)
(* No object twice.  What NoDuplication says of the list and of the        *)
(* objects handed out is inductive only together with the freshness of the *)
(* objects that pushers hold.                                              *)
(***************************************************************************)
\* Objects are numbered in the order of the calls, so an object in a pusher's
\* hands is new: neither in the list, nor handed out, nor in other hands.
Fresh(o) ==
  /\ \A i \in 1..Len(sinkItemList) : sinkItemList[i].object # o
  /\ \A i \in 1..Len(popped) : popped[i].object # o

FreshInv ==
  /\ \A i \in 1..Len(sinkItemList) : sinkItemList[i].object <= calls
  /\ \A i \in 1..Len(popped) : popped[i].object <= calls
  /\ \A t \in Inserting :
       /\ pushing[t].object <= calls
       /\ Fresh(pushing[t].object)
       /\ \A u \in Inserting : pushing[u].object = pushing[t].object => u = t

\* What the locked section of pushObject makes of the list: the pusher's object
\* stands at q, and all others keep their order around it.
Inserted(t, q) ==
  /\ Len(sinkItemList') = Len(sinkItemList) + 1
  /\ \A i \in 1..q-1 : sinkItemList'[i] = sinkItemList[i]
  /\ sinkItemList'[q].object = pushing[t].object
  /\ \A i \in q+1..Len(sinkItemList)+1 : sinkItemList'[i] = sinkItemList[i-1]

\* Whatever the bytes make of the place, pushObject adds one object and neither
\* drops nor repeats any other.
LEMMA InsertShape ==
  ASSUME TypeOK, NEW t \in Pushers, PushInsert(t)
  PROVE  \E q \in 1..Len(sinkItemList)+1 : Inserted(t, q)
<1> DEFINE q == InsertPosition(sinkItemList, pushing[t].priority)
<1>1. PICK byte \in StarveBytes :
        sinkItemList' = InsertAt(sinkItemList, q, NewItem(pushing[t], byte))
  BY DEF PushInsert
<1>2. pushing[t] \in Call
  BY DEF PushInsert, TypeOK
<1>3. NewItem(pushing[t], byte) \in Item
  BY <1>2 DEF NewItem, Call, Item
<1>4. NewItem(pushing[t], byte).object = pushing[t].object
  BY DEF NewItem
<1>5. sinkItemList \in Seq(Item)
  BY DEF TypeOK
<1>6. q \in 1..Len(sinkItemList)+1
  BY <1>5, InsertPositionRange
<1> HIDE DEF q
<1> DEFINE item == NewItem(pushing[t], byte)
<1> HIDE DEF item
<1>7. /\ Len(InsertAt(sinkItemList, q, item)) = Len(sinkItemList) + 1
      /\ \A i \in 1..q-1 : InsertAt(sinkItemList, q, item)[i] = sinkItemList[i]
      /\ InsertAt(sinkItemList, q, item)[q] = item
      /\ \A i \in q+1..Len(sinkItemList)+1 :
           InsertAt(sinkItemList, q, item)[i] = sinkItemList[i-1]
  <2>1. item \in Item
    BY <1>3 DEF item
  <2> QED BY <1>5, <1>6, <2>1, InsertAtType, InsertAtElements
<1>8. sinkItemList' = InsertAt(sinkItemList, q, item)
  BY <1>1 DEF item
<1>9. item.object = pushing[t].object
  BY <1>4 DEF item
<1>10. Inserted(t, q)
  BY <1>7, <1>8, <1>9 DEF Inserted
<1> QED BY <1>6, <1>10

\* FreshInv is inductive, wherever in the list the items are put.
LEMMA Freshness == Spec => []FreshInv
<1>1. Init => FreshInv
  BY DEF Init, FreshInv, Inserting
<1>2. TypeOK /\ TypeOK' /\ FreshInv /\ [Next]_vars => FreshInv'
  <2> SUFFICES ASSUME TypeOK, TypeOK', FreshInv, [Next]_vars
               PROVE  FreshInv'
    OBVIOUS
  <2>0. /\ calls \in Nat
        /\ Len(sinkItemList) \in Nat /\ Len(popped) \in Nat
        /\ \A i \in 1..Len(sinkItemList) : sinkItemList[i].object \in Nat
        /\ \A i \in 1..Len(popped) : popped[i].object \in Nat
    <3>1. \A seq \in Seq(Item) : \A i \in 1..Len(seq) : seq[i].object \in Nat
      <4> TAKE seq \in Seq(Item)
      <4> TAKE i \in 1..Len(seq)
      <4>1. seq[i] \in Item
        BY ElementOfSeq
      <4>2. seq[i].object \in Object
        BY <4>1 DEF Item
      <4> QED BY <4>2, SinkAssumption DEF Object
    <3> QED BY <3>1, LenProperties, SinkAssumption DEF TypeOK
  <2>1. ASSUME NEW t \in Pushers, NEW p \in Priorities, PushTest(t, p)
        PROVE  FreshInv'
    <3>1. CASE HasRoom
      <4>1. pushing' = [pushing EXCEPT ![t] =
                          [object |-> calls + 1, priority |-> p]]
        BY <2>1, <3>1 DEF PushTest
      <4>2. Inserting' \subseteq Inserting \cup {t} /\ t \notin Inserting
        BY <2>1, <4>1 DEF PushTest, Inserting, TypeOK
      <4>3. pushing'[t].object = calls + 1
        BY <4>1 DEF TypeOK
      <4>4. \A u \in Inserting : pushing'[u] = pushing[u]
        BY <4>1, <4>2 DEF TypeOK, Inserting
      <4>5. /\ sinkItemList' = sinkItemList /\ popped' = popped
            /\ calls' = calls + 1
        BY <2>1 DEF PushTest
      <4>6. \A u \in Inserting : pushing[u].object \in Nat
        BY SinkAssumption DEF TypeOK, Inserting, Call, Object
      <4>7. Fresh(calls + 1)
        BY <2>0 DEF FreshInv, Fresh
      <4>8. \A i \in 1..Len(sinkItemList) : sinkItemList[i].object <= calls + 1
        BY <2>0 DEF FreshInv
      <4>9. \A i \in 1..Len(popped) : popped[i].object <= calls + 1
        BY <2>0 DEF FreshInv
      <4>10. ASSUME NEW u \in Inserting'
             PROVE  /\ pushing'[u].object <= calls + 1
                    /\ Fresh(pushing'[u].object)
                    /\ \A v \in Inserting' :
                         pushing'[v].object = pushing'[u].object => v = u
        <5>1. CASE u = t
          BY <2>0, <4>2, <4>3, <4>4, <4>6, <4>7, <5>1 DEF FreshInv
        <5>2. CASE u \in Inserting
          BY SMTT(30), <2>0, <4>2, <4>3, <4>4, <4>6, <5>2 DEF FreshInv
        <5> QED BY <4>2, <5>1, <5>2
      <4> QED BY <4>5, <4>8, <4>9, <4>10 DEF FreshInv, Fresh
    <3>2. CASE ~HasRoom
      <4>1. /\ pushing' = pushing /\ Inserting' = Inserting
            /\ sinkItemList' = sinkItemList /\ popped' = popped
            /\ calls' = calls + 1
        BY <2>1, <3>2 DEF PushTest, Inserting
      <4>2. \A u \in Inserting : pushing[u].object \in Nat
        BY SinkAssumption DEF TypeOK, Inserting, Call, Object
      <4>3. /\ \A i \in 1..Len(sinkItemList) : sinkItemList[i].object <= calls + 1
            /\ \A i \in 1..Len(popped) : popped[i].object <= calls + 1
            /\ \A u \in Inserting : pushing[u].object <= calls + 1
        BY <2>0, <4>2 DEF FreshInv
      <4> QED BY <4>1, <4>3 DEF FreshInv, Fresh
    <3> QED BY <3>1, <3>2
  <2>2. ASSUME NEW t \in Pushers, PushInsert(t)
        PROVE  FreshInv'
    <3>1. PICK q \in 1..Len(sinkItemList)+1 : Inserted(t, q)
      BY <2>2, InsertShape
    <3>3. \A i \in 1..Len(sinkItemList') :
            \/ \E j \in 1..Len(sinkItemList) : sinkItemList'[i] = sinkItemList[j]
            \/ sinkItemList'[i].object = pushing[t].object
      <4> TAKE i \in 1..Len(sinkItemList')
      <4>1. CASE i \in 1..q-1
        BY <2>0, <3>1, <4>1 DEF Inserted
      <4>2. CASE i = q
        BY <3>1, <4>2 DEF Inserted
      <4>3. CASE i \in q+1..Len(sinkItemList)+1
        <5>1. i - 1 \in 1..Len(sinkItemList)
          BY <2>0, <4>3
        <5> QED BY <3>1, <4>3, <5>1 DEF Inserted
      <4> QED BY <2>0, <3>1, <4>1, <4>2, <4>3 DEF Inserted
    <3>4. Inserting' = Inserting \ {t} /\ t \in Inserting
      BY <2>2 DEF PushInsert, Inserting, TypeOK
    <3>5. \A u \in Inserting' : pushing'[u] = pushing[u]
      BY <2>2, <3>4 DEF PushInsert, TypeOK, Inserting
    <3>6. popped' = popped /\ calls' = calls
      BY <2>2 DEF PushInsert
    <3>7. \A i \in 1..Len(sinkItemList') : sinkItemList'[i].object <= calls
      BY <3>3, <3>4 DEF FreshInv
    <3>8. \A u \in Inserting' : \A i \in 1..Len(sinkItemList') :
            sinkItemList'[i].object # pushing[u].object
      BY <3>3, <3>4 DEF FreshInv, Fresh
    <3> QED BY <3>4, <3>5, <3>6, <3>7, <3>8 DEF FreshInv, Fresh
  <2>3. ASSUME NEW t \in Poppers, PopTest(t)
        PROVE  FreshInv'
    BY <2>3 DEF PopTest, FreshInv, Fresh, Inserting
  <2>4. ASSUME NEW t \in Poppers, PopTake(t)
        PROVE  FreshInv'
    <3>1. pushing' = pushing /\ calls' = calls /\ Inserting' = Inserting
      BY <2>4 DEF PopTake, Inserting
    <3>2. CASE sinkItemList = << >>
      BY <2>4, <3>1, <3>2 DEF PopTake, FreshInv, Fresh
    <3>3. CASE sinkItemList # << >>
      <4>1. /\ Len(sinkItemList') = Len(sinkItemList) - 1
            /\ \A i \in 1..Len(sinkItemList') : sinkItemList'[i] = sinkItemList[i+1]
        BY <2>4, <3>3, HeadTailProperties DEF PopTake, TypeOK
      <4>2. /\ popped' = Append(popped, Head(sinkItemList))
            /\ Head(sinkItemList) = sinkItemList[1]
            /\ Head(sinkItemList) \in Item
        BY <2>4, <3>3, HeadTailProperties DEF PopTake, TypeOK
      <4>3. /\ Len(popped') = Len(popped) + 1
            /\ \A i \in 1..Len(popped) : popped'[i] = popped[i]
            /\ popped'[Len(popped) + 1] = sinkItemList[1]
        BY <4>2, AppendProperties DEF TypeOK
      <4>4. 1 \in 1..Len(sinkItemList)
        BY <3>3, EmptySeq DEF TypeOK
      <4>5. \A i \in 1..Len(sinkItemList') : \E j \in 1..Len(sinkItemList) :
              sinkItemList'[i] = sinkItemList[j]
        <5> TAKE i \in 1..Len(sinkItemList')
        <5>1. i + 1 \in 1..Len(sinkItemList) /\ sinkItemList'[i] = sinkItemList[i+1]
          BY <2>0, <4>1
        <5> QED BY <5>1
      <4>6. \A i \in 1..Len(popped') :
              \/ \E j \in 1..Len(popped) : popped'[i] = popped[j]
              \/ popped'[i] = sinkItemList[1]
        BY <2>0, <4>3
      <4>7. /\ \A i \in 1..Len(sinkItemList') : sinkItemList'[i].object <= calls
            /\ \A i \in 1..Len(popped') : popped'[i].object <= calls
        BY <4>4, <4>5, <4>6 DEF FreshInv
      <4>8. \A u \in Inserting :
              /\ \A i \in 1..Len(sinkItemList') :
                   sinkItemList'[i].object # pushing[u].object
              /\ \A i \in 1..Len(popped') : popped'[i].object # pushing[u].object
        BY SMTT(30), <4>4, <4>5, <4>6 DEF FreshInv, Fresh
      <4> QED BY <3>1, <4>7, <4>8 DEF FreshInv, Fresh
    <3> QED BY <3>2, <3>3
  <2>5. CASE UNCHANGED vars
    BY <2>5 DEF vars, FreshInv, Fresh, Inserting
  <2> QED BY <2>1, <2>2, <2>3, <2>4, <2>5 DEF Next
<1> QED BY <1>1, <1>2, Typing, PTL DEF Spec

\* No object is twice in the list, twice among those handed out, or in both.
DistinctInv ==
  /\ \A i, j \in 1..Len(sinkItemList) :
       sinkItemList[i].object = sinkItemList[j].object => i = j
  /\ \A i, j \in 1..Len(popped) : popped[i].object = popped[j].object => i = j
  /\ \A i \in 1..Len(sinkItemList), j \in 1..Len(popped) :
       sinkItemList[i].object # popped[j].object

\* An insertion keeps the objects of the list distinct, as the new one is fresh.
LEMMA DistinctInsert ==
  ASSUME TypeOK, FreshInv, DistinctInv, NEW t \in Pushers, PushInsert(t)
  PROVE  DistinctInv'
<1>1. Len(sinkItemList) \in Nat
  BY LenProperties DEF TypeOK
<1>2. PICK q \in 1..Len(sinkItemList)+1 : Inserted(t, q)
  BY InsertShape
<1> DEFINE old(i) == IF i < q THEN i ELSE i - 1
<1>3. Fresh(pushing[t].object)
  BY DEF FreshInv, Inserting, PushInsert
<1>4. popped' = popped
  BY DEF PushInsert
<1>5. \A i \in 1..Len(sinkItemList)+1 : i # q =>
        /\ old(i) \in 1..Len(sinkItemList)
        /\ sinkItemList'[i] = sinkItemList[old(i)]
  <2> SUFFICES ASSUME NEW i \in 1..Len(sinkItemList)+1, i # q
               PROVE  /\ old(i) \in 1..Len(sinkItemList)
                      /\ sinkItemList'[i] = sinkItemList[old(i)]
    OBVIOUS
  <2>1. CASE i < q
    <3>1. i \in 1..q-1
      BY <1>1, <2>1
    <3> QED BY <1>1, <1>2, <2>1, <3>1 DEF Inserted
  <2>2. CASE ~(i < q)
    <3>1. i \in q+1..Len(sinkItemList)+1
      BY <1>1, <2>2
    <3> QED BY <1>1, <1>2, <2>2, <3>1 DEF Inserted
  <2> QED BY <2>1, <2>2
<1>6. \A i, j \in 1..Len(sinkItemList)+1 :
        i # q /\ j # q /\ old(i) = old(j) => i = j
  BY <1>1
<1> HIDE DEF old
<1>7. Len(sinkItemList') = Len(sinkItemList) + 1
  BY <1>2 DEF Inserted
<1>8. \A i \in 1..Len(sinkItemList)+1 : i # q =>
        sinkItemList'[i].object # sinkItemList'[q].object
  BY <1>2, <1>3, <1>5 DEF Inserted, Fresh
<1>9. \A i, j \in 1..Len(sinkItemList)+1 :
        sinkItemList'[i].object = sinkItemList'[j].object => i = j
  <2> SUFFICES ASSUME NEW i \in 1..Len(sinkItemList)+1,
                      NEW j \in 1..Len(sinkItemList)+1,
                      sinkItemList'[i].object = sinkItemList'[j].object
               PROVE  i = j
    OBVIOUS
  <2>1. CASE i = q \/ j = q
    BY <1>8, <2>1
  <2>2. CASE i # q /\ j # q
    <3>1. old(i) = old(j)
      BY <1>5, <2>2 DEF DistinctInv
    <3> QED BY <1>6, <2>2, <3>1
  <2> QED BY <2>1, <2>2
<1>10. \A i \in 1..Len(sinkItemList)+1, j \in 1..Len(popped) :
         sinkItemList'[i].object # popped[j].object
  <2> TAKE i \in 1..Len(sinkItemList)+1, j \in 1..Len(popped)
  <2>1. CASE i = q
    BY <1>2, <1>3, <2>1 DEF Inserted, Fresh
  <2>2. CASE i # q
    BY <1>5, <2>2 DEF DistinctInv
  <2> QED BY <2>1, <2>2
<1> QED BY <1>4, <1>7, <1>9, <1>10 DEF DistinctInv

\* Popping moves one object from the list to those handed out.
LEMMA DistinctTake ==
  ASSUME TypeOK, DistinctInv, NEW t \in Poppers, PopTake(t), sinkItemList # << >>
  PROVE  DistinctInv'
<1>1. Len(sinkItemList) \in Nat \ {0} /\ Len(popped) \in Nat
  BY EmptySeq, LenProperties DEF TypeOK
<1>2. /\ Len(sinkItemList') = Len(sinkItemList) - 1
      /\ \A i \in 1..Len(sinkItemList)-1 : sinkItemList'[i] = sinkItemList[i+1]
  BY HeadTailProperties DEF PopTake, TypeOK
<1>3. /\ popped' = Append(popped, Head(sinkItemList))
      /\ Head(sinkItemList) = sinkItemList[1] /\ Head(sinkItemList) \in Item
  BY HeadTailProperties DEF PopTake, TypeOK
<1>4. /\ Len(popped') = Len(popped) + 1
      /\ \A i \in 1..Len(popped) : popped'[i] = popped[i]
      /\ popped'[Len(popped) + 1] = sinkItemList[1]
  BY <1>3, AppendProperties DEF TypeOK
<1>5. \A i \in 1..Len(sinkItemList)-1 :
        i + 1 \in 1..Len(sinkItemList) /\ i + 1 # 1
  BY <1>1
<1>6. 1 \in 1..Len(sinkItemList)
  BY <1>1
<1>7. \A i \in 1..Len(popped)+1 : i \in 1..Len(popped) \/ i = Len(popped) + 1
  BY <1>1
<1>8. \A i, j \in 1..Len(sinkItemList)-1 :
        sinkItemList'[i].object = sinkItemList'[j].object => i = j
  <2> SUFFICES ASSUME NEW i \in 1..Len(sinkItemList)-1,
                      NEW j \in 1..Len(sinkItemList)-1,
                      sinkItemList'[i].object = sinkItemList'[j].object
               PROVE  i = j
    OBVIOUS
  <2>1. i + 1 = j + 1
    BY <1>2, <1>5 DEF DistinctInv
  <2> QED BY <2>1
<1>9. \A i, j \in 1..Len(popped)+1 : popped'[i].object = popped'[j].object => i = j
  BY <1>4, <1>6, <1>7 DEF DistinctInv
<1>10. \A i \in 1..Len(sinkItemList)-1, j \in 1..Len(popped)+1 :
         sinkItemList'[i].object # popped'[j].object
  <2> TAKE i \in 1..Len(sinkItemList)-1, j \in 1..Len(popped)+1
  <2>1. CASE j \in 1..Len(popped)
    BY <1>2, <1>4, <1>5, <2>1 DEF DistinctInv
  <2>2. CASE j = Len(popped) + 1
    BY <1>2, <1>4, <1>5, <1>6, <2>2 DEF DistinctInv
  <2> QED BY <1>7, <2>1, <2>2
<1> QED BY <1>2, <1>4, <1>8, <1>9, <1>10 DEF DistinctInv

\* DistinctInv is inductive, given that what a pusher holds is fresh.
LEMMA Distinctness == Spec => []DistinctInv
<1>1. Init => DistinctInv
  BY DEF Init, DistinctInv
<1>2. TypeOK /\ FreshInv /\ DistinctInv /\ [Next]_vars => DistinctInv'
  <2> SUFFICES ASSUME TypeOK, FreshInv, DistinctInv, [Next]_vars
               PROVE  DistinctInv'
    OBVIOUS
  <2>1. ASSUME NEW t \in Pushers, NEW p \in Priorities, PushTest(t, p)
        PROVE  DistinctInv'
    BY <2>1 DEF PushTest, DistinctInv
  <2>2. ASSUME NEW t \in Pushers, PushInsert(t)
        PROVE  DistinctInv'
    BY <2>2, DistinctInsert
  <2>3. ASSUME NEW t \in Poppers, PopTest(t)
        PROVE  DistinctInv'
    BY <2>3 DEF PopTest, DistinctInv
  <2>4. ASSUME NEW t \in Poppers, PopTake(t)
        PROVE  DistinctInv'
    <3>1. CASE sinkItemList = << >>
      BY <2>4, <3>1 DEF PopTake, DistinctInv
    <3>2. CASE sinkItemList # << >>
      BY <2>4, <3>2, DistinctTake
    <3> QED BY <3>1, <3>2
  <2>5. CASE UNCHANGED vars
    BY <2>5 DEF vars, DistinctInv
  <2> QED BY <2>1, <2>2, <2>3, <2>4, <2>5 DEF Next
<1> QED BY <1>1, <1>2, Typing, Freshness, PTL DEF Spec

\* Every object is in at most one place - in a pusher's hands, at one position of
\* the list, or handed out once - for every number of threads, choice of
\* priorities and value of the uninitialised bytes (sink_stack.cpp).
THEOREM SinkNoDuplication == Spec => []NoDuplication
<1>1. TypeOK /\ FreshInv /\ DistinctInv => NoDuplication
  <2> SUFFICES ASSUME TypeOK, FreshInv, DistinctInv
               PROVE  NoDuplication
    OBVIOUS
  <2> DEFINE all == popped \o sinkItemList
  <2>1. Len(popped) \in Nat /\ Len(sinkItemList) \in Nat
    BY LenProperties DEF TypeOK
  <2>2. /\ Len(all) = Len(popped) + Len(sinkItemList)
        /\ \A i \in 1..Len(popped) + Len(sinkItemList) : all[i] =
             IF i <= Len(popped) THEN popped[i] ELSE sinkItemList[i - Len(popped)]
    BY ConcatProperties DEF TypeOK
  <2> HIDE DEF all
  <2>3. \A i \in 1..Len(all) :
          \/ i \in 1..Len(popped) /\ all[i] = popped[i]
          \/ /\ i - Len(popped) \in 1..Len(sinkItemList)
             /\ all[i] = sinkItemList[i - Len(popped)]
    BY <2>1, <2>2
  <2>4. ASSUME NEW i \in 1..Len(all), NEW j \in 1..Len(all),
               all[i].object = all[j].object
        PROVE  i = j
    <3>1. \/ i \in 1..Len(popped) /\ j \in 1..Len(popped)
          \/ i - Len(popped) = j - Len(popped)
      <4> DEFINE a == i - Len(popped)
                 b == j - Len(popped)
      <4>1. \/ i \in 1..Len(popped) /\ all[i] = popped[i]
            \/ a \in 1..Len(sinkItemList) /\ all[i] = sinkItemList[a]
        BY <2>3
      <4>2. \/ j \in 1..Len(popped) /\ all[j] = popped[j]
            \/ b \in 1..Len(sinkItemList) /\ all[j] = sinkItemList[b]
        BY <2>3
      <4> HIDE DEF a, b
      <4>3. (i \in 1..Len(popped) /\ j \in 1..Len(popped)) \/ a = b
        BY <2>4, <4>1, <4>2 DEF DistinctInv
      <4> QED BY <4>3 DEF a, b
    <3>2. CASE i \in 1..Len(popped) /\ j \in 1..Len(popped)
      <4>1. all[i] = popped[i] /\ all[j] = popped[j]
        BY <2>1, <2>2, <3>2
      <4> QED BY <2>4, <3>2, <4>1 DEF DistinctInv
    <3>3. CASE i - Len(popped) = j - Len(popped)
      BY <2>1, <2>2, <3>3
    <3> QED BY <3>1, <3>2, <3>3
  <2>5. \A t \in Pushers : pushing[t] # Idle =>
          /\ \A i \in 1..Len(all) : all[i].object # pushing[t].object
          /\ \A u \in Pushers : pushing[u] = pushing[t] => u = t
    BY <2>3 DEF FreshInv, Fresh, Inserting
  <2> QED BY <2>4, <2>5 DEF NoDuplication, all
<1> QED BY <1>1, Typing, Freshness, Distinctness, PTL

-----------------------------------------------------------------------------
(***************************************************************************)
(* Nothing that was accepted is lost.                                      *)
(***************************************************************************)
\* Inserting moves a pusher's object to the list and drops none of the others.
LEMMA InsertKeeps ==
  ASSUME TypeOK, NEW t \in Pushers, PushInsert(t)
  PROVE  Kept \subseteq Kept'
<1>1. PICK n \in Nat : n = Len(sinkItemList)
  BY LenProperties DEF TypeOK
<1>2. PICK q \in 1..n+1 : Inserted(t, q)
  BY <1>1, InsertShape
<1>3. /\ DOMAIN sinkItemList = 1..n /\ DOMAIN sinkItemList' = 1..n+1
      /\ popped' = popped /\ pushing' = [pushing EXCEPT ![t] = Idle]
  <2>1. sinkItemList' \in Seq(Item)
    <3>1. PICK byte \in StarveBytes :
            sinkItemList' = InsertAt(sinkItemList,
                                     InsertPosition(sinkItemList, pushing[t].priority),
                                     NewItem(pushing[t], byte))
      BY DEF PushInsert
    <3> QED BY <3>1, InsertStep DEF PushInsert
  <2>2. Len(sinkItemList') = n + 1
    BY <1>1, <1>2 DEF Inserted
  <2> QED BY <1>1, <2>1, <2>2, LenProperties DEF TypeOK, PushInsert
<1> SUFFICES ASSUME NEW o \in Kept
             PROVE  o \in Kept'
  OBVIOUS
<1>4. CASE o \in {pushing[u].object : u \in {u \in Pushers : pushing[u] # Idle}}
  <2>1. PICK u \in Pushers : pushing[u] # Idle /\ o = pushing[u].object
    BY <1>4
  <2>2. CASE u = t
    <3>1. q \in DOMAIN sinkItemList' /\ sinkItemList'[q].object = o
      BY <1>2, <1>3, <2>1, <2>2 DEF Inserted
    <3> QED BY <3>1 DEF Kept
  <2>3. CASE u # t
    <3>1. pushing'[u] = pushing[u]
      BY <1>3, <2>3 DEF TypeOK
    <3> QED BY <2>1, <3>1 DEF Kept
  <2> QED BY <2>2, <2>3
<1>5. CASE o \in {sinkItemList[i].object : i \in DOMAIN sinkItemList}
  <2>1. PICK i \in 1..n : o = sinkItemList[i].object
    BY <1>3, <1>5
  <2>2. CASE i < q
    <3>1. i \in 1..q-1 /\ i \in 1..n+1
      BY <2>2
    <3>2. sinkItemList'[i] = sinkItemList[i]
      BY <1>2, <3>1 DEF Inserted
    <3> QED BY <1>3, <2>1, <3>1, <3>2 DEF Kept
  <2>3. CASE ~(i < q)
    <3>1. i + 1 \in q+1..n+1 /\ i + 1 \in 1..n+1 /\ (i + 1) - 1 = i
      BY <2>3
    <3>2. sinkItemList'[i+1] = sinkItemList[i]
      BY <1>1, <1>2, <3>1 DEF Inserted
    <3> QED BY <1>3, <2>1, <3>1, <3>2 DEF Kept
  <2> QED BY <2>2, <2>3
<1>6. CASE o \in {popped[i].object : i \in DOMAIN popped}
  BY <1>3, <1>6 DEF Kept
<1> QED BY <1>4, <1>5, <1>6 DEF Kept

\* Taking moves the front of the list to what was handed out, and takes nothing
\* when another popper was quicker.
LEMMA TakeKeeps ==
  ASSUME TypeOK, NEW t \in Poppers, PopTake(t)
  PROVE  Kept \subseteq Kept'
<1>1. CASE sinkItemList = << >>
  BY <1>1 DEF PopTake, Kept
<1>2. CASE sinkItemList # << >>
  <2>1. PICK n \in Nat, m \in Nat : n = Len(sinkItemList) /\ m = Len(popped)
    BY LenProperties DEF TypeOK
  <2>2. /\ DOMAIN sinkItemList = 1..n
        /\ DOMAIN sinkItemList' = 1..n-1
        /\ \A i \in 1..n-1 : sinkItemList'[i] = sinkItemList[i+1]
        /\ Head(sinkItemList) = sinkItemList[1] /\ Head(sinkItemList) \in Item
    <3>1. sinkItemList' = Tail(sinkItemList)
      BY <1>2 DEF PopTake
    <3>2. /\ sinkItemList \in Seq(Item) /\ Tail(sinkItemList) \in Seq(Item)
          /\ Len(Tail(sinkItemList)) = n - 1
          /\ \A i \in 1..n-1 : Tail(sinkItemList)[i] = sinkItemList[i+1]
          /\ Head(sinkItemList) = sinkItemList[1] /\ Head(sinkItemList) \in Item
      BY <1>2, <2>1, HeadTailProperties DEF TypeOK
    <3>3. DOMAIN sinkItemList = 1..n /\ DOMAIN Tail(sinkItemList) = 1..n-1
      BY <2>1, <3>2, LenProperties
    <3> QED BY <3>1, <3>2, <3>3
  <2>3. /\ DOMAIN popped = 1..m /\ DOMAIN popped' = 1..m+1
        /\ \A i \in 1..m : popped'[i] = popped[i]
        /\ popped'[m+1] = sinkItemList[1]
    <3> DEFINE longer == Append(popped, Head(sinkItemList))
    <3>1. popped' = longer
      BY <1>2 DEF PopTake
    <3>2. /\ popped \in Seq(Item) /\ longer \in Seq(Item) /\ Len(longer) = m + 1
          /\ \A i \in 1..m : longer[i] = popped[i]
          /\ longer[m+1] = sinkItemList[1]
      BY <2>1, <2>2, AppendProperties DEF TypeOK
    <3>3. DOMAIN popped = 1..m /\ DOMAIN longer = 1..m+1
      BY <2>1, <3>2, LenProperties
    <3> HIDE DEF longer
    <3> QED BY <3>1, <3>2, <3>3
  <2>4. pushing' = pushing
    BY DEF PopTake
  <2> SUFFICES ASSUME NEW o \in Kept
               PROVE  o \in Kept'
    OBVIOUS
  <2>5. CASE o \in {pushing[u].object : u \in {u \in Pushers : pushing[u] # Idle}}
    BY <2>4, <2>5 DEF Kept
  <2>6. CASE o \in {sinkItemList[i].object : i \in DOMAIN sinkItemList}
    <3>1. PICK i \in 1..n : o = sinkItemList[i].object
      BY <2>2, <2>6
    <3>2. CASE i = 1
      <4>1. m + 1 \in 1..m+1
        OBVIOUS
      <4> QED BY <2>3, <3>1, <3>2, <4>1 DEF Kept
    <3>3. CASE i # 1
      <4>1. i - 1 \in 1..n-1 /\ (i - 1) + 1 = i
        BY <3>3
      <4>2. sinkItemList'[i-1] = sinkItemList[i]
        BY <2>2, <4>1
      <4> QED BY <2>2, <3>1, <4>1, <4>2 DEF Kept
    <3> QED BY <3>2, <3>3
  <2>7. CASE o \in {popped[i].object : i \in DOMAIN popped}
    <3>1. PICK i \in 1..m : o = popped[i].object
      BY <2>3, <2>7
    <3>2. i \in 1..m+1
      OBVIOUS
    <3> QED BY <2>3, <3>1, <3>2 DEF Kept
  <2> QED BY <2>5, <2>6, <2>7 DEF Kept
<1> QED BY <1>1, <1>2

\* What passed the size test stays in its pusher's hands, in the list or handed
\* out, for any number of pushers and poppers, any size, any priorities and any
\* bytes (sink_stack.cpp:36-53, :64-73).
THEOREM SinkKeeps == Spec => NothingLost
<1>1. TypeOK /\ [Next]_vars => [Kept \subseteq Kept']_vars
  <2> SUFFICES ASSUME TypeOK, Next
               PROVE  Kept \subseteq Kept'
    OBVIOUS
  <2>1. ASSUME NEW t \in Pushers, NEW p \in Priorities, PushTest(t, p)
        PROVE  Kept \subseteq Kept'
    <3>1. sinkItemList' = sinkItemList /\ popped' = popped
      BY <2>1 DEF PushTest
    <3>2. \A u \in Pushers : pushing[u] # Idle => pushing'[u] = pushing[u]
      BY <2>1 DEF PushTest, TypeOK
    <3> QED BY <3>1, <3>2 DEF Kept
  <2>2. ASSUME NEW t \in Pushers, PushInsert(t)
        PROVE  Kept \subseteq Kept'
    BY <2>2, InsertKeeps
  <2>3. ASSUME NEW t \in Poppers, PopTest(t)
        PROVE  Kept \subseteq Kept'
    BY <2>3 DEF PopTest, Kept
  <2>4. ASSUME NEW t \in Poppers, PopTake(t)
        PROVE  Kept \subseteq Kept'
    BY <2>4, TakeKeeps
  <2> QED BY <2>1, <2>2, <2>3, <2>4 DEF Next
<1> QED BY <1>1, Typing, PTL DEF Spec, NothingLost

-----------------------------------------------------------------------------
(***************************************************************************)
(* The receiver sink.  socket.cpp pushes with the default priority only,   *)
(* whose starve counter is 0, and no byte is below 0.                      *)
(***************************************************************************)
\* No item beats a low-priority one, so it is inserted at the end.
LEMMA LowGoesLast ==
  ASSUME NEW s \in Seq(Item)
  PROVE  InsertPosition(s, LOW_PRIORITY) = Len(s) + 1
<1>1. CalculateStarveCounter(LOW_PRIORITY) = 0
  BY DEF CalculateStarveCounter, LOW_PRIORITY, HIGH_PRIORITY, MEDIUM_PRIORITY
<1>2. \A i \in 1..Len(s) : s[i].starveCounter \in Nat
  <2> TAKE i \in 1..Len(s)
  <2>1. s[i] \in Item
    BY ElementOfSeq
  <2>2. s[i].starveCounter \in StarveBytes
    BY <2>1 DEF Item
  <2>3. StarveBytes \subseteq Nat
    BY SinkAssumption
  <2> QED BY <2>2, <2>3
<1>3. Beaten(s, LOW_PRIORITY) = {}
  BY <1>1, <1>2 DEF Beaten
<1> QED BY <1>3 DEF InsertPosition

\* The objects of a list with one more item are the objects of the list and
\* that item's object.
LEMMA ObjectsOfAppend ==
  ASSUME NEW s \in Seq(Item), NEW item \in Item
  PROVE  Objects(Append(s, item)) = Append(Objects(s), item.object)
<1>1. Len(s) \in Nat
  BY LenProperties
<1>2. /\ Append(s, item) \in Seq(Item)
      /\ Len(Append(s, item)) = Len(s) + 1
      /\ \A i \in 1..Len(s) : Append(s, item)[i] = s[i]
      /\ Append(s, item)[Len(s) + 1] = item
  BY AppendProperties
<1>3. \A i \in 1..Len(s) : s[i].object \in Object
  <2> TAKE i \in 1..Len(s)
  <2>1. s[i] \in Item
    BY ElementOfSeq
  <2> QED BY <2>1 DEF Item
<1>4. Objects(s) \in Seq(Object) /\ Len(Objects(s)) = Len(s)
  BY <1>1, <1>3 DEF Objects
<1>5. item.object \in Object
  BY DEF Item
<1>6. /\ Append(Objects(s), item.object) \in Seq(Object)
      /\ Len(Append(Objects(s), item.object)) = Len(s) + 1
      /\ \A i \in 1..Len(s) : Append(Objects(s), item.object)[i] = s[i].object
      /\ Append(Objects(s), item.object)[Len(s) + 1] = item.object
  <2>1. \A i \in 1..Len(s) : Objects(s)[i] = s[i].object
    BY DEF Objects
  <2> QED BY <1>4, <1>5, <2>1, AppendProperties
<1>7. Objects(Append(s, item)) \in Seq(Object)
  <2>1. \A i \in 1..Len(s)+1 : Append(s, item)[i].object \in Object
    <3> TAKE i \in 1..Len(s)+1
    <3>1. i \in 1..Len(s) \/ i = Len(s) + 1
      BY <1>1
    <3> QED BY <1>2, <1>3, <1>5, <3>1
  <2> QED BY <1>1, <1>2, <2>1 DEF Objects
<1>8. Len(Objects(Append(s, item))) = Len(s) + 1
  BY <1>1, <1>2 DEF Objects
<1>9. \A i \in 1..Len(s)+1 :
        Objects(Append(s, item))[i] = Append(Objects(s), item.object)[i]
  BY <1>1, <1>2, <1>6 DEF Objects
<1> HIDE DEF Objects
<1> QED BY <1>6, <1>7, <1>8, <1>9, SeqEqual

\* Popping the first item pops its object.
LEMMA ObjectsOfTail ==
  ASSUME NEW s \in Seq(Item), s # << >>
  PROVE  /\ Objects(s) # << >>
         /\ Head(Objects(s)) = Head(s).object
         /\ Objects(Tail(s)) = Tail(Objects(s))
<1>1. Len(s) \in Nat \ {0}
  BY EmptySeq
<1>2. \A i \in 1..Len(s) : s[i].object \in Object
  <2> TAKE i \in 1..Len(s)
  <2>1. s[i] \in Item
    BY ElementOfSeq
  <2> QED BY <2>1 DEF Item
<1>3. /\ Objects(s) \in Seq(Object)
      /\ Len(Objects(s)) = Len(s)
      /\ \A i \in 1..Len(s) : Objects(s)[i] = s[i].object
  BY <1>1, <1>2 DEF Objects
<1>4. /\ Tail(s) \in Seq(Item)
      /\ Len(Tail(s)) = Len(s) - 1
      /\ \A i \in 1..Len(s)-1 : Tail(s)[i] = s[i+1]
  BY HeadTailProperties
<1>5. Objects(s) # << >>
  BY <1>1, <1>3
<1>6. /\ Tail(Objects(s)) \in Seq(Object)
      /\ Len(Tail(Objects(s))) = Len(s) - 1
      /\ \A i \in 1..Len(s)-1 : Tail(Objects(s))[i] = Objects(s)[i+1]
  BY <1>3, <1>5, HeadTailProperties
<1>7. \A i \in 1..Len(s)-1 : Tail(s)[i].object = s[i+1].object
  BY <1>4
<1>8. \A i \in 1..Len(s)-1 : i + 1 \in 1..Len(s)
  BY <1>1
<1>9. \A i \in 1..Len(s)-1 : Tail(s)[i].object \in Object
  BY <1>2, <1>7, <1>8
<1>10. Len(s) - 1 \in Nat
  BY <1>1
<1>11. /\ Objects(Tail(s)) \in Seq(Object)
       /\ Len(Objects(Tail(s))) = Len(s) - 1
       /\ \A i \in 1..Len(s)-1 : Objects(Tail(s))[i] = s[i+1].object
  BY <1>4, <1>7, <1>9, <1>10 DEF Objects
<1>12. \A i \in 1..Len(s)-1 : Objects(Tail(s))[i] = Tail(Objects(s))[i]
  BY <1>3, <1>6, <1>8, <1>11
<1>13. Objects(Tail(s)) = Tail(Objects(s))
  <2> HIDE DEF Objects
  <2> QED BY <1>6, <1>11, <1>12, SeqEqual
<1>14. Head(Objects(s)) = Head(s).object
  BY <1>1, <1>3
<1> QED BY <1>5, <1>13, <1>14

\* With low priorities only, the locked section of pushObject is an append.
LEMMA LowInsert ==
  ASSUME Priorities \subseteq {LOW_PRIORITY}, TypeOK,
         NEW t \in Pushers, PushInsert(t)
  PROVE  \E item \in Item :
           /\ item.object = pushing[t].object
           /\ sinkItemList' = Append(sinkItemList, item)
<1>1. pushing[t] \in Call /\ pushing[t].priority = LOW_PRIORITY
  BY DEF PushInsert, TypeOK, Call
<1>2. PICK byte \in StarveBytes :
        sinkItemList' = InsertAt(sinkItemList,
                                 InsertPosition(sinkItemList, pushing[t].priority),
                                 NewItem(pushing[t], byte))
  BY DEF PushInsert
<1>3. NewItem(pushing[t], byte) \in Item
  BY <1>1 DEF NewItem, Call, Item
<1>4. NewItem(pushing[t], byte).object = pushing[t].object
  BY DEF NewItem
<1>5. sinkItemList \in Seq(Item)
  BY DEF TypeOK
<1>6. sinkItemList' = InsertAt(sinkItemList, Len(sinkItemList) + 1,
                               NewItem(pushing[t], byte))
  BY <1>1, <1>2, <1>5, LowGoesLast
<1>7. sinkItemList' = Append(sinkItemList, NewItem(pushing[t], byte))
  BY <1>3, <1>5, <1>6, InsertAtEnd
<1> QED BY <1>3, <1>4, <1>7

\* The receiver sink implements the abstract bounded FIFO: it neither loses,
\* copies nor reorders what it accepted, for any number of sessions and packet
\* processors, although size tests are unlocked and item bytes arbitrary.
THEOREM ReceiverFifo ==
  ASSUME Priorities \subseteq {LOW_PRIORITY}
  PROVE  Spec => ReceiverIsFifo
<1>1. Init => Queue!Init
  BY DEF Init, Queue!Init, Objects
<1>2. TypeOK /\ TypeOK' /\ OvershootInv /\ FreshInv /\ [Next]_vars
        => [Queue!Next]_Queue!fifoVars
  <2> SUFFICES ASSUME TypeOK, TypeOK', OvershootInv, FreshInv, [Next]_vars
               PROVE  [Queue!Next]_Queue!fifoVars
    OBVIOUS
  <2>1. ASSUME NEW t \in Pushers, NEW p \in Priorities, PushTest(t, p)
        PROVE  UNCHANGED Queue!fifoVars
    BY <2>1 DEF PushTest, Queue!fifoVars
  <2>2. ASSUME NEW t \in Pushers, PushInsert(t)
        PROVE  \E o \in Object : Queue!Enqueue(o)
    <3>1. PICK item \in Item : /\ item.object = pushing[t].object
                               /\ sinkItemList' = Append(sinkItemList, item)
      BY <2>2, LowInsert
    <3>2. Objects(sinkItemList') = Append(Objects(sinkItemList), item.object)
      BY <3>1, ObjectsOfAppend DEF TypeOK
    <3>3. Objects(popped') = Objects(popped)
      BY <2>2 DEF PushInsert
    <3>4. t \in Inserting
      BY <2>2 DEF PushInsert, Inserting
    <3>5. Len(Objects(sinkItemList)) < MAX_POOL_SIZE + Cardinality(Pushers) - 1
      <4>1. Len(sinkItemList) \in Nat /\ MAX_POOL_SIZE \in Nat
        BY LenProperties, SinkAssumption DEF TypeOK
      <4>2. Len(Objects(sinkItemList)) = Len(sinkItemList)
        BY <4>1 DEF Objects
      <4>3. Cardinality(Inserting) # 0
        BY <3>4, InsertingFinite, FS_EmptySet
      <4> QED BY <4>1, <4>2, <4>3, InsertingFinite DEF OvershootInv
    <3>6. item.object \notin Queue!Members(Objects(sinkItemList))
                             \cup Queue!Members(Objects(popped))
      <4>1. Fresh(item.object)
        BY <3>1, <3>4 DEF FreshInv
      <4>2. \A i \in DOMAIN Objects(sinkItemList) :
              Objects(sinkItemList)[i] # item.object
        BY <4>1 DEF Fresh, Objects
      <4>3. \A i \in DOMAIN Objects(popped) : Objects(popped)[i] # item.object
        BY <4>1 DEF Fresh, Objects
      <4> QED BY <4>2, <4>3 DEF Queue!Members
    <3>7. item.object \in Object
      BY DEF Item
    <3>8. Queue!Enqueue(item.object)
      BY <3>2, <3>3, <3>5, <3>6 DEF Queue!Enqueue
    <3> QED BY <3>7, <3>8
  <2>3. ASSUME NEW t \in Poppers, PopTest(t)
        PROVE  UNCHANGED Queue!fifoVars
    BY <2>3 DEF PopTest, Queue!fifoVars
  <2>4. ASSUME NEW t \in Poppers, PopTake(t)
        PROVE  Queue!Dequeue \/ UNCHANGED Queue!fifoVars
    <3>1. CASE sinkItemList = << >>
      BY <2>4, <3>1 DEF PopTake, Queue!fifoVars
    <3>2. CASE sinkItemList # << >>
      <4>1. /\ sinkItemList' = Tail(sinkItemList)
            /\ popped' = Append(popped, Head(sinkItemList))
        BY <2>4, <3>2 DEF PopTake
      <4>2. Head(sinkItemList) \in Item
        BY <3>2, HeadTailProperties DEF TypeOK
      <4>3. /\ Objects(sinkItemList) # << >>
            /\ Head(Objects(sinkItemList)) = Head(sinkItemList).object
            /\ Objects(sinkItemList') = Tail(Objects(sinkItemList))
        BY <3>2, <4>1, ObjectsOfTail DEF TypeOK
      <4>4. Objects(popped') = Append(Objects(popped), Head(sinkItemList).object)
        BY <4>1, <4>2, ObjectsOfAppend DEF TypeOK
      <4> QED BY <4>3, <4>4 DEF Queue!Dequeue
    <3> QED BY <3>1, <3>2
  <2>5. CASE UNCHANGED vars
    BY <2>5 DEF vars, Queue!fifoVars
  <2> QED BY <2>1, <2>2, <2>3, <2>4, <2>5 DEF Next, Queue!Next
<1>3. Spec => []OvershootInv
  BY OvershootInvariant
<1> QED BY <1>1, <1>2, <1>3, Typing, Freshness, PTL
        DEF Spec, ReceiverIsFifo, Queue!Spec

-----------------------------------------------------------------------------
(***************************************************************************)
(* The low-priority items of a sink with all priorities.  They are what    *)
(* remains of the list when the others are left out; the others may stand  *)
(* anywhere between them.                                                  *)
(***************************************************************************)
LEMMA LowItemsType ==
  ASSUME NEW s \in Seq(Item)
  PROVE  LowItems(s) \in Seq(Item)
<1>1. AddLow \in [Seq(Item) -> [Item -> Seq(Item)]]
  BY AppendProperties DEF AddLow
<1>2. << >> \in Seq(Item)
  BY EmptySeq
<1> QED BY <1>1, <1>2, FoldByType DEF LowItems

LEMMA LowItemsAppend ==
  ASSUME NEW s \in Seq(Item), NEW item \in Item
  PROVE  LowItems(Append(s, item))
           = IF IsLow(item) THEN Append(LowItems(s), item) ELSE LowItems(s)
<1>1. LowItems(Append(s, item)) = AddLow[LowItems(s)][item]
  BY FoldByAppend DEF LowItems
<1> QED BY <1>1, LowItemsType DEF AddLow

LEMMA LowItemsEmpty == LowItems(<< >>) = << >>
BY FoldByEmpty DEF LowItems

\* They are at most as many, and all of them are in the list.
LEMMA LowItemsAmong ==
  ASSUME NEW s \in Seq(Item)
  PROVE  Len(LowItems(s)) <= Len(s) /\ ToSet(LowItems(s)) \subseteq ToSet(s)
<1> DEFINE P == {r \in Seq(Item) : Len(LowItems(r)) <= Len(r)
                                   /\ ToSet(LowItems(r)) \subseteq ToSet(r)}
<1>1. << >> \in P
  BY LowItemsEmpty, EmptySeq
<1>2. ASSUME NEW r \in Seq(Item), NEW item \in Item, r \in P PROVE Append(r, item) \in P
  <2>1. PICK longer \in Seq(Item) : longer = Append(r, item)
    BY AppendProperties
  <2>2. /\ Len(longer) = Len(r) + 1 /\ ToSet(longer) = ToSet(r) \cup {item}
        /\ Len(r) \in Nat
    BY <2>1, AppendProperties, AppendSet, LenProperties
  <2>3. PICK low \in Seq(Item) : low = LowItems(r)
    BY LowItemsType
  <2>4. Len(low) \in Nat /\ Len(low) <= Len(r) /\ ToSet(low) \subseteq ToSet(r)
    BY <1>2, <2>3, LenProperties
  <2>5. CASE IsLow(item)
    <3>1. LowItems(longer) = Append(low, item)
      BY <2>1, <2>3, <2>5, LowItemsAppend
    <3>2. Len(LowItems(longer)) = Len(low) + 1
      BY <3>1, AppendProperties
    <3>3. ToSet(LowItems(longer)) = ToSet(low) \cup {item}
      BY <3>1, AppendSet
    <3>4. Len(LowItems(longer)) <= Len(longer)
      BY <2>2, <2>4, <3>2
    <3>5. ToSet(LowItems(longer)) \subseteq ToSet(longer)
      BY <2>2, <2>4, <3>3
    <3> QED BY <2>1, <3>4, <3>5
  <2>6. CASE ~IsLow(item)
    <3>1. LowItems(longer) = low
      BY <2>1, <2>3, <2>6, LowItemsAppend
    <3> QED BY <2>1, <2>2, <2>4, <3>1
  <2> QED BY <2>5, <2>6
<1> HIDE DEF P
<1>3. Seq(Item) \subseteq P
  BY <1>1, <1>2, SeqInduction
<1> QED BY <1>3 DEF P

\* Those of two lists one after the other.
LEMMA LowItemsConcat ==
  ASSUME NEW s \in Seq(Item), NEW r \in Seq(Item)
  PROVE  LowItems(s \o r) = LowItems(s) \o LowItems(r)
<1> DEFINE P == {t \in Seq(Item) : LowItems(s \o t) = LowItems(s) \o LowItems(t)}
<1>1. << >> \in P
  <2>1. s \o << >> = s /\ LowItems(s) \o << >> = LowItems(s)
    BY LowItemsType, ConcatEmptySeq
  <2> QED BY <2>1, LowItemsEmpty, EmptySeq
<1>2. ASSUME NEW t \in Seq(Item), NEW item \in Item, t \in P PROVE Append(t, item) \in P
  <2>1. Append(t, item) \in Seq(Item)
    BY AppendProperties
  <2>2. s \o Append(t, item) = Append(s \o t, item) /\ s \o t \in Seq(Item)
    BY ConcatAppend, ConcatProperties
  <2>3. PICK a \in Seq(Item), b \in Seq(Item) : a = LowItems(s) /\ b = LowItems(t)
    BY LowItemsType
  <2>4. LowItems(s \o t) = a \o b
    BY <1>2, <2>3
  <2>5. CASE IsLow(item)
    <3>1. LowItems(Append(t, item)) = Append(b, item)
      BY <2>3, <2>5, LowItemsAppend
    <3>2. LowItems(Append(s \o t, item)) = Append(a \o b, item)
      BY <2>2, <2>4, <2>5, LowItemsAppend
    <3>3. a \o Append(b, item) = Append(a \o b, item)
      BY ConcatAppend
    <3> QED BY <2>1, <2>2, <2>3, <3>1, <3>2, <3>3
  <2>6. CASE ~IsLow(item)
    <3>1. LowItems(Append(t, item)) = b
      BY <2>3, <2>6, LowItemsAppend
    <3>2. LowItems(Append(s \o t, item)) = a \o b
      BY <2>2, <2>4, <2>6, LowItemsAppend
    <3> QED BY <2>1, <2>2, <2>3, <3>1, <3>2
  <2> QED BY <2>5, <2>6
<1> HIDE DEF P
<1>3. Seq(Item) \subseteq P
  BY <1>1, <1>2, SeqInduction
<1> QED BY <1>3 DEF P

\* One item, low or not.
LEMMA LowItemsOne ==
  ASSUME NEW item \in Item
  PROVE  LowItems(<<item>>) = IF IsLow(item) THEN <<item>> ELSE << >>
<1>1. << >> \in Seq(Item) /\ <<item>> = Append(<< >>, item)
  BY EmptySeq
<1>2. LowItems(Append(<< >>, item)) = IF IsLow(item) THEN Append(<< >>, item) ELSE << >>
  BY <1>1, LowItemsAppend, LowItemsEmpty
<1> QED BY <1>1, <1>2

\* An item that is not low may be inserted anywhere.
LEMMA LowItemsBetween ==
  ASSUME NEW before \in Seq(Item), NEW after \in Seq(Item), NEW item \in Item, ~IsLow(item)
  PROVE  LowItems((before \o <<item>>) \o after) = LowItems(before \o after)
<1>1. <<item>> \in Seq(Item) /\ before \o <<item>> \in Seq(Item)
  BY ConcatProperties
<1>2. PICK a \in Seq(Item), b \in Seq(Item) : a = LowItems(before) /\ b = LowItems(after)
  BY LowItemsType
<1>3. LowItems(before \o <<item>>) = a
  <2>1. LowItems(before \o <<item>>) = a \o LowItems(<<item>>)
    BY <1>1, <1>2, LowItemsConcat
  <2> QED BY <2>1, LowItemsOne, ConcatEmptySeq
<1>4. LowItems((before \o <<item>>) \o after) = a \o b
  BY <1>1, <1>2, <1>3, LowItemsConcat
<1>5. LowItems(before \o after) = a \o b
  BY <1>2, LowItemsConcat
<1> QED BY <1>4, <1>5

LEMMA LowItemsInsert ==
  ASSUME NEW s \in Seq(Item), NEW i \in 1..Len(s)+1, NEW item \in Item, ~IsLow(item)
  PROVE  LowItems(InsertAt(s, i, item)) = LowItems(s)
<1> DEFINE before == SubSeq(s, 1, i-1)
           after  == SubSeq(s, i, Len(s))
<1>1. before \in Seq(Item) /\ after \in Seq(Item) /\ before \o after = s
  BY InsertAtParts
<1>2. InsertAt(s, i, item) = (before \o <<item>>) \o after
  BY DEF InsertAt
<1> HIDE DEF before, after
<1>3. LowItems((before \o <<item>>) \o after) = LowItems(before \o after)
  BY <1>1, LowItemsBetween
<1> QED BY <1>1, <1>2, <1>3

\* The first of the list is the first low item, or none.
LEMMA LowItemsTail ==
  ASSUME NEW s \in Seq(Item), s # << >>
  PROVE  IF IsLow(Head(s))
           THEN /\ LowItems(s) # << >> /\ Head(LowItems(s)) = Head(s)
                /\ Tail(LowItems(s)) = LowItems(Tail(s))
           ELSE LowItems(Tail(s)) = LowItems(s)
<1>1. PICK h \in Item, r \in Seq(Item) : h = Head(s) /\ r = Tail(s) /\ s = <<h>> \o r
  BY HeadThenTail
<1>2. PICK low \in Seq(Item) : low = LowItems(r)
  BY LowItemsType
<1>3. <<h>> \in Seq(Item)
  OBVIOUS
<1>4. LowItems(s) = LowItems(<<h>>) \o low
  BY <1>1, <1>2, <1>3, LowItemsConcat
<1>5. CASE IsLow(h)
  <2>1. LowItems(s) = <<h>> \o low
    BY <1>4, <1>5, LowItemsOne
  <2>2. <<h>> \o low # << >> /\ Head(<<h>> \o low) = h /\ Tail(<<h>> \o low) = low
    BY PushFrontParts
  <2> QED BY <1>1, <1>2, <1>5, <2>1, <2>2
<1>6. CASE ~IsLow(h)
  <2>1. LowItems(s) = << >> \o low
    BY <1>4, <1>6, LowItemsOne
  <2>2. << >> \o low = low
    BY ConcatEmptySeq
  <2> QED BY <1>1, <1>2, <1>6, <2>1, <2>2
<1> QED BY <1>5, <1>6

\* A push adds a low-priority item behind the others of its kind, and leaves
\* them alone with any other item.
LEMMA LowPush ==
  ASSUME TypeOK, NEW t \in Pushers, PushInsert(t)
  PROVE  \/ LowItems(sinkItemList') = LowItems(sinkItemList)
         \/ \E item \in Item :
              /\ item.object = pushing[t].object
              /\ LowItems(sinkItemList') = Append(LowItems(sinkItemList), item)
<1> DEFINE q == InsertPosition(sinkItemList, pushing[t].priority)
<1>1. PICK byte \in StarveBytes :
        sinkItemList' = InsertAt(sinkItemList, q, NewItem(pushing[t], byte))
  BY DEF PushInsert
<1>2. pushing[t] \in Call /\ sinkItemList \in Seq(Item)
  BY DEF PushInsert, TypeOK
<1>3. q \in 1..Len(sinkItemList)+1
  BY <1>2, InsertPositionRange
<1>4. PICK item \in Item : item = NewItem(pushing[t], byte)
  BY <1>2 DEF NewItem, Call, Item
<1>5. item.object = pushing[t].object /\ item.priority = pushing[t].priority
  BY <1>4 DEF NewItem
<1>6. CASE IsLow(item)
  <2>1. q = Len(sinkItemList) + 1
    BY <1>2, <1>5, <1>6, LowGoesLast DEF IsLow
  <2> HIDE DEF q
  <2>2. InsertAt(sinkItemList, q, item) = Append(sinkItemList, item)
    BY <1>2, <2>1, InsertAtEnd
  <2>3. sinkItemList' = Append(sinkItemList, item)
    BY <1>1, <1>4, <2>2
  <2>4. LowItems(Append(sinkItemList, item)) = Append(LowItems(sinkItemList), item)
    BY <1>2, <1>6, LowItemsAppend
  <2> QED BY <1>5, <2>3, <2>4
<1>7. CASE ~IsLow(item)
  <2> HIDE DEF q
  <2>1. LowItems(InsertAt(sinkItemList, q, item)) = LowItems(sinkItemList)
    BY <1>2, <1>3, <1>7, LowItemsInsert
  <2> QED BY <1>1, <1>4, <2>1
<1> QED BY <1>6, <1>7

\* A sink that carries every priority is still first in, first out for its
\* low-priority items: what is inserted before or between them by the bytes of
\* the other items neither loses, copies nor reorders them.
THEOREM LowFifo == Spec => LowItemsAreFifo
<1>1. Init => LowQueue!Init
  BY LowItemsEmpty DEF Init, LowQueue!Init, Objects
<1>2. TypeOK /\ TypeOK' /\ OvershootInv /\ FreshInv /\ [Next]_vars
        => [LowQueue!Next]_LowQueue!fifoVars
  <2> SUFFICES ASSUME TypeOK, TypeOK', OvershootInv, FreshInv, [Next]_vars
               PROVE  [LowQueue!Next]_LowQueue!fifoVars
    OBVIOUS
  <2>0. sinkItemList \in Seq(Item) /\ popped \in Seq(Item)
    BY DEF TypeOK
  <2>1. ASSUME NEW t \in Pushers, NEW p \in Priorities, PushTest(t, p)
        PROVE  UNCHANGED LowQueue!fifoVars
    BY <2>1 DEF PushTest, LowQueue!fifoVars
  <2>2. ASSUME NEW t \in Pushers, PushInsert(t)
        PROVE  (\E o \in Object : LowQueue!Enqueue(o)) \/ UNCHANGED LowQueue!fifoVars
    <3>1. UNCHANGED popped /\ t \in Inserting
      BY <2>2 DEF PushInsert, Inserting
    <3>2. CASE LowItems(sinkItemList') = LowItems(sinkItemList)
      BY <3>1, <3>2 DEF LowQueue!fifoVars
    <3>3. ASSUME NEW item \in Item, item.object = pushing[t].object,
                 LowItems(sinkItemList') = Append(LowItems(sinkItemList), item)
          PROVE  \E o \in Object : LowQueue!Enqueue(o)
      <4>1. PICK low \in Seq(Item), out \in Seq(Item) :
              low = LowItems(sinkItemList) /\ out = LowItems(popped)
        BY <2>0, LowItemsType
      <4>2. Objects(LowItems(sinkItemList')) = Append(Objects(low), item.object)
        BY <3>3, <4>1, ObjectsOfAppend
      <4>3. LowItems(popped') = out
        BY <3>1, <4>1
      <4>4. Len(Objects(low)) < MAX_POOL_SIZE + Cardinality(Pushers) - 1
        <5>1. /\ Len(sinkItemList) \in Nat /\ Len(low) \in Nat /\ MAX_POOL_SIZE \in Nat
              /\ Len(low) <= Len(sinkItemList)
          BY <2>0, <4>1, LenProperties, SinkAssumption, LowItemsAmong
        <5>2. Len(Objects(low)) = Len(low)
          BY <5>1 DEF Objects
        <5>3. Cardinality(Inserting) # 0
          BY <3>1, InsertingFinite, FS_EmptySet
        <5> QED BY <5>1, <5>2, <5>3, InsertingFinite DEF OvershootInv
      <4>5. item.object \notin LowQueue!Members(Objects(low))
                                 \cup LowQueue!Members(Objects(out))
        <5>1. Fresh(item.object)
          BY <3>1, <3>3 DEF FreshInv
        <5>2. \A x \in ToSet(sinkItemList) \cup ToSet(popped) : x.object # item.object
          BY <2>0, <5>1, LenProperties DEF Fresh, ToSet
        <5>3. ToSet(low) \subseteq ToSet(sinkItemList) /\ ToSet(out) \subseteq ToSet(popped)
          BY <2>0, <4>1, LowItemsAmong
        <5>4. (\A i \in 1..Len(low) : low[i] \in ToSet(low))
              /\ \A i \in 1..Len(out) : out[i] \in ToSet(out)
          BY LenProperties DEF ToSet
        <5>5. \A i \in DOMAIN Objects(low) : Objects(low)[i] # item.object
          BY <5>2, <5>3, <5>4 DEF Objects
        <5>6. \A i \in DOMAIN Objects(out) : Objects(out)[i] # item.object
          BY <5>2, <5>3, <5>4 DEF Objects
        <5> QED BY <5>5, <5>6 DEF LowQueue!Members
      <4>6. item.object \in Object
        BY DEF Item
      <4>7. LowQueue!Enqueue(item.object)
        BY <4>1, <4>2, <4>3, <4>4, <4>5 DEF LowQueue!Enqueue
      <4> QED BY <4>6, <4>7
    <3> QED BY <2>2, <3>2, <3>3, LowPush
  <2>3. ASSUME NEW t \in Poppers, PopTest(t)
        PROVE  UNCHANGED LowQueue!fifoVars
    BY <2>3 DEF PopTest, LowQueue!fifoVars
  <2>4. ASSUME NEW t \in Poppers, PopTake(t)
        PROVE  LowQueue!Dequeue \/ UNCHANGED LowQueue!fifoVars
    <3>1. CASE sinkItemList = << >>
      BY <2>4, <3>1 DEF PopTake, LowQueue!fifoVars
    <3>2. CASE sinkItemList # << >>
      <4>1. /\ sinkItemList' = Tail(sinkItemList)
            /\ popped' = Append(popped, Head(sinkItemList))
        BY <2>4, <3>2 DEF PopTake
      <4>2. PICK h \in Item : h = Head(sinkItemList)
        BY <2>0, <3>2, HeadTailProperties
      <4>3. PICK low \in Seq(Item), out \in Seq(Item) :
              low = LowItems(sinkItemList) /\ out = LowItems(popped)
        BY <2>0, LowItemsType
      <4>4. LowItems(popped') = IF IsLow(h) THEN Append(out, h) ELSE out
        BY <2>0, <4>1, <4>2, <4>3, LowItemsAppend
      <4>5. CASE IsLow(h)
        <5>1. low # << >> /\ Head(low) = h /\ LowItems(sinkItemList') = Tail(low)
          BY <2>0, <3>2, <4>1, <4>2, <4>3, <4>5, LowItemsTail
        <5>2. /\ Objects(low) # << >> /\ Head(Objects(low)) = h.object
              /\ Objects(LowItems(sinkItemList')) = Tail(Objects(low))
          BY <5>1, ObjectsOfTail
        <5>3. Objects(LowItems(popped')) = Append(Objects(out), h.object)
          BY <4>4, <4>5, ObjectsOfAppend
        <5> QED BY <4>3, <5>2, <5>3 DEF LowQueue!Dequeue
      <4>6. CASE ~IsLow(h)
        <5>1. LowItems(sinkItemList') = low
          BY <2>0, <3>2, <4>1, <4>2, <4>3, <4>6, LowItemsTail
        <5> QED BY <4>3, <4>4, <4>6, <5>1 DEF LowQueue!fifoVars
      <4> QED BY <4>5, <4>6
    <3> QED BY <3>1, <3>2
  <2>5. CASE UNCHANGED vars
    BY <2>5 DEF vars, LowQueue!fifoVars
  <2> QED BY <2>1, <2>2, <2>3, <2>4, <2>5 DEF Next, LowQueue!Next
<1>3. Spec => []OvershootInv
  BY OvershootInvariant
<1> QED BY <1>1, <1>2, <1>3, Typing, Freshness, PTL
        DEF Spec, LowItemsAreFifo, LowQueue!Spec
=============================================================================
