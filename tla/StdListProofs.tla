--------------------------- MODULE StdListProofs ---------------------------
(***************************************************************************)
(* What the list operations preserve, for lists of any elements.           *)
(***************************************************************************)
EXTENDS StdList, FiniteSetTheorems, FunctionTheorems, SequenceTheorems,
        WellFoundedInduction, TLAPS

(***************************************************************************)
(* Positions and insertion.                                                *)
(***************************************************************************)
\* InsertAt, the std::list::insert of pushObject, adds one element of the
\* element type, at any position from the first to one past the last.
LEMMA InsertAtType ==
  ASSUME NEW S, NEW s \in Seq(S), NEW i \in 1..Len(s)+1, NEW e \in S
  PROVE  /\ InsertAt(s, i, e) \in Seq(S)
         /\ Len(InsertAt(s, i, e)) = Len(s) + 1
<1> DEFINE before == SubSeq(s, 1, i-1)
           after  == SubSeq(s, i, Len(s))
<1>1. Len(s) \in Nat
  BY LenProperties
<1>2. \A j \in 1..i-1 : s[j] \in S
  BY <1>1, ElementOfSeq
<1>3. \A j \in i..Len(s) : s[j] \in S
  BY <1>1, ElementOfSeq
<1>4. before \in Seq(S) /\ Len(before) = i - 1
  BY <1>1, <1>2, SubSeqProperties
<1>5. after \in Seq(S) /\ Len(after) = Len(s) - i + 1
  BY <1>1, <1>3, SubSeqProperties
<1>6. <<e>> \in Seq(S) /\ Len(<<e>>) = 1
  OBVIOUS
<1>7. \A f, g \in Seq(S) : f \o g \in Seq(S) /\ Len(f \o g) = Len(f) + Len(g)
  BY ConcatProperties
<1> HIDE DEF before, after
<1>8. before \o <<e>> \in Seq(S) /\ Len(before \o <<e>>) = i
  BY <1>1, <1>4, <1>6, <1>7
<1>9. /\ (before \o <<e>>) \o after \in Seq(S)
      /\ Len((before \o <<e>>) \o after) = i + (Len(s) - i + 1)
  BY <1>5, <1>7, <1>8
<1>10. InsertAt(s, i, e) = (before \o <<e>>) \o after
  BY DEF InsertAt, before, after
<1>11. i + (Len(s) - i + 1) = Len(s) + 1
  BY <1>1
<1> QED BY <1>9, <1>10, <1>11

\* The elements of the longer list: those before the position stay, the others
\* move back by one.
LEMMA InsertAtElements ==
  ASSUME NEW S, NEW s \in Seq(S), NEW i \in 1..Len(s)+1, NEW e \in S
  PROVE  /\ \A j \in 1..i-1 : InsertAt(s, i, e)[j] = s[j]
         /\ InsertAt(s, i, e)[i] = e
         /\ \A j \in i+1..Len(s)+1 : InsertAt(s, i, e)[j] = s[j-1]
<1> DEFINE before == SubSeq(s, 1, i-1)
           after  == SubSeq(s, i, Len(s))
<1>1. Len(s) \in Nat
  BY LenProperties
<1>2. \A j \in 1..i-1 : s[j] \in S
  BY <1>1, ElementOfSeq
<1>3. \A j \in i..Len(s) : s[j] \in S
  BY <1>1, ElementOfSeq
<1>4. /\ before \in Seq(S) /\ Len(before) = i - 1
      /\ \A j \in 1..i-1 : before[j] = s[j]
  BY <1>1, <1>2, SubSeqProperties
<1>5. /\ after \in Seq(S) /\ Len(after) = Len(s) - i + 1
      /\ \A j \in 1..Len(s)-i+1 : after[j] = s[i+j-1]
  BY <1>1, <1>3, SubSeqProperties
<1>6. <<e>> \in Seq(S) /\ Len(<<e>>) = 1 /\ <<e>>[1] = e
  OBVIOUS
<1> HIDE DEF before, after
<1>7. /\ before \o <<e>> \in Seq(S) /\ Len(before \o <<e>>) = i
      /\ \A j \in 1..i : (before \o <<e>>)[j] = IF j <= i - 1 THEN s[j] ELSE e
  <2>1. /\ before \o <<e>> \in Seq(S)
        /\ Len(before \o <<e>>) = Len(before) + Len(<<e>>)
        /\ \A j \in 1..Len(before) + Len(<<e>>) : (before \o <<e>>)[j] =
              IF j <= Len(before) THEN before[j] ELSE <<e>>[j - Len(before)]
    BY <1>4, <1>6, ConcatProperties
  <2>2. \A j \in 1..i : ~(j <= i - 1) => j - (i - 1) = 1
    BY <1>1
  <2> QED BY <1>1, <1>4, <1>6, <2>1, <2>2
<1> DEFINE front == before \o <<e>>
<1>8. /\ front \in Seq(S) /\ Len(front) = i
      /\ \A j \in 1..i : front[j] = IF j <= i - 1 THEN s[j] ELSE e
  BY <1>7
<1>9. InsertAt(s, i, e) = front \o after
  BY DEF InsertAt, before, after
<1> HIDE DEF front
<1>10. \A j \in 1..Len(s)+1 : (front \o after)[j] =
         IF j <= i THEN front[j] ELSE after[j - i]
  <2>1. \A j \in 1..Len(front) + Len(after) : (front \o after)[j] =
          IF j <= Len(front) THEN front[j] ELSE after[j - Len(front)]
    BY <1>5, <1>8, ConcatProperties
  <2>2. Len(front) + Len(after) = Len(s) + 1
    BY <1>1, <1>5, <1>8
  <2> QED BY <1>8, <2>1, <2>2
<1>11. \A j \in 1..i-1 : (front \o after)[j] = s[j]
  BY <1>1, <1>8, <1>10
<1>12. (front \o after)[i] = e
  BY <1>1, <1>8, <1>10
<1>13. \A j \in i+1..Len(s)+1 : (front \o after)[j] = s[j-1]
  <2> TAKE j \in i+1..Len(s)+1
  <2>0. j \in 1..Len(s)+1 /\ ~(j <= i)
    BY <1>1
  <2>1. (front \o after)[j] = after[j - i]
    BY <1>10, <2>0
  <2>2. j - i \in 1..Len(s)-i+1 /\ i + (j - i) - 1 = j - 1
    BY <1>1
  <2> QED BY <1>5, <2>1, <2>2
<1> QED BY <1>9, <1>11, <1>12, <1>13

\* A non-empty set of natural numbers has a least one, the item at which the
\* loop of pushObject stops.
LEMMA LeastExists ==
  ASSUME NEW T \in SUBSET Nat, T # {}
  PROVE  \E i \in T : \A j \in T : i <= j
<1> DEFINE Less == OpToRel(<, Nat)
<1>1. IsWellFoundedOn(Less, Nat)
  BY NatLessThanWellFounded
<1>2. PICK i \in T : \A j \in T : <<j, i>> \notin Less
  <2> HIDE DEF Less
  <2> QED BY <1>1, WFMin
<1>3. \A j \in T : <<j, i>> \notin Less => i <= j
  BY DEF OpToRel
<1> QED BY <1>2, <1>3

\* Inserting one past the end is appending.
LEMMA InsertAtEnd ==
  ASSUME NEW S, NEW s \in Seq(S), NEW e \in S
  PROVE  InsertAt(s, Len(s) + 1, e) = Append(s, e)
<1>1. Len(s) \in Nat
  BY LenProperties
<1>2. SubSeq(s, 1, (Len(s) + 1) - 1) = s
  <2>1. (Len(s) + 1) - 1 = Len(s)
    BY <1>1
  <2>2. SubSeq(s, 1, Len(s)) = s
    BY SubSeqFull
  <2> QED BY <2>1, <2>2
<1>3. SubSeq(s, Len(s) + 1, Len(s)) = << >>
  BY <1>1, SubSeqEmpty
<1>4. Append(s, e) = s \o <<e>>
  BY AppendIsConcat
<1>5. Append(s, e) \in Seq(S)
  BY AppendProperties
<1>6. (s \o <<e>>) \o << >> = s \o <<e>>
  BY <1>4, <1>5, ConcatEmptySeq
<1>7. InsertAt(s, Len(s) + 1, e)
        = (SubSeq(s, 1, (Len(s) + 1) - 1) \o <<e>>) \o SubSeq(s, Len(s) + 1, Len(s))
  BY DEF InsertAt
<1> QED BY <1>2, <1>3, <1>4, <1>6, <1>7

(***************************************************************************)
(* Removal.                                                                *)
(***************************************************************************)
\* In a list with a position of a given kind there is a first one, where a loop
\* over the list that looks for that kind stops.
LEMMA FirstExists ==
  ASSUME NEW S, NEW s \in Seq(S), NEW T \in SUBSET DOMAIN s, T # {}
  PROVE  \E i \in T : \A j \in 1..i-1 : j \in DOMAIN s /\ j \notin T
<1>1. Len(s) \in Nat /\ DOMAIN s = 1..Len(s)
  BY LenProperties
<1>2. T \in SUBSET Nat
  BY <1>1
<1>3. PICK i \in T : \A j \in T : i <= j
  BY <1>2, LeastExists
<1>4. \A j \in 1..i-1 : j \in DOMAIN s /\ j \notin T
  BY <1>1, <1>3
<1> QED BY <1>3, <1>4

\* Erasing a position of a list leaves a list of the same kind without adding
\* any element.
LEMMA RemoveAtType ==
  ASSUME NEW S, NEW s \in Seq(S), NEW i \in DOMAIN s
  PROVE  /\ RemoveAt(s, i) \in Seq(S)
         /\ Len(RemoveAt(s, i)) = Len(s) - 1
         /\ \A j \in 1..Len(s)-1 :
              RemoveAt(s, i)[j] = IF j < i THEN s[j] ELSE s[j+1]
<1> DEFINE before == SubSeq(s, 1, i-1)
           after  == SubSeq(s, i+1, Len(s))
<1>1. Len(s) \in Nat /\ i \in 1..Len(s)
  BY LenProperties
<1>2. \A j \in 1..i-1 : s[j] \in S
  BY <1>1, ElementOfSeq
<1>3. \A j \in i+1..Len(s) : s[j] \in S
  BY <1>1, ElementOfSeq
<1>4. /\ before \in Seq(S) /\ Len(before) = i - 1
      /\ \A j \in 1..i-1 : before[j] = s[j]
  BY <1>1, <1>2, SubSeqProperties
<1>5. /\ after \in Seq(S) /\ Len(after) = Len(s) - i
      /\ \A j \in 1..Len(s)-i : after[j] = s[i+j]
  BY <1>1, <1>3, SubSeqProperties
<1> HIDE DEF before, after
<1>6. /\ before \o after \in Seq(S)
      /\ Len(before \o after) = Len(before) + Len(after)
      /\ \A j \in 1..Len(before)+Len(after) : (before \o after)[j] =
            IF j <= Len(before) THEN before[j] ELSE after[j - Len(before)]
  BY <1>4, <1>5, ConcatProperties
<1>7. ASSUME NEW j \in 1..Len(s)-1
      PROVE  (before \o after)[j] = IF j < i THEN s[j] ELSE s[j+1]
  <2>1. j \in 1..Len(before)+Len(after)
    BY <1>1, <1>4, <1>5
  <2>2. CASE j < i
    BY <1>1, <1>4, <1>6, <2>1, <2>2
  <2>3. CASE ~(j < i)
    <3>1. j - Len(before) \in 1..Len(s)-i /\ i + (j - Len(before)) = j + 1
      BY <1>1, <1>4, <2>3
    <3>2. ~(j <= Len(before))
      BY <1>1, <1>4, <2>3
    <3>3. (before \o after)[j] = after[j - Len(before)]
      BY <1>6, <2>1, <3>2
    <3>4. after[j - Len(before)] = s[i + (j - Len(before))]
      BY <1>5, <3>1
    <3> QED BY <2>3, <3>1, <3>3, <3>4
  <2> QED BY <2>2, <2>3
<1>8. Len(before) + Len(after) = Len(s) - 1
  BY <1>1, <1>4, <1>5
<1>9. RemoveAt(s, i) = before \o after
  BY DEF RemoveAt, before, after
<1> QED BY <1>6, <1>7, <1>8, <1>9

\* An element is in a list at one position at most.
NoRepeat(s, e) == \A i, j \in DOMAIN s : s[i] = e /\ s[j] = e => i = j

\* Erasing a position takes nothing else away and moves no two elements to one
\* place.
LEMMA RemoveAtKeeps ==
  ASSUME NEW S, NEW s \in Seq(S), NEW i \in DOMAIN s, NEW x
  PROVE  /\ x \in ToSet(RemoveAt(s, i)) => x \in ToSet(s)
         /\ s[i] # x /\ x \in ToSet(s) => x \in ToSet(RemoveAt(s, i))
         /\ NoRepeat(s, x) => NoRepeat(RemoveAt(s, i), x)
         /\ NoRepeat(s, x) /\ s[i] = x => x \notin ToSet(RemoveAt(s, i))
<1> DEFINE r == RemoveAt(s, i)
           at(j) == IF j < i THEN j ELSE j + 1
<1>1. Len(s) \in Nat /\ DOMAIN s = 1..Len(s)
  BY LenProperties
<1>2. /\ DOMAIN r = 1..Len(s)-1
      /\ \A j \in 1..Len(s)-1 : r[j] = IF j < i THEN s[j] ELSE s[j+1]
  BY RemoveAtType, LenProperties
<1> HIDE DEF r
<1>3. \A j \in DOMAIN r : at(j) \in DOMAIN s /\ at(j) # i /\ r[j] = s[at(j)]
  BY <1>1, <1>2
<1>4. \A j, k \in DOMAIN r : at(j) = at(k) => j = k
  BY <1>1, <1>2
<1>5. \A k \in DOMAIN s : k # i => \E j \in DOMAIN r : at(j) = k
  <2> SUFFICES ASSUME NEW k \in DOMAIN s, k # i
               PROVE  \E j \in DOMAIN r : at(j) = k
    OBVIOUS
  <2>1. CASE k < i
    <3>1. k \in DOMAIN r /\ at(k) = k
      BY <1>1, <1>2, <2>1
    <3> QED BY <3>1
  <2>2. CASE ~(k < i)
    <3>1. k - 1 \in DOMAIN r /\ at(k-1) = k
      BY <1>1, <1>2, <2>2
    <3> QED BY <3>1
  <2> QED BY <2>1, <2>2
<1> HIDE DEF at
<1>6. x \in ToSet(r) => x \in ToSet(s)
  BY <1>3 DEF ToSet
<1>7. ASSUME s[i] # x, x \in ToSet(s) PROVE x \in ToSet(r)
  <2>1. PICK k \in DOMAIN s : s[k] = x
    BY <1>7 DEF ToSet
  <2>2. PICK j \in DOMAIN r : at(j) = k
    BY <1>5, <1>7, <2>1
  <2>3. r[j] = x
    BY <1>3, <2>1, <2>2
  <2> QED BY <2>3 DEF ToSet
<1>8. NoRepeat(s, x) => NoRepeat(r, x)
  BY <1>3, <1>4 DEF NoRepeat
<1>9. NoRepeat(s, x) /\ s[i] = x => x \notin ToSet(r)
  BY <1>3 DEF NoRepeat, ToSet
<1> QED BY <1>6, <1>7, <1>8, <1>9 DEF r

\* Erasing the first occurrence erases an occurrence.
LEMMA EraseFirstRemoves ==
  ASSUME NEW S, NEW s \in Seq(S), NEW e, e \in ToSet(s)
  PROVE  \E i \in DOMAIN s : s[i] = e /\ EraseFirst(s, e) = RemoveAt(s, i)
<1> DEFINE Is(x) == x = e
           i == FirstIndex(s, Is)
           T == {k \in DOMAIN s : s[k] = e}
<1>1. T \in SUBSET DOMAIN s /\ T # {}
  BY DEF ToSet
<1>2. \E k \in T : \A j \in 1..k-1 : j \in DOMAIN s /\ j \notin T
  <2> HIDE DEF T
  <2> QED BY <1>1, FirstExists
<1>3. \E k \in DOMAIN s : s[k] = e /\ \A j \in 1..k-1 : ~(s[j] = e)
  BY <1>2
<1>4. i \in DOMAIN s /\ s[i] = e
  BY <1>3 DEF FirstIndex
<1>5. EraseFirst(s, e) = RemoveAt(s, i)
  BY DEF EraseFirst
<1> QED BY <1>4, <1>5

\* Erasing the first occurrence adds no element.
LEMMA EraseFirstType ==
  ASSUME NEW S, NEW s \in Seq(S), NEW e
  PROVE  /\ EraseFirst(s, e) \in Seq(S)
         /\ ToSet(EraseFirst(s, e)) \subseteq ToSet(s)
<1>1. CASE e \in ToSet(s)
  <2>1. PICK i \in DOMAIN s : EraseFirst(s, e) = RemoveAt(s, i)
    BY <1>1, EraseFirstRemoves
  <2>2. RemoveAt(s, i) \in Seq(S)
    BY RemoveAtType
  <2>3. \A x : x \in ToSet(RemoveAt(s, i)) => x \in ToSet(s)
    BY RemoveAtKeeps
  <2> QED BY <2>1, <2>2, <2>3
<1>2. CASE e \notin ToSet(s)
  BY <1>2 DEF EraseFirst
<1> QED BY <1>1, <1>2

\* It takes nothing else away, and the element itself if it was there once.
LEMMA EraseFirstKeeps ==
  ASSUME NEW S, NEW s \in Seq(S), NEW e, NEW x
  PROVE  /\ x # e /\ x \in ToSet(s) => x \in ToSet(EraseFirst(s, e))
         /\ NoRepeat(s, x) => NoRepeat(EraseFirst(s, e), x)
         /\ NoRepeat(s, e) => e \notin ToSet(EraseFirst(s, e))
<1>1. CASE e \in ToSet(s)
  <2>1. PICK i \in DOMAIN s : s[i] = e /\ EraseFirst(s, e) = RemoveAt(s, i)
    BY <1>1, EraseFirstRemoves
  <2>2. /\ s[i] # x /\ x \in ToSet(s) => x \in ToSet(RemoveAt(s, i))
        /\ NoRepeat(s, x) => NoRepeat(RemoveAt(s, i), x)
        /\ NoRepeat(s, e) /\ s[i] = e => e \notin ToSet(RemoveAt(s, i))
    BY RemoveAtKeeps
  <2> QED BY <2>1, <2>2
<1>2. CASE e \notin ToSet(s)
  BY <1>2 DEF EraseFirst
<1> QED BY <1>1, <1>2

\* An element that is in a list once is counted once.
LEMMA OnceCounted ==
  ASSUME NEW S, NEW s \in Seq(S), NEW e, NoRepeat(s, e)
  PROVE  Cardinality({i \in DOMAIN s : s[i] = e}) = IF e \in ToSet(s) THEN 1 ELSE 0
<1>1. CASE e \in ToSet(s)
  <2>1. PICK i \in DOMAIN s : s[i] = e
    BY <1>1 DEF ToSet
  <2>2. {k \in DOMAIN s : s[k] = e} = {i}
    BY <2>1 DEF NoRepeat
  <2> QED BY <1>1, <2>2, FS_Singleton
<1>2. CASE e \notin ToSet(s)
  <2>1. {k \in DOMAIN s : s[k] = e} = {}
    BY <1>2 DEF ToSet
  <2> QED BY <1>2, <2>1, FS_EmptySet
<1> QED BY <1>1, <1>2

\* A list has no more elements than positions.
LEMMA ToSetSize ==
  ASSUME NEW S, NEW s \in Seq(S)
  PROVE  IsFiniteSet(ToSet(s)) /\ Cardinality(ToSet(s)) <= Len(s)
<1> DEFINE f == [i \in 1..Len(s) |-> s[i]]
<1>1. Len(s) \in Nat /\ DOMAIN s = 1..Len(s)
  BY LenProperties
<1>2. IsFiniteSet(1..Len(s)) /\ Cardinality(1..Len(s)) = Len(s)
  <2>1. IsFiniteSet(1..Len(s)) /\ Cardinality(1..Len(s)) =
          IF 1 > Len(s) THEN 0 ELSE Len(s) - 1 + 1
    BY <1>1, FS_Interval
  <2> QED BY <1>1, <2>1
<1>3. f \in Surjection(1..Len(s), ToSet(s))
  <2>1. ToSet(s) = {s[i] : i \in 1..Len(s)}
    BY <1>1 DEF ToSet
  <2> QED BY <2>1 DEF Surjection
<1> HIDE DEF f
<1> QED BY <1>2, <1>3, FS_Surjection

\* Removing an element leaves all the others: the list holds what it held but
\* for that element, and nothing more often.
LEMMA WithoutType ==
  ASSUME NEW S, NEW s \in Seq(S), NEW e
  PROVE  /\ Without(s, e) \in Seq(S)
         /\ ToSet(Without(s, e)) = ToSet(s) \ {e}
         /\ \A x : NoRepeat(s, x) => NoRepeat(Without(s, e), x)
<1> DEFINE kept     == {i \in DOMAIN s : s[i] # e}
           Below(i) == {k \in kept : k < i}
           n        == Cardinality(kept)
           rank     == [i \in kept |-> Cardinality(Below(i))]
           at(j)    == CHOOSE i \in kept : Cardinality(Below(i)) = j - 1
<1>1. Len(s) \in Nat /\ DOMAIN s = 1..Len(s)
  BY LenProperties
<1>2. kept \subseteq 1..Len(s) /\ IsFiniteSet(kept) /\ n \in Nat
  <2>1. kept \subseteq 1..Len(s)
    BY <1>1
  <2>2. IsFiniteSet(1..Len(s))
    BY <1>1, FS_Interval
  <2> HIDE DEF kept
  <2>3. IsFiniteSet(kept)
    BY <2>1, <2>2, FS_Subset
  <2> QED BY <2>1, <2>3, FS_CardinalityType
<1>3. \A i \in kept : /\ IsFiniteSet(Below(i))
                      /\ Cardinality(Below(i)) \in 0..n-1
  <2> TAKE i \in kept
  <2>1. IsFiniteSet(kept \ {i}) /\ Cardinality(kept \ {i}) = n - 1
    BY <1>2, FS_RemoveElement
  <2>2. Below(i) \subseteq kept \ {i}
    BY <1>2
  <2>3. IsFiniteSet(Below(i)) /\ Cardinality(Below(i)) <= Cardinality(kept \ {i})
    <3> HIDE DEF Below, kept
    <3> QED BY <2>1, <2>2, FS_Subset
  <2>4. Cardinality(Below(i)) \in Nat
    <3> HIDE DEF Below, kept
    <3> QED BY <2>3, FS_CardinalityType
  <2> HIDE DEF Below, kept
  <2> QED BY <1>2, <2>1, <2>3, <2>4
<1>4. \A i, k \in kept : i < k => Cardinality(Below(i)) < Cardinality(Below(k))
  <2> SUFFICES ASSUME NEW i \in kept, NEW k \in kept, i < k
               PROVE  Cardinality(Below(i)) < Cardinality(Below(k))
    OBVIOUS
  <2>1. Below(i) \cup {i} \subseteq Below(k)
    BY <1>2
  <2>2. i \notin Below(i)
    BY <1>2
  <2> HIDE DEF Below, kept
  <2>3. /\ IsFiniteSet(Below(i) \cup {i})
        /\ Cardinality(Below(i) \cup {i}) = Cardinality(Below(i)) + 1
    BY <1>3, <2>2, FS_AddElement
  <2>4. Cardinality(Below(i) \cup {i}) <= Cardinality(Below(k))
    BY <1>3, <2>1, FS_Subset
  <2>5. Cardinality(Below(i)) \in Nat /\ Cardinality(Below(k)) \in Nat
    BY <1>2, <1>3
  <2> QED BY <2>3, <2>4, <2>5
<1>5. \A i, k \in kept : Cardinality(Below(i)) = Cardinality(Below(k)) => i = k
  <2> SUFFICES ASSUME NEW i \in kept, NEW k \in kept,
                      Cardinality(Below(i)) = Cardinality(Below(k))
               PROVE  i = k
    OBVIOUS
  <2>1. i \in Nat /\ k \in Nat
    BY <1>2
  <2> HIDE DEF Below, kept
  <2>2. Cardinality(Below(i)) \in Nat
    BY <1>2, <1>3
  <2>3. ~(i < k) /\ ~(k < i)
    BY <1>4, <2>2
  <2> QED BY <2>1, <2>3
<1>6. rank \in Injection(kept, 0..n-1)
  <2> HIDE DEF Below, kept
  <2>1. rank \in [kept -> 0..n-1]
    BY <1>3
  <2>2. \A i, k \in kept : rank[i] = rank[k] => i = k
    BY <1>5
  <2> HIDE DEF rank
  <2> QED BY <2>1, <2>2, Fun_IsInj
<1>7. IsFiniteSet(0..n-1) /\ Cardinality(0..n-1) = n
  <2>1. IsFiniteSet(0..n-1) /\ Cardinality(0..n-1) =
          IF 0 > n - 1 THEN 0 ELSE n - 1 - 0 + 1
    <3> HIDE DEF n
    <3> QED BY <1>2, FS_Interval
  <2> HIDE DEF n
  <2> QED BY <1>2, <2>1
<1>8. rank \in Surjection(kept, 0..n-1)
  <2>1. Cardinality(kept) = Cardinality(0..n-1)
    BY <1>7
  <2> HIDE DEF rank, kept, n
  <2> QED BY <1>6, <1>7, <2>1, FS_Injection
<1>9. \A m \in 0..n-1 : \E i \in kept : rank[i] = m
  <2> HIDE DEF rank, kept, n
  <2> QED BY <1>8 DEF Surjection
<1>10. \A m \in 0..n-1 : \E i \in kept : Cardinality(Below(i)) = m
  <2> HIDE DEF Below, kept, n
  <2> QED BY <1>9
<1>11. \A j \in 1..n : at(j) \in kept /\ Cardinality(Below(at(j))) = j - 1
  <2> TAKE j \in 1..n
  <2> HIDE DEF Below, kept, n
  <2>1. j - 1 \in 0..n-1
    BY <1>2
  <2>2. \E i \in kept : Cardinality(Below(i)) = j - 1
    BY <1>10, <2>1
  <2> QED BY <2>2
<1>12. Without(s, e) = [j \in 1..n |-> s[at(j)]]
  BY DEF Without
<1>13. \A i \in kept : \E j \in 1..n : at(j) = i
  <2> TAKE i \in kept
  <2> HIDE DEF Below, kept, n, at
  <2>1. Cardinality(Below(i)) \in 0..n-1
    BY <1>3
  <2>2. Cardinality(Below(i)) + 1 \in 1..n
    BY <1>2, <2>1
  <2>3. /\ at(Cardinality(Below(i)) + 1) \in kept
        /\ Cardinality(Below(at(Cardinality(Below(i)) + 1))) =
             (Cardinality(Below(i)) + 1) - 1
    BY <1>11, <2>2
  <2>4. (Cardinality(Below(i)) + 1) - 1 = Cardinality(Below(i))
    BY <2>1
  <2>5. at(Cardinality(Below(i)) + 1) = i
    BY <1>5, <2>3, <2>4
  <2> QED BY <2>2, <2>5
<1>14. \A j \in 1..n : s[at(j)] \in S /\ s[at(j)] \in ToSet(s) \ {e}
  <2> TAKE j \in 1..n
  <2>1. at(j) \in kept
    BY <1>11
  <2> HIDE DEF at, n
  <2>2. at(j) \in DOMAIN s /\ s[at(j)] # e
    BY <2>1
  <2> QED BY <1>1, <2>2, ElementOfSeq DEF ToSet
<1>15. Without(s, e) \in Seq(S)
  <2> HIDE DEF at, n
  <2> QED BY <1>2, <1>12, <1>14
<1>16. DOMAIN Without(s, e) = 1..n /\ \A j \in 1..n : Without(s, e)[j] = s[at(j)]
  <2> HIDE DEF at, n
  <2> QED BY <1>12
<1>17. ToSet(s) \ {e} \subseteq ToSet(Without(s, e))
  <2> SUFFICES ASSUME NEW x \in ToSet(s) \ {e}
               PROVE  x \in ToSet(Without(s, e))
    OBVIOUS
  <2>1. PICK i \in DOMAIN s : s[i] = x
    BY DEF ToSet
  <2>2. i \in kept
    BY <2>1
  <2> HIDE DEF at, n, kept
  <2>3. PICK j \in 1..n : at(j) = i
    BY <1>13, <2>2
  <2> QED BY <1>16, <2>1, <2>3 DEF ToSet
<1>18. ToSet(Without(s, e)) \subseteq ToSet(s) \ {e}
  <2> HIDE DEF at, n, kept
  <2> QED BY <1>14, <1>16 DEF ToSet
<1>19. ASSUME NEW x, NoRepeat(s, x) PROVE NoRepeat(Without(s, e), x)
  <2>1. \A j, k \in 1..n : at(j) = at(k) => j = k
    <3> HIDE DEF at, n, kept, Below
    <3> QED BY <1>2, <1>11
  <2>2. \A j \in 1..n : at(j) \in DOMAIN s
    <3> HIDE DEF at, n
    <3> QED BY <1>11
  <2> HIDE DEF at, n, kept
  <2> QED BY <1>16, <1>19, <2>1, <2>2 DEF NoRepeat
<1> QED BY <1>15, <1>17, <1>18, <1>19

\* push_back and push_front of an element that is not there.
LEMMA AppendOnce ==
  ASSUME NEW S, NEW s \in Seq(S), NEW e \in S, NEW x, NoRepeat(s, x), x # e \/ x \notin ToSet(s)
  PROVE  NoRepeat(Append(s, e), x)
<1> DEFINE longer == Append(s, e)
<1>1. /\ Len(s) \in Nat /\ DOMAIN s = 1..Len(s)
      /\ DOMAIN longer = 1..Len(s)+1
      /\ \A i \in 1..Len(s) : longer[i] = s[i]
      /\ longer[Len(s)+1] = e
  BY AppendProperties, LenProperties
<1> HIDE DEF longer
<1>2. ASSUME NEW i \in DOMAIN longer, longer[i] = x
      PROVE  (i \in DOMAIN s /\ s[i] = x /\ x # e) \/ (i = Len(s) + 1 /\ x = e)
  <2>1. CASE i \in 1..Len(s)
    <3>1. s[i] = x
      BY <1>1, <1>2, <2>1
    <3> QED BY <1>1, <2>1, <3>1 DEF ToSet
  <2>2. CASE i = Len(s) + 1
    BY <1>1, <1>2, <2>2
  <2> QED BY <1>1, <2>1, <2>2
<1>3. NoRepeat(longer, x)
  BY <1>2 DEF NoRepeat
<1> QED BY <1>3 DEF longer

LEMMA PushFrontOnce ==
  ASSUME NEW S, NEW s \in Seq(S), NEW e \in S, NEW x, NoRepeat(s, x), x # e \/ x \notin ToSet(s)
  PROVE  NoRepeat(<<e>> \o s, x)
<1> DEFINE longer == <<e>> \o s
<1>1. <<e>> \in Seq(S) /\ Len(<<e>>) = 1 /\ <<e>>[1] = e
  OBVIOUS
<1>2. Len(s) \in Nat /\ DOMAIN s = 1..Len(s)
  BY LenProperties
<1>3. /\ DOMAIN longer = 1..1+Len(s)
      /\ \A i \in 1..1+Len(s) : longer[i] = IF i <= 1 THEN e ELSE s[i-1]
  BY <1>1, ConcatProperties, LenProperties
<1> HIDE DEF longer
<1>4. ASSUME NEW i \in DOMAIN longer, longer[i] = x
      PROVE  (i - 1 \in DOMAIN s /\ s[i-1] = x /\ x # e) \/ (i = 1 /\ x = e)
  <2>1. CASE i <= 1
    BY <1>2, <1>3, <1>4, <2>1
  <2>2. CASE ~(i <= 1)
    <3>1. i - 1 \in DOMAIN s /\ s[i-1] = x
      BY <1>2, <1>3, <1>4, <2>2
    <3> QED BY <3>1 DEF ToSet
  <2> QED BY <2>1, <2>2
<1>5. DOMAIN longer \subseteq Nat
  BY <1>2, <1>3
<1>6. ASSUME NEW i \in DOMAIN longer, NEW k \in DOMAIN longer, longer[i] = x, longer[k] = x
      PROVE  i = k
  <2>1. CASE x = e
    BY <1>4, <1>6, <2>1
  <2>2. CASE x # e
    <3>1. i - 1 = k - 1
      BY <1>4, <1>6, <2>2 DEF NoRepeat
    <3> QED BY <1>5, <3>1
  <2> QED BY <2>1, <2>2
<1>7. NoRepeat(longer, x)
  BY <1>6 DEF NoRepeat
<1> QED BY <1>7 DEF longer

\* pop_front takes the head only.
LEMMA TailKeeps ==
  ASSUME NEW S, NEW s \in Seq(S), s # << >>, NEW x
  PROVE  /\ x \in ToSet(Tail(s)) => x \in ToSet(s)
         /\ x # Head(s) /\ x \in ToSet(s) => x \in ToSet(Tail(s))
<1> DEFINE r == Tail(s)
<1>1. Len(s) \in Nat /\ DOMAIN s = 1..Len(s) /\ Len(s) > 0
  BY LenProperties, EmptySeq
<1>2. /\ DOMAIN r = 1..Len(s)-1
      /\ \A i \in 1..Len(s)-1 : r[i] = s[i+1]
  BY HeadTailProperties, LenProperties
<1>3. Head(s) = s[1]
  BY <1>1
<1> HIDE DEF r
<1>4. x \in ToSet(r) => x \in ToSet(s)
  <2>1. \A i \in DOMAIN r : i + 1 \in DOMAIN s /\ r[i] = s[i+1]
    BY <1>1, <1>2
  <2> QED BY <2>1 DEF ToSet
<1>5. ASSUME x # Head(s), x \in ToSet(s) PROVE x \in ToSet(r)
  <2>1. PICK k \in DOMAIN s : s[k] = x
    BY <1>5 DEF ToSet
  <2>2. k # 1
    BY <1>3, <1>5, <2>1
  <2>3. k - 1 \in DOMAIN r /\ r[k-1] = s[(k-1)+1] /\ (k-1)+1 = k
    BY <1>1, <1>2, <2>1, <2>2
  <2> QED BY <2>1, <2>3 DEF ToSet
<1> QED BY <1>4, <1>5 DEF r

(***************************************************************************)
(* Loops over a list.                                                      *)
(***************************************************************************)
\* Induction over sequences, with a set for the property: of the sequences that
\* are not in it one is shortest.
LEMMA SeqInduction ==
  ASSUME NEW S, NEW P, << >> \in P,
         \A s \in Seq(S), e \in S : s \in P => Append(s, e) \in P
  PROVE  Seq(S) \subseteq P
<1> DEFINE T == {Len(s) : s \in Seq(S) \ P}
<1> SUFFICES ASSUME T # {} PROVE FALSE
  OBVIOUS
<1>1. T \in SUBSET Nat
  BY LenProperties
<1>2. PICK n \in T : \A m \in T : n <= m
  <2> HIDE DEF T
  <2> QED BY <1>1, LeastExists
<1>3. PICK s \in Seq(S) \ P : Len(s) = n
  OBVIOUS
<1>4. PICK f \in Seq(S), e \in S : s = Append(f, e)
  BY <1>3, SequenceEmptyOrAppend
<1>5. Len(s) = Len(f) + 1 /\ Len(f) \in Nat
  BY <1>4, AppendProperties, LenProperties
<1>6. f \notin P
  BY <1>3, <1>4
<1>7. n <= Len(f)
  BY <1>2, <1>6
<1> QED BY <1>3, <1>5, <1>7

\* The intermediate results of FoldBy.
IsRun(acc, step, start, s) ==
  acc = [i \in 0..Len(s) |-> IF i = 0 THEN start ELSE step[acc[i-1]][s[i]]]

LEMMA RunExists ==
  ASSUME NEW S, NEW step, NEW start, NEW s \in Seq(S)
  PROVE  \E acc : IsRun(acc, step, start, s)
<1> DEFINE P == {r \in Seq(S) : \E acc : IsRun(acc, step, start, r)}
<1>1. << >> \in P
  <2>1. [i \in 0..0 |-> start] = [i \in 0..0 |-> IF i = 0 THEN start
                                  ELSE step[[k \in 0..0 |-> start][i-1]][<< >>[i]]]
    OBVIOUS
  <2>2. IsRun([i \in 0..0 |-> start], step, start, << >>)
    BY <2>1 DEF IsRun
  <2> QED BY <2>2
<1>2. ASSUME NEW r \in Seq(S), NEW e \in S, r \in P PROVE Append(r, e) \in P
  <2>1. PICK acc : IsRun(acc, step, start, r)
    BY <1>2
  <2> DEFINE n    == Len(r) + 1
             more == [i \in 0..n |-> IF i = n THEN step[acc[i-1]][e] ELSE acc[i]]
  <2>2. /\ n \in Nat /\ n > 0 /\ Len(Append(r, e)) = n /\ Append(r, e) \in Seq(S)
        /\ Append(r, e)[n] = e /\ \A i \in 1..n-1 : Append(r, e)[i] = r[i]
    BY LenProperties, AppendProperties
  <2>3. \A i \in 0..n : i # n => i \in 0..Len(r)
    BY <2>2
  <2>4. \A i \in 0..n : i # n => acc[i] = IF i = 0 THEN start ELSE step[acc[i-1]][r[i]]
    BY <2>1, <2>3 DEF IsRun
  <2>5. \A i \in 0..n : i # 0 => more[i-1] = acc[i-1]
    BY <2>2
  <2>6. \A i \in 0..n : more[i] = IF i = 0 THEN start ELSE step[more[i-1]][Append(r, e)[i]]
    <3> TAKE i \in 0..n
    <3>1. CASE i = n
      BY <2>2, <2>5, <3>1
    <3>2. CASE i # n
      <4>1. more[i] = acc[i] /\ (i # 0 => Append(r, e)[i] = r[i])
        BY <2>2, <3>2
      <4> HIDE DEF more
      <4> QED BY <2>4, <2>5, <3>2, <4>1
    <3> QED BY <3>1, <3>2
  <2>7. IsRun(more, step, start, Append(r, e))
    <3>1. more = [i \in 0..n |-> more[i]]
      OBVIOUS
    <3> HIDE DEF more
    <3>2. more = [i \in 0..n |-> IF i = 0 THEN start ELSE step[more[i-1]][Append(r, e)[i]]]
      BY <2>6, <3>1
    <3> QED BY <2>2, <3>2 DEF IsRun
  <2> QED BY <2>2, <2>7
<1> HIDE DEF P
<1>3. Seq(S) \subseteq P
  BY <1>1, <1>2, SeqInduction
<1> QED BY <1>3 DEF P

\* A longer list begins with the same results.
LEMMA RunsAgree ==
  ASSUME NEW S, NEW step, NEW start, NEW s \in Seq(S), NEW e \in S, NEW a, NEW b,
         IsRun(a, step, start, s), IsRun(b, step, start, Append(s, e))
  PROVE  b[Len(s)+1] = step[a[Len(s)]][e]
<1> DEFINE n == Len(s)
           T == {i \in 0..n : a[i] # b[i]}
<1>1. /\ n \in Nat /\ Len(Append(s, e)) = n + 1 /\ Append(s, e)[n+1] = e
      /\ \A i \in 1..n : Append(s, e)[i] = s[i]
  BY LenProperties, AppendProperties
<1>2. \A i \in 0..n : a[i] = IF i = 0 THEN start ELSE step[a[i-1]][s[i]]
  BY DEF IsRun
<1>3. \A i \in 0..n+1 : b[i] = IF i = 0 THEN start ELSE step[b[i-1]][Append(s, e)[i]]
  BY <1>1 DEF IsRun
<1>4. T = {}
  <2> SUFFICES ASSUME T # {} PROVE FALSE
    OBVIOUS
  <2>1. T \in SUBSET Nat
    BY <1>1
  <2>2. PICK i \in T : \A j \in T : i <= j
    <3> HIDE DEF T
    <3> QED BY <2>1, LeastExists
  <2>3. i \in 0..n /\ a[i] # b[i] /\ i \in Nat
    BY <1>1
  <2>4. i # 0
    BY <1>1, <1>2, <1>3, <2>3
  <2>5. i - 1 \in 0..n /\ i \in 1..n /\ ~(i <= i - 1) /\ i \in 0..n+1
    BY <1>1, <2>3, <2>4
  <2>6. a[i-1] = b[i-1]
    BY <2>2, <2>5
  <2> QED BY <1>1, <1>2, <1>3, <2>3, <2>4, <2>5, <2>6
<1>5. a[n] = b[n] /\ n + 1 \in 0..n+1 /\ n + 1 # 0 /\ (n + 1) - 1 = n
  BY <1>1, <1>4
<1> QED BY <1>1, <1>3, <1>5

\* The run that FoldBy chooses is one.
LEMMA FoldByRun ==
  ASSUME NEW S, NEW step, NEW start, NEW s \in Seq(S)
  PROVE  \E acc : IsRun(acc, step, start, s) /\ FoldBy(step, start, s) = acc[Len(s)]
<1> DEFINE run == CHOOSE acc : IsRun(acc, step, start, s)
<1>1. FoldBy(step, start, s) = run[Len(s)]
  BY DEF FoldBy, IsRun
<1>2. IsRun(run, step, start, s)
  BY RunExists
<1> QED BY <1>1, <1>2

\* A loop over the empty list does nothing; over a longer one it takes one step more.
LEMMA FoldByEmpty ==
  ASSUME NEW step, NEW start
  PROVE  FoldBy(step, start, << >>) = start
<1>1. PICK s \in Seq({}) : s = << >>
  BY EmptySeq
<1>2. PICK acc : IsRun(acc, step, start, s) /\ FoldBy(step, start, s) = acc[Len(s)]
  BY FoldByRun
<1>3. Len(s) = 0
  BY <1>1
<1>4. acc[0] = start
  BY <1>2, <1>3 DEF IsRun
<1> QED BY <1>1, <1>2, <1>3, <1>4

LEMMA FoldByAppend ==
  ASSUME NEW S, NEW step, NEW start, NEW s \in Seq(S), NEW e \in S
  PROVE  FoldBy(step, start, Append(s, e)) = step[FoldBy(step, start, s)][e]
<1>1. PICK t \in Seq(S) : t = Append(s, e) /\ Len(t) = Len(s) + 1
  BY AppendProperties
<1>2. PICK a : IsRun(a, step, start, s) /\ FoldBy(step, start, s) = a[Len(s)]
  BY FoldByRun
<1>3. PICK b : IsRun(b, step, start, t) /\ FoldBy(step, start, t) = b[Len(t)]
  BY FoldByRun
<1>4. b[Len(s) + 1] = step[a[Len(s)]][e]
  BY <1>1, <1>2, <1>3, RunsAgree
<1> QED BY <1>1, <1>2, <1>3, <1>4

\* The result has the type that step keeps.
LEMMA FoldByType ==
  ASSUME NEW S, NEW B, NEW step \in [B -> [S -> B]], NEW start \in B, NEW s \in Seq(S)
  PROVE  FoldBy(step, start, s) \in B
<1> DEFINE P == {r \in Seq(S) : FoldBy(step, start, r) \in B}
<1>1. << >> \in P
  BY FoldByEmpty, EmptySeq
<1>2. ASSUME NEW r \in Seq(S), NEW e \in S, r \in P PROVE Append(r, e) \in P
  <2>1. FoldBy(step, start, Append(r, e)) = step[FoldBy(step, start, r)][e]
    BY FoldByAppend
  <2>2. Append(r, e) \in Seq(S)
    BY AppendProperties
  <2> QED BY <1>2, <2>1, <2>2
<1> HIDE DEF P
<1>3. Seq(S) \subseteq P
  BY <1>1, <1>2, SeqInduction
<1> QED BY <1>3 DEF P

(***************************************************************************)
(* Lists put together.                                                     *)
(***************************************************************************)
\* What a list holds after push_back.
LEMMA AppendSet ==
  ASSUME NEW S, NEW s \in Seq(S), NEW e \in S
  PROVE  ToSet(Append(s, e)) = ToSet(s) \cup {e}
<1> DEFINE longer == Append(s, e)
<1>1. /\ Len(s) \in Nat /\ DOMAIN s = 1..Len(s)
      /\ DOMAIN longer = 1..Len(s)+1
      /\ \A i \in 1..Len(s) : longer[i] = s[i]
      /\ longer[Len(s)+1] = e
  BY AppendProperties, LenProperties
<1> HIDE DEF longer
<1>2. \A x : x \in ToSet(longer) => x \in ToSet(s) \cup {e}
  BY <1>1 DEF ToSet
<1>3. \A x : x \in ToSet(s) => x \in ToSet(longer)
  BY <1>1 DEF ToSet
<1>4. e \in ToSet(longer)
  <2>1. Len(s) + 1 \in DOMAIN longer
    BY <1>1
  <2> QED BY <1>1, <2>1 DEF ToSet
<1>5. ToSet(longer) = ToSet(s) \cup {e}
  BY <1>2, <1>3, <1>4
<1> QED BY <1>5 DEF longer

LEMMA ConcatAppend ==
  ASSUME NEW S, NEW s \in Seq(S), NEW t \in Seq(S), NEW e \in S
  PROVE  s \o Append(t, e) = Append(s \o t, e)
<1>1. <<e>> \in Seq(S) /\ s \o t \in Seq(S)
  BY ConcatProperties
<1>2. Append(t, e) = t \o <<e>> /\ Append(s \o t, e) = (s \o t) \o <<e>>
  BY <1>1, AppendIsConcat
<1>3. (s \o t) \o <<e>> = s \o (t \o <<e>>)
  BY <1>1, ConcatAssociative
<1> QED BY <1>2, <1>3

\* The parts of a list before and after the place of an insertion.
LEMMA InsertAtParts ==
  ASSUME NEW S, NEW s \in Seq(S), NEW i \in 1..Len(s)+1
  PROVE  /\ SubSeq(s, 1, i-1) \in Seq(S) /\ SubSeq(s, i, Len(s)) \in Seq(S)
         /\ SubSeq(s, 1, i-1) \o SubSeq(s, i, Len(s)) = s
<1>1. Len(s) \in Nat /\ \A j \in 1..Len(s) : s[j] \in S
  BY LenProperties, ElementOfSeq
<1>2. SubSeq(s, 1, i-1) \in Seq(S) /\ SubSeq(s, i, Len(s)) \in Seq(S)
  BY <1>1, SubSeqProperties
<1>3. SubSeq(s, 1, i-1) \o SubSeq(s, i, Len(s)) = s
  <2>1. /\ 1 \in 1..Len(s)+1 /\ i-1 \in 1-1..Len(s) /\ Len(s) \in i-1..Len(s)
        /\ (i-1)+1 = i
    BY <1>1
  <2>2. SubSeq(s, 1, i-1) \o SubSeq(s, (i-1)+1, Len(s)) = SubSeq(s, 1, Len(s))
    BY <2>1, ConcatAdjacentSubSeq
  <2> QED BY <2>1, <2>2, SubSeqFull
<1> QED BY <1>2, <1>3

LEMMA PushFrontParts ==
  ASSUME NEW S, NEW s \in Seq(S), NEW e \in S
  PROVE  <<e>> \o s # << >> /\ Head(<<e>> \o s) = e /\ Tail(<<e>> \o s) = s
<1> DEFINE t == <<e>> \o s
<1>1. /\ t \in Seq(S) /\ Len(t) = Len(s) + 1
      /\ \A j \in 1..Len(s)+1 : t[j] = IF j <= 1 THEN e ELSE s[j-1]
  <2>1. <<e>> \in Seq(S) /\ Len(<<e>>) = 1 /\ <<e>>[1] = e /\ Len(s) \in Nat
    BY LenProperties
  <2>2. /\ <<e>> \o s \in Seq(S) /\ Len(<<e>> \o s) = 1 + Len(s)
        /\ \A j \in 1..1+Len(s) : (<<e>> \o s)[j] = IF j <= 1 THEN <<e>>[j] ELSE s[j-1]
    BY <2>1, ConcatProperties
  <2>3. \A j \in 1..Len(s)+1 : (<<e>> \o s)[j] = IF j <= 1 THEN e ELSE s[j-1]
    BY <2>1, <2>2
  <2> QED BY <2>1, <2>2, <2>3
<1> HIDE DEF t
<1>2. Len(s) \in Nat /\ t # << >> /\ Head(t) = e
  BY <1>1, LenProperties
<1>3. /\ Tail(t) \in Seq(S) /\ Len(Tail(t)) = Len(s)
      /\ \A j \in 1..Len(s) : Tail(t)[j] = t[j+1]
  BY <1>1, <1>2, HeadTailProperties
<1>4. \A j \in 1..Len(s) : Tail(t)[j] = s[j]
  BY <1>1, <1>2, <1>3
<1>5. Tail(t) = s
  BY <1>3, <1>4, SeqEqual
<1> QED BY <1>2, <1>5 DEF t

LEMMA HeadThenTail ==
  ASSUME NEW S, NEW s \in Seq(S), s # << >>
  PROVE  Head(s) \in S /\ Tail(s) \in Seq(S) /\ s = <<Head(s)>> \o Tail(s)
<1>1. Head(s) \in S /\ Tail(s) \in Seq(S)
  BY HeadTailProperties
<1>2. Len(s) \in Nat \ {0} /\ Head(s) = s[1]
  BY EmptySeq
<1>3. SubSeq(s, 1, Len(s)) = <<s[1]>> \o SubSeq(s, 1+1, Len(s))
  <2>1. 1 \in 1..Len(s) /\ Len(s) \in 1..Len(s)
    BY <1>2
  <2> QED BY <2>1, SubSeqRecursiveFirst
<1>4. Tail(s) = SubSeq(s, 2, Len(s)) /\ SubSeq(s, 1, Len(s)) = s
  BY TailIsSubSeq, SubSeqFull
<1> QED BY <1>1, <1>2, <1>3, <1>4
=============================================================================
