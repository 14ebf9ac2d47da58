-------------------------------- MODULE Fifo --------------------------------
(***************************************************************************)
(* What a queue between two stages of the server promises: objects leave   *)
(* in the order they entered, each of them once, none is invented, and     *)
(* there are never more than Capacity of them waiting.  A refused object   *)
(* does not appear here at all.                                            *)
(***************************************************************************)
EXTENDS Naturals, Sequences

CONSTANTS Object,     \* the objects that may ever be enqueued
          Capacity    \* most objects waiting at one time

VARIABLES queue,      \* objects waiting, oldest first
          delivered   \* every object handed out so far, oldest first

fifoVars == <<queue, delivered>>

Members(s) == {s[i] : i \in DOMAIN s}

Init == queue = << >> /\ delivered = << >>

Enqueue(o) ==
  /\ Len(queue) < Capacity
  /\ o \notin Members(queue) \cup Members(delivered)
  /\ queue' = Append(queue, o)
  /\ UNCHANGED delivered

Dequeue ==
  /\ queue # << >>
  /\ delivered' = Append(delivered, Head(queue))
  /\ queue' = Tail(queue)

Next == Dequeue \/ \E o \in Object : Enqueue(o)

Spec == Init /\ [][Next]_fifoVars
=============================================================================
