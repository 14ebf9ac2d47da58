------------------------------- MODULE Ledger -------------------------------
(***************************************************************************)
(* What the server owes a worker for each packet it must acknowledge.  A   *)
(* packet is refused at the door or queued; a queued packet is kept until  *)
(* its turn comes, a sent one until it is acknowledged, and a worker has   *)
(* at most Window packets that were sent in turn and not acknowledged.     *)
(* Sending again changes nothing.  A packet may go out early, ahead of its *)
(* turn: the window does not count it, no acknowledgement of it counts,    *)
(* and it is still owed its turn.                                          *)
(***************************************************************************)
EXTENDS Naturals, FiniteSets

CONSTANTS Entry,    \* the packets
          Holder,   \* function: the worker each packet is for
          Window    \* most unacknowledged packets of one worker

VARIABLE state

Init == state = [p \in Entry |-> "new"]

Outstanding(w) == {p \in Entry : state[p] = "unacked" /\ Holder[p] = w}

Becomes(p, from, to) ==
  /\ state[p] = from
  /\ state' = [state EXCEPT ![p] = to]

Refuse(p) == Becomes(p, "new", "refused")
Queue(p)  == Becomes(p, "new", "queued")
Early(p)  == Becomes(p, "queued", "early")
Send(p)   == /\ Cardinality(Outstanding(Holder[p])) < Window
             /\ Becomes(p, "queued", "unacked") \/ Becomes(p, "early", "unacked")
Acked(p)  == Becomes(p, "unacked", "acked")

Next == \E p \in Entry : Refuse(p) \/ Queue(p) \/ Early(p) \/ Send(p) \/ Acked(p)

Spec == Init /\ [][Next]_state
=============================================================================
