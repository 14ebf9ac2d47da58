------------------------------ MODULE TableLife ------------------------------
(***************************************************************************)
(* What the way of the user tables through the server promises: a table    *)
(* that is extracted waits, is handed to one ready worker, sent to it and  *)
(* acknowledged by it, in this order and once each; otherwise it is        *)
(* refused by the full sink or dropped at the full queue of the worker.    *)
(***************************************************************************)
CONSTANTS Tables, Workers, NoWorker

VARIABLES
  state,   \* per table: where it is
  holder,  \* per table: the worker it was handed to
  ready    \* the workers that acknowledged their templates

Init ==
  /\ state = [t \in Tables |-> "new"]
  /\ holder = [t \in Tables |-> NoWorker]
  /\ ready = {}

Move(t, from, to) ==
  /\ state[t] = from
  /\ state' = [state EXCEPT ![t] = to]

Extract(t) == (Move(t, "new", "waiting") \/ Move(t, "new", "refused")) /\ UNCHANGED <<holder, ready>>
Take(t)    == Move(t, "waiting", "taken") /\ UNCHANGED <<holder, ready>>
Hand(t, w) ==
  /\ w \in ready
  /\ Move(t, "taken", "queued") \/ Move(t, "taken", "dropped")
  /\ holder' = [holder EXCEPT ![t] = w]
  /\ UNCHANGED ready
Send(t) == Move(t, "queued", "sent") /\ UNCHANGED <<holder, ready>>
Ack(t)  == Move(t, "sent", "acked") /\ UNCHANGED <<holder, ready>>

Ready == ready' \in SUBSET Workers /\ UNCHANGED <<state, holder>>

Next ==
  \/ \E t \in Tables : Extract(t) \/ Take(t) \/ Send(t) \/ Ack(t)
  \/ \E t \in Tables, w \in Workers : Hand(t, w)
  \/ Ready

Spec == Init /\ [][Next]_<<state, holder, ready>>
=============================================================================
