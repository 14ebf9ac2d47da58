------------------------------ MODULE MCResults ------------------------------
(***************************************************************************)
(* Results with packets of every head with data, and of every other form   *)
(* where it makes a difference.                                            *)
(***************************************************************************)
EXTENDS Results, TLC

SentPackets ==
  {k \in Packet :
     \/ k.form = "full" /\ k.id # Stranger
     \/ k.form = "full" /\ k.head = "P_FINAL_RES"
     \/ k.form = "empty" /\ k.head \in {"P_FINAL_RES", "P_ERR"} /\ k.id # Stranger
     \/ k.form = "status" /\ k.head = "P_INTR_RES" /\ k.id # Stranger}

\* No processor differs from another.
ProcessorSymmetry == Permutations(Processors)
=============================================================================
