----------------------------- MODULE MCDispatch -----------------------------
\* Model-checking instance of Dispatch.
EXTENDS Dispatch, TLC

MCWorkerList == <<"w1", "w2">>
MCNoWorker   == "none"

\* Two workers that are equally quick for low priorities and not for high ones.
Tasks(high, low) == [p \in 0..3 |-> CASE p = 1 -> high [] p = 3 -> low [] OTHER -> 0]
MCReports == "w1" :> {[threads |-> 1, tasks |-> Tasks(0, 2), avg |-> 1]}
          @@ "w2" :> {[threads |-> 2, tasks |-> Tasks(1, 1), avg |-> 2]}

\* What the memory of an item's counter held.
MCStarveBytes == {0}
=============================================================================
