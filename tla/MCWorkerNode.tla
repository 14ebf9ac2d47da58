---------------------------- MODULE MCWorkerNode ----------------------------
\* Model-checking instance of WorkerNode.
EXTENDS WorkerNode, TLC

\* The results workers report, by name since a .cfg holds no definitions.
FinalOnly     == {DATA_FINAL}
AllResults    == Result

\* Workers, user data and processors are interchangeable.
Symmetry == Permutations(Workers) \cup Permutations(UserData) \cup Permutations(Processors)
=============================================================================
