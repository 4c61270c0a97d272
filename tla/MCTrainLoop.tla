---------------------------- MODULE MCTrainLoop ----------------------------
EXTENDS TrainLoop

\* Seven recordings of three sequences; two more for validation.  Seven segments do
\* not divide by two workers, so the last one of every pass is dropped.
MCGtLen == [s \in 1 .. 9 |-> 7]
MCInitial == [v \in 0 .. 6 |-> v + 1]
MCPerm == [v \in 0 .. 6 |-> <<3, 5, 0, 6, 1, 2, 4>>[v + 1]]
MCValInitial == [v \in 0 .. 1 |-> v + 8]
MCValPerm == [v \in 0 .. 1 |-> 1 - v]

============================================================================
