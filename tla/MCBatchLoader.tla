--------------------------- MODULE MCBatchLoader ---------------------------
EXTENDS BatchLoader

\* Four recordings of 2, 1, 2 and 2 sequences; no length is a multiple of SeqLen.
MCGtLen == [a |-> 5, b |-> 3, c |-> 5, d |-> 5]
MCInitial == [v \in 0 .. 3 |-> <<"a", "b", "c", "d">>[v + 1]]
MCPerm == [v \in 0 .. 3 |-> <<1, 3, 0, 2>>[v + 1]]

============================================================================
