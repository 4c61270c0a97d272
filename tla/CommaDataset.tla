---------------------------- MODULE CommaDataset ----------------------------
(***************************************************************************)
(* train/dataloader.py, class CommaDataset: which sequences of which       *)
(* segments a loader worker yields, in which order, and which rows of the  *)
(* ground truth it cuts out for them.                                      *)
(*                                                                         *)
(* A segment is a recording of about a minute: a video and a ground truth  *)
(* of GtLen[seg] rows.  Every worker process has its own copy of the       *)
(* dataset, and every copy shuffles its list of segments in place, at the  *)
(* start of every iteration, with a generator seeded alike: each shuffle   *)
(* applies the same permutation Perm to the list the last one left.        *)
(***************************************************************************)
EXTENDS Integers, FiniteSets, FiniteSetsExt

CONSTANTS NumWorkers,  \* loader workers; equals the batch size (train.py:525-526)
          SeqLen,      \* time steps of a sequence
          GtLen,       \* GtLen[seg]: rows of the segment's ground truth
          Initial,     \* segment_indices of the split, a list indexed from 0
          Perm,        \* what one seeded shuffle does to that list
          Passes       \* bound on the iterations

Workers == 0 .. NumWorkers - 1
Segments == DOMAIN GtLen

\* A list of different segments, indexed from 0, and a permutation of its indices.
IsSplit(list, shuffle) ==
    LET indices == DOMAIN list
    IN  /\ IsFiniteSet(indices) /\ indices = 0 .. Cardinality(indices) - 1
        /\ list \in [indices -> Segments] /\ shuffle \in [indices -> indices]
        /\ \A v, u \in indices : v # u => list[v] # list[u] /\ shuffle[v] # shuffle[u]

ASSUME DatasetAssumption ==
    /\ NumWorkers \in Nat \ {0} /\ SeqLen \in Nat \ {0} /\ Passes \in Nat \ {0}
    /\ \A seg \in Segments : GtLen[seg] \in Nat
    /\ IsSplit(Initial, Perm)

NumSeqs(seg) == GtLen[seg] \div SeqLen

\* The lists after 0, 1, ... shuffles of the first one.
Shuffles(first, shuffle) ==
    LET after[k \in 0 .. Passes] ==
            IF k = 0 THEN first ELSE [v \in DOMAIN first |-> after[k - 1][shuffle[v]]]
    IN  after

Order == Shuffles(Initial, Perm)

\* What the two nested loops of __iter__ visit in worker w: its share of the virtual
\* indices of its list, and the sequences of each segment.
Positions(w, list) ==
    UNION {{<<v, s>> : s \in 0 .. NumSeqs(list[v]) - 1} :
               v \in {u \in DOMAIN list : u % NumWorkers = w}}

Precedes(a, b) == a[1] < b[1] \/ (a[1] = b[1] /\ a[2] < b[2])

Sample(w, list, pos) ==
    LET seg == list[pos[1]]
    IN [seg |-> seg, seq |-> pos[2], finished |-> pos[2] = NumSeqs(seg) - 1, worker |-> w]

\* The rows of the ground truth that go with a sample: an h5 slice is clipped at
\* the last row.
GtRows(d) ==
    d.seq * SeqLen + 1 .. Min({(d.seq + 1) * SeqLen, GtLen[d.seg] - 1})

----------------------------------------------------------------------------
(* Reference: the samples of each worker side by side. *)

\* The n-th sample of worker w in a pass over the list.
Nth(w, list, n) ==
    Sample(w, list, CHOOSE p \in Positions(w, list) :
                        Cardinality({q \in Positions(w, list) : Precedes(q, p)}) = n - 1)

\* As many full batches as the worker with the fewest samples can take part in.
FullBatches(list) == Min({Cardinality(Positions(w, list)) : w \in Workers})
============================================================================
